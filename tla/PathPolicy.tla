----------------------------- MODULE PathPolicy -----------------------------
(***************************************************************************)
(* PathPolicy (src/security/path-policy.ts): paths as sequences of         *)
(* segments, absolute or not, as node's path.resolve sees them on POSIX.   *)
(* The segments that resolving leaves out, "." and empty ones, pass every  *)
(* check and are left out here as well.                                    *)
(***************************************************************************)
EXTENDS SequencesExt

CONSTANTS
  Segment,   \* names of files and directories
  Root,      \* allowedRoots, resolved, in order
  Blocked,   \* BLOCKED_SEGMENTS
  Dotted     \* names other than ".." that begin with two dots

PathAssumption == Root \in Seq(Seq(Segment)) /\ Root # <<>>   \* the constructor refuses an empty list

Relative(segments) == [absolute |-> FALSE, segments |-> segments]
Absolute(segments) == [absolute |-> TRUE, segments |-> segments]

\* path.resolve of segments, none of which is "..", below a directory.
Resolve(dir, segments) == dir \o segments

\* path.join of a directory as the caller named it and the name of an entry.
Under(path, name) == [absolute |-> path.absolute, segments |-> Append(path.segments, name)]

IsWithinRoot(path, root) ==
  LET resolved == Resolve(IF path.absolute THEN <<>> ELSE root, path.segments)
  IN /\ IsPrefix(root, resolved)
     /\ Len(resolved) > Len(root) => resolved[Len(root) + 1] \notin Dotted

AnySegment(path) == TRUE                \* (slip) no segment is refused
SegmentsAllowed(path) == \A k \in DOMAIN path.segments : path.segments[k] \notin Blocked \cup {".."}

RootsOf(path) == {k \in DOMAIN Root : IsWithinRoot(path, Root[k])}

IsSafe(path) == SegmentsAllowed(path) /\ RootsOf(path) # {}

\* What assertSafe returns: an absolute path, too, is taken below the first root.
AssertSafe(path) == Resolve(Root[Min(RootsOf(path))], path.segments)

=============================================================================
