---------------------------- MODULE ChangeGates ----------------------------
(***************************************************************************)
(* The gates a list of file changes passes before it is written:           *)
(* PatchValidator, the detectors of summarize.ts, RepositoryWritePolicy;   *)
(* and its two ways out, the commit of the pull request flow and the       *)
(* patches applied to a workspace one after the other. A caller asks the   *)
(* gates in turn and goes on only while they pass.                         *)
(***************************************************************************)
EXTENDS Naturals, Sequences

CONSTANTS
  FilePath,
  FoldersOf,   \* path -> the folders it lies in
  SafePaths,   \* paths PathPolicy accepts
  Content,
  Secrets,     \* contents the scanner finds something in
  Empty,
  Absent,      \* no file, and `undefined' in a change
  Base,        \* what the repository may hold: functions from paths to contents
  Scope,       \* values of scope
  Expected,    \* values of expectedDeletions
  MaxChanges   \* bound: changes in a list

ASSUME GatesAssumption ==
  /\ Empty \in Content \ Secrets /\ Absent \notin Content /\ Secrets \subseteq Content
  /\ DOMAIN FoldersOf = FilePath /\ SafePaths \subseteq FilePath /\ MaxChanges \in Nat
  /\ Base \subseteq [FilePath -> Content \cup {Absent}]

VARIABLES
  base,
  listed, granted, expected,   \* the changes, the scope, the expected deletions
  stage,     \* "proposed", "validated", "detected", "authorized", "committed", "written",
             \* or where it ended: "rejected", "blocked", "refused"
  tree,      \* what the commit leaves in the repository
  disk,      \* what the patches applied so far leave in a workspace
  applied    \* how many of the changes' patches that are

gateVars == <<base, listed, granted, expected, stage, tree, disk, applied>>

FileChange(p, op, previous, next) ==
  [path |-> p, operation |-> op, previousContent |-> previous, nextContent |-> next]

\* A caller may not have read the old content, or leave the new one undefined.
ChangesOf(p) ==
  {FileChange(p, op, previous, next) : op \in {"create", "update", "delete", "keep"},
                                       previous \in {Absent, base[p]}, next \in Content \cup {Absent}}

All(list) == {list[k] : k \in DOMAIN list}

-----------------------------------------------------------------------------
(* The gates *)

ReadMissing(c) == c.operation \in {"update", "delete"} /\ c.previousContent = Absent
SecretInCreate(c) == c.operation = "create" /\ c.nextContent \in Secrets   \* (slip) updates go unscanned
SecretIn(c) == c.operation \in {"create", "update"} /\ c.nextContent \in Secrets
Issue(c) == c.path \notin SafePaths \/ ReadMissing(c) \/ SecretIn(c)
Valid(list) == \A c \in All(list) : ~Issue(c)

\* summarizePatch: the paths of each operation.
Bucket(list, op) == {c.path : c \in {x \in All(list) : x.operation = op}}

UnexpectedDeletions(list) == {c \in All(list) : c.operation = "delete" /\ c.path \notin expected}

InScope(p) == p \in granted \/ FoldersOf[p] \cap granted # {}

\* An empty scope leaves nothing outside.
OutsideScope(list) == IF granted = {} THEN {} ELSE {c \in All(list) : ~InScope(c.path)}

Changing(list) == {c \in All(list) : c.operation # "keep"}

\* The files the commit writes: a null content deletes the path.
Written(c) == [path |-> c.path, content |-> IF c.operation = "delete" THEN Absent ELSE c.nextContent]
Files(list) == {Written(c) : c \in Changing(list)}

TextOf(x) == IF x = Absent THEN Empty ELSE x

\* RepositoryWriteRequest: the content of a file is a string, undefined would throw
\* in the scanner; so a caller hands a file over that it deletes as an empty one.
Handed(f) == TextOf(f.content)

\* assertAllowed, for a repository and base branch that are identified.
Allowed(files) ==
  /\ granted # {}
  /\ files # {}
  /\ \A f \in files : f.path \in SafePaths /\ InScope(f.path) /\ Handed(f) \notin Secrets

-----------------------------------------------------------------------------
(* The ways out *)

\* A create patch for a file with content is an error.
Refuses(c, d) == c.operation = "create" /\ TextOf(d[c.path]) # Empty

\* (slip) an update that leaves a file empty removes it
PatchedAway(c, d) ==
  IF c.operation = "keep" THEN d
  ELSE IF c.operation = "delete" \/ c.nextContent = Empty THEN [d EXCEPT ![c.path] = Absent]
  ELSE [d EXCEPT ![c.path] = TextOf(c.nextContent)]

\* generateAll makes no patch of a kept file.
Patched(c, d) ==
  IF c.operation = "keep" THEN d
  ELSE IF c.operation = "delete" THEN [d EXCEPT ![c.path] = Absent]
  ELSE [d EXCEPT ![c.path] = TextOf(c.nextContent)]

Committed(files) ==
  [p \in FilePath |-> IF \E f \in files : f.path = p
                      THEN (CHOOSE f \in files : f.path = p).content ELSE base[p]]

Go(from, to) == stage = from /\ stage' = to

Validate ==
  /\ Go("proposed", IF Valid(listed) THEN "validated" ELSE "rejected")
  /\ UNCHANGED <<base, listed, granted, expected, tree, disk, applied>>

Detect ==
  /\ Go("validated", IF UnexpectedDeletions(listed) = {} /\ OutsideScope(listed) = {}
                     THEN "detected" ELSE "rejected")
  /\ UNCHANGED <<base, listed, granted, expected, tree, disk, applied>>

Authorize ==
  /\ Go("detected", IF Allowed(Files(listed)) THEN "authorized" ELSE "blocked")
  /\ UNCHANGED <<base, listed, granted, expected, tree, disk, applied>>

Commit ==
  /\ Go("authorized", "committed")
  /\ tree' = Committed(Files(listed))
  /\ UNCHANGED <<base, listed, granted, expected, disk, applied>>

\* applyAll: a patch that throws ends it, and what was written stays.
ApplyPatch ==
  /\ stage = "committed" /\ applied < Len(listed)
  /\ LET c == listed[applied + 1]
     IN IF Refuses(c, disk)
        THEN stage' = "refused" /\ UNCHANGED <<disk, applied>>
        ELSE disk' = Patched(c, disk) /\ applied' = applied + 1 /\ UNCHANGED stage
  /\ UNCHANGED <<base, listed, granted, expected, tree>>

Applied ==
  /\ applied = Len(listed)
  /\ Go("committed", "written")
  /\ UNCHANGED <<base, listed, granted, expected, tree, disk, applied>>

Lists ==
  {list \in UNION {[1..n -> UNION {ChangesOf(p) : p \in FilePath}] : n \in 0..MaxChanges} :
     \A j, k \in DOMAIN list : list[j].path = list[k].path => j = k}

GatesInit ==
  /\ base \in Base
  /\ listed \in Lists
  /\ granted \in Scope /\ expected \in Expected
  /\ stage = "proposed"
  /\ tree = base /\ disk = base /\ applied = 0

GatesNext == Validate \/ Detect \/ Authorize \/ Commit \/ ApplyPatch \/ Applied

GatesSpec == GatesInit /\ [][GatesNext]_gateVars

-----------------------------------------------------------------------------
(* Correctness *)

Out == stage \in {"committed", "refused", "written"}

\* What the commit changes are safe paths in scope that hold no secret, listed
\* under what the summary says happened to them: kept files and files that are
\* not listed stay as they were.
SummaryTellsTheCommit ==
  Out =>
    /\ \A p \in FilePath : tree[p] # base[p] =>
         /\ p \in SafePaths /\ InScope(p) /\ tree[p] \notin Secrets
         /\ p \in Bucket(listed, "create") \cup Bucket(listed, "update") \cup Bucket(listed, "delete")
    /\ \A p \in Bucket(listed, "delete") : tree[p] = Absent
    /\ \A p \in Bucket(listed, "keep") : tree[p] = base[p]

Complete(c) == c.operation \in {"create", "update"} => c.nextContent # Absent

\* Written to a workspace or committed to the repository, a list whose changes
\* say what the new contents are comes to the same files; where the workspace
\* refuses a create that the commit performs, it has the files up to there.
WaysOutAgree ==
  (Out /\ \A c \in All(listed) : Complete(c)) =>
    /\ stage = "written" => disk = tree
    /\ \A p \in FilePath : disk[p] \in {base[p], tree[p]}
    /\ stage = "refused" => disk[listed[applied + 1].path] \notin {Absent, Empty}

\* summarizePatch, commitChanges and PatchApplier: what a commit changes are safe
\* paths in scope that hold no secret, listed under what the summary says happened to
\* them, and complete changes come to the same files in a workspace.
WrittenAsTold == SummaryTellsTheCommit /\ WaysOutAgree

\* PatchValidator, detectOutOfScopeChanges and RepositoryWritePolicy answer alike:
\* the policy blocks no list that the validator and the scope detector passed, unless
\* it lacks a scope or anything to write; and a list that breaks the path, scope or
\* secret rules passes neither of the two.
GatesAgree ==
  /\ (Valid(listed) /\ OutsideScope(listed) = {} /\ granted # {} /\ Changing(listed) # {})
       => Allowed(Files(listed))
  /\ Allowed(Files(listed)) =>
       \A c \in Changing(listed) : InScope(c.path) /\ (Issue(c) => ReadMissing(c))

\* detectUnexpectedDeletions: a deletion that the caller did not ask for is found
\* before it is written (summarize.ts:14, "Deletions the caller did not explicitly
\* request").
UnexpectedDeletionsDetected ==
  Out => \A p \in FilePath : base[p] # Absent /\ tree[p] = Absent => p \in expected

=============================================================================
