----------------------------- MODULE UnifiedDiff -----------------------------
(***************************************************************************)
(* The patch arithmetic of src/patches: diffLines (line-diff.ts),          *)
(* buildUnifiedDiffBody and applyUnifiedDiff (unified-diff.ts).            *)
(*                                                                         *)
(* A file is the sequence of its lines, a line its text and the terminator *)
(* ("lf", "crlf" or "none") that splitLinesKeepEnds leaves on it.  A diff  *)
(* body is the sequence of its hunks; of a line's terminator a hunk keeps  *)
(* only whether the "No newline at end of file" marker follows it.         *)
(***************************************************************************)
EXTENDS Integers, Sequences, FiniteSets, SequencesExt

\* Only the last line of a file can lack a terminator (splitLinesKeepEnds).
WellSplit(file) == \A k \in DOMAIN file : file[k].eol = "none" => k = Len(file)

Larger(m, n) == IF m >= n THEN m ELSE n
Smaller(m, n) == IF m <= n THEN m ELSE n

\* Places in a sequence: how many are before k, the nth of them, what is there in order.
Before(places, k) == Cardinality({p \in places : p < k})
Nth(places, n) == CHOOSE k \in places : Before(places, k) = n - 1
At(places, seq) == [n \in 1..Cardinality(places) |-> seq[Nth(places, n)]]

-----------------------------------------------------------------------------
(* diffLines *)

\* (slip) the table is filled as if a matching line always belonged to it
LcsDiagonal(a, b) ==
  LET lcs[p \in (1..(Len(a) + 1)) \X (1..(Len(b) + 1))] ==
        IF p[1] > Len(a) \/ p[2] > Len(b) THEN 0
        ELSE lcs[<<p[1] + 1, p[2] + 1>>] + IF a[p[1]] = b[p[2]] THEN 1 ELSE 0
  IN lcs

\* Length of the longest common subsequence of a from p[1] on and b from p[2] on.
Lcs(a, b) ==
  LET lcs[p \in (1..(Len(a) + 1)) \X (1..(Len(b) + 1))] ==
        IF p[1] > Len(a) \/ p[2] > Len(b) THEN 0
        ELSE IF a[p[1]] = b[p[2]] THEN lcs[<<p[1] + 1, p[2] + 1>>] + 1
        ELSE Larger(lcs[<<p[1] + 1, p[2]>>], lcs[<<p[1], p[2] + 1>>])
  IN lcs

\* One turn of the walk that is about to look at lines w.i and w.j: keep what is
\* equal, and prefer to remove.
Turn(a, b, lcs, w) ==
  IF w.i <= Len(a) /\ w.j <= Len(b) /\ a[w.i] = b[w.j]
  THEN [i |-> w.i + 1, j |-> w.j + 1, ops |-> Append(w.ops, [type |-> "equal", value |-> a[w.i]])]
  ELSE IF w.i <= Len(a) /\ (w.j > Len(b) \/ lcs[<<w.i + 1, w.j>>] >= lcs[<<w.i, w.j + 1>>])
  THEN [i |-> w.i + 1, j |-> w.j, ops |-> Append(w.ops, [type |-> "remove", value |-> a[w.i]])]
  ELSE IF w.j <= Len(b)
  THEN [i |-> w.i, j |-> w.j + 1, ops |-> Append(w.ops, [type |-> "add", value |-> b[w.j]])]
  ELSE w

\* No walk takes more turns than there are lines.
DiffLines(a, b) ==
  LET lcs == Lcs(a, b)
      walk[n \in 0..(Len(a) + Len(b))] ==
        IF n = 0 THEN [i |-> 1, j |-> 1, ops |-> <<>>] ELSE Turn(a, b, lcs, walk[n - 1])
  IN walk[Len(a) + Len(b)].ops

-----------------------------------------------------------------------------
(* buildUnifiedDiffBody *)

Changed(ops) == {k \in DOMAIN ops : ops[k].type # "equal"}

\* Two neighbouring changes whose contexts do not meet.
Apart(p, k, context) == k - p > context * 2

Starts(ops, context) ==
  {k \in Changed(ops) : \A p \in Changed(ops) : p < k => Apart(p, k, context)}

\* The cluster that begins at change s reaches to the last change before the next.
Cluster(s, ops, context) ==
  {k \in Changed(ops) : k >= s /\ \A t \in Starts(ops, context) : t > s => k < t}
EndOf(s, ops, context) == Max(Cluster(s, ops, context))

\* The ops that stand for lines of the old file, and of the new one.
OldOps(ops) == {k \in DOMAIN ops : ops[k].type # "add"}
NewOps(ops) == {k \in DOMAIN ops : ops[k].type # "remove"}

\* (slip) a removed line is not counted as a line of the old file
OldLineUncounted(ops, k) == 1 + Before(OldOps(ops) \cap NewOps(ops), k)

\* 1 + the lines of the side that lie before op k.
OldLineAt(ops, k) == 1 + Before(OldOps(ops), k)
NewLineAt(ops, k) == 1 + Before(NewOps(ops), k)

LastOfOld(ops, k) == \A p \in OldOps(ops) : p <= k
LastOfNew(ops, k) == \A p \in NewOps(ops) : p <= k

\* (slip) the marker is written for context lines only
MarkedContext(ops, k) == ops[k].value.eol = "none" /\ ops[k].type = "equal"

Marked(ops, k) ==
  /\ ops[k].value.eol = "none"
  /\ \/ ops[k].type # "add" /\ LastOfOld(ops, k)
     \/ ops[k].type # "remove" /\ LastOfNew(ops, k)

\* Where the hunk of a cluster begins and ends, in ops.
FirstOp(s, context) == Larger(1, s - context)
LastOp(s, ops, context) == Smaller(Len(ops), EndOf(s, ops, context) + context)

HunkLine(ops, k) == [type |-> ops[k].type, text |-> ops[k].value.text, marked |-> Marked(ops, k)]

Hunk(s, ops, context) ==
  LET first == FirstOp(s, context)
      last == LastOp(s, ops, context)
  IN [oldStart |-> OldLineAt(ops, first), newStart |-> NewLineAt(ops, first),
      oldLen |-> OldLineAt(ops, last + 1) - OldLineAt(ops, first),
      newLen |-> NewLineAt(ops, last + 1) - NewLineAt(ops, first),
      lines |-> [n \in 1..(last - first + 1) |-> HunkLine(ops, first + n - 1)]]

Body(ops, context) ==
  [n \in 1..Cardinality(Starts(ops, context)) |-> Hunk(Nth(Starts(ops, context), n), ops, context)]

-----------------------------------------------------------------------------
(* applyUnifiedDiff *)

\* A line of a hunk as it is written out: terminated by \n unless marked.
Written(l) == [text |-> l.text, eol |-> IF l.marked THEN "none" ELSE "lf"]

Consumes(l) == l.type # "add"

\* Copy up to the hunk, write its lines, and move past the lines it consumed.
ApplyHunk(original, done, h) ==
  LET upTo == Larger(done.read, h.oldStart - 1)
      kept == At({k \in DOMAIN h.lines : h.lines[k].type # "remove"}, h.lines)
  IN [read |-> upTo + Cardinality({k \in DOMAIN h.lines : Consumes(h.lines[k])}),
      output |-> done.output
                   \o SubSeq(original, done.read + 1, Smaller(upTo, Len(original)))
                   \o [n \in DOMAIN kept |-> Written(kept[n])]]

ApplyUnifiedDiff(original, body) ==
  LET done[n \in 0..Len(body)] ==
        IF n = 0 THEN [read |-> 0, output |-> <<>>]
        ELSE ApplyHunk(original, done[n - 1], body[n])
  IN done[Len(body)].output
     \o SubSeq(original, done[Len(body)].read + 1, Len(original))

=============================================================================
