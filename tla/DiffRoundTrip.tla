---------------------------- MODULE DiffRoundTrip ----------------------------
(***************************************************************************)
(* A diff is made of two files and applied to the first, with the          *)
(* functions of src/patches/line-diff.ts and unified-diff.ts.              *)
(***************************************************************************)
EXTENDS UnifiedDiff

CONSTANTS
  LineText,     \* texts of lines, without terminator
  Terminator,   \* terminators in use, out of "lf", "crlf" and "none"
  MaxLines,     \* bound: lines of a file
  Contexts      \* values of the option contextLines

ASSUME DiffAssumption ==
  /\ Terminator \subseteq {"lf", "crlf", "none"}
  /\ MaxLines \in Nat
  /\ Contexts \subseteq Nat

Line == [text : LineText, eol : Terminator]

File == {f \in UNION {[1..n -> Line] : n \in 0..MaxLines} : WellSplit(f)}

VARIABLES
  old, new,   \* oldText and newText
  context,    \* options.contextLines
  ops,        \* the DiffOps of diffLines
  hunks,      \* the body of the diff
  result,     \* what applyUnifiedDiff(old, body) returns
  stage       \* "given", "compared", "built", "applied"

vars == <<old, new, context, ops, hunks, result, stage>>

-----------------------------------------------------------------------------

Compare ==
  /\ stage = "given"
  /\ ops' = DiffLines(old, new)
  /\ stage' = "compared"
  /\ UNCHANGED <<old, new, context, hunks, result>>

Build ==
  /\ stage = "compared"
  /\ hunks' = Body(ops, context)
  /\ stage' = "built"
  /\ UNCHANGED <<old, new, context, ops, result>>

Apply ==
  /\ stage = "built"
  /\ result' = ApplyUnifiedDiff(old, hunks)
  /\ stage' = "applied"
  /\ UNCHANGED <<old, new, context, ops, hunks>>

Init ==
  /\ old \in File
  /\ new \in File
  /\ context \in Contexts
  /\ ops = <<>>
  /\ hunks = <<>>
  /\ result = <<>>
  /\ stage = "given"

Next == Compare \/ Build \/ Apply

Spec == Init /\ [][Next]_vars

-----------------------------------------------------------------------------
(* Correctness *)

OpType == {"equal", "add", "remove"}
Op == [type : OpType, value : Line]
LineOfHunk == [type : OpType, text : LineText, marked : BOOLEAN]
HunkRecord == [oldStart : Nat \ {0}, newStart : Nat \ {0}, oldLen : Nat, newLen : Nat,
               lines : Seq(LineOfHunk)]

\* A diff and what is made of it are well formed; a file stays one whose last
\* line alone may lack a terminator.
TypeOK ==
  /\ context \in Contexts
  /\ ops \in Seq(Op)
  /\ hunks \in Seq(HunkRecord)
  /\ result \in Seq([text : LineText, eol : {"lf", "crlf", "none"}])
  /\ WellSplit(result)

ValuesOf(script) == [k \in DOMAIN script |-> script[k].value]

\* What is left of a file when only the lines at some places stay.
Selections(f) == {At(places, f) : places \in SUBSET DOMAIN f}

\* The script of diffLines turns the old file into the new one, and no script
\* keeps more of the old file: the lines it keeps are a longest common
\* subsequence (line-diff.ts:15, "Classic LCS-based line diff").
MinimalScript ==
  stage # "given" =>
    LET kept == Cardinality(OldOps(ops) \cap NewOps(ops))
    IN /\ At(OldOps(ops), ValuesOf(ops)) = old
       /\ At(NewOps(ops), ValuesOf(ops)) = new
       /\ \A s \in Selections(old) \cap Selections(new) : Len(s) <= kept

TextsOf(lines) == [n \in DOMAIN lines |-> lines[n].text]

\* The lines of a hunk without those that only the other file has.
Shown(h, hidden) == At({k \in DOMAIN h.lines : h.lines[k].type # hidden}, h.lines)

\* Every hunk header names exactly the lines of the old and of the new file the
\* hunk shows, and no hunk shows a line that an earlier one showed.
HeadersLocate ==
  stage \in {"built", "applied"} =>
    /\ \A n \in DOMAIN hunks :
         LET h == hunks[n]
         IN /\ TextsOf(Shown(h, "add"))
                 = TextsOf(SubSeq(old, h.oldStart, h.oldStart + h.oldLen - 1))
            /\ TextsOf(Shown(h, "remove"))
                 = TextsOf(SubSeq(new, h.newStart, h.newStart + h.newLen - 1))
    /\ \A n \in 1..(Len(hunks) - 1) :
         /\ hunks[n].oldStart + hunks[n].oldLen <= hunks[n + 1].oldStart
         /\ hunks[n].newStart + hunks[n].newLen <= hunks[n + 1].newStart

\* diffLines and buildUnifiedDiffBody: scripts and hunks are well formed, and the
\* headers name the lines that their hunks show.
DiffWellFormed == TypeOK /\ HeadersLocate

\* "Reconstructs the new file content by applying a unified diff body to the
\* original content." (unified-diff.ts:124)
ReconstructsNewContent == stage = "applied" => result = new

\* Whatever the terminators, applying a diff yields the new file's texts, line by
\* line: nothing is lost, doubled or shifted; and where no line of either file ends
\* in CRLF it yields the new file, the last line's missing LF included.
Reconstructs ==
  stage = "applied" =>
    /\ TextsOf(result) = TextsOf(new)
    /\ (\A l \in Range(old) \cup Range(new) : l.eol # "crlf") => result = new

=============================================================================
