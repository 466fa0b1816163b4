---------------------------- MODULE PatchApplier ----------------------------
(***************************************************************************)
(* PatchGenerator.generateAll and PatchApplier.applyAll (src/patches): the *)
(* patches made for a list of changes are applied to the workspace one by  *)
(* one, each by reading the file, patching what was read and writing it.   *)
(* Between any two of these calls somebody may edit a file or the process  *)
(* may end; the caller may apply the same patches again.                   *)
(*                                                                         *)
(* The reader and the writer are the caller's (FileReader, FileWriter): a  *)
(* read returns a whole file and a write replaces or removes one.          *)
(***************************************************************************)
EXTENDS UnifiedDiff

CONSTANTS
  Path,
  Content,      \* files, as sequences of lines
  Absent,       \* no file, and `undefined' in a change
  Context,      \* contextLines of generateUnifiedDiff
  MaxChanges,   \* bound: changes in a list
  MaxRuns,      \* bound: calls of applyAll
  MaxEdits      \* bound: edits by somebody else

Operation == {"create", "update", "delete"}

LineTexts == {l.text : l \in UNION {Range(f) : f \in Content}}

ASSUME ApplierAssumption ==
  /\ Absent \notin Content
  /\ <<>> \in Content
  /\ Content \subseteq Seq([text : LineTexts, eol : {"lf"}])
  /\ Context \in Nat /\ MaxChanges \in Nat /\ MaxRuns \in Nat /\ MaxEdits \in Nat

VARIABLES
  disk,       \* path -> its file
  base,       \* the disk when the changes were made
  changes,
  patches,
  next,       \* index of the patch being applied
  held,       \* what read returned for it
  phase,      \* "idle", "read", "write", "done", "failed", "ended"
  runs, edits,
  edited,     \* history: paths somebody else changed
  raced       \* history: the file was changed between its read and its write

patchVars == <<disk, base, changes, patches, next, held, phase, runs, edits, edited, raced>>

-----------------------------------------------------------------------------
(* PatchGenerator *)

TextOf(file) == IF file = Absent THEN <<>> ELSE file

\* (slip) the two contents are swapped
GenerateBackwards(change) ==
  [path |-> change.path, operation |-> change.operation,
   diff |-> Body(DiffLines(TextOf(change.nextContent), TextOf(change.previousContent)), Context)]

Generate(change) ==
  [path |-> change.path, operation |-> change.operation,
   diff |-> Body(DiffLines(TextOf(change.previousContent), TextOf(change.nextContent)), Context)]

Patched(change) == change.operation # "keep"

GenerateAll(list) ==
  LET kept == At({k \in DOMAIN list : Patched(list[k])}, list)
  IN [n \in DOMAIN kept |-> Generate(kept[n])]

-----------------------------------------------------------------------------
(* PatchApplier *)

Patch == patches[next]

ApplyAll ==
  /\ phase \in {"idle", "done", "failed", "ended"}
  /\ runs < MaxRuns
  /\ runs' = runs + 1
  /\ next' = 1
  /\ phase' = "read"
  /\ UNCHANGED <<disk, base, changes, patches, held, edits, edited, raced>>

Finish ==
  /\ phase = "read" /\ next > Len(patches)
  /\ phase' = "done"
  /\ UNCHANGED <<disk, base, changes, patches, next, held, runs, edits, edited, raced>>

\* A deletion removes the file without reading it.
Delete ==
  /\ phase = "read" /\ next <= Len(patches) /\ Patch.operation = "delete"
  /\ disk' = [disk EXCEPT ![Patch.path] = Absent]
  /\ next' = next + 1
  /\ UNCHANGED <<base, changes, patches, held, phase, runs, edits, edited, raced>>

Overwrites(file) == FALSE       \* (slip) a create patch takes any file

\* A create patch meets a file that has content already.
Occupied(file) == Patch.operation = "create" /\ file # <<>>

Remembered == TextOf(base[Patch.path])    \* (slip) what the patch was made from is not read again
Existing == TextOf(disk[Patch.path])

\* applyToContent throws before anything is written, and ends the whole run.
Read ==
  /\ phase = "read" /\ next <= Len(patches) /\ Patch.operation # "delete"
  /\ \/ /\ Occupied(Existing)
        /\ phase' = "failed"
        /\ UNCHANGED held
     \/ /\ ~Occupied(Existing)
        /\ phase' = "write"
        /\ held' = Existing
  /\ raced' = FALSE
  /\ UNCHANGED <<disk, base, changes, patches, next, runs, edits, edited>>

Write ==
  /\ phase = "write"
  /\ disk' = [disk EXCEPT ![Patch.path] = ApplyUnifiedDiff(held, Patch.diff)]
  /\ next' = next + 1
  /\ phase' = "read"
  /\ held' = <<>>
  /\ raced' = FALSE
  /\ UNCHANGED <<base, changes, patches, runs, edits, edited>>

\* The read or the write fails, or the process ends: applyAll goes no further.
Stop ==
  /\ phase \in {"read", "write"}
  /\ phase' = "ended"
  /\ held' = <<>>
  /\ UNCHANGED <<disk, base, changes, patches, next, runs, edits, edited, raced>>

Edit(p, file) ==
  /\ edits < MaxEdits
  /\ disk[p] # file
  /\ disk' = [disk EXCEPT ![p] = file]
  /\ edits' = edits + 1
  /\ edited' = edited \cup {p}
  /\ raced' = (raced \/ (phase = "write" /\ p = Patch.path))
  /\ UNCHANGED <<base, changes, patches, next, held, phase, runs>>

-----------------------------------------------------------------------------

\* The changes that can be asked for on a path: an update or a deletion names
\* what the file was; a create may meet a file its author did not know of.
ChangesOf(p) ==
  {[path |-> p, operation |-> "create", previousContent |-> Absent, nextContent |-> f] :
     f \in Content}
  \cup
  {[path |-> p, operation |-> op, previousContent |-> base[p], nextContent |-> f] :
     op \in IF base[p] = Absent THEN {} ELSE {"update"}, f \in Content}
  \cup
  {[path |-> p, operation |-> op, previousContent |-> base[p], nextContent |-> Absent] :
     op \in IF base[p] = Absent THEN {"keep"} ELSE {"keep", "delete"}}

\* Lists that name a path once.
ChangeLists ==
  {list \in UNION {[1..n -> UNION {ChangesOf(p) : p \in Path}] : n \in 0..MaxChanges} :
     \A m, n \in DOMAIN list : list[m].path = list[n].path => m = n}

PatchInit ==
  /\ base \in [Path -> Content \cup {Absent}]
  /\ disk = base
  /\ changes \in ChangeLists
  /\ patches = GenerateAll(changes)
  /\ next = 1
  /\ held = <<>>
  /\ phase = "idle"
  /\ runs = 0 /\ edits = 0 /\ edited = {} /\ raced = FALSE

PatchNext ==
  \/ ApplyAll \/ Finish \/ Delete \/ Read \/ Write \/ Stop
  \/ \E p \in Path, f \in Content \cup {Absent} : Edit(p, f)

PatchSpec == PatchInit /\ [][PatchNext]_patchVars

-----------------------------------------------------------------------------
(* Correctness *)

Hunks ==
  Seq([oldStart : Nat \ {0}, newStart : Nat \ {0}, oldLen : Nat, newLen : Nat,
       lines : Seq([type : {"equal", "add", "remove"}, text : LineTexts, marked : BOOLEAN])])

\* The applier's variables stay in their types; a keep is never a patch.
PatchTypeOK ==
  /\ \A p \in DOMAIN disk : disk[p] = Absent \/ WellSplit(disk[p])
  /\ \A n \in DOMAIN patches :
       /\ patches[n].path \in Path /\ patches[n].operation \in Operation
       /\ patches[n].diff \in Hunks
  /\ next \in 1..(Len(patches) + 1)
  /\ WellSplit(held)
  /\ phase \in {"idle", "read", "write", "done", "failed", "ended"}
  /\ runs \in 0..MaxRuns /\ edits \in 0..MaxEdits
  /\ edited \subseteq Path

ChangeOf(n) == CHOOSE c \in Range(changes) : c.path = patches[n].path

\* What the change asks for.
Wanted(n) == ChangeOf(n).nextContent

\* On its first run the applier has done exactly the patches before the current
\* one, each completely, however the run ends and whoever edits other files: a
\* failed or ended run leaves every later file as it was (patch-applier.ts:35).
AppliedUpToNext ==
  PatchTypeOK /\
  (runs <= 1 =>
    \A n \in DOMAIN patches :
      patches[n].path \notin edited =>
        disk[patches[n].path] = IF n < next THEN Wanted(n) ELSE base[patches[n].path])

\* Applying such a patch to its own result changes nothing more, or fails.
Repeatable(n) ==
  \/ patches[n].operation # "update"
  \/ \A k \in DOMAIN patches[n].diff : patches[n].diff[k].oldLen = patches[n].diff[k].newLen

\* However often the caller applies the same patches again, after an error, an
\* interruption or a success, a file that nobody else edits and whose patch
\* adds as many lines as it removes per hunk is the old file or the wanted one,
\* never a mixture, and it is the wanted one once a run has got past it.
RunAgainConverges ==
  \A n \in DOMAIN patches :
    (patches[n].path \notin edited /\ Repeatable(n)) =>
      /\ disk[patches[n].path] \in {base[patches[n].path], Wanted(n)}
      /\ n < next => disk[patches[n].path] = Wanted(n)

InHunk(body, i) == \E k \in DOMAIN body : i \in body[k].oldStart..(body[k].oldStart + body[k].oldLen - 1)

\* Where a line outside the hunks comes to lie.
Moved(body, i) ==
  LET at[n \in 0..Len(body)] ==
        IF n = 0 THEN i
        ELSE IF body[n].oldStart + body[n].oldLen <= i
             THEN at[n - 1] + body[n].newLen - body[n].oldLen
        ELSE at[n - 1]
  IN at[Len(body)]

\* A patch does not compare its context with the file, yet what somebody else
\* changed in lines outside its hunks before it was read survives it: the file
\* becomes the wanted one with those lines. Only an edit between the read and the
\* write is lost, or one that moved the lines or touched the hunks.
KeepsEditsElsewhere(body, was, wanted, file, result) ==
  LET outside == {i \in DOMAIN file : ~InHunk(body, i)}
  IN (Len(file) = Len(was) /\ \A i \in DOMAIN file \ outside : file[i] = was[i]) =>
       /\ Len(result) = Len(wanted)
       /\ \A i \in outside : result[Moved(body, i)] = file[i]
       /\ \A k \in DOMAIN result \ {Moved(body, i) : i \in outside} : result[k] = wanted[k]

EditsElsewhereSurvive ==
  [][Write /\ ~raced =>
       KeepsEditsElsewhere(Patch.diff, TextOf(ChangeOf(next).previousContent),
                           Wanted(next), TextOf(disk[Patch.path]), disk'[Patch.path])]_patchVars

=============================================================================
