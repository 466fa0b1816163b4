------------------------------ MODULE MCPatches ------------------------------
(* Three studies of src/patches share one run, one study per behaviour: the   *)
(* round trip of a diff, the applier on two files, and the applier on one     *)
(* longer file that somebody edits.                                           *)
EXTENDS MCDiffRoundTrip, PatchApplier

CONSTANTS fileOne, fileTwo

VARIABLE study

Files == {fileOne, fileTwo}

Ended(text) == [text |-> text, eol |-> "lf"]
FewContents == {<<>>, <<Ended(textA)>>, <<Ended(textB)>>, <<Ended(textA), Ended(textB)>>,
                <<Ended(textB), Ended(textA), Ended(textB)>>}

\* Files of three lines, and of two or four: a hunk of few lines leaves room.
Three(a, b, c) == <<Ended(a), Ended(b), Ended(c)>>
LongContents == {Three(a, b, c) : a, b, c \in Texts}
                \cup {<<>>, <<Ended(textB), Ended(textB)>>,
                     <<Ended(textA), Ended(textB), Ended(textB), Ended(textA)>>}

LongUnix == INSTANCE DiffRoundTrip WITH Terminator <- UnixEnds, MaxLines <- 5
Edited == INSTANCE PatchApplier WITH
  Path <- {fileOne}, Content <- LongContents, Context <- 0, MaxChanges <- 1

\* What a study leaves alone stays as it is here.
NoDiff == old = <<>> /\ new = <<>> /\ context = 0
NoPatches == base = [p \in Path |-> Absent] /\ changes = <<>>

PatchesInit ==
  \/ study = "round trip" /\ NoPatches /\ PatchInit /\ (Init \/ LongUnix!Init)
  \/ study = "apply" /\ NoDiff /\ Init /\ PatchInit
  \/ study = "edit" /\ NoDiff /\ Init /\ Edited!PatchInit

\* Two files are edited at most once, the longer one as often as MaxEdits says.
PatchesNext ==
  \/ study = "round trip" /\ Next /\ UNCHANGED <<study, patchVars>>
  \/ study = "apply" /\ PatchNext /\ edits' <= 1 /\ UNCHANGED <<study, vars>>
  \/ study = "edit" /\ Edited!PatchNext /\ UNCHANGED <<study, vars>>

PatchesSpec == PatchesInit /\ [][PatchesNext]_<<study, vars, patchVars>>

=============================================================================
