------------------------------ MODULE MCChanges ------------------------------
(* What becomes of proposed changes, two studies in one run: the planner that *)
(* decides on candidates, and the gates that lists of changes pass before     *)
(* they are written.                                                          *)
EXTENDS MCChangePlanner, ChangeGates

CONSTANTS unsafe, plain, secret

VARIABLE study

changesVars == <<study, vars, gateVars>>

\* A file in a folder, one beside it and one whose path is unsafe.
GatePaths == {inside, beside, unsafe}
GateFolders == (inside :> {folder}) @@ (beside :> {}) @@ (unsafe :> {folder})
SafeFiles == {inside, beside}
TextsUsed == {plain, secret, Empty}
SecretContents == {secret}
Bases == {[p \in GatePaths |-> Absent], [p \in GatePaths |-> plain],
          (inside :> plain) @@ (beside :> Absent) @@ (unsafe :> plain)}
Scopes == {{}, {folder}, {inside, beside}, {folder, beside}}
Deletions == {{}, {inside}, {inside, beside}}

\* What a study leaves alone stays as it is here.
NoPlan == existing = {} /\ scope = {}
NoList ==
  base = [p \in GatePaths |-> Absent] /\ listed = <<>> /\ granted = {} /\ expected = {}

ChangesInit ==
  \/ study = "plan" /\ NoList /\ GatesInit /\ Init
  \/ study = "gates" /\ NoPlan /\ Init /\ GatesInit

ChangesNext ==
  \/ study = "plan" /\ Next /\ UNCHANGED <<study, gateVars>>
  \/ study = "gates" /\ GatesNext /\ UNCHANGED <<study, vars>>

ChangesSpec == ChangesInit /\ [][ChangesNext]_changesVars

\* The gates alone.
ListsSpec == (study = "gates" /\ ChangesInit) /\ [][ChangesNext]_changesVars

=============================================================================
