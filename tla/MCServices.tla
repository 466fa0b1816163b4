----------------------------- MODULE MCServices -----------------------------
(* What a consumer gets from elsewhere, four studies in one run: the AIQUAA   *)
(* service, the repositories, and the requirements and traceability graphs    *)
(* made of what they return.                                                  *)
EXTENDS AiquaaClient, RepositoryReads, MCTraceability, MCRequirementIds

CONSTANTS sessionOne, sessionTwo, main, dev, ascii, blanked, accented, module, src, escaped, consumer

VARIABLE study

\* One session of two calls, to fail and repeat, and one of one call.
Sessions == {sessionOne, sessionTwo}
TwoAndOne == (sessionOne :> 2) @@ (sessionTwo :> 1)

\* Readers publish and merge the same graphs, and no token means more than another.
Alike == Symmetric \cup Permutations(Token)

Branches == {main, dev}
\* A name with a blank at its end, trimmed, is that of another file; one with an
\* accent is listed escaped, and is a link out of the repository here.
CommittedFiles == {ascii, blanked, accented, module}
Folders == {src}
Names == CommittedFiles \cup Folders \cup {escaped}
ShownNames == (ascii :> ascii) @@ (blanked :> ascii) @@ (accented :> escaped) @@ (module :> module)
Submodules == {module}
OutsideLinks == {accented}
Consumers == {consumer}

\* What a study leaves alone stays as it is here.
NoClient == configured = Missing
NoReads == head = main /\ ReadsInit /\ reader[consumer].kind = "local"

ServicesInit ==
  \/ study = "aiquaa" /\ Init /\ NoReads /\ TraceInit /\ IdsInit
  \/ study = "reads" /\ NoClient /\ Init /\ ReadsInit /\ TraceInit /\ IdsInit
  \/ study = "traces" /\ NoClient /\ Init /\ NoReads /\ TraceInit /\ IdsInit
  \/ study = "ids" /\ NoClient /\ Init /\ NoReads /\ TraceInit /\ IdsInit

ServicesNext ==
  \/ study = "aiquaa" /\ Next /\ UNCHANGED <<study, readVars, traceVars, idVars>>
  \/ study = "reads" /\ ReadsNext /\ UNCHANGED <<study, vars, traceVars, idVars>>
  \/ study = "traces" /\ TraceNext /\ UNCHANGED <<study, vars, readVars, idVars>>
  \/ study = "ids" /\ IdsNext /\ UNCHANGED <<study, vars, readVars, traceVars>>

ServicesSpec ==
  ServicesInit /\ [][ServicesNext]_<<study, vars, readVars, traceVars, idVars>>

=============================================================================
