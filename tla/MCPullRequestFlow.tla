-------------------------- MODULE MCPullRequestFlow --------------------------
(* Instances of PullRequestFlow: two callers, a base and one or two work     *)
(* branches, two paths, two contents.                                        *)
EXTENDS PullRequestRefinement, TLC

CONSTANTS caller1, caller2, person, main, work, side, fileA, fileB, text1, text2, absent

TwoClients == {caller1, caller2}
\* Callers differ only in their requests, which range over the same set.
ClientSymmetry == Permutations(TwoClients)
MainAndWork == {main, work}
MainWorkSide == {main, work, side}
BothPaths == {fileA, fileB}
BothContents == {text1, text2}

\* At the root only fileA exists.
PTree == (fileA :> text1) @@ (fileB :> absent)

File(path, op, content) == [path |-> path, operation |-> op, nextContent |-> content]

Ask(branch, files, dryRun, draft) ==
  [branch |-> branch, files |-> files, dryRun |-> dryRun, draft |-> draft]

\* Two files, neither of which may land without the other.
EditAndCreate == {File(fileA, "update", text2), File(fileB, "create", text2)}
\* A deletion, which cannot be repeated.
DeleteOnly == {File(fileA, "delete", text1)}
CreateAndKeep == {File(fileB, "create", text1), File(fileA, "keep", text1)}

RealRequests ==
  {Ask(work, EditAndCreate, "no", "unset"), Ask(work, DeleteOnly, "no", "no")}

\* Inputs that differ in what they may write.
MixedRequests ==
  {Ask(work, EditAndCreate, "no", "unset"), Ask(work, CreateAndKeep, "unset", "no"),
   Ask(main, CreateAndKeep, "no", "no"), Ask(work, {}, "no", "yes")}

\* Two callers who write for real race, or one of them works next to a request of
\* any kind.
SafetyRequests == RealRequests \cup MixedRequests
SafetyInit ==
  /\ Init
  /\ \/ request \in [Client -> RealRequests]
     \/ /\ request \in [Client -> MixedRequests]
        /\ \E c \in Client : request[c] \in RealRequests
SafetySpec == SafetyInit /\ [][Next]_vars

\* Requests for two branches.
SideRequests ==
  {Ask(work, EditAndCreate, "no", "unset"), Ask(side, DeleteOnly, "no", "unset")}

\* Both flows race for the same branch with the same two files.
RaceRequests == {Ask(work, EditAndCreate, "no", "unset")}

\* Flows are run again where both race for one branch and nobody else intervenes;
\* no answer to a call is left out by that.
RacersRetry ==
  (\E c \in Client : attempt'[c] > 1) => request \in [Client -> RaceRequests] /\ others' = 0
EndingSpec == Init /\ [][Next /\ RacersRetry]_vars /\ Fairness

=============================================================================
