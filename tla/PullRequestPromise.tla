------------------------- MODULE PullRequestPromise -------------------------
(***************************************************************************)
(* What PullRequestPort and runPullRequestFlow promise, without commits,   *)
(* parents, blobs or phases: a branch is the files at its head, and a flow *)
(* changes it in one step.                                                 *)
(***************************************************************************)
EXTENDS Naturals, Sequences

CONSTANTS Client, Other, Branch, Base, Path, Content, NoContent, Requests,
          RootTree,
          Overlay(_, _), Entries(_), Draft(_), DryRun(_)

Tree == [Path -> Content \cup {NoContent}]

\* The head of a branch: its files, who put them there, and everybody with a
\* commit in its history.
Snapshot == [tree : Tree, by : Client \cup {Other}, authors : SUBSET (Client \cup {Other})]
NoBranch == [tree |-> RootTree, by |-> Other, authors |-> {}]

VARIABLES
  request,
  head,       \* branch -> its snapshot, or NoBranch
  seen,       \* the snapshots the base branch has had
  removed,    \* branches deleted at some time
  proposals,  \* pull requests, by number
  reported    \* callers that were told their pull request is open

vars == <<request, head, seen, removed, proposals, reported>>

Root == [tree |-> RootTree, by |-> Other, authors |-> {Other}]

Init ==
  /\ request \in [Client -> Requests]
  /\ head \in {h \in [Branch -> {NoBranch, Root}] : h[Base] = Root}
  /\ seen = {Root}
  /\ removed = {} /\ proposals = <<>> /\ reported = {}

SetHead(b, s) ==
  /\ head' = [head EXCEPT ![b] = s]
  /\ seen' = IF b = Base THEN seen \cup {s} ELSE seen

Permitted(c) == ~DryRun(request[c])

\* createBranch: the work branch starts from the base as it is or was.
StartBranch(c) ==
  /\ Permitted(c) /\ head[request[c].branch] = NoBranch
  /\ \E s \in seen : SetHead(request[c].branch, s)
  /\ UNCHANGED <<request, removed, proposals, reported>>

\* commitChanges: all the changes of the request on top of the current head.
Land(c) ==
  LET b == request[c].branch IN
  /\ Permitted(c) /\ b \notin removed /\ head[b] # NoBranch
  /\ SetHead(b, [tree |-> Overlay(head[b].tree, Entries(request[c])), by |-> c,
                 authors |-> head[b].authors \cup {c}])
  /\ UNCHANGED <<request, removed, proposals, reported>>

\* commitChanges after somebody deleted the branch and a flow made it again:
\* the commit may bring deleted commits back.
LandOnRemoved(c) ==
  LET b == request[c].branch IN
  /\ Permitted(c) /\ b \in removed /\ head[b] # NoBranch
  /\ \E s \in Snapshot : s.by = c /\ c \in s.authors /\ SetHead(b, s)
  /\ UNCHANGED <<request, removed, proposals, reported>>

\* createPullRequest: one open pull request per branch, for a branch that has
\* the caller's work; the caller may or may not hear of it.
Propose(c) ==
  LET b == request[c].branch IN
  /\ Permitted(c) /\ head[b] # NoBranch
  /\ c \in head[b].authors \/ b \in removed
  /\ \A n \in DOMAIN proposals : ~(proposals[n].head = b /\ proposals[n].open)
  /\ proposals' = Append(proposals, [head |-> b, by |-> c, open |-> TRUE,
                                     draft |-> Draft(request[c])])
  /\ reported' \in {reported, reported \cup {c}}
  /\ UNCHANGED <<request, head, seen, removed>>

\* Somebody else commits to a branch, or deletes it.
Commit(b) ==
  /\ head[b] # NoBranch
  /\ \E t \in Tree :
        SetHead(b, [tree |-> t, by |-> Other, authors |-> head[b].authors])
  /\ UNCHANGED <<request, removed, proposals, reported>>

Delete(b) ==
  /\ b # Base
  /\ head' = [head EXCEPT ![b] = NoBranch]
  /\ removed' = removed \cup {b}
  /\ proposals' = [n \in DOMAIN proposals |->
                     IF proposals[n].head = b THEN [proposals[n] EXCEPT !.open = FALSE]
                     ELSE proposals[n]]
  /\ UNCHANGED <<request, seen, reported>>

Next ==
  \/ \E c \in Client : StartBranch(c) \/ Land(c) \/ LandOnRemoved(c) \/ Propose(c)
  \/ \E b \in Branch : Commit(b) \/ Delete(b)

Spec == Init /\ [][Next]_vars

=============================================================================
