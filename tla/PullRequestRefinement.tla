----------------------- MODULE PullRequestRefinement ------------------------
(* PullRequestFlow implements PullRequestPromise: a branch is mapped to the   *)
(* commit its ref points to, the snapshots of the base to its history.        *)
EXTENDS PullRequestFlow

SnapshotOf(i) ==
  [tree |-> commits[i].tree, by |-> commits[i].by,
   authors |-> {commits[j].by : j \in Reach(i)}]

NoSnapshot == [tree |-> RootTree, by |-> Other, authors |-> {}]

Heads == [b \in Branch |-> IF refs[b] = NoRef THEN NoSnapshot ELSE SnapshotOf(refs[b])]

Seen == {SnapshotOf(i) : i \in Reach(refs[Base])}

Proposals ==
  [n \in DOMAIN pulls |-> [head |-> pulls[n].head, by |-> pulls[n].by,
                           open |-> pulls[n].open, draft |-> pulls[n].draft]]

Reported == {c \in Client : phase[c] = "opened"}

Promise ==
  INSTANCE PullRequestPromise WITH
    head <- Heads, seen <- Seen, proposals <- Proposals, reported <- Reported

\* Whatever fails and whoever interleaves, what the flows do to the repository
\* is what the port promises: a branch made from the base, one atomic change
\* of its head per commit, one open pull request per branch and only for work
\* that is on it, and a caller told of a pull request only when it exists.
FlowKeepsPromise == Promise!Spec

=============================================================================
