----------------------- MODULE PullRequestFlowProofs ------------------------
(***************************************************************************)
(* Safety of PullRequestFlow for every number of callers, branches, files, *)
(* attempts, faults and outside writes, and that it implements             *)
(* PullRequestPromise.                                                     *)
(***************************************************************************)
EXTENDS PullRequestRefinement, TLAPS, SequenceTheorems

(***************************************************************************)
(* The inductive invariant.  Types and safety alone are not inductive: the *)
(* argument needs that history is acyclic and transitive, that a flow's    *)
(* commit was built on a head its branch had, and that a branch moves only *)
(* forward, so that the one ancestor updateRef can meet is that very head. *)
(***************************************************************************)
Known == 1..Len(commits)

HistoryOK ==
  /\ Len(commits) >= 1
  /\ \A i \in Known : commits[i].past \subseteq 1..(i - 1)
  /\ \A i \in Known : \A j \in commits[i].past : commits[j].past \subseteq commits[i].past

HeadsOK ==
  /\ \A b \in Branch : refs[b] \in 0..Len(commits)
  /\ refs[Base] # NoRef
  /\ Base \notin removed

\* Unless somebody deleted the branch of c, commit i is in its history.
On(c, i) ==
  request[c].branch \notin removed =>
    /\ refs[request[c].branch] # NoRef
    /\ i \in Reach(refs[request[c].branch])

BuiltOn(i, c, j) ==
  /\ commits[i].past = Reach(j)
  /\ commits[i].tree = Overlay(commits[j].tree, Entries(request[c]))

AuthorsOK ==
  \A i \in Known : commits[i].by \in Client =>
    \E j \in Known : BuiltOn(i, commits[i].by, j) /\ On(commits[i].by, j)

FlowOK(c) ==
  /\ phase[c] \in {"probe", "createRef"} => baseSha[c] \in Known
  /\ phase[c] \in {"getCommit", "blobs", "createCommit"} =>
        parent[c] \in Known /\ On(c, parent[c])
  /\ phase[c] \in {"updateRef", "createPull", "opened"} =>
        sha[c] \in Known /\ commits[sha[c]].by = c
  /\ phase[c] = "createPull" => On(c, sha[c])

FlowsOK == \A c \in Client : FlowOK(c)

\* A call that may still arrive moves the ref of its own caller's branch.
CallOK(w) ==
  /\ w.branch = request[w.by].branch
  /\ w.sha \in Known
  /\ w.call # "createRef" => commits[w.sha].by = w.by
  /\ w.call = "createPull" => On(w.by, w.sha)

WireOK == \A w \in wire : CallOK(w)

PullOK(pr) ==
  /\ pr.at \in Known
  /\ pr.head \notin removed => \E i \in Reach(pr.at) : commits[i].by = pr.by

PullsOK == \A n \in DOMAIN pulls : PullOK(pulls[n])

IInv == TypeOK /\ HistoryOK /\ HeadsOK /\ AuthorsOK /\ FlowsOK /\ WireOK /\ PullsOK

-----------------------------------------------------------------------------
(* Requests and trees *)

LEMMA EntriesType ==
  ASSUME NEW r \in Requests
  PROVE  /\ Entries(r) \subseteq Entry
         /\ Deletions(r) \subseteq Entry /\ Blobs(r) \subseteq Entry
         /\ PathSet(Deletions(r)) \subseteq Path
         /\ \A op : PathsOf(r, op) \subseteq Path
<1>1. r \in Request
  BY ConstantsAssumption
<1>2. r.files \subseteq FileChange
  BY <1>1 DEF Request
<1>3. Entries(r) \subseteq Entry
  BY <1>2 DEF Entries, Entry, FileChange
<1>4. PathSet(Deletions(r)) \subseteq Path
  BY <1>3 DEF PathSet, Deletions, Entry
<1>5. \A op : PathsOf(r, op) \subseteq Path
  BY <1>2 DEF PathsOf, FileChange
<1>6. QED
  BY <1>3, <1>4, <1>5 DEF Deletions, Blobs

LEMMA OverlayType ==
  ASSUME NEW t \in Tree, NEW E \in SUBSET Entry
  PROVE  Overlay(t, E) \in Tree
<1>1. ASSUME NEW q \in Path, q \in PathSet(E)
      PROVE  (CHOOSE e \in E : e.path = q).content \in Content \cup {NoContent}
  <2>1. PICK d \in E : d.path = q
    BY <1>1 DEF PathSet
  <2>2. (CHOOSE e \in E : e.path = q) \in E
    BY <2>1
  <2>3. QED
    BY <2>2 DEF Entry
<1>2. ASSUME NEW q \in Path
      PROVE  t[q] \in Content \cup {NoContent}
  BY DEF Tree
<1>3. QED
  BY <1>1, <1>2 DEF Overlay, Tree

LEMMA RequestBranch ==
  ASSUME NEW r \in Requests
  PROVE  r.branch \in Branch
BY ConstantsAssumption DEF Request

-----------------------------------------------------------------------------
(* The invariant holds initially *)

LEMMA InitIInv == Init => IInv
<1> SUFFICES ASSUME Init PROVE IInv
  OBVIOUS
<1> DEFINE root == [past |-> {}, by |-> Other, tree |-> RootTree]
<1>1. commits = <<root>> /\ Len(commits) = 1 /\ commits[1] = root
  BY DEF Init
<1>2. root \in Commit
  BY ConstantsAssumption DEF Commit
<1>3. commits \in Seq(Commit) /\ pulls \in Seq(Pull)
  BY <1>1, <1>2 DEF Init
<1>4. refs \in [Branch -> {NoRef, 1}] /\ refs[Base] = 1
  BY DEF Init
<1>5. TypeOK
  BY <1>3, <1>4, ConstantsAssumption
  DEF Init, TypeOK, NoRef, EmptyReport, Report
<1>6. HistoryOK
  BY <1>1 DEF HistoryOK, Known
<1>7. HeadsOK
  BY <1>1, <1>4 DEF HeadsOK, NoRef, Init
<1>8. AuthorsOK
  BY <1>1, ConstantsAssumption DEF AuthorsOK, Known
<1>9. FlowsOK /\ WireOK /\ PullsOK
  BY DEF Init, FlowsOK, FlowOK, WireOK, PullsOK
<1>10. QED
  BY <1>5, <1>6, <1>7, <1>8, <1>9 DEF IInv

-----------------------------------------------------------------------------
(* What a step may do to the repository without disturbing what is On it *)

Extends ==
  /\ Known \subseteq Known'
  /\ \A i \in Known : commits'[i] = commits[i]

Forward ==
  \A b \in Branch \ removed' :
    refs[b] # NoRef =>
      refs'[b] # NoRef /\ refs[b] \in {refs'[b]} \cup commits'[refs'[b]].past

Steady ==
  /\ request' = request /\ removed \subseteq removed'
  /\ Extends /\ Forward /\ HistoryOK' /\ HeadsOK'

LEMMA ReachKnown ==
  ASSUME HistoryOK, commits \in Seq(Commit), NEW i \in Known
  PROVE  /\ Reach(i) \subseteq 1..i /\ Reach(i) \subseteq Known /\ Reach(i) \subseteq Nat
         /\ i \in Reach(i)
         /\ \A j \in Reach(i) : Reach(j) \subseteq Reach(i)
         /\ commits[i] \in Commit
<1>1. Len(commits) \in Nat /\ commits[i] \in Commit /\ i \in Nat /\ i >= 1
  BY DEF Known
<1>2. commits[i].past \subseteq 1..(i - 1)
  BY DEF HistoryOK
<1>3. Reach(i) \subseteq 1..i
  BY <1>1, <1>2 DEF Reach
<1>4. ASSUME NEW j \in Reach(i)
      PROVE  Reach(j) \subseteq Reach(i)
  BY <1>4 DEF HistoryOK, Reach
<1>5. QED
  BY <1>1, <1>3, <1>4 DEF Known, Reach

\* The parent and what it reaches look the same after commits were added.
LEMMA ReachStable ==
  ASSUME Extends, NEW i \in Known
  PROVE  Reach(i)' = Reach(i)
BY DEF Extends, Reach

\* What is in the history of a branch nobody deletes stays there.
LEMMA HistoryForward ==
  ASSUME TypeOK, HistoryOK, HeadsOK, Steady, NEW b \in Branch \ removed',
         refs[b] # NoRef, NEW i \in Reach(refs[b])
  PROVE  refs'[b] # NoRef /\ i \in Reach(refs[b])'
<1>1. PICK h \in Known : h = refs[b] /\ i \in {h} \cup commits[h].past
  BY DEF HeadsOK, Known, NoRef, Reach
<1>2. refs'[b] # NoRef /\ refs'[b] \in Known'
  BY <1>1 DEF Steady, Forward, HeadsOK, Known, NoRef
<1>3. PICK n \in Known' : n = refs'[b] /\ h \in {n} \cup commits'[n].past
  BY <1>1, <1>2 DEF Steady, Forward, Known, NoRef
<1>4. commits'[h] = commits[h]
  BY <1>1 DEF Steady, Extends
<1>5. i \in {n} \cup commits'[n].past
  <2>1. CASE h = n
    BY <1>1, <1>4, <2>1
  <2>2. CASE h \in commits'[n].past
    <3>1. commits'[h].past \subseteq commits'[n].past
      BY <1>3, <2>2 DEF Steady, HistoryOK
    <3>2. QED
      BY <1>1, <1>4, <2>2, <3>1
  <2>3. QED
    BY <1>3, <2>1, <2>2
<1>6. QED
  BY <1>2, <1>3, <1>5 DEF Reach

LEMMA OnStable ==
  ASSUME TypeOK, HistoryOK, HeadsOK, Steady,
         NEW c \in Client, NEW i \in Known, On(c, i)
  PROVE  On(c, i)'
<1>1. PICK b \in Branch : b = request[c].branch /\ b = request'[c].branch
  BY RequestBranch DEF TypeOK, Steady
<1>2. CASE b \in removed'
  BY <1>1, <1>2 DEF On
<1>3. CASE b \notin removed'
  <2>1. refs[b] # NoRef /\ i \in Reach(refs[b])
    BY <1>1, <1>3 DEF On, Steady
  <2>2. refs'[b] # NoRef /\ i \in Reach(refs[b])'
    BY <1>3, <2>1, HistoryForward
  <2>3. QED
    BY <1>1, <2>2 DEF On, Reach
<1>4. QED
  BY <1>2, <1>3

\* A commit keeps the parent it was built on, and the parent stays On.
LEMMA AuthorStable ==
  ASSUME TypeOK, HistoryOK, HeadsOK, AuthorsOK, Steady, NEW i \in Known,
         commits'[i].by \in Client
  PROVE  \E j \in Known' : BuiltOn(i, commits[i].by, j)' /\ On(commits[i].by, j)'
<1>1. commits'[i] = commits[i] /\ commits[i].by \in Client
  BY DEF Steady, Extends
<1>2. PICK j \in Known : BuiltOn(i, commits[i].by, j) /\ On(commits[i].by, j)
  BY <1>1 DEF AuthorsOK
<1>3. On(commits[i].by, j)'
  <2> DEFINE c == commits[i].by
  <2>1. c \in Client /\ On(c, j)
    BY <1>1, <1>2
  <2> HIDE DEF c
  <2>2. request' = request
    BY DEF Steady
  <2>3. ASSUME NEW d \in Client, d = c PROVE On(d, j)'
    BY <2>1, <2>3, OnStable
  <2>4. commits'[i].by = commits[i].by
    BY <1>1
  <2>5. QED
    BY <2>1, <2>3, <2>4 DEF c, On
<1>4. Reach(j)' = Reach(j)
  BY ReachStable DEF Steady
<1>5. commits'[j] = commits[j]
  BY DEF Steady, Extends
<1>6. BuiltOn(i, commits[i].by, j)'
  BY <1>1, <1>2, <1>4, <1>5 DEF BuiltOn, Steady
<1>7. j \in Known'
  BY DEF Steady, Extends
<1>8. QED
  BY <1>3, <1>6, <1>7

LEMMA SameFlow ==
  ASSUME TypeOK, HistoryOK, HeadsOK, Steady, NEW d \in Client, FlowOK(d),
         phase'[d] = phase[d], baseSha'[d] = baseSha[d], parent'[d] = parent[d],
         sha'[d] = sha[d]
  PROVE  FlowOK(d)'
<1>1. ASSUME NEW i \in Known, On(d, i)
      PROVE  On(d, i)'
  BY <1>1, OnStable
<1>2. \A i \in Known : i \in Known' /\ commits'[i] = commits[i]
  BY DEF Steady, Extends
<1>3. (phase[d] = "createPull" => On(d, sha[d]))
      => (phase'[d] = "createPull" => On(d, sha[d])')
  <2> SUFFICES ASSUME phase[d] = "createPull", On(d, sha[d])
               PROVE  On(d, sha[d])'
    OBVIOUS
  <2>1. PICK i \in Known : i = sha[d]
    BY DEF FlowOK
  <2>2. On(d, i)'
    BY <1>1, <2>1
  <2>3. QED
    BY <2>1, <2>2 DEF On
<1>4. (phase[d] \in {"getCommit", "blobs", "createCommit"} => On(d, parent[d]))
      => (phase'[d] \in {"getCommit", "blobs", "createCommit"} => On(d, parent[d])')
  <2> SUFFICES ASSUME phase[d] \in {"getCommit", "blobs", "createCommit"},
                      On(d, parent[d])
               PROVE  On(d, parent[d])'
    OBVIOUS
  <2>1. PICK i \in Known : i = parent[d]
    BY DEF FlowOK
  <2>2. On(d, i)'
    BY <1>1, <2>1
  <2>3. QED
    BY <2>1, <2>2 DEF On
<1>5. QED
  BY <1>2, <1>3, <1>4 DEF FlowOK

LEMMA FlowsStable ==
  ASSUME IInv, Steady, NEW c \in Client, FlowOK(c)',
         \A d \in Client \ {c} :
            /\ phase'[d] = phase[d] /\ baseSha'[d] = baseSha[d]
            /\ parent'[d] = parent[d] /\ sha'[d] = sha[d]
  PROVE  FlowsOK'
<1>1. ASSUME NEW d \in Client, d # c
      PROVE  FlowOK(d)'
  BY <1>1, SameFlow DEF IInv, FlowsOK
<1>2. QED
  BY <1>1 DEF FlowsOK

LEMMA AuthorsStable ==
  ASSUME IInv, Steady, commits' = commits
  PROVE  AuthorsOK'
<1> SUFFICES ASSUME NEW i \in Known, commits[i].by \in Client
             PROVE  \E j \in Known' : BuiltOn(i, commits[i].by, j)'
                                      /\ On(commits[i].by, j)'
  BY DEF AuthorsOK, Known
<1>1. QED
  BY AuthorStable DEF IInv

LEMMA CallStable ==
  ASSUME TypeOK, HistoryOK, HeadsOK, Steady, NEW w \in WriteCall, CallOK(w)
  PROVE  CallOK(w)'
<1>1. w.by \in Client
  BY DEF WriteCall
<1>2. w.sha \in Known /\ w.sha \in Known' /\ commits'[w.sha] = commits[w.sha]
  BY DEF CallOK, Steady, Extends
<1>3. On(w.by, w.sha) => On(w.by, w.sha)'
  BY <1>1, <1>2, OnStable
<1>4. QED
  BY <1>2, <1>3 DEF CallOK, Steady

LEMMA WireStable ==
  ASSUME IInv, Steady, wire' \subseteq wire
  PROVE  WireOK'
<1>1. ASSUME NEW w \in wire
      PROVE  CallOK(w)'
  BY CallStable DEF IInv, TypeOK, WireOK
<1>2. QED
  BY <1>1 DEF WireOK

LEMMA PullStable ==
  ASSUME TypeOK, HistoryOK, Steady, NEW pr, PullOK(pr)
  PROVE  PullOK(pr)'
<1>1. pr.at \in Known /\ pr.at \in Known'
  BY DEF PullOK, Steady, Extends
<1>2. ASSUME NEW i \in Reach(pr.at)
      PROVE  i \in Reach(pr.at)' /\ commits'[i] = commits[i]
  <2>1. Reach(pr.at)' = Reach(pr.at)
    BY <1>1, ReachStable DEF Steady
  <2>2. i \in Known
    BY <1>1, ReachKnown DEF TypeOK
  <2>3. QED
    BY <2>1, <2>2 DEF Steady, Extends
<1>3. QED
  BY <1>1, <1>2 DEF PullOK, Steady

LEMMA PullsStable ==
  ASSUME IInv, Steady, pulls' = pulls
  PROVE  PullsOK'
<1>1. ASSUME NEW n \in DOMAIN pulls
      PROVE  PullOK(pulls[n])'
  <2>1. PICK pr \in Pull : pr = pulls[n]
    BY DEF IInv, TypeOK
  <2>2. PullOK(pr)'
    BY <2>1, PullStable DEF IInv, PullsOK
  <2>3. QED
    BY <2>1, <2>2 DEF PullOK
<1>2. QED
  BY <1>1 DEF PullsOK

LEMMA SameRepository ==
  ASSUME IInv, UNCHANGED <<commits, refs, removed, request>>
  PROVE  Steady
BY DEF IInv, HistoryOK, HeadsOK, Steady, Extends, Forward, Known

\* GitHub performs a call: its ref moves forward, or a pull request is added
\* for a branch that has its caller's work.
LEMMA PerformOK ==
  ASSUME IInv, NEW w \in WriteCall, CallOK(w), Accepts(w), Perform(w),
         UNCHANGED <<commits, removed, request>>
  PROVE  /\ Steady
         /\ refs' \in [Branch -> Nat] /\ pulls' \in Seq(Pull)
         /\ wrote' \subseteq Client /\ writable' \in BOOLEAN
         /\ PullsOK'
         /\ w.call = "updateRef" => On(w.by, w.sha)'
<1> USE DEF IInv
<1>1. /\ w.branch \in Branch /\ w.by \in Client /\ w.sha \in Known
      /\ w.branch = request[w.by].branch /\ Len(commits) \in Nat
  BY DEF WriteCall, CallOK, TypeOK
<1>2. wrote' \subseteq Client /\ writable' \in BOOLEAN
  BY <1>1 DEF Perform, TypeOK
<1>3. CASE w.call = "createPull"
  <2>1. refs' = refs
    BY <1>3 DEF Perform
  <2>2. Steady
    BY <2>1, SameRepository
  <2> DEFINE pr == [head |-> w.branch, by |-> w.by, open |-> TRUE,
                    draft |-> Draft(request[w.by]), at |-> refs[w.branch]]
  <2>3. pulls' = Append(pulls, pr)
    BY <1>3 DEF Perform
  <2>4. refs[w.branch] \in Known
    BY <1>1, <1>3 DEF Accepts, HeadsOK, Known, NoRef
  <2>5. pr \in Pull
    BY <1>1, <2>4 DEF Pull, Known, Draft
  <2>6. PullOK(pr)
    <3>1. w.branch \notin removed => w.sha \in Reach(refs[w.branch])
      BY <1>1, <1>3 DEF CallOK, On
    <3>2. commits[w.sha].by = w.by
      BY <1>3 DEF CallOK
    <3>3. QED
      BY <2>4, <3>1, <3>2 DEF PullOK
  <2> HIDE DEF pr
  <2>7. pulls' \in Seq(Pull)
    BY <2>3, <2>5 DEF TypeOK
  <2>8. PullsOK'
    <3>1. ASSUME NEW n \in DOMAIN pulls'
          PROVE  PullOK(pulls'[n])
      <4>1. pulls'[n] = pr \/ (n \in DOMAIN pulls /\ pulls'[n] = pulls[n])
        BY <2>3, <2>5 DEF TypeOK
      <4>2. QED
        BY <4>1, <2>6 DEF PullsOK
    <3>2. QED
      BY <3>1, <2>1 DEF PullsOK, PullOK, Known, Reach
  <2>9. QED
    BY <1>2, <1>3, <2>1, <2>2, <2>7, <2>8 DEF TypeOK
<1>4. CASE w.call # "createPull"
  <2>1. refs' = [refs EXCEPT ![w.branch] = w.sha] /\ pulls' = pulls
    BY <1>4 DEF Perform
  <2>2. w.sha \in Nat /\ w.sha # NoRef /\ w.sha \in 0..Len(commits)
    BY <1>1 DEF Known, NoRef
  <2>3. HeadsOK'
    BY <1>1, <2>1, <2>2 DEF HeadsOK, TypeOK
  <2>4. Forward
    <3>1. refs[w.branch] # NoRef => refs[w.branch] \in Reach(w.sha)
      BY <1>4 DEF Accepts, Forced, FastForward
    <3>2. QED
      BY <1>1, <2>1, <2>2, <3>1 DEF Forward, Reach, TypeOK
  <2>5. Steady
    BY <2>3, <2>4 DEF Steady, Extends, HistoryOK, Known
  <2>6. PullsOK'
    BY <2>1, <2>5, PullsStable
  <2>7. On(w.by, w.sha)'
    BY <1>1, <2>1, <2>2 DEF On, Reach, TypeOK
  <2>8. QED
    BY <1>2, <2>1, <2>2, <2>5, <2>6, <2>7 DEF TypeOK
<1>5. QED
  BY <1>3, <1>4

-----------------------------------------------------------------------------
(* The invariant is preserved, one lemma per action *)

\* A step of c that leaves the repository alone.
LEMMA LocalStep ==
  ASSUME IInv, TypeOK', UNCHANGED <<commits, refs, pulls, removed, request>>,
         wire' \subseteq wire, NEW c \in Client, FlowOK(c)',
         \A d \in Client \ {c} :
            /\ phase'[d] = phase[d] /\ baseSha'[d] = baseSha[d]
            /\ parent'[d] = parent[d] /\ sha'[d] = sha[d]
  PROVE  IInv'
<1>1. Steady
  BY SameRepository
<1>2. FlowsOK'
  BY <1>1, FlowsStable
<1>3. WireOK' /\ PullsOK' /\ AuthorsOK'
  BY <1>1, WireStable, PullsStable, AuthorsStable
<1>4. QED
  BY <1>1, <1>2, <1>3 DEF IInv, Steady

LEMMA CallStep ==
  ASSUME IInv, NEW c \in Client, Call(c)
  PROVE  IInv'
<1> USE DEF IInv
<1>1. attempt[c] + 1 \in 0..MaxAttempts
  BY ConstantsAssumption DEF Call, TypeOK
<1>2. TypeOK'
  BY <1>1, ConstantsAssumption
  DEF Call, TypeOK, Goto, server, history, Awaiting, Reading, EmptyReport, Report, NoRef
<1>3. FlowOK(c)'
  BY DEF Call, TypeOK, Goto, FlowOK
<1>4. QED
  BY <1>2, <1>3, LocalStep DEF Call, Goto, server, history, TypeOK

LEMMA VerifyPermissionsStep ==
  ASSUME IInv, NEW c \in Client, VerifyPermissions(c)
  PROVE  IInv'
<1> USE DEF IInv
<1>1. report' \in [Client -> Report]
  <2> DEFINE dry == [created |-> PathsOf(request[c], "create"),
                     modified |-> PathsOf(request[c], "update"),
                     deleted |-> PathsOf(request[c], "delete")]
  <2>1. request[c] \in Requests
    BY DEF TypeOK
  <2>2. \A op : PathsOf(request[c], op) \subseteq Path
    BY <2>1, EntriesType
  <2>3. dry \in Report
    BY <2>2 DEF Report
  <2>4. report' = report \/ report' = [report EXCEPT ![c] = dry]
    BY DEF VerifyPermissions
  <2> HIDE DEF dry
  <2>5. QED
    BY <2>3, <2>4 DEF TypeOK
<1>2. TypeOK'
  BY <1>1
  DEF VerifyPermissions, TypeOK, Goto, Throw, server, history, Awaiting, Reading, Settled
<1>3. FlowOK(c)'
  BY DEF VerifyPermissions, TypeOK, Goto, Throw, FlowOK
<1>4. QED
  BY <1>2, <1>3, LocalStep DEF VerifyPermissions, Goto, Throw, server, history, TypeOK

LEMMA ReadBaseStep ==
  ASSUME IInv, NEW c \in Client, ReadBase(c)
  PROVE  IInv'
<1> USE DEF IInv
<1>1. refs[Base] \in Known /\ refs[Base] \in Nat
  BY ConstantsAssumption DEF TypeOK, HeadsOK, Known, NoRef
<1>2. TypeOK'
  BY <1>1 DEF ReadBase, TypeOK, Goto, server, history, Awaiting
<1>3. FlowOK(c)'
  BY <1>1 DEF ReadBase, TypeOK, Goto, FlowOK, Known, server
<1>4. QED
  BY <1>2, <1>3, LocalStep DEF ReadBase, Goto, server, history, TypeOK

LEMMA ProbeStep ==
  ASSUME IInv, NEW c \in Client, Probe(c) \/ ProbeFault(c)
  PROVE  IInv'
<1> USE DEF IInv
<1>1. phase' \in [Client -> {"idle"} \cup Awaiting \cup Settled]
  BY DEF Probe, ProbeFault, TypeOK, Goto, Awaiting, Reading, RefWriting
<1>2. faults' \in 0..MaxFaults
  BY ConstantsAssumption DEF Probe, ProbeFault, TypeOK, history
<1>3. TypeOK'
  BY <1>1, <1>2 DEF Probe, ProbeFault, TypeOK, server, locals, history
<1>4. FlowOK(c)'
  BY DEF Probe, ProbeFault, TypeOK, Goto, FlowsOK, FlowOK, Known, server, locals
<1>5. QED
  BY <1>3, <1>4, LocalStep
  DEF Probe, ProbeFault, Goto, server, locals, history, TypeOK

LEMMA ReadBranchStep ==
  ASSUME IInv, NEW c \in Client, ReadBranch(c)
  PROVE  IInv'
<1> USE DEF IInv
<1>1. request[c].branch \in Branch
  BY RequestBranch DEF TypeOK
<1>2. TypeOK'
  BY <1>1
  DEF ReadBranch, TypeOK, Goto, Throw, server, history, Awaiting, Reading, Settled
<1>3. FlowOK(c)'
  BY <1>1
  DEF ReadBranch, TypeOK, HeadsOK, Goto, Throw, FlowOK, Known, On, Reach, NoRef,
      server, history
<1>4. QED
  BY <1>2, <1>3, LocalStep DEF ReadBranch, Goto, Throw, server, history, TypeOK

LEMMA GetCommitStep ==
  ASSUME IInv, NEW c \in Client, GetCommit(c)
  PROVE  IInv'
<1> USE DEF IInv
<1>1. report' \in [Client -> Report] /\ pending' \in [Client -> SUBSET Entry]
  <2>1. request[c] \in Requests /\ report[c] \in Report
    BY DEF TypeOK
  <2>2. /\ Blobs(request[c]) \subseteq Entry
        /\ PathSet(Deletions(request[c])) \subseteq Path
    BY <2>1, EntriesType
  <2>3. [report[c] EXCEPT !.deleted = PathSet(Deletions(request[c]))] \in Report
    BY <2>1, <2>2 DEF Report
  <2>4. report' = [report EXCEPT ![c] =
                     [report[c] EXCEPT !.deleted = PathSet(Deletions(request[c]))]]
    BY DEF GetCommit, TypeOK
  <2>5. QED
    BY <2>2, <2>3, <2>4 DEF TypeOK, GetCommit
<1>2. TypeOK'
  BY <1>1 DEF GetCommit, TypeOK, Goto, server, history, Awaiting
<1>3. FlowOK(c)'
  BY DEF GetCommit, TypeOK, Goto, FlowsOK, FlowOK, Known, On, Reach, server, history
<1>4. QED
  BY <1>2, <1>3, LocalStep DEF GetCommit, Goto, server, history, TypeOK

LEMMA CreateBlobStep ==
  ASSUME IInv, NEW c \in Client, NEW e \in pending[c], CreateBlob(c, e)
  PROVE  IInv'
<1> USE DEF IInv
<1>1. e \in Entry /\ e.path \in Path
  BY DEF TypeOK, Entry
<1>2. report' \in [Client -> Report] /\ pending' \in [Client -> SUBSET Entry]
  <2>1. [report[c] EXCEPT !.modified = @ \cup {e.path}] \in Report
    BY <1>1 DEF TypeOK, Report
  <2>2. \/ report' = report
        \/ report' = [report EXCEPT ![c] =
                         [report[c] EXCEPT !.modified = @ \cup {e.path}]]
    BY DEF CreateBlob, TypeOK
  <2>3. report \in [Client -> Report] /\ pending \in [Client -> SUBSET Entry]
    BY DEF TypeOK
  <2>4. report' \in [Client -> Report]
    BY <2>1, <2>2, <2>3
  <2>5. pending' = pending \/ pending' = [pending EXCEPT ![c] = @ \ {e}]
    BY DEF CreateBlob
  <2>6. pending' \in [Client -> SUBSET Entry]
    BY <2>3, <2>5
  <2>7. QED
    BY <2>4, <2>6
<1>3. TypeOK'
  BY <1>2 DEF CreateBlob, TypeOK, Throw, Goto, server, Settled
<1>4. FlowOK(c)'
  BY DEF CreateBlob, TypeOK, Throw, Goto, FlowsOK, FlowOK, Known, On, Reach, server
<1>5. QED
  BY <1>3, <1>4, LocalStep DEF CreateBlob, Throw, Goto, server, TypeOK

LEMMA CreateTreeStep ==
  ASSUME IInv, NEW c \in Client, CreateTree(c)
  PROVE  IInv'
<1> USE DEF IInv
<1>1. TypeOK'
  BY DEF CreateTree, TypeOK, Throw, Goto, server, locals, Settled, Awaiting
<1>2. FlowOK(c)'
  BY DEF CreateTree, TypeOK, Throw, Goto, FlowsOK, FlowOK, Known, On, Reach, server, locals
<1>3. QED
  BY <1>1, <1>2, LocalStep DEF CreateTree, Throw, Goto, server, locals, TypeOK

LEMMA CreateCommitStep ==
  ASSUME IInv, NEW c \in Client, CreateCommit(c)
  PROVE  IInv'
<1> USE DEF IInv
<1>1. CASE commits' = commits
  <2>1. ~writable /\ Throw(c, "raw") /\ UNCHANGED <<sha, wrote>>
    BY <1>1 DEF CreateCommit, TypeOK
  <2>2. TypeOK'
    BY <1>1, <2>1 DEF CreateCommit, TypeOK, Throw, Goto, Settled
  <2>3. FlowOK(c)'
    BY <1>1, <2>1 DEF CreateCommit, TypeOK, Throw, Goto, FlowOK
  <2>4. QED
    BY <1>1, <2>1, <2>2, <2>3, LocalStep DEF CreateCommit, Throw, Goto, TypeOK
<1>2. CASE commits' # commits
  <2> PICK n \in Nat : n = Len(commits) + 1
    BY DEF TypeOK
  <2> DEFINE new == [past |-> Reach(parent[c]), by |-> c,
                     tree |-> Overlay(commits[parent[c]].tree, Entries(request[c]))]
  <2>1. /\ phase[c] = "createCommit" /\ commits' = Append(commits, new)
        /\ sha' = [sha EXCEPT ![c] = n] /\ wrote' = wrote \cup {c}
        /\ Goto(c, "updateRef") /\ UNCHANGED error
        /\ UNCHANGED <<refs, pulls, writable, wire, request, attempt, baseSha, parent,
                       pending, report, number, removed, faults, others>>
    BY <1>2 DEF CreateCommit
  <2>2. parent[c] \in Known /\ On(c, parent[c])
    BY <2>1 DEF FlowsOK, FlowOK
  <2>3. /\ Reach(parent[c]) \subseteq Known /\ Reach(parent[c]) \subseteq Nat
        /\ commits[parent[c]] \in Commit
        /\ \A j \in Reach(parent[c]) : Reach(j) \subseteq Reach(parent[c])
    BY <2>2, ReachKnown DEF TypeOK
  <2>4. new \in Commit
    <3>1. request[c] \in Requests /\ commits[parent[c]].tree \in Tree
      BY <2>3 DEF TypeOK, Commit
    <3>2. new.tree \in Tree
      BY <3>1, EntriesType, OverlayType
    <3>3. QED
      BY <2>3, <3>2 DEF Commit
  <2> HIDE DEF new
  <2>5. /\ commits' \in Seq(Commit) /\ Len(commits') = n /\ commits'[n] = new
        /\ \A i \in Known : commits'[i] = commits[i]
        /\ Len(commits) \in Nat
    BY <2>1, <2>4 DEF TypeOK, Known
  <2>6. Known' = Known \cup {n}
    BY <2>5 DEF Known
  <2>7. HistoryOK'
    <3>1. new.past \subseteq 1..(n - 1)
      BY <2>3 DEF new, Known
    <3>2. \A j \in new.past : j \in Known /\ commits[j].past \subseteq new.past
      BY <2>3 DEF new, Reach
    <3>3. \A i \in Known : commits[i].past \subseteq Known
      BY <2>5 DEF HistoryOK, Known
    <3>4. Len(commits') >= 1
      BY <2>5
    <3>5. \A i \in Known' : commits'[i].past \subseteq 1..(i - 1)
      BY <2>5, <2>6, <3>1 DEF HistoryOK
    <3>6. \A i \in Known' : \A j \in commits'[i].past :
             commits'[j].past \subseteq commits'[i].past
      BY <2>5, <2>6, <3>2, <3>3 DEF HistoryOK
    <3>7. QED
      BY <3>4, <3>5, <3>6 DEF HistoryOK
  <2>8. Steady
    <3>1. HeadsOK'
      BY <2>1, <2>5 DEF HeadsOK
    <3>2. Forward
      BY <2>1 DEF Forward
    <3>3. QED
      BY <2>1, <2>5, <2>6, <2>7, <3>1, <3>2 DEF Steady, Extends
  <2>9. AuthorsOK'
    <3>1. ASSUME NEW i \in Known, commits'[i].by \in Client
          PROVE  \E j \in Known' : BuiltOn(i, commits[i].by, j)' /\ On(commits[i].by, j)'
      BY <2>8, <3>1, AuthorStable
    <3>2. PICK j \in Known : j = parent[c] /\ On(c, j)
      BY <2>2
    <3>3. On(c, j)'
      BY <2>8, <3>2, OnStable
    <3>4. BuiltOn(n, c, j)'
      <4>1. commits'[j] = commits[j]
        BY <2>5
      <4>2. commits'[n].past = {j} \cup commits'[j].past
        BY <2>5, <3>2, <4>1 DEF new, Reach
      <4>3. commits'[n].tree = Overlay(commits'[j].tree, Entries(request'[c]))
        <5>1. new.tree = Overlay(commits[parent[c]].tree, Entries(request[c]))
          BY DEF new
        <5>2. request' = request
          BY <2>1
        <5>3. QED
          BY <2>5, <3>2, <4>1, <5>1, <5>2, Zenon
      <4>4. QED
        BY <4>2, <4>3 DEF BuiltOn, Reach
    <3>5. commits'[n].by = c
      BY <2>5 DEF new
    <3>6. \E k \in Known' : BuiltOn(n, commits[n].by, k)' /\ On(commits[n].by, k)'
      BY <2>6, <3>3, <3>4, <3>5 DEF BuiltOn, On
    <3>7. QED
      BY <2>6, <3>1, <3>6 DEF AuthorsOK
  <2>10. FlowOK(c)'
    BY <2>1, <2>5, <2>6 DEF FlowOK, Goto, TypeOK, new
  <2>11. FlowsOK'
    BY <2>1, <2>8, <2>10, FlowsStable DEF Goto, TypeOK
  <2>12. TypeOK'
    BY <2>1, <2>5 DEF TypeOK, Goto, Awaiting, RefWriting
  <2>13. WireOK' /\ PullsOK'
    BY <2>1, <2>8, WireStable, PullsStable
  <2>14. QED
    BY <2>8, <2>9, <2>11, <2>12, <2>13 DEF Steady
<1>3. QED
  BY <1>1, <1>2

\* The call a flow is about to make is one that may arrive late.
LEMMA WriteOK ==
  ASSUME IInv, NEW c \in Client, NEW call \in RefWriting, phase[c] = call
  PROVE  Write(c, call) \in WriteCall /\ CallOK(Write(c, call))
<1> USE DEF IInv
<1>1. request[c].branch \in Branch
  BY RequestBranch DEF TypeOK
<1>2. call \in {"createRef", "updateRef", "createPull"}
  BY DEF RefWriting
<1>3. Write(c, call) \in WriteCall
  BY <1>1 DEF Write, WriteCall, TypeOK
<1>4. FlowOK(c)
  BY DEF FlowsOK
<1>5. CallOK(Write(c, call))
  BY <1>2, <1>4 DEF Write, CallOK, FlowOK
<1>6. QED
  BY <1>3, <1>5

\* A step in which GitHub performs a call and only c may move.
LEMMA PerformStep ==
  ASSUME IInv, NEW w \in WriteCall, CallOK(w), Accepts(w), Perform(w),
         UNCHANGED <<commits, removed, request>>, wire' \subseteq wire,
         TypeOK', NEW c \in Client, FlowOK(c)',
         \A d \in Client \ {c} :
            /\ phase'[d] = phase[d] /\ baseSha'[d] = baseSha[d]
            /\ parent'[d] = parent[d] /\ sha'[d] = sha[d]
  PROVE  IInv'
<1>1. Steady /\ PullsOK'
  BY PerformOK
<1>2. FlowsOK'
  BY <1>1, FlowsStable
<1>3. WireOK' /\ AuthorsOK'
  BY <1>1, WireStable, AuthorsStable
<1>4. QED
  BY <1>1, <1>2, <1>3 DEF IInv, Steady

LEMMA CreateRefStep ==
  ASSUME IInv, NEW c \in Client, CreateRef(c)
  PROVE  IInv'
<1> USE DEF IInv
<1>0. PICK w \in WriteCall : w = Write(c, "createRef") /\ CallOK(w)
  BY WriteOK DEF CreateRef, RefWriting
<1>1. CASE Accepts(w) /\ Perform(w) /\ Goto(c, "readBranch") /\ UNCHANGED error
  <2>1. TypeOK'
    BY <1>0, <1>1, PerformOK
    DEF CreateRef, TypeOK, Goto, locals, Awaiting, Reading
  <2>2. FlowOK(c)'
    BY <1>1 DEF FlowOK, Goto, TypeOK
  <2>3. QED
    BY <1>0, <1>1, <2>1, <2>2, PerformStep DEF CreateRef, Goto, locals, TypeOK
<1>2. CASE Throw(c, "raw") /\ UNCHANGED <<refs, pulls, writable, wrote>>
  <2>1. TypeOK'
    BY <1>2 DEF CreateRef, TypeOK, Throw, Goto, locals, Settled
  <2>2. FlowOK(c)'
    BY <1>2 DEF FlowOK, Throw, Goto, TypeOK
  <2>3. QED
    BY <1>2, <2>1, <2>2, LocalStep DEF CreateRef, Throw, Goto, locals, TypeOK
<1>3. QED
  BY <1>0, <1>1, <1>2 DEF CreateRef

LEMMA UpdateRefStep ==
  ASSUME IInv, NEW c \in Client, UpdateRef(c)
  PROVE  IInv'
<1> USE DEF IInv
<1>0. PICK w \in WriteCall : w = Write(c, "updateRef") /\ CallOK(w)
  BY WriteOK DEF UpdateRef, RefWriting
<1>1. CASE Accepts(w) /\ Perform(w) /\ Goto(c, "createPull") /\ UNCHANGED error
  <2>1. TypeOK'
    BY <1>0, <1>1, PerformOK
    DEF UpdateRef, TypeOK, Goto, locals, Awaiting, RefWriting
  <2>2. w.call = "updateRef" /\ w.by = c /\ w.sha = sha[c]
    BY <1>0 DEF Write
  <2>3. On(w.by, w.sha)'
    <3>1. UNCHANGED <<commits, removed, request>>
      BY DEF UpdateRef
    <3>2. w.call = "updateRef" => On(w.by, w.sha)'
      BY <1>0, <1>1, <3>1, PerformOK
    <3>3. QED
      BY <2>2, <3>2
  <2>4. FlowOK(c)'
    BY <1>1, <2>2, <2>3 DEF UpdateRef, FlowsOK, FlowOK, Goto, TypeOK, locals, Known, On
  <2>5. QED
    BY <1>0, <1>1, <2>1, <2>4, PerformStep DEF UpdateRef, Goto, locals, TypeOK
<1>2. CASE Throw(c, "raw") /\ UNCHANGED <<refs, pulls, writable, wrote>>
  <2>1. TypeOK'
    BY <1>2 DEF UpdateRef, TypeOK, Throw, Goto, locals, Settled
  <2>2. FlowOK(c)'
    BY <1>2 DEF FlowOK, Throw, Goto, TypeOK
  <2>3. QED
    BY <1>2, <2>1, <2>2, LocalStep DEF UpdateRef, Throw, Goto, locals, TypeOK
<1>3. QED
  BY <1>0, <1>1, <1>2 DEF UpdateRef

LEMMA CreatePullStep ==
  ASSUME IInv, NEW c \in Client, CreatePull(c)
  PROVE  IInv'
<1> USE DEF IInv
<1>0. PICK w \in WriteCall : w = Write(c, "createPull") /\ CallOK(w)
  BY WriteOK DEF CreatePull, RefWriting
<1>1. CASE /\ Accepts(w) /\ Perform(w) /\ Goto(c, "opened") /\ UNCHANGED error
           /\ number' = [number EXCEPT ![c] = Len(pulls) + 1]
  <2>1. Len(pulls) + 1 \in Nat
    BY DEF TypeOK
  <2>2. TypeOK'
    BY <1>0, <1>1, <2>1, PerformOK DEF CreatePull, TypeOK, Goto, Settled
  <2>3. FlowOK(c)'
    BY <1>1 DEF CreatePull, FlowsOK, FlowOK, Goto, TypeOK, Known
  <2>4. QED
    BY <1>0, <1>1, <2>2, <2>3, PerformStep DEF CreatePull, Goto, TypeOK
<1>2. CASE Throw(c, "integration") /\ UNCHANGED <<refs, pulls, writable, wrote, number>>
  <2>1. TypeOK'
    BY <1>2 DEF CreatePull, TypeOK, Throw, Goto, Settled
  <2>2. FlowOK(c)'
    BY <1>2 DEF FlowOK, Throw, Goto, TypeOK
  <2>3. QED
    BY <1>2, <2>1, <2>2, LocalStep DEF CreatePull, Throw, Goto, TypeOK
<1>3. QED
  BY <1>0, <1>1, <1>2 DEF CreatePull

LEMMA FaultStep ==
  ASSUME IInv, NEW c \in Client, Fault(c)
  PROVE  IInv'
<1> USE DEF IInv
<1>1. /\ phase' = [phase EXCEPT ![c] = "failed"]
      /\ error' = [error EXCEPT ![c] = ErrorClass(phase[c])]
      /\ faults' = faults + 1 /\ faults < MaxFaults
      /\ UNCHANGED <<commits, refs, pulls, writable, request, attempt, wrote,
                     removed, others>>
      /\ UNCHANGED <<baseSha, parent, pending, sha, report, number>>
  BY DEF Fault, Throw, Goto, locals
<1>2. \/ wire' = wire
      \/ phase[c] \in RefWriting /\ wire' = wire \cup {Write(c, phase[c])}
  BY DEF Fault
<1>3. \A w \in wire' : w \in WriteCall /\ CallOK(w)
  BY <1>2, WriteOK DEF TypeOK, WireOK
<1>4. TypeOK'
  <2>1. ErrorClass(phase[c]) \in {"permission", "raw", "integration"}
    BY DEF ErrorClass
  <2>2. faults' \in 0..MaxFaults
    BY <1>1, ConstantsAssumption DEF TypeOK
  <2>3. QED
    BY <1>1, <1>3, <2>1, <2>2 DEF TypeOK, Settled
<1>5. FlowOK(c)'
  BY <1>1 DEF FlowOK, TypeOK
<1>6. Steady
  BY <1>1, SameRepository
<1>7. FlowsOK'
  BY <1>1, <1>5, <1>6, FlowsStable DEF TypeOK
<1>8. WireOK'
  <2>1. ASSUME NEW w \in wire'
        PROVE  CallOK(w)'
    <3>1. w \in WriteCall /\ CallOK(w)
      BY <1>3, <2>1
    <3>2. QED
      BY <1>6, <3>1, CallStable
  <2>2. QED
    BY <2>1 DEF WireOK
<1>9. PullsOK' /\ AuthorsOK'
  BY <1>1, <1>6, PullsStable, AuthorsStable
<1>10. QED
  BY <1>4, <1>6, <1>7, <1>8, <1>9 DEF Steady

LEMMA LateStep ==
  ASSUME IInv, NEW w \in wire, Late(w)
  PROVE  IInv'
<1> USE DEF IInv
<1>1. /\ wire' \subseteq wire
      /\ UNCHANGED <<commits, request, phase, attempt, error, removed, faults, others>>
      /\ UNCHANGED <<baseSha, parent, pending, sha, report, number>>
  BY DEF Late, locals
<1>2. w \in WriteCall /\ CallOK(w)
  BY DEF TypeOK, WireOK
<1>3. /\ Steady /\ PullsOK'
      /\ refs' \in [Branch -> Nat] /\ pulls' \in Seq(Pull)
      /\ wrote' \subseteq Client /\ writable' \in BOOLEAN
  <2>1. CASE Accepts(w) /\ Perform(w)
    BY <1>1, <1>2, <2>1, PerformOK
  <2>2. CASE UNCHANGED <<refs, pulls, writable, wrote>>
    BY <1>1, <2>2, SameRepository, PullsStable DEF TypeOK
  <2>3. QED
    BY <2>1, <2>2 DEF Late
<1>4. TypeOK'
  BY <1>1, <1>3 DEF TypeOK
<1>5. FlowsOK'
  BY <1>1, <1>3, SameFlow DEF FlowsOK
<1>6. WireOK' /\ AuthorsOK'
  BY <1>1, <1>3, WireStable, AuthorsStable
<1>7. QED
  BY <1>3, <1>4, <1>5, <1>6 DEF Steady

LEMMA PushStep ==
  ASSUME IInv, NEW b \in Branch, NEW p \in Path, NEW v \in Content \cup {NoContent},
         Push(b, p, v)
  PROVE  IInv'
<1> USE DEF IInv
<1> PICK n \in Nat : n = Len(commits) + 1
  BY DEF TypeOK
<1> PICK h \in Known : h = refs[b]
  BY DEF Push, HeadsOK, Known, NoRef
<1> DEFINE new == [past |-> Reach(h), by |-> Other,
                   tree |-> [commits[h].tree EXCEPT ![p] = v]]
<1>1. /\ commits' = Append(commits, new) /\ refs' = [refs EXCEPT ![b] = n]
      /\ others' = others + 1 /\ others < MaxOthers
      /\ UNCHANGED <<pulls, writable, wire, request, phase, attempt, error,
                     wrote, removed, faults>>
      /\ UNCHANGED <<baseSha, parent, pending, sha, report, number>>
  BY DEF Push, locals
<1>2. /\ Reach(h) \subseteq Known /\ Reach(h) \subseteq Nat
      /\ commits[h] \in Commit
      /\ \A j \in Reach(h) : Reach(j) \subseteq Reach(h)
      /\ h \in Reach(h)
  BY ReachKnown DEF TypeOK
<1>3. new \in Commit
  BY <1>2 DEF Commit, Tree
<1> HIDE DEF new
<1>4. /\ commits' \in Seq(Commit) /\ Len(commits') = n /\ commits'[n] = new
      /\ \A i \in Known : commits'[i] = commits[i]
      /\ Len(commits) \in Nat
  BY <1>1, <1>3 DEF TypeOK, Known
<1>5. Known' = Known \cup {n}
  BY <1>4 DEF Known
<1>6. HistoryOK'
  <2>1. new.past \subseteq 1..(n - 1)
    BY <1>2 DEF new, Known
  <2>2. \A j \in new.past : j \in Known /\ commits[j].past \subseteq new.past
    BY <1>2 DEF new, Reach
  <2>3. \A i \in Known : commits[i].past \subseteq Known
    BY <1>4 DEF HistoryOK, Known
  <2>4. Len(commits') >= 1
    BY <1>4
  <2>5. \A i \in Known' : commits'[i].past \subseteq 1..(i - 1)
    BY <1>4, <1>5, <2>1 DEF HistoryOK
  <2>6. \A i \in Known' : \A j \in commits'[i].past :
           commits'[j].past \subseteq commits'[i].past
    BY <1>4, <1>5, <2>2, <2>3 DEF HistoryOK
  <2>7. QED
    BY <2>4, <2>5, <2>6 DEF HistoryOK
<1>7. Steady
  <2>1. HeadsOK'
    BY <1>1, <1>4 DEF HeadsOK, TypeOK, NoRef
  <2>2. Forward
    BY <1>1, <1>2, <1>4 DEF Forward, TypeOK, NoRef, new
  <2>3. QED
    BY <1>1, <1>4, <1>5, <1>6, <2>1, <2>2 DEF Steady, Extends
<1>8. AuthorsOK'
  <2>1. ASSUME NEW i \in Known, commits'[i].by \in Client
        PROVE  \E j \in Known' : BuiltOn(i, commits[i].by, j)' /\ On(commits[i].by, j)'
    BY <1>7, <2>1, AuthorStable
  <2>2. commits'[n].by \notin Client
    BY <1>4, ConstantsAssumption DEF new
  <2>3. QED
    BY <1>5, <2>1, <2>2 DEF AuthorsOK
<1>9. TypeOK'
  BY <1>1, <1>4, ConstantsAssumption DEF TypeOK
<1>10. FlowsOK'
  BY <1>1, <1>7, SameFlow DEF FlowsOK
<1>11. WireOK' /\ PullsOK'
  BY <1>1, <1>7, WireStable, PullsStable
<1>12. QED
  BY <1>7, <1>8, <1>9, <1>10, <1>11 DEF Steady

LEMMA DeleteBranchStep ==
  ASSUME IInv, NEW b \in Branch, DeleteBranch(b)
  PROVE  IInv'
<1> USE DEF IInv
<1>1. /\ b # Base /\ refs' = [refs EXCEPT ![b] = NoRef] /\ removed' = removed \cup {b}
      /\ others' = others + 1 /\ others < MaxOthers
      /\ UNCHANGED <<commits, writable, wire, request, phase, attempt, error, wrote, faults>>
      /\ UNCHANGED <<baseSha, parent, pending, sha, report, number>>
  BY DEF DeleteBranch, locals
<1>2. Steady
  <2>1. HeadsOK'
    BY <1>1 DEF HeadsOK, TypeOK, NoRef
  <2>2. Forward
    BY <1>1 DEF Forward, TypeOK
  <2>3. QED
    BY <1>1, <2>1, <2>2 DEF Steady, Extends, HistoryOK, Known
<1> DEFINE Close(n) == IF pulls[n].head = b THEN [pulls[n] EXCEPT !.open = FALSE]
                       ELSE pulls[n]
<1>3. pulls' = [n \in 1..Len(pulls) |-> Close(n)] /\ Len(pulls) \in Nat
  BY DEF DeleteBranch, TypeOK
<1>4. ASSUME NEW n \in 1..Len(pulls)
      PROVE  Close(n) \in Pull /\ PullOK(Close(n))
  <2>1. pulls[n] \in Pull /\ PullOK(pulls[n])
    BY DEF TypeOK, PullsOK
  <2>2. QED
    BY <2>1 DEF Pull, PullOK
<1> HIDE DEF Close
<1>5. pulls' \in Seq(Pull) /\ DOMAIN pulls' = 1..Len(pulls)
  BY <1>3, <1>4, IsASeq
<1>6. PullsOK'
  <2>1. ASSUME NEW n \in 1..Len(pulls)
        PROVE  PullOK(pulls[n])'
    <3>1. PICK pr : pr = pulls'[n] /\ PullOK(pr)
      BY <1>3, <1>4
    <3>2. PullOK(pr)'
      BY <1>2, <3>1, PullStable
    <3>3. QED
      BY <3>1, <3>2 DEF PullOK
  <2>2. QED
    BY <1>5, <2>1 DEF PullsOK
<1>7. TypeOK'
  BY <1>1, <1>5, ConstantsAssumption DEF TypeOK, NoRef
<1>8. FlowsOK'
  BY <1>1, <1>2, SameFlow DEF FlowsOK
<1>9. WireOK' /\ AuthorsOK'
  BY <1>1, <1>2, WireStable, AuthorsStable
<1>10. QED
  BY <1>2, <1>6, <1>7, <1>8, <1>9 DEF Steady

LEMMA RevokeStep ==
  ASSUME IInv, Revoke
  PROVE  IInv'
<1> USE DEF IInv
<1>1. /\ UNCHANGED <<commits, refs, pulls, wire, request, phase, removed>>
      /\ UNCHANGED <<baseSha, parent, pending, sha, report, number>>
  BY DEF Revoke, locals
<1>2. Steady
  BY <1>1, SameRepository
<1>3. TypeOK'
  <2>1. /\ writable' = FALSE /\ others' \in 0..MaxOthers
        /\ UNCHANGED <<attempt, error, wrote, faults>>
    BY ConstantsAssumption DEF Revoke, TypeOK
  <2>2. QED
    BY <1>1, <2>1 DEF TypeOK
<1>4. FlowsOK'
  BY <1>1, <1>2, SameFlow DEF FlowsOK
<1>5. WireOK' /\ AuthorsOK' /\ PullsOK'
  BY <1>1, <1>2, WireStable, AuthorsStable, PullsStable
<1>6. QED
  BY <1>2, <1>3, <1>4, <1>5 DEF Steady

LEMMA NextIInv == IInv /\ [Next]_vars => IInv'
<1> SUFFICES ASSUME IInv, [Next]_vars PROVE IInv'
  OBVIOUS
<1>1. ASSUME NEW c \in Client, Call(c) \/ Answer(c) \/ ProbeFault(c) \/ Fault(c)
      PROVE  IInv'
  BY <1>1, CallStep, VerifyPermissionsStep, ReadBaseStep, ProbeStep, CreateRefStep,
     ReadBranchStep, GetCommitStep, CreateBlobStep, CreateTreeStep,
     CreateCommitStep, UpdateRefStep, CreatePullStep, FaultStep DEF Answer
<1>2. CASE Outside
  BY <1>2, LateStep, PushStep, DeleteBranchStep, RevokeStep DEF Outside
<1>3. CASE UNCHANGED vars
  <2>1. Steady
    BY <1>3, SameRepository DEF vars
  <2>2. TypeOK'
    BY <1>3 DEF vars, IInv, TypeOK
  <2>3. FlowsOK'
    BY <1>3, <2>1, SameFlow DEF vars, IInv, FlowsOK
  <2>4. WireOK' /\ AuthorsOK' /\ PullsOK'
    BY <1>3, <2>1, WireStable, AuthorsStable, PullsStable DEF vars
  <2>5. QED
    BY <2>1, <2>2, <2>3, <2>4 DEF IInv, Steady
<1>4. QED
  BY <1>1, <1>2, <1>3 DEF Next

-----------------------------------------------------------------------------
(* What one step is to the repository *)

\* A call GitHub may perform now: one a flow awaits, or one that is late.
Sent(w) ==
  \/ w \in wire
  \/ \E c \in Client : phase[c] \in RefWriting /\ w = Write(c, phase[c])

Opened == {c \in Client : phase[c] = "opened"}

Performed(w) ==
  /\ Sent(w) /\ Accepts(w) /\ Perform(w)
  /\ UNCHANGED <<commits, removed, request>>
  /\ Opened' = Opened \/ (w.call = "createPull" /\ Opened' = Opened \cup {w.by})

\* The repository may gain a commit, which no branch has yet.
Quiet ==
  /\ UNCHANGED <<refs, pulls, removed, request>>
  /\ Extends /\ Opened' = Opened

LEMMA SentOK ==
  ASSUME IInv, NEW w, Sent(w)
  PROVE  w \in WriteCall /\ CallOK(w)
BY WriteOK DEF Sent, IInv, TypeOK, WireOK

LEMMA AppendExtends ==
  ASSUME TypeOK, NEW new, commits' = Append(commits, new)
  PROVE  Extends
<1>1. commits \in Seq(Commit \cup {new}) /\ Len(commits) \in Nat
  BY DEF TypeOK
<1>2. Len(commits') = Len(commits) + 1 /\ \A i \in Known : commits'[i] = commits[i]
  BY <1>1, AppendProperties DEF Known
<1>3. QED
  BY <1>1, <1>2 DEF Extends, Known

\* Every step performs a call, is a push or a deletion by somebody else, or
\* leaves branches and pull requests alone.
LEMMA NextShape ==
  ASSUME IInv, [Next]_vars
  PROVE  \/ Quiet
         \/ \E w : Performed(w)
         \/ \E b \in Branch, p \in Path, v \in Content \cup {NoContent} : Push(b, p, v)
         \/ \E b \in Branch : DeleteBranch(b)
<1>0. TypeOK
  BY DEF IInv
<1>1. ASSUME NEW c \in Client,
             \/ Call(c) \/ VerifyPermissions(c) \/ ReadBase(c) \/ Probe(c)
             \/ ProbeFault(c) \/ ReadBranch(c) \/ GetCommit(c) \/ CreateTree(c)
             \/ Fault(c) \/ \E e \in pending[c] : CreateBlob(c, e)
      PROVE  Quiet
  <2>1. UNCHANGED <<commits, refs, pulls, removed, request>>
    BY <1>1 DEF Call, VerifyPermissions, ReadBase, Probe, ProbeFault, ReadBranch,
       GetCommit, CreateTree, CreateBlob, Fault, server, history
  <2>2. phase[c] # "opened" /\ phase'[c] # "opened"
    BY <1>0, <1>1 DEF TypeOK, Call, VerifyPermissions, ReadBase, Probe, ProbeFault,
       ReadBranch, GetCommit, CreateTree, CreateBlob, Fault, Throw, Goto, Awaiting,
       Reading, RefWriting
  <2>3. \A d \in Client \ {c} : phase'[d] = phase[d]
    BY <1>0, <1>1 DEF TypeOK, Call, VerifyPermissions, ReadBase, Probe, ProbeFault,
       ReadBranch, GetCommit, CreateTree, CreateBlob, Fault, Throw, Goto
  <2>4. QED
    BY <2>1, <2>2, <2>3 DEF Quiet, Opened, Extends, Known
<1>2. ASSUME NEW c \in Client, CreateRef(c) \/ UpdateRef(c) \/ CreatePull(c)
      PROVE  Quiet \/ \E w : Performed(w)
  <2>1. \A d \in Client \ {c} : phase'[d] = phase[d]
    BY <1>0, <1>2 DEF TypeOK, CreateRef, UpdateRef, CreatePull, Throw, Goto
  <2>2. CASE phase'[c] = "failed"
    <3>1. UNCHANGED <<commits, refs, pulls, removed, request>> /\ phase[c] # "opened"
      BY <1>0, <1>2, <2>2 DEF TypeOK, CreateRef, UpdateRef, CreatePull, Goto
    <3>2. QED
      BY <2>1, <2>2, <3>1 DEF Quiet, Opened, Extends, Known
  <2>3. CASE phase'[c] # "failed"
    <3>1. PICK call \in RefWriting :
            /\ phase[c] = call /\ Accepts(Write(c, call)) /\ Perform(Write(c, call))
            /\ phase'[c] = "opened" => call = "createPull"
      BY <1>0, <1>2, <2>3
      DEF TypeOK, CreateRef, UpdateRef, CreatePull, Goto, Throw, RefWriting
    <3>2. UNCHANGED <<commits, removed, request>>
      BY <1>2 DEF CreateRef, UpdateRef, CreatePull
    <3>3. Write(c, call).call = call /\ Write(c, call).by = c /\ phase[c] # "opened"
      BY <3>1 DEF Write, RefWriting
    <3>4. Opened' = Opened \/ (call = "createPull" /\ Opened' = Opened \cup {c})
      BY <2>1, <3>1, <3>3 DEF Opened
    <3>5. Performed(Write(c, call))
      BY <3>1, <3>2, <3>3, <3>4 DEF Performed, Sent
    <3>6. QED
      BY <3>5
  <2>4. QED
    BY <2>2, <2>3
<1>3. ASSUME NEW c \in Client, CreateCommit(c)
      PROVE  Quiet
  <2>1. Extends
    <3>1. CASE commits' = commits
      BY <3>1 DEF Extends, Known
    <3>2. QED
      BY <1>0, <1>3, <3>1, AppendExtends DEF CreateCommit
  <2>2. UNCHANGED <<refs, pulls, removed, request>> /\ Opened' = Opened
    BY <1>0, <1>3 DEF TypeOK, CreateCommit, Throw, Goto, Opened
  <2>3. QED
    BY <2>1, <2>2 DEF Quiet
<1>4. ASSUME NEW w \in wire, Late(w)
      PROVE  Quiet \/ \E u : Performed(u)
  <2>1. UNCHANGED <<commits, removed, request, phase>>
    BY <1>4 DEF Late
  <2>2. CASE Accepts(w) /\ Perform(w)
    BY <2>1, <2>2 DEF Performed, Sent, Opened
  <2>3. CASE UNCHANGED <<refs, pulls>>
    BY <2>1, <2>3 DEF Quiet, Extends, Known, Opened
  <2>4. QED
    BY <1>4, <2>2, <2>3 DEF Late
<1>5. CASE Revoke \/ UNCHANGED vars
  BY <1>5 DEF Revoke, vars, Quiet, Extends, Known, Opened
<1>6. QED
  BY <1>1, <1>2, <1>3, <1>4, <1>5 DEF Next, Outside, Answer

\* A pull request keeps who asked for it, its branch and the commit it proposed.
PullsKept ==
  \A n \in DOMAIN pulls :
    /\ n \in DOMAIN pulls'
    /\ pulls'[n].by = pulls[n].by /\ pulls'[n].head = pulls[n].head
    /\ pulls'[n].at = pulls[n].at

\* Whoever acts, commits and pull requests stay what they are and branches that
\* are not deleted move forward.
LEMMA NextSteady ==
  ASSUME IInv, [Next]_vars
  PROVE  Steady /\ PullsKept
<1> USE DEF IInv
<1>1. HistoryOK' /\ HeadsOK'
  BY NextIInv
<1>2. CASE Quiet
  BY <1>1, <1>2 DEF Quiet, Steady, Forward, PullsKept, HeadsOK
<1>3. ASSUME NEW w, Performed(w)
      PROVE  Steady /\ PullsKept
  <2>1. Steady
    BY <1>3, SentOK, PerformOK DEF Performed
  <2>2. CASE w.call = "createPull"
    <3>1. PICK pr : pulls' = Append(pulls, pr)
      BY <1>3, <2>2 DEF Performed, Perform
    <3>2. pulls \in Seq(Pull \cup {pr})
      BY DEF TypeOK
    <3>3. \A n \in DOMAIN pulls : n \in DOMAIN pulls' /\ pulls'[n] = pulls[n]
      BY <3>1, <3>2, AppendProperties
    <3>4. QED
      BY <2>1, <3>3 DEF PullsKept
  <2>3. CASE w.call # "createPull"
    BY <1>3, <2>1, <2>3 DEF Performed, Perform, PullsKept
  <2>4. QED
    BY <2>2, <2>3
<1>4. ASSUME NEW b \in Branch, NEW p \in Path, NEW v \in Content \cup {NoContent},
             Push(b, p, v)
      PROVE  Steady /\ PullsKept
  <2>1. Extends /\ UNCHANGED <<removed, request, pulls>>
    BY <1>4, AppendExtends DEF Push
  <2> DEFINE new == [past |-> Reach(refs[b]), by |-> Other,
                     tree |-> [commits[refs[b]].tree EXCEPT ![p] = v]]
  <2> DEFINE n == Len(commits) + 1
  <2>2. commits' = Append(commits, new) /\ refs' = [refs EXCEPT ![b] = n]
    BY <1>4 DEF Push
  <2>3. refs[b] \in new.past
    BY DEF Reach
  <2> HIDE DEF new
  <2>4. commits \in Seq(Commit \cup {new}) /\ Len(commits) \in Nat
    BY DEF TypeOK
  <2>5. commits'[n] = new /\ n # NoRef
    BY <2>2, <2>4, AppendProperties DEF NoRef
  <2> HIDE DEF n
  <2>6. Forward
    BY <2>2, <2>3, <2>5 DEF Forward, TypeOK
  <2>7. QED
    BY <1>1, <2>1, <2>6 DEF Steady, PullsKept
<1>5. ASSUME NEW b \in Branch, DeleteBranch(b)
      PROVE  Steady /\ PullsKept
  <2>1. UNCHANGED <<commits, request>> /\ removed' = removed \cup {b}
        /\ refs' = [refs EXCEPT ![b] = NoRef]
    BY <1>5 DEF DeleteBranch
  <2>2. Extends /\ Forward
    BY <2>1 DEF Extends, Known, Forward, TypeOK
  <2>3. PullsKept
    BY <1>5 DEF DeleteBranch, PullsKept, TypeOK, Pull
  <2>4. QED
    BY <1>1, <2>1, <2>2, <2>3 DEF Steady
<1>6. QED
  BY <1>2, <1>3, <1>4, <1>5, NextShape

-----------------------------------------------------------------------------
(* The theorems *)

LEMMA Invariance == Spec => []IInv
<1>1. QED
  BY InitIInv, NextIInv, PTL DEF Spec

\* Every variable keeps its type in every behaviour of the flows, the network
\* and the other writers.
THEOREM TypeCorrect == Spec => []TypeOK
<1>1. IInv => TypeOK
  BY DEF IInv
<1>2. QED
  BY <1>1, Invariance, PTL

\* Every pull request, also one opened by a call that arrived late, was opened
\* on a branch that held a commit of the flow that asked for it.
THEOREM PullCarriesWorkTheorem == Spec => []PullCarriesWork
<1>1. IInv => PullCarriesWork
  BY DEF IInv, PullsOK, PullOK, PullCarriesWork
<1>2. QED
  BY <1>1, Invariance, PTL

\* A head that a flow's commit replaces is the commit's own parent: history is
\* acyclic, the parent is in the head's history, and the head in the commit's.
LEMMA PerformLands ==
  ASSUME IInv, NEW w \in WriteCall, CallOK(w), Accepts(w), Perform(w),
         NEW b \in Branch \ removed, refs[b] # NoRef, refs'[b] # refs[b]
  PROVE  /\ refs'[b] \in Known /\ commits[refs'[b]].past = Reach(refs[b])
         /\ commits[refs'[b]].tree = Overlay(commits[refs[b]].tree,
                                             Entries(request[commits[refs'[b]].by]))
<1> USE DEF IInv
<1>1. w.call # "createPull" /\ w.branch = b /\ refs'[b] = w.sha
  BY DEF Perform, TypeOK, WriteCall
<1>2. w.call = "updateRef" /\ refs[b] \in Reach(w.sha)
  BY <1>1 DEF Accepts, Forced, FastForward
<1>3. w.sha \in Known /\ commits[w.sha].by = w.by /\ w.by \in Client
      /\ request[w.by].branch = b
  BY <1>1, <1>2 DEF CallOK, WriteCall
<1>4. PICK j \in Known : BuiltOn(w.sha, w.by, j) /\ On(w.by, j)
  BY <1>3 DEF AuthorsOK
<1>5. j \in Reach(refs[b]) /\ refs[b] \in Known
  BY <1>3, <1>4 DEF On, HeadsOK, Known, NoRef
<1>6. refs[b] \in Reach(j)
  BY <1>1, <1>2, <1>4 DEF BuiltOn, Reach
<1>7. j = refs[b]
  <2>1. j \in 1..refs[b]
    BY <1>5, ReachKnown DEF TypeOK
  <2>2. refs[b] \in 1..j
    BY <1>6, ReachKnown DEF TypeOK
  <2>3. j \in Int /\ refs[b] \in Int
    BY <1>5 DEF Known
  <2>4. QED
    BY <2>1, <2>2, <2>3
<1>8. /\ commits[w.sha].past = Reach(refs[b])
      /\ commits[w.sha].tree = Overlay(commits[refs[b]].tree, Entries(request[w.by]))
  BY <1>4, <1>7 DEF BuiltOn
<1>9. QED
  BY <1>1, <1>3, <1>8

\* When a flow moves a branch nobody deleted, all its files land on top of the
\* head they replace, and nothing committed in between is lost.
THEOREM LandsWholeTheorem == Spec => LandsWhole
<1> DEFINE Lands(b) ==
      (refs[b] \notin {NoRef, refs'[b]} /\ refs'[b] # NoRef
         /\ commits'[refs'[b]].by \in Client)
      => commits'[refs'[b]].tree =
           Overlay(commits[refs[b]].tree, Entries(request[commits'[refs'[b]].by]))
<1>1. ASSUME IInv, Next, NEW b \in Branch \ removed
      PROVE  Lands(b)
  <2> SUFFICES ASSUME refs[b] # NoRef, refs'[b] # refs[b], refs'[b] # NoRef,
                      commits'[refs'[b]].by \in Client
               PROVE  commits'[refs'[b]].tree =
                        Overlay(commits[refs[b]].tree,
                                Entries(request[commits'[refs'[b]].by]))
    OBVIOUS
  <2>1. ASSUME NEW w, Performed(w)
        PROVE  commits'[refs'[b]].tree =
                 Overlay(commits[refs[b]].tree, Entries(request[commits'[refs'[b]].by]))
    BY <1>1, <2>1, SentOK, PerformLands DEF Performed
  <2>2. ~Quiet
    BY DEF Quiet
  <2>3. ASSUME NEW d \in Branch, NEW p \in Path, NEW v \in Content \cup {NoContent},
               Push(d, p, v)
        PROVE  FALSE
    <3>1. refs'[b] = Len(commits) + 1 /\ Len(commits) \in Nat
      BY <1>1, <2>3 DEF Push, IInv, TypeOK
    <3> DEFINE new == [past |-> Reach(refs[d]), by |-> Other,
                       tree |-> [commits[refs[d]].tree EXCEPT ![p] = v]]
    <3>2. commits' = Append(commits, new) /\ new.by = Other
      BY <2>3 DEF Push
    <3> HIDE DEF new
    <3>3. commits'[Len(commits) + 1] = new
      BY <1>1, <3>2 DEF IInv, TypeOK
    <3>4. QED
      BY <3>1, <3>2, <3>3, ConstantsAssumption
  <2>4. ASSUME NEW d \in Branch, DeleteBranch(d)
        PROVE  FALSE
    BY <1>1, <2>4 DEF DeleteBranch, IInv, TypeOK
  <2>5. QED
    BY <1>1, <2>1, <2>2, <2>3, <2>4, NextShape
<1>2. IInv /\ [Next]_vars => [\A b \in Branch \ removed : Lands(b)]_vars
  BY <1>1
<1>3. QED
  BY <1>2, Invariance, PTL DEF Spec, LandsWhole

-----------------------------------------------------------------------------
(* Nothing is written without an opt-out *)

Writing == {"readBase", "probe", "createRef", "readBranch", "getCommit", "blobs",
            "createCommit", "updateRef", "createPull", "opened"}

OptedOut(c) == request[c].dryRun = "no"

OptOutInv ==
  /\ \A c \in Client : phase[c] \in Writing => OptedOut(c)
  /\ \A w \in wire : OptedOut(w.by)
  /\ OptOutBeforeWrite

LEMMA PerformOptedOut ==
  ASSUME TypeOK, OptOutInv, NEW w \in WriteCall, OptedOut(w.by), Perform(w),
         wire' \subseteq wire, request' = request
  PROVE  OptOutBeforeWrite'
<1>1. w.by \in Client
  BY DEF WriteCall
<1>2. \A c \in wrote' \cup {u.by : u \in wire'} : request'[c].dryRun = "no"
  BY DEF OptOutInv, OptOutBeforeWrite, OptedOut, Perform
<1>3. ASSUME NEW n \in DOMAIN pulls'
      PROVE  /\ request[pulls'[n].by].dryRun = "no"
             /\ ~pulls'[n].draft => request[pulls'[n].by].draft = "no"
  <2>1. CASE w.call = "createPull"
    <3> DEFINE pr == [head |-> w.branch, by |-> w.by, open |-> TRUE,
                      draft |-> Draft(request[w.by]), at |-> refs[w.branch]]
    <3>1. pulls' = Append(pulls, pr)
      BY <2>1 DEF Perform
    <3>2. pr.by = w.by /\ pr.draft = (request[w.by].draft # "no")
      BY DEF Draft
    <3> HIDE DEF pr
    <3>3. pulls'[n] = pr \/ (n \in DOMAIN pulls /\ pulls'[n] = pulls[n])
      BY <1>3, <3>1 DEF TypeOK
    <3>4. QED
      BY <3>2, <3>3 DEF OptOutInv, OptOutBeforeWrite, OptedOut
  <2>2. CASE w.call # "createPull"
    BY <1>3, <2>2 DEF Perform, OptOutInv, OptOutBeforeWrite
  <2>3. QED
    BY <2>1, <2>2
<1>4. QED
  BY <1>2, <1>3 DEF OptOutBeforeWrite

LEMMA OptOutStep ==
  ASSUME IInv, OptOutInv, [Next]_vars
  PROVE  OptOutInv'
<1> USE DEF OptedOut
<1>0. TypeOK
  BY DEF IInv
<1>1. request' = request
  BY DEF Next, Outside, Answer, Call, VerifyPermissions, ReadBase, Probe, ProbeFault,
     CreateRef, ReadBranch, GetCommit, CreateBlob, CreateTree, CreateCommit, UpdateRef,
     CreatePull, Fault, Late, Push, DeleteBranch, Revoke, server, vars
<1>2. ASSUME NEW c \in Client, ~UNCHANGED <<phase, wire, wrote, pulls>>,
             Call(c) \/ Answer(c) \/ ProbeFault(c) \/ Fault(c)
      PROVE  OptOutInv'
  <2>1. \A d \in Client : phase'[d] \in Writing => OptedOut(d)
    <3>1. \A d \in Client \ {c} : phase'[d] = phase[d]
      BY <1>0, <1>2 DEF TypeOK, Answer, Call, VerifyPermissions, ReadBase, Probe,
         ProbeFault, CreateRef, ReadBranch, GetCommit, CreateBlob, CreateTree,
         CreateCommit, UpdateRef, CreatePull, Fault, Throw, Goto
    <3>2. phase'[c] \in Writing => OptedOut(c)
      BY <1>0, <1>2 DEF TypeOK, Answer, Call, VerifyPermissions, ReadBase, Probe,
         ProbeFault, CreateRef, ReadBranch, GetCommit, CreateBlob, CreateTree,
         CreateCommit, UpdateRef, CreatePull, Fault, Throw, Goto, Writing, OptOutInv,
         DryRun
    <3>3. QED
      BY <3>1, <3>2 DEF OptOutInv
  <2>2. CASE CreateRef(c) \/ UpdateRef(c) \/ CreatePull(c)
    <3>1. \A w \in wire' : w \in wire
      BY <2>2 DEF CreateRef, UpdateRef, CreatePull
    <3>2. PICK call \in RefWriting :
            /\ phase[c] = call
            /\ \/ Perform(Write(c, call))
               \/ UNCHANGED <<pulls, wrote>>
      BY <2>2 DEF CreateRef, UpdateRef, CreatePull, RefWriting
    <3>3. Write(c, call) \in WriteCall /\ Write(c, call).by = c
      BY <3>2, WriteOK DEF Write
    <3>4. OptedOut(c)
      BY <3>2 DEF OptOutInv, RefWriting, Writing
    <3>5. OptOutBeforeWrite'
      <4>1. CASE Perform(Write(c, call))
        BY <1>0, <1>1, <3>1, <3>3, <3>4, <4>1, PerformOptedOut
      <4>2. CASE UNCHANGED <<pulls, wrote>>
        BY <1>1, <3>1, <4>2 DEF OptOutInv, OptOutBeforeWrite
      <4>3. QED
        BY <3>2, <4>1, <4>2
    <3>6. QED
      BY <1>1, <2>1, <3>1, <3>5 DEF OptOutInv
  <2>3. CASE CreateTree(c) \/ CreateCommit(c) \/ (\E e \in pending[c] : CreateBlob(c, e))
    <3>1. UNCHANGED <<wire, pulls>> /\ wrote' \subseteq wrote \cup {c} /\ OptedOut(c)
      BY <2>3 DEF CreateTree, CreateCommit, CreateBlob, server, OptOutInv, Writing
    <3>2. QED
      BY <1>1, <2>1, <3>1 DEF OptOutInv, OptOutBeforeWrite
  <2>4. CASE Fault(c)
    <3>1. UNCHANGED <<pulls, wrote>>
      BY <2>4 DEF Fault
    <3>2. wire' = wire \/ (phase[c] \in RefWriting /\ wire' = wire \cup {Write(c, phase[c])})
      BY <2>4 DEF Fault
    <3>3. \A w \in wire' : OptedOut(w.by)
      BY <3>2 DEF OptOutInv, RefWriting, Writing, Write
    <3>4. QED
      BY <1>1, <2>1, <3>1, <3>3 DEF OptOutInv, OptOutBeforeWrite
  <2>5. CASE \/ Call(c) \/ VerifyPermissions(c) \/ ReadBase(c) \/ Probe(c)
             \/ ProbeFault(c) \/ ReadBranch(c) \/ GetCommit(c)
    <3>1. UNCHANGED <<wire, pulls, wrote>>
      BY <2>5 DEF Call, VerifyPermissions, ReadBase, Probe, ProbeFault, ReadBranch,
         GetCommit, server, history
    <3>2. QED
      BY <1>1, <2>1, <3>1 DEF OptOutInv, OptOutBeforeWrite
  <2>6. QED
    BY <1>2, <2>2, <2>3, <2>4, <2>5 DEF Answer
<1>3. ASSUME NEW w \in wire, Late(w)
      PROVE  OptOutInv'
  <2>1. phase' = phase /\ wire' \subseteq wire
    BY <1>3 DEF Late
  <2>2. w \in WriteCall /\ OptedOut(w.by)
    BY <1>0 DEF TypeOK, OptOutInv
  <2>3. OptOutBeforeWrite'
    <3>1. CASE Perform(w)
      BY <1>0, <1>1, <2>1, <2>2, <3>1, PerformOptedOut
    <3>2. CASE UNCHANGED <<pulls, wrote>>
      BY <1>1, <2>1, <3>2 DEF OptOutInv, OptOutBeforeWrite
    <3>3. QED
      BY <1>3, <3>1, <3>2 DEF Late
  <2>4. QED
    BY <1>1, <2>1, <2>3 DEF OptOutInv
<1>4. ASSUME NEW b \in Branch, DeleteBranch(b)
      PROVE  OptOutInv'
  <2>1. UNCHANGED <<phase, wire, wrote>> /\ DOMAIN pulls' = DOMAIN pulls
    BY <1>4 DEF DeleteBranch
  <2>2. \A n \in DOMAIN pulls : pulls'[n].by = pulls[n].by /\ pulls'[n].draft = pulls[n].draft
    BY <1>0, <1>4 DEF DeleteBranch, TypeOK, Pull
  <2>3. QED
    BY <1>1, <2>1, <2>2 DEF OptOutInv, OptOutBeforeWrite
<1>5. CASE UNCHANGED <<phase, wire, wrote, pulls>>
  BY <1>1, <1>5 DEF OptOutInv, OptOutBeforeWrite
<1>6. (Revoke \/ UNCHANGED vars \/ \E b \in Branch, p \in Path, v \in Content \cup {NoContent} :
          Push(b, p, v)) => UNCHANGED <<phase, wire, wrote, pulls>>
  BY DEF Revoke, vars, Push
<1>7. QED
  BY <1>2, <1>3, <1>4, <1>5, <1>6 DEF Next, Outside

\* Nothing of a flow reaches the repository, early or late, unless its caller
\* turned dryRun off, and every pull request is a draft unless draft was too.
THEOREM OptOutTheorem == Spec => []OptOutBeforeWrite
<1>1. Init => OptOutInv
  BY DEF Init, OptOutInv, OptOutBeforeWrite, Writing
<1>2. IInv /\ OptOutInv /\ [Next]_vars => OptOutInv'
  BY OptOutStep
<1>3. OptOutInv => OptOutBeforeWrite
  BY DEF OptOutInv
<1>4. QED
  BY <1>1, <1>2, <1>3, Invariance, PTL DEF Spec

-----------------------------------------------------------------------------
(* What a finished flow reports *)

\* Every changed path is in the report or its blob is still awaited.
ListOK(c) ==
  /\ report[c].deleted = PathSet(Deletions(request[c]))
  /\ PathSet(Blobs(request[c])) \subseteq report[c].modified \cup PathSet(pending[c])

OpenedOK(c) ==
  /\ number[c] \in DOMAIN pulls
  /\ pulls[number[c]].by = c /\ pulls[number[c]].head = request[c].branch
  /\ request[c].branch \notin removed => sha[c] \in Reach(pulls[number[c]].at)

Committed == {"updateRef", "createPull", "opened"}
Treed == {"createCommit"} \cup Committed

\* The report is not about the repository until the tree was made of the parent,
\* and the parent may be long replaced when the pull request is opened: what
\* the flow knows of both is carried from call to call.
ReportOK(c) ==
  /\ phase[c] \in {"blobs"} \cup Treed => ListOK(c)
  /\ phase[c] \in Treed => /\ pending[c] = {} /\ parent[c] \in Known
                           /\ Deletable(commits[parent[c]].tree, request[c])
  /\ phase[c] \in Committed => BuiltOn(sha[c], c, parent[c])
  /\ phase[c] = "opened" => OpenedOK(c)

ReportsOK == \A c \in Client : ReportOK(c)

\* A flow that does not move keeps what it knows, whatever others do.
LEMMA ReportStable ==
  ASSUME IInv, Steady, PullsKept, NEW d \in Client, ReportOK(d),
         phase'[d] = phase[d], parent'[d] = parent[d], pending'[d] = pending[d],
         sha'[d] = sha[d], report'[d] = report[d], number'[d] = number[d]
  PROVE  ReportOK(d)'
<1> USE DEF IInv
<1>1. request' = request /\ \A i \in Known : i \in Known' /\ commits'[i] = commits[i]
  BY DEF Steady, Extends
<1>2. \A i \in Known : Reach(i)' = Reach(i)
  BY ReachStable DEF Steady
<1>3. phase[d] \in Committed => sha[d] \in Known
  BY DEF FlowsOK, FlowOK, Committed
<1>4. phase'[d] \in {"blobs"} \cup Treed => ListOK(d)'
  BY <1>1 DEF ReportOK, ListOK
<1>5. phase'[d] \in Treed => /\ pending'[d] = {} /\ parent'[d] \in Known'
                            /\ Deletable(commits'[parent'[d]].tree, request'[d])
  BY <1>1 DEF ReportOK
<1>6. phase'[d] \in Committed => BuiltOn(sha[d], d, parent[d])'
  <2> SUFFICES ASSUME phase[d] \in Committed
               PROVE  BuiltOn(sha[d], d, parent[d])'
    OBVIOUS
  <2>1. BuiltOn(sha[d], d, parent[d]) /\ sha[d] \in Known /\ parent[d] \in Known
    BY <1>3 DEF ReportOK, Treed
  <2>2. commits'[sha[d]] = commits[sha[d]] /\ commits'[parent[d]] = commits[parent[d]]
    BY <1>1, <2>1
  <2>3. commits'[sha[d]].past = {parent'[d]} \cup commits'[parent'[d]].past
    BY <2>1, <2>2 DEF BuiltOn, Reach
  <2>4. commits'[sha[d]].tree = Overlay(commits'[parent'[d]].tree, Entries(request'[d]))
    BY <1>1, <2>1, <2>2 DEF BuiltOn
  <2>5. QED
    BY <2>3, <2>4 DEF BuiltOn, Reach
<1>7. phase'[d] = "opened" => OpenedOK(d)'
  <2> SUFFICES ASSUME phase[d] = "opened"
               PROVE  OpenedOK(d)'
    OBVIOUS
  <2>1. OpenedOK(d)
    BY DEF ReportOK
  <2> DEFINE n == number[d]
  <2>2. /\ n \in DOMAIN pulls' /\ pulls'[n].by = d /\ pulls'[n].head = request[d].branch
        /\ pulls'[n].at = pulls[n].at /\ pulls[n].at \in Known
    BY <2>1 DEF OpenedOK, PullsKept, PullsOK, PullOK
  <2>3. request[d].branch \notin removed' => sha[d] \in Reach(pulls[n].at)
    BY <2>1 DEF OpenedOK, Steady
  <2>4. commits'[pulls[n].at] = commits[pulls[n].at]
    BY <1>1, <2>2
  <2>5. QED
    BY <1>1, <2>2, <2>3, <2>4 DEF OpenedOK, Reach
<1>8. QED
  BY <1>4, <1>5, <1>6, <1>7 DEF ReportOK

LEMMA ListStep ==
  ASSUME IInv, ReportsOK, NEW c \in Client,
         GetCommit(c) \/ \E e \in pending[c] : CreateBlob(c, e)
  PROVE  ReportOK(c)'
<1> USE DEF IInv
<1>1. TypeOK /\ request' = request /\ ReportOK(c)
  BY DEF ReportsOK, GetCommit, CreateBlob, server
<1>2. CASE GetCommit(c)
  <2>1. /\ phase'[c] = "blobs" /\ pending'[c] = Blobs(request[c])
        /\ report'[c].deleted = PathSet(Deletions(request[c]))
    BY <1>1, <1>2 DEF GetCommit, Goto, TypeOK, Report
  <2>2. QED
    BY <1>1, <2>1 DEF ReportOK, ListOK, Treed, Committed
<1>3. ASSUME NEW e \in pending[c], CreateBlob(c, e)
      PROVE  ReportOK(c)'
  <2>1. CASE ~writable
    BY <1>1, <1>3, <2>1 DEF CreateBlob, Throw, Goto, TypeOK, ReportOK, Treed, Committed
  <2>2. CASE writable
    <3>1. /\ phase[c] = "blobs" /\ phase'[c] = "blobs" /\ pending'[c] = pending[c] \ {e}
          /\ report' = [report EXCEPT ![c].modified = @ \cup {e.path}]
      BY <1>1, <1>3, <2>2 DEF CreateBlob, TypeOK
    <3>2. /\ report'[c].modified = report[c].modified \cup {e.path}
          /\ report'[c].deleted = report[c].deleted
      BY <1>1, <3>1 DEF TypeOK, Report
    <3>3. PathSet(pending[c]) \subseteq PathSet(pending'[c]) \cup {e.path}
      BY <3>1 DEF PathSet
    <3>4. ListOK(c)
      BY <1>1, <3>1 DEF ReportOK
    <3>5. QED
      BY <1>1, <3>1, <3>2, <3>3, <3>4 DEF ReportOK, ListOK, Treed, Committed
  <2>3. QED
    BY <2>1, <2>2
<1>4. QED
  BY <1>2, <1>3

LEMMA TreeStep ==
  ASSUME IInv, ReportsOK, NEW c \in Client, CreateTree(c)
  PROVE  ReportOK(c)'
<1> USE DEF IInv
<1>1. /\ UNCHANGED <<commits, request, parent, pending, sha, report>>
      /\ phase[c] = "blobs" /\ pending[c] = {}
  BY DEF CreateTree, locals, server, BlobsDone
<1>2. ListOK(c) /\ parent[c] \in Known
  BY <1>1 DEF ReportsOK, ReportOK, FlowsOK, FlowOK
<1>3. phase'[c] = "failed"
      \/ (phase'[c] = "createCommit" /\ Deletable(commits[parent[c]].tree, request[c]))
  BY DEF CreateTree, Throw, Goto, TypeOK
<1>4. QED
  BY <1>1, <1>2, <1>3 DEF ReportOK, ListOK, Treed, Committed, Known

LEMMA CommitStep ==
  ASSUME IInv, ReportsOK, Steady, NEW c \in Client, CreateCommit(c)
  PROVE  ReportOK(c)'
<1> USE DEF IInv
<1>1. /\ UNCHANGED <<request, parent, pending, report>> /\ phase[c] = "createCommit"
  BY DEF CreateCommit
<1>2. CASE ~writable
  BY <1>2 DEF CreateCommit, Throw, Goto, TypeOK, ReportOK, Treed, Committed
<1>3. CASE writable
  <2> DEFINE j == parent[c]
             n == Len(commits) + 1
             new == [past |-> Reach(j), by |-> c,
                     tree |-> Overlay(commits[j].tree, Entries(request[c]))]
  <2>1. commits' = Append(commits, new) /\ sha'[c] = n /\ phase'[c] = "updateRef"
    BY <1>3 DEF CreateCommit, Goto, TypeOK
  <2>2. new.past = Reach(j) /\ new.tree = Overlay(commits[j].tree, Entries(request[c]))
    OBVIOUS
  <2>3. /\ j \in Known /\ j \in Known' /\ commits'[j] = commits[j] /\ ListOK(c)
        /\ pending[c] = {} /\ Deletable(commits[j].tree, request[c])
    BY <1>1 DEF ReportsOK, ReportOK, Treed, Steady, Extends
  <2> HIDE DEF new
  <2>4. commits \in Seq(Commit \cup {new}) /\ Len(commits) \in Nat
    BY DEF TypeOK
  <2>5. commits'[n] = new
    BY <2>1, <2>4, AppendProperties
  <2> HIDE DEF n
  <2>6. BuiltOn(sha[c], c, parent[c])'
    <3>1. commits'[n].past = {j} \cup commits'[j].past
      BY <2>2, <2>3, <2>5 DEF Reach
    <3>2. commits'[n].tree = Overlay(commits'[j].tree, Entries(request'[c]))
      BY <1>1, <2>2, <2>3, <2>5, Zenon
    <3>3. QED
      BY <1>1, <2>1, <3>1, <3>2 DEF BuiltOn, Reach
  <2>7. QED
    BY <1>1, <2>1, <2>3, <2>6 DEF ReportOK, ListOK, Treed, Committed
<1>4. QED
  BY <1>2, <1>3

LEMMA RefStep ==
  ASSUME IInv, ReportsOK, Steady, NEW c \in Client, UpdateRef(c) \/ CreatePull(c)
  PROVE  ReportOK(c)'
<1> USE DEF IInv
<1>1. /\ UNCHANGED <<commits, request, parent, pending, sha, report, removed>>
      /\ phase[c] \in {"updateRef", "createPull"}
  BY DEF UpdateRef, CreatePull, locals
<1>2. /\ ListOK(c) /\ pending[c] = {} /\ parent[c] \in Known
      /\ Deletable(commits[parent[c]].tree, request[c]) /\ BuiltOn(sha[c], c, parent[c])
  BY <1>1 DEF ReportsOK, ReportOK, Treed, Committed
<1>3. /\ ListOK(c)' /\ pending'[c] = {} /\ parent'[c] \in Known'
      /\ Deletable(commits'[parent'[c]].tree, request'[c]) /\ BuiltOn(sha[c], c, parent[c])'
  BY <1>1, <1>2 DEF ListOK, Known, BuiltOn, Reach
<1>4. CASE phase'[c] # "opened"
  BY <1>3, <1>4 DEF ReportOK
<1>5. CASE phase'[c] = "opened"
  <2> DEFINE pr == [head |-> request[c].branch, by |-> c, open |-> TRUE,
                    draft |-> Draft(request[c]), at |-> refs[request[c].branch]]
             n == Len(pulls) + 1
  <2>1. CreatePull(c) /\ Perform(Write(c, "createPull")) /\ number'[c] = n
    BY <1>5 DEF UpdateRef, CreatePull, Throw, Goto, TypeOK
  <2>2. pulls' = Append(pulls, pr)
    BY <2>1 DEF Perform, Write
  <2>3. pr.by = c /\ pr.head = request[c].branch /\ pr.at = refs[request[c].branch]
    OBVIOUS
  <2> HIDE DEF pr
  <2>4. pulls \in Seq(Pull \cup {pr}) /\ Len(pulls) \in Nat
    BY DEF TypeOK
  <2>5. pulls'[n] = pr /\ n \in DOMAIN pulls'
    BY <2>2, <2>4, AppendProperties
  <2> HIDE DEF n
  <2>6. request[c].branch \notin removed => sha[c] \in Reach(pr.at)
    BY <2>1, <2>3 DEF CreatePull, FlowsOK, FlowOK, On
  <2>7. OpenedOK(c)'
    BY <1>1, <2>1, <2>3, <2>5, <2>6 DEF OpenedOK, Reach
  <2>8. QED
    BY <1>3, <2>7 DEF ReportOK
<1>6. QED
  BY <1>4, <1>5

LEMMA ReportStep ==
  ASSUME IInv, ReportsOK, [Next]_vars
  PROVE  ReportsOK'
<1>1. Steady /\ PullsKept
  BY NextSteady
<1>2. TypeOK
  BY DEF IInv
<1>3. ASSUME NEW c \in Client, Call(c) \/ Answer(c) \/ ProbeFault(c) \/ Fault(c)
      PROVE  ReportsOK'
  <2>1. \A d \in Client \ {c} :
           /\ phase'[d] = phase[d] /\ parent'[d] = parent[d] /\ pending'[d] = pending[d]
           /\ sha'[d] = sha[d] /\ report'[d] = report[d] /\ number'[d] = number[d]
    BY <1>2, <1>3
    DEF TypeOK, Answer, Call, VerifyPermissions, ReadBase, Probe, ProbeFault, CreateRef,
        ReadBranch, GetCommit, CreateBlob, CreateTree, CreateCommit, UpdateRef, CreatePull,
        Fault, Throw, Goto, locals
  <2>2. ASSUME NEW d \in Client, d # c
        PROVE  ReportOK(d)'
    BY <1>1, <2>1, <2>2, ReportStable DEF ReportsOK
  <2>3. CASE \/ GetCommit(c) \/ CreateTree(c) \/ CreateCommit(c) \/ UpdateRef(c)
             \/ CreatePull(c) \/ \E e \in pending[c] : CreateBlob(c, e)
    <3>1. ReportOK(c)'
      BY <1>1, <2>3, ListStep, TreeStep, CommitStep, RefStep
    <3>2. QED
      BY <2>2, <3>1 DEF ReportsOK
  <2>4. CASE \/ Call(c) \/ VerifyPermissions(c) \/ ReadBase(c) \/ Probe(c)
             \/ ProbeFault(c) \/ CreateRef(c) \/ ReadBranch(c) \/ Fault(c)
    <3>1. phase'[c] \notin {"blobs"} \cup Treed
      BY <1>2, <2>4
      DEF TypeOK, Call, VerifyPermissions, ReadBase, Probe, ProbeFault, CreateRef,
          ReadBranch, Fault, Throw, Goto, Treed, Committed
    <3>2. ReportOK(c)'
      BY <3>1 DEF ReportOK, Treed, Committed
    <3>3. QED
      BY <2>2, <3>2 DEF ReportsOK
  <2>5. QED
    BY <1>3, <2>3, <2>4 DEF Answer
<1>4. CASE Outside \/ UNCHANGED vars
  <2>1. UNCHANGED <<phase, parent, pending, sha, report, number>>
    BY <1>4 DEF Outside, Late, Push, DeleteBranch, Revoke, locals, vars
  <2>2. QED
    BY <1>1, <2>1, ReportStable DEF ReportsOK
<1>5. QED
  BY <1>3, <1>4 DEF Next

\* A file list names each path once, so a deleted path is gone from the tree,
\* whatever the other entries are.
LEMMA DeletedIsGone ==
  ASSUME NEW r \in Requests, NEW t \in Tree, NEW p \in PathSet(Deletions(r))
  PROVE  Overlay(t, Entries(r))[p] = NoContent
<1>1. PICK d \in Entries(r) : d.path = p /\ d.content = NoContent
  BY DEF PathSet, Deletions
<1>2. \A e \in Entries(r) : e.path = p => e.content = d.content
  <2> SUFFICES ASSUME NEW e \in Entries(r), e.path = p
               PROVE  e.content = d.content
    OBVIOUS
  <2> DEFINE EntryOf(f) ==
        [path |-> f.path,
         content |-> IF f.operation = "delete" THEN NoContent ELSE f.nextContent]
  <2>1. PICK f \in r.files : d = EntryOf(f)
    BY DEF Entries
  <2>2. PICK g \in r.files : e = EntryOf(g)
    BY DEF Entries
  <2>3. f.path = p /\ g.path = p
    BY <1>1, <2>1, <2>2
  <2>4. f = g
    BY <2>3, DistinctPaths
  <2>5. QED
    BY <2>1, <2>2, <2>4
<1>3. p \in Path /\ p \in PathSet(Entries(r))
  BY EntriesType DEF PathSet, Deletions
<1>4. (CHOOSE e \in Entries(r) : e.path = p) \in {e \in Entries(r) : e.path = p}
  BY <1>1
<1>5. QED
  BY <1>1, <1>2, <1>3, <1>4 DEF Overlay

\* What a finished flow reports is true of the repository, although every call
\* it relies on was answered at another time and others wrote in between.
THEOREM ReportTheorem == Spec => []ReportIsReal
<1>1. Init => ReportsOK
  BY DEF Init, ReportsOK, ReportOK, Treed, Committed
<1>2. IInv /\ ReportsOK /\ [Next]_vars => ReportsOK'
  BY ReportStep
<1>3. IInv /\ ReportsOK => ReportIsReal
  <2> SUFFICES ASSUME IInv, ReportsOK, NEW c \in Client, phase[c] = "opened"
               PROVE  LET before == commits[parent[c]].tree
                          after == commits[sha[c]].tree
                          files == report[c].created \cup report[c].modified
                                     \cup report[c].deleted
                      IN /\ number[c] \in DOMAIN pulls
                         /\ pulls[number[c]].by = c
                         /\ pulls[number[c]].head = request[c].branch
                         /\ commits[sha[c]].by = c
                         /\ request[c].branch \notin removed =>
                              sha[c] \in Reach(pulls[number[c]].at)
                         /\ {p \in Path : before[p] # after[p]} \subseteq files
                         /\ \A p \in report[c].deleted :
                              before[p] # NoContent /\ after[p] = NoContent
    BY DEF ReportIsReal
  <2> DEFINE before == commits[parent[c]].tree
             after == commits[sha[c]].tree
             r == request[c]
  <2>1. /\ ListOK(c) /\ pending[c] = {} /\ parent[c] \in Known /\ OpenedOK(c)
        /\ Deletable(before, r) /\ BuiltOn(sha[c], c, parent[c])
        /\ commits[sha[c]].by = c
    BY DEF ReportsOK, ReportOK, Treed, Committed, IInv, FlowsOK, FlowOK
  <2>2. r \in Requests /\ before \in Tree /\ after = Overlay(before, Entries(r))
    BY <2>1, ReachKnown DEF IInv, TypeOK, Commit, BuiltOn
  <2>3. PathSet(Entries(r)) \subseteq report[c].modified \cup report[c].deleted
    BY <2>1 DEF ListOK, PathSet, Blobs
  <2>4. \A p \in Path \ PathSet(Entries(r)) : after[p] = before[p]
    BY <2>2 DEF Overlay
  <2>5. report[c].deleted = PathSet(Deletions(r))
    BY <2>1 DEF ListOK
  <2>6. \A p \in PathSet(Deletions(r)) : before[p] # NoContent
    BY <2>1 DEF Deletable, PathSet
  <2>7. \A p \in PathSet(Deletions(r)) : after[p] = NoContent
    BY <2>2, DeletedIsGone
  <2> HIDE DEF before, after, r
  <2>8. /\ {p \in Path : before[p] # after[p]}
             \subseteq report[c].created \cup report[c].modified \cup report[c].deleted
        /\ \A p \in report[c].deleted : before[p] # NoContent /\ after[p] = NoContent
    BY <2>3, <2>4, <2>5, <2>6, <2>7
  <2>9. QED
    BY <2>1, <2>8 DEF OpenedOK, before, after
<1>4. QED
  BY <1>1, <1>2, <1>3, Invariance, PTL DEF Spec

-----------------------------------------------------------------------------

(***************************************************************************)
(* What the refinement needs beyond the invariants of the flow: whoever    *)
(* committed first is in every history, and the commit a work branch is    *)
(* made from has been the head of the base branch.                         *)
(***************************************************************************)
OriginOK ==
  /\ commits[1].by = Other
  /\ \A i \in Known : 1 \in Reach(i)

BaseHistory == Reach(refs[Base])

BasesOK ==
  /\ \A c \in Client : phase[c] \in {"probe", "createRef"} => baseSha[c] \in BaseHistory
  /\ \A w \in wire : w.call = "createRef" => w.sha \in BaseHistory

MapInv == IInv /\ OptOutInv /\ OriginOK /\ BasesOK

-----------------------------------------------------------------------------
(* The additional invariants *)

LEMMA InitMapInv == Init => MapInv
<1> SUFFICES ASSUME Init PROVE MapInv
  OBVIOUS
<1>1. IInv
  BY InitIInv
<1>2. OptOutInv
  BY DEF Init, OptOutInv, OptOutBeforeWrite, Writing
<1>3. OriginOK
  BY DEF Init, OriginOK, Known, Reach
<1>4. BasesOK
  BY DEF Init, BasesOK
<1>5. QED
  BY <1>1, <1>2, <1>3, <1>4 DEF MapInv

\* A commit made on a known one has the first commit in its history.
LEMMA OriginAppend ==
  ASSUME IInv, OriginOK, NEW j \in Known, NEW new, new.past = Reach(j),
         commits' = Append(commits, new)
  PROVE  OriginOK'
<1> PICK n \in Nat : n = Len(commits) + 1
  BY DEF IInv, TypeOK
<1>1. commits \in Seq(Commit \cup {new}) /\ Len(commits) \in Nat /\ Len(commits) >= 1
  BY DEF IInv, TypeOK, HistoryOK
<1>2. /\ Len(commits') = n /\ commits'[n] = new
      /\ \A i \in Known : commits'[i] = commits[i]
  BY <1>1, AppendProperties DEF Known
<1>3. Known' = Known \cup {n} /\ 1 \in Known
  BY <1>1, <1>2 DEF Known
<1>4. \A i \in Known : 1 \in Reach(i)'
  BY <1>2 DEF OriginOK, Reach
<1>5. 1 \in Reach(n)'
  <2>1. 1 \in new.past
    BY DEF OriginOK
  <2>2. QED
    BY <1>1, <1>2, <2>1 DEF Reach
<1>6. QED
  BY <1>2, <1>3, <1>4, <1>5 DEF OriginOK, Reach

LEMMA OriginStep ==
  ASSUME IInv, OriginOK, [Next]_vars
  PROVE  OriginOK'
<1>1. CASE commits' = commits
  BY <1>1 DEF OriginOK, Known, Reach
<1>2. ASSUME NEW c \in Client, CreateCommit(c), commits' # commits
      PROVE  OriginOK'
  <2> DEFINE new == [past |-> Reach(parent[c]), by |-> c,
                     tree |-> Overlay(commits[parent[c]].tree, Entries(request[c]))]
  <2>1. commits' = Append(commits, new) /\ new.past = Reach(parent[c])
    BY <1>2 DEF CreateCommit
  <2>2. parent[c] \in Known
    BY <1>2 DEF CreateCommit, IInv, FlowsOK, FlowOK
  <2> HIDE DEF new
  <2>3. QED
    BY <2>1, <2>2, OriginAppend
<1>3. ASSUME NEW b \in Branch, NEW p \in Path, NEW v \in Content \cup {NoContent},
             Push(b, p, v)
      PROVE  OriginOK'
  <2> DEFINE new == [past |-> Reach(refs[b]), by |-> Other,
                     tree |-> [commits[refs[b]].tree EXCEPT ![p] = v]]
  <2>1. commits' = Append(commits, new) /\ new.past = Reach(refs[b])
    BY <1>3 DEF Push
  <2>2. refs[b] \in Known
    BY <1>3 DEF Push, IInv, HeadsOK, Known, NoRef
  <2> HIDE DEF new
  <2>3. QED
    BY <2>1, <2>2, OriginAppend
<1>4. \/ commits' = commits \/ \E c \in Client : CreateCommit(c)
      \/ \E b \in Branch, p \in Path, v \in Content \cup {NoContent} : Push(b, p, v)
  BY DEF Next, Outside, Answer, Call, VerifyPermissions, ReadBase, Probe, ProbeFault,
     CreateRef, ReadBranch, GetCommit, CreateBlob, CreateTree, UpdateRef, CreatePull,
     Fault, Late, DeleteBranch, Revoke, server, vars
<1>5. QED
  BY <1>1, <1>2, <1>3, <1>4

\* The base branch is never deleted and moves only forward.
LEMMA BaseForward ==
  ASSUME IInv, Steady
  PROVE  BaseHistory \subseteq BaseHistory'
<1>1. Base \in Branch \ removed' /\ refs[Base] # NoRef
  BY ConstantsAssumption DEF IInv, HeadsOK, Steady
<1>2. QED
  BY <1>1, HistoryForward DEF BaseHistory, IInv

LEMMA BasesStep ==
  ASSUME IInv, BasesOK, [Next]_vars
  PROVE  BasesOK'
<1>0. TypeOK /\ Steady
  BY NextSteady DEF IInv
<1>1. BaseHistory \subseteq BaseHistory'
  BY <1>0, BaseForward
<1>2. ASSUME NEW c \in Client, Call(c) \/ Answer(c) \/ ProbeFault(c) \/ Fault(c)
      PROVE  BasesOK'
  <2>1. \A d \in Client \ {c} : phase'[d] = phase[d] /\ baseSha'[d] = baseSha[d]
    BY <1>0, <1>2
    DEF TypeOK, Answer, Call, VerifyPermissions, ReadBase, Probe, ProbeFault, CreateRef,
        ReadBranch, GetCommit, CreateBlob, CreateTree, CreateCommit, UpdateRef, CreatePull,
        Fault, Throw, Goto, locals
  <2>2. phase'[c] \in {"probe", "createRef"} =>
          baseSha'[c] = refs[Base]
            \/ (phase[c] \in {"probe", "createRef"} /\ baseSha'[c] = baseSha[c])
    BY <1>0, <1>2
    DEF TypeOK, Answer, Call, VerifyPermissions, ReadBase, Probe, ProbeFault, CreateRef,
        ReadBranch, GetCommit, CreateBlob, CreateTree, CreateCommit, UpdateRef, CreatePull,
        Fault, Throw, Goto, locals
  <2>3. refs[Base] \in BaseHistory
    BY DEF BaseHistory, Reach
  <2>4. \A d \in Client : phase'[d] \in {"probe", "createRef"} => baseSha'[d] \in BaseHistory'
    BY <1>1, <2>1, <2>2, <2>3 DEF BasesOK
  <2>5. ASSUME NEW w \in wire', w.call = "createRef"
        PROVE  w.sha \in BaseHistory
    <3>1. w \in wire \/ (phase[c] \in RefWriting /\ w = Write(c, phase[c]))
      BY <1>2, <2>5
      DEF Answer, Call, VerifyPermissions, ReadBase, Probe, ProbeFault, CreateRef,
          ReadBranch, GetCommit, CreateBlob, CreateTree, CreateCommit, UpdateRef,
          CreatePull, Fault, server
    <3>2. QED
      BY <2>5, <3>1 DEF BasesOK, Write
  <2>6. QED
    BY <1>1, <2>4, <2>5 DEF BasesOK
<1>3. CASE Outside \/ UNCHANGED vars
  <2>1. UNCHANGED <<phase, baseSha>> /\ wire' \subseteq wire
    BY <1>3 DEF Outside, Late, Push, DeleteBranch, Revoke, locals, vars
  <2>2. QED
    BY <1>1, <2>1 DEF BasesOK
<1>4. QED
  BY <1>2, <1>3 DEF Next

LEMMA MapInvariance == Spec => []MapInv
<1>1. MapInv /\ [Next]_vars => MapInv'
  BY NextIInv, OptOutStep, OriginStep, BasesStep DEF MapInv
<1>2. QED
  BY <1>1, InitMapInv, PTL DEF Spec

-----------------------------------------------------------------------------
(* How the mapped state moves *)

LEMMA InitMaps == Init => Promise!Init
<1> SUFFICES ASSUME Init PROVE Promise!Init
  OBVIOUS
<1>1. /\ commits[1].past = {} /\ commits[1].by = Other /\ commits[1].tree = RootTree
      /\ refs \in [Branch -> {NoRef, 1}] /\ refs[Base] = 1 /\ pulls = <<>>
  BY DEF Init
<1>2. SnapshotOf(1) = Promise!Root
  <2>1. Reach(1) = {1}
    BY <1>1 DEF Reach
  <2>2. {commits[j].by : j \in Reach(1)} = {Other}
    BY <1>1, <2>1
  <2>3. QED
    BY <1>1, <2>2 DEF SnapshotOf, Promise!Root
<1>3. Seen = {Promise!Root}
  BY <1>1, <1>2 DEF Seen, Reach
<1>4. Heads \in [Branch -> {Promise!NoBranch, Promise!Root}] /\ Heads[Base] = Promise!Root
  BY <1>1, <1>2, ConstantsAssumption DEF Heads, NoRef, NoSnapshot, Promise!NoBranch
<1>5. Proposals = <<>> /\ Reported = {}
  BY <1>1 DEF Init, Proposals, Reported
<1>6. QED
  BY <1>3, <1>4, <1>5 DEF Init, Promise!Init

\* SnapshotOf(i) in the next state.
SnapshotAfter(i) ==
  [tree |-> commits'[i].tree, by |-> commits'[i].by,
   authors |-> {commits'[j].by : j \in {i} \cup commits'[i].past}]

LEMMA MapNext ==
  /\ Heads' = [b \in Branch |-> IF refs'[b] = NoRef THEN NoSnapshot
                               ELSE SnapshotAfter(refs'[b])]
  /\ Seen' = {SnapshotAfter(i) : i \in BaseHistory'}
BY DEF Heads, Seen, BaseHistory, SnapshotOf, SnapshotAfter, NoSnapshot, NoRef, Reach

\* A commit that exists is the same snapshot for ever.
LEMMA SnapshotKept ==
  ASSUME IInv, Extends, NEW i \in Known
  PROVE  SnapshotAfter(i) = SnapshotOf(i)
<1>1. Reach(i) \subseteq Known /\ Reach(i)' = Reach(i)
  BY ReachKnown, ReachStable DEF IInv, TypeOK
<1>2. {commits'[j].by : j \in Reach(i)} = {commits[j].by : j \in Reach(i)}
  BY <1>1 DEF Extends
<1>3. commits'[i] = commits[i]
  BY DEF Extends
<1>4. QED
  BY <1>1, <1>2, <1>3 DEF SnapshotOf, SnapshotAfter, Reach

LEMMA HeadKept ==
  ASSUME IInv, Extends, NEW b \in Branch, refs'[b] = refs[b]
  PROVE  Heads'[b] = Heads[b]
<1>1. CASE refs[b] = NoRef
  BY <1>1, MapNext DEF Heads
<1>2. CASE refs[b] # NoRef
  <2>1. PICK i \in Known : i = refs[b]
    BY <1>2 DEF IInv, HeadsOK, Known, NoRef
  <2>2. SnapshotAfter(i) = SnapshotOf(i)
    BY SnapshotKept
  <2>3. Heads'[b] = SnapshotAfter(i)
    BY <1>2, <2>1, MapNext
  <2>4. QED
    BY <1>2, <2>1, <2>2, <2>3 DEF Heads
<1>3. QED
  BY <1>1, <1>2

\* The snapshots of the base when its head stays.
LEMMA SeenKept ==
  ASSUME IInv, Extends
  PROVE  {SnapshotAfter(i) : i \in BaseHistory} = Seen
<1>1. refs[Base] \in Known
  BY ConstantsAssumption DEF IInv, HeadsOK, Known, NoRef
<1>2. BaseHistory \subseteq Known
  BY <1>1, ReachKnown DEF IInv, TypeOK, BaseHistory
<1>3. QED
  BY <1>2, SnapshotKept DEF Seen, BaseHistory

\* Nothing the promise speaks of changes when no branch or pull request does.
LEMMA RefsKept ==
  ASSUME IInv, Extends, refs' = refs
  PROVE  Heads' = Heads /\ Seen' = Seen
<1>1. \A b \in Branch : Heads'[b] = Heads[b]
  BY HeadKept
<1>2. Heads' = Heads
  BY <1>1, MapNext DEF Heads
<1>3. BaseHistory' = BaseHistory
  <2>1. refs[Base] \in Known
    BY ConstantsAssumption DEF IInv, HeadsOK, Known, NoRef
  <2>2. QED
    BY <2>1 DEF BaseHistory, Reach, Extends
<1>4. Seen' = {SnapshotAfter(i) : i \in BaseHistory}
  BY <1>3, MapNext
<1>5. QED
  BY <1>2, <1>4, SeenKept

\* A branch that is given a commit is given its snapshot; the base only ever
\* takes a commit made on its head.
LEMMA MoveHead ==
  ASSUME IInv, Extends, NEW b \in Branch, NEW i, i # NoRef,
         refs' = [refs EXCEPT ![b] = i],
         b = Base => commits'[i].past = Reach(refs[Base])
  PROVE  Promise!SetHead(b, SnapshotAfter(i))
<1>1. refs \in [Branch -> Nat]
  BY DEF IInv, TypeOK
<1>2. Heads' = [Heads EXCEPT ![b] = SnapshotAfter(i)]
  <2>1. Heads'[b] = SnapshotAfter(i)
    BY <1>1, MapNext
  <2>2. \A d \in Branch \ {b} : Heads'[d] = Heads[d]
    BY <1>1, HeadKept
  <2>3. QED
    BY <2>1, <2>2, MapNext DEF Heads
<1>3. Seen' = IF b = Base THEN Seen \cup {SnapshotAfter(i)} ELSE Seen
  <2>1. CASE b = Base
    <3>1. BaseHistory' = {i} \cup BaseHistory
      BY <1>1, <2>1 DEF BaseHistory, Reach
    <3>2. Seen' = {SnapshotAfter(j) : j \in {i} \cup BaseHistory}
      BY <3>1, MapNext
    <3>3. QED
      BY <2>1, <3>2, SeenKept
  <2>2. CASE b # Base
    <3>1. refs[Base] \in Known /\ refs'[Base] = refs[Base]
      BY <1>1, <2>2, ConstantsAssumption DEF IInv, HeadsOK, Known, NoRef
    <3>2. BaseHistory' = BaseHistory
      BY <3>1 DEF BaseHistory, Reach, Extends
    <3>3. Seen' = {SnapshotAfter(j) : j \in BaseHistory}
      BY <3>2, MapNext
    <3>4. QED
      BY <2>2, <3>3, SeenKept
  <2>3. QED
    BY <2>1, <2>2
<1>4. QED
  BY <1>2, <1>3 DEF Promise!SetHead

\* A branch that exists has a snapshot in which its first committer is an author.
LEMMA HeadExists ==
  ASSUME IInv, OriginOK, NEW b \in Branch
  PROVE  /\ (Heads[b] = Promise!NoBranch) <=> (refs[b] = NoRef)
         /\ refs[b] # NoRef => /\ refs[b] \in Known /\ Heads[b] = SnapshotOf(refs[b])
                              /\ Other \in Heads[b].authors
<1>1. CASE refs[b] = NoRef
  BY <1>1 DEF Heads, NoSnapshot, Promise!NoBranch
<1>2. CASE refs[b] # NoRef
  <2>1. refs[b] \in Known /\ Heads[b] = SnapshotOf(refs[b])
    BY <1>2 DEF IInv, HeadsOK, Known, NoRef, Heads
  <2>2. Other \in {commits[j].by : j \in Reach(refs[b])}
    BY <2>1 DEF OriginOK
  <2>3. Other \in Heads[b].authors
    BY <2>1, <2>2 DEF SnapshotOf
  <2>4. Heads[b] # Promise!NoBranch
    BY <2>3 DEF Promise!NoBranch
  <2>5. QED
    BY <1>2, <2>1, <2>3, <2>4
<1>3. QED
  BY <1>1, <1>2

LEMMA SnapshotType ==
  ASSUME IInv, NEW i \in Known
  PROVE  SnapshotOf(i) \in Promise!Snapshot
<1>1. Reach(i) \subseteq Known /\ \A j \in Known : commits[j] \in Commit
  BY ReachKnown DEF IInv, TypeOK
<1>2. QED
  BY <1>1 DEF SnapshotOf, Promise!Snapshot, Promise!Tree, Tree, Commit

-----------------------------------------------------------------------------
(* Every step is one the promise allows, or leaves the mapped state alone *)

LEMMA QuietMaps ==
  ASSUME MapInv, Quiet
  PROVE  UNCHANGED Promise!vars
<1>1. Heads' = Heads /\ Seen' = Seen
  BY RefsKept DEF MapInv, Quiet
<1>2. Proposals' = Proposals /\ Reported' = Reported
  BY DEF Quiet, Proposals, Reported, Opened
<1>3. QED
  BY <1>1, <1>2 DEF Quiet, Promise!vars

\* A call that is performed, early or late, is made by a caller that opted out
\* of the dry run, for its own branch, and a branch is made from the base.
LEMMA SentMaps ==
  ASSUME MapInv, MapInv', NEW w, Performed(w)
  PROVE  /\ w \in WriteCall /\ CallOK(w) /\ w.by \in Client /\ w.branch \in Branch
         /\ w.branch = request[w.by].branch /\ w.sha \in Known
         /\ Promise!Permitted(w.by)
         /\ w.call = "createRef" => w.sha \in BaseHistory
<1>1. w \in WriteCall /\ CallOK(w)
  BY SentOK DEF Performed, MapInv
<1>2. w.by \in Client /\ w.branch \in Branch
      /\ w.branch = request[w.by].branch /\ w.sha \in Known
  BY <1>1 DEF WriteCall, CallOK
<1>3. Promise!Permitted(w.by)
  <2>1. w.by \in wrote' /\ request' = request
    BY DEF Performed, Perform
  <2>2. request[w.by].dryRun = "no"
    BY <2>1 DEF MapInv, OptOutInv, OptOutBeforeWrite
  <2>3. QED
    BY <2>2 DEF Promise!Permitted, DryRun
<1>4. w.call = "createRef" => w.sha \in BaseHistory
  BY DEF Performed, Sent, MapInv, BasesOK, Write
<1>5. QED
  BY <1>1, <1>2, <1>3, <1>4

LEMMA CreateRefMaps ==
  ASSUME MapInv, MapInv', NEW w, Performed(w), w.call = "createRef"
  PROVE  Promise!StartBranch(w.by)
<1> USE DEF MapInv, IInv
<1>1. /\ w.by \in Client /\ w.branch \in Branch /\ w.branch = request[w.by].branch
      /\ Promise!Permitted(w.by) /\ w.sha \in BaseHistory /\ w.sha \in Known
  BY SentMaps
<1>2. /\ refs[w.branch] = NoRef /\ refs' = [refs EXCEPT ![w.branch] = w.sha]
      /\ UNCHANGED <<commits, removed, request, pulls>>
  BY DEF Performed, Accepts, Perform
<1>3. Extends /\ w.branch # Base /\ w.sha # NoRef
  BY <1>1, <1>2 DEF Extends, Known, HeadsOK, NoRef
<1>4. Promise!SetHead(w.branch, SnapshotAfter(w.sha))
  BY <1>1, <1>2, <1>3, MoveHead
<1>5. SnapshotAfter(w.sha) = SnapshotOf(w.sha) /\ SnapshotOf(w.sha) \in Seen
  BY <1>1, <1>3, SnapshotKept DEF Seen, BaseHistory
<1>6. Heads[w.branch] = Promise!NoBranch
  BY <1>1, <1>2, HeadExists
<1>7. Proposals' = Proposals /\ Reported' = Reported
  BY <1>2 DEF Proposals, Reported, Performed, Opened
<1>8. QED
  BY <1>1, <1>2, <1>4, <1>5, <1>6, <1>7 DEF Promise!StartBranch

LEMMA UpdateRefMaps ==
  ASSUME MapInv, MapInv', NEW w, Performed(w), w.call = "updateRef"
  PROVE  Promise!Land(w.by) \/ Promise!LandOnRemoved(w.by) \/ UNCHANGED Promise!vars
<1> USE DEF MapInv, IInv
<1> DEFINE b == w.branch
           c == w.by
<1>1. /\ w \in WriteCall /\ CallOK(w) /\ c \in Client /\ b \in Branch
      /\ b = request[c].branch /\ Promise!Permitted(c) /\ w.sha \in Known
  BY SentMaps
<1>2. /\ Accepts(w) /\ Perform(w) /\ refs[b] # NoRef
      /\ refs' = [refs EXCEPT ![b] = w.sha]
      /\ UNCHANGED <<commits, removed, request, pulls>>
  BY DEF Performed, Accepts, Perform
<1>3. Extends /\ w.sha # NoRef /\ refs'[b] = w.sha /\ commits[w.sha].by = c
  <2>1. Extends /\ w.sha # NoRef
    BY <1>1, <1>2 DEF Extends, Known, NoRef
  <2>2. refs'[b] = w.sha
    BY <1>1, <1>2 DEF TypeOK
  <2>3. commits[w.sha].by = c
    BY <1>1 DEF CallOK
  <2>4. QED
    BY <2>1, <2>2, <2>3
<1>4. SnapshotAfter(w.sha) = SnapshotOf(w.sha)
  BY <1>1, <1>3, SnapshotKept
<1>5. Proposals' = Proposals /\ Reported' = Reported
  BY <1>2 DEF Proposals, Reported, Performed, Opened
<1>6. /\ Heads[b] # Promise!NoBranch /\ refs[b] \in Known
      /\ Heads[b] = SnapshotOf(refs[b])
  BY <1>1, <1>2, HeadExists
<1>7. CASE refs[b] = w.sha
  <2>1. refs' = refs
    BY <1>1, <1>2, <1>7 DEF TypeOK
  <2>2. Heads' = Heads /\ Seen' = Seen
    BY <1>3, <2>1, RefsKept
  <2>3. QED
    BY <1>2, <1>5, <2>2 DEF Promise!vars
<1>8. CASE refs[b] # w.sha /\ b \notin removed
  <2>1. /\ commits[w.sha].past = Reach(refs[b])
        /\ commits[w.sha].tree = Overlay(commits[refs[b]].tree, Entries(request[c]))
    BY <1>1, <1>2, <1>3, <1>8, PerformLands
  <2>2. Promise!SetHead(b, SnapshotOf(w.sha))
    BY <1>1, <1>2, <1>3, <1>4, <2>1, MoveHead
  <2>3. {commits[j].by : j \in Reach(w.sha)} = {commits[j].by : j \in Reach(refs[b])} \cup {c}
    BY <1>3, <2>1 DEF Reach
  <2>4. SnapshotOf(w.sha) =
          [tree |-> Overlay(Heads[b].tree, Entries(request[c])), by |-> c,
           authors |-> Heads[b].authors \cup {c}]
    <3>1. /\ Heads[b].tree = commits[refs[b]].tree
          /\ Heads[b].authors = {commits[j].by : j \in Reach(refs[b])}
      BY <1>6 DEF SnapshotOf
    <3>2. Overlay(Heads[b].tree, Entries(request[c])) = commits[w.sha].tree
      BY <2>1, <3>1
    <3>3. Heads[b].authors \cup {c} = {commits[j].by : j \in Reach(w.sha)}
      BY <2>3, <3>1
    <3>4. QED
      BY <1>3, <3>2, <3>3 DEF SnapshotOf
  <2>5. Promise!Land(c)
    BY <1>1, <1>2, <1>5, <1>6, <1>8, <2>2, <2>4 DEF Promise!Land
  <2>6. QED
    BY <2>5
<1>9. CASE b \in removed
  <2>1. b # Base
    BY <1>9 DEF HeadsOK
  <2>2. Promise!SetHead(b, SnapshotOf(w.sha))
    BY <1>1, <1>2, <1>3, <1>4, <2>1, MoveHead
  <2>3. SnapshotOf(w.sha) \in Promise!Snapshot
    BY <1>1, SnapshotType
  <2>4. SnapshotOf(w.sha).by = c /\ c \in SnapshotOf(w.sha).authors
    BY <1>3 DEF SnapshotOf, Reach
  <2>5. Promise!LandOnRemoved(c)
    BY <1>1, <1>2, <1>5, <1>6, <1>9, <2>2, <2>3, <2>4 DEF Promise!LandOnRemoved
  <2>6. QED
    BY <2>5
<1>10. QED
  BY <1>7, <1>8, <1>9

LEMMA CreatePullMaps ==
  ASSUME MapInv, MapInv', NEW w, Performed(w), w.call = "createPull"
  PROVE  Promise!Propose(w.by)
<1> USE DEF MapInv, IInv
<1> DEFINE b == w.branch
           c == w.by
           pr == [head |-> b, by |-> c, open |-> TRUE, draft |-> Draft(request[c]),
                  at |-> refs[b]]
           proposal == [head |-> b, by |-> c, open |-> TRUE, draft |-> Draft(request[c])]
<1>1. /\ w \in WriteCall /\ CallOK(w) /\ c \in Client /\ b \in Branch
      /\ b = request[c].branch /\ Promise!Permitted(c) /\ w.sha \in Known
  BY SentMaps
<1>2. /\ refs[b] # NoRef /\ ~HasOpenPull(b) /\ pulls' = Append(pulls, pr)
      /\ UNCHANGED <<refs, commits, removed, request>>
  BY DEF Performed, Accepts, Perform
<1>3. Heads' = Heads /\ Seen' = Seen
  <2>1. Extends
    BY <1>2 DEF Extends, Known
  <2>2. QED
    BY <1>2, <2>1, RefsKept
<1>4. /\ Heads[b] # Promise!NoBranch /\ refs[b] \in Known
      /\ Heads[b] = SnapshotOf(refs[b])
  BY <1>1, <1>2, HeadExists
<1>5. c \in Heads[b].authors \/ b \in removed
  <2>1. b \notin removed => w.sha \in Reach(refs[b]) /\ commits[w.sha].by = c
    BY <1>1 DEF CallOK, On
  <2>2. QED
    BY <1>4, <2>1 DEF SnapshotOf
<1>6. \A n \in DOMAIN Proposals : ~(Proposals[n].head = b /\ Proposals[n].open)
  BY <1>2 DEF HasOpenPull, Proposals
<1>7. Proposals' = Append(Proposals, proposal)
  <2>1. /\ pr.head = b /\ pr.by = c /\ pr.open = TRUE /\ pr.draft = Draft(request[c])
    OBVIOUS
  <2> HIDE DEF pr
  <2>2. PICK n \in Nat : n = Len(pulls) /\ DOMAIN pulls = 1..n
    BY DEF TypeOK
  <2>3. pulls \in Seq(Pull \cup {pr})
    BY DEF TypeOK
  <2>4. DOMAIN pulls' = 1..(n + 1) /\ pulls'[n + 1] = pr
        /\ \A i \in 1..n : pulls'[i] = pulls[i]
    BY <1>2, <2>2, <2>3, AppendProperties
  <2> DEFINE Of(q) == [head |-> q.head, by |-> q.by, open |-> q.open, draft |-> q.draft]
  <2>5. Proposals = [i \in 1..n |-> Of(pulls[i])]
    BY <2>2 DEF Proposals
  <2>6. Proposals' = [i \in 1..(n + 1) |-> Of(pulls'[i])]
    BY <2>4 DEF Proposals
  <2>7. Of(pr) = proposal
    BY <2>1
  <2> HIDE DEF Of, proposal
  <2> DEFINE S == {Of(pulls[i]) : i \in 1..n} \cup {proposal}
  <2>8. \A i \in 1..(n + 1) : Of(pulls'[i]) \in S
    BY <2>2, <2>4, <2>7
  <2>9. \A i \in 1..n : Of(pulls[i]) \in S
    OBVIOUS
  <2> HIDE DEF S
  <2>10. Proposals \in Seq(S) /\ Proposals' \in Seq(S) /\ proposal \in S
    <3>1. proposal \in S
      BY DEF S
    <3>2. Proposals \in Seq(S)
      BY <2>2, <2>5, <2>9, IsASeq
    <3>3. Proposals' \in Seq(S)
      BY <2>2, <2>6, <2>8, IsASeq
    <3>4. QED
      BY <3>1, <3>2, <3>3
  <2>11. Len(Proposals) = n /\ Len(Proposals') = n + 1
    BY <2>2, <2>5, <2>6, <2>10
  <2>12. /\ Append(Proposals, proposal) \in Seq(S)
         /\ Len(Append(Proposals, proposal)) = n + 1
         /\ Append(Proposals, proposal)[n + 1] = proposal
         /\ \A i \in 1..n : Append(Proposals, proposal)[i] = Proposals[i]
    BY <2>10, <2>11, AppendProperties
  <2>13. \A i \in 1..(n + 1) : Proposals'[i] = Append(Proposals, proposal)[i]
    BY <2>2, <2>4, <2>5, <2>6, <2>7, <2>12
  <2>14. QED
    BY <2>10, <2>11, <2>12, <2>13, SeqEqual
<1>8. Reported' \in {Reported, Reported \cup {c}}
  BY DEF Performed, Opened, Reported
<1>9. QED
  BY <1>1, <1>2, <1>3, <1>4, <1>5, <1>6, <1>7, <1>8 DEF Promise!Propose

\* Whoever pushes keeps the authors of the head, of whom there is one already.
LEMMA PushMaps ==
  ASSUME MapInv, NEW b \in Branch, NEW p \in Path, NEW v \in Content \cup {NoContent},
         Push(b, p, v)
  PROVE  Promise!Commit(b)
<1> USE DEF MapInv, IInv
<1> PICK n \in Nat : n = Len(commits) + 1
  BY DEF TypeOK
<1> DEFINE t == [commits[refs[b]].tree EXCEPT ![p] = v]
           new == [past |-> Reach(refs[b]), by |-> Other, tree |-> t]
<1>1. /\ refs[b] # NoRef /\ commits' = Append(commits, new)
      /\ refs' = [refs EXCEPT ![b] = n]
      /\ UNCHANGED <<pulls, request, phase, removed>>
  BY DEF Push
<1>2. /\ Heads[b] # Promise!NoBranch /\ refs[b] \in Known
      /\ Heads[b] = SnapshotOf(refs[b]) /\ Other \in Heads[b].authors
  BY <1>1, HeadExists
<1>3. t \in Tree
  <2>1. commits[refs[b]].tree \in Tree
    BY <1>2, ReachKnown DEF TypeOK, Commit
  <2>2. QED
    BY <2>1 DEF Tree
<1>4. new.past = Reach(refs[b]) /\ new.by = Other /\ new.tree = t
  OBVIOUS
<1> HIDE DEF new, t
<1>5. Extends
  BY <1>1, AppendExtends
<1>6. commits \in Seq(Commit \cup {new}) /\ Len(commits) \in Nat
  BY DEF TypeOK
<1>7. commits'[n] = new /\ n # NoRef
  BY <1>1, <1>6, AppendProperties DEF NoRef
<1>8. Promise!SetHead(b, SnapshotAfter(n))
  BY <1>1, <1>4, <1>5, <1>7, MoveHead
<1>9. SnapshotAfter(n) = [tree |-> t, by |-> Other, authors |-> Heads[b].authors]
  <2>1. {commits'[j].by : j \in {n} \cup Reach(refs[b])} = Heads[b].authors
    <3>1. Reach(refs[b]) \subseteq Known
      BY <1>2, ReachKnown DEF TypeOK
    <3>2. \A j \in Reach(refs[b]) : commits'[j].by = commits[j].by
      BY <1>5, <3>1 DEF Extends
    <3>3. Heads[b].authors = {commits[j].by : j \in Reach(refs[b])}
      BY <1>2 DEF SnapshotOf
    <3>4. QED
      BY <1>2, <1>4, <1>7, <3>2, <3>3
  <2>2. QED
    BY <1>4, <1>7, <2>1 DEF SnapshotAfter
<1>10. t \in Promise!Tree
  BY <1>3 DEF Tree, Promise!Tree
<1>11. Proposals' = Proposals /\ Reported' = Reported
  BY <1>1 DEF Proposals, Reported
<1>12. QED
  BY <1>1, <1>2, <1>8, <1>9, <1>10, <1>11 DEF Promise!Commit

LEMMA DeleteMaps ==
  ASSUME MapInv, NEW b \in Branch, DeleteBranch(b)
  PROVE  Promise!Delete(b)
<1> USE DEF MapInv, IInv
<1>1. /\ b # Base /\ refs' = [refs EXCEPT ![b] = NoRef]
      /\ removed' = removed \cup {b} /\ UNCHANGED <<commits, request, phase>>
      /\ pulls' = [n \in DOMAIN pulls |->
                     IF pulls[n].head = b THEN [pulls[n] EXCEPT !.open = FALSE]
                     ELSE pulls[n]]
  BY DEF DeleteBranch
<1>2. Extends
  BY <1>1 DEF Extends, Known
<1>3. Heads' = [Heads EXCEPT ![b] = Promise!NoBranch]
  <2>1. \A d \in Branch \ {b} : Heads'[d] = Heads[d]
    BY <1>1, <1>2, HeadKept DEF TypeOK
  <2>2. Heads'[b] = NoSnapshot
    BY <1>1, MapNext DEF TypeOK
  <2>3. QED
    BY <2>1, <2>2, MapNext DEF Heads, NoSnapshot, Promise!NoBranch
<1>4. Seen' = Seen
  <2>1. BaseHistory' = BaseHistory
    BY <1>1, ConstantsAssumption DEF BaseHistory, Reach, TypeOK
  <2>2. QED
    BY <1>2, <2>1, MapNext, SeenKept
<1>5. Proposals' = [n \in DOMAIN Proposals |->
                      IF Proposals[n].head = b THEN [Proposals[n] EXCEPT !.open = FALSE]
                      ELSE Proposals[n]]
  <2>1. DOMAIN pulls' = DOMAIN pulls /\ \A n \in DOMAIN pulls : pulls[n] \in Pull
    BY <1>1 DEF TypeOK
  <2>2. \A n \in DOMAIN pulls :
           /\ pulls'[n].head = pulls[n].head /\ pulls'[n].by = pulls[n].by
           /\ pulls'[n].draft = pulls[n].draft
           /\ pulls'[n].open = IF pulls[n].head = b THEN FALSE ELSE pulls[n].open
    BY <1>1, <2>1 DEF Pull
  <2>3. QED
    BY <2>1, <2>2 DEF Proposals
<1>6. Reported' = Reported
  BY <1>1 DEF Reported
<1>7. QED
  BY <1>1, <1>3, <1>4, <1>5, <1>6 DEF Promise!Delete

\* Every step of the flows, the network and the other writers is a step of the
\* promise or one it does not see.
LEMMA NextMaps ==
  ASSUME MapInv, MapInv', [Next]_vars
  PROVE  [Promise!Next]_(Promise!vars)
<1>1. CASE Quiet
  BY <1>1, QuietMaps
<1>2. ASSUME NEW w, Performed(w)
      PROVE  [Promise!Next]_(Promise!vars)
  <2>1. w.by \in Client /\ w.call \in {"createRef", "updateRef", "createPull"}
    BY <1>2, SentMaps DEF WriteCall, RefWriting
  <2>2. CASE w.call = "createRef"
    BY <1>2, <2>1, <2>2, CreateRefMaps DEF Promise!Next
  <2>3. CASE w.call = "updateRef"
    BY <1>2, <2>1, <2>3, UpdateRefMaps DEF Promise!Next
  <2>4. CASE w.call = "createPull"
    BY <1>2, <2>1, <2>4, CreatePullMaps DEF Promise!Next
  <2>5. QED
    BY <2>1, <2>2, <2>3, <2>4
<1>3. ASSUME NEW b \in Branch, NEW p \in Path, NEW v \in Content \cup {NoContent},
             Push(b, p, v)
      PROVE  [Promise!Next]_(Promise!vars)
  BY <1>3, PushMaps DEF Promise!Next
<1>4. ASSUME NEW b \in Branch, DeleteBranch(b)
      PROVE  [Promise!Next]_(Promise!vars)
  BY <1>4, DeleteMaps DEF Promise!Next
<1>5. QED
  BY <1>1, <1>2, <1>3, <1>4, NextShape DEF MapInv

-----------------------------------------------------------------------------
(* The theorem *)

\* The calls, commits, faults and late answers of any number of flows are one
\* behaviour of the promise: a branch made from the base, one atomic change of
\* its head per commit, one open pull request per branch and only for work that
\* is on it, and nothing at all for a caller who left dryRun on.
THEOREM RefinementTheorem == Spec => FlowKeepsPromise
<1>1. MapInv /\ MapInv' /\ [Next]_vars => [Promise!Next]_(Promise!vars)
  BY NextMaps
<1>2. QED
  BY <1>1, InitMaps, MapInvariance, PTL DEF Spec, FlowKeepsPromise, Promise!Spec

=============================================================================
