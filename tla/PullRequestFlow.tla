--------------------------- MODULE PullRequestFlow ---------------------------
(***************************************************************************)
(* runPullRequestFlow (src/infrastructure/github/pull-request-flow.ts)     *)
(* driving OctokitPullRequestAdapter against one GitHub repository.        *)
(*                                                                         *)
(* Every awaited API call is one action: the server handles the call and   *)
(* the flow advances to the next call it awaits.  Several flows, other     *)
(* writers of the repository and a failing network interleave between the  *)
(* calls.  A flow whose call fails throws; the caller may run it again.    *)
(***************************************************************************)
EXTENDS Integers, Sequences, FiniteSets

CONSTANTS
  Client,       \* the callers, each running the flow for one request
  Other,        \* anybody else who writes to the repository
  Branch,       \* branch names
  Base,         \* the branch every request names as baseBranch
  Path,         \* file paths
  Content,      \* file contents
  NoContent,    \* `undefined' in a FileChange, and an absent file in a tree
  Requests,     \* the inputs the callers may pass
  RootTree,     \* the tree of the first commit
  MaxAttempts,  \* bound: calls of runPullRequestFlow per caller
  MaxFaults,    \* bound: network failures
  MaxOthers     \* bound: pushes and branch deletions by Other

Tree == [Path -> Content \cup {NoContent}]

FileChange == [path : Path,
               operation : {"create", "update", "delete", "keep"},
               nextContent : Content \cup {NoContent}]

\* RunPullRequestFlowInput; "unset" is an optional field left undefined.
Request == [branch : Branch,
            files : SUBSET FileChange,
            dryRun : {"unset", "yes", "no"},
            draft : {"unset", "yes", "no"}]

ASSUME ConstantsAssumption ==
  /\ Base \in Branch
  /\ Other \notin Client
  /\ NoContent \notin Content
  /\ RootTree \in Tree
  /\ Requests \subseteq Request
  /\ MaxAttempts \in Nat /\ MaxFaults \in Nat /\ MaxOthers \in Nat

\* A file list names each path once.
ASSUME DistinctPaths ==
  \A r \in Requests : \A f, g \in r.files : f.path = g.path => f = g

NoRef == 0      \* commits are numbered from 1 in the order they are created

VARIABLES
  \* The repository on GitHub
  commits,      \* commit objects; `past' is the set of all ancestors
  refs,         \* branch -> commit it points to, or NoRef
  pulls,        \* pull requests, by number
  writable,     \* whether the token has push permission
  wire,         \* write calls whose caller saw an error but which may yet arrive
  \* The flows
  request,      \* the input of each caller
  phase,        \* the call a flow awaits, or how its last run ended
  attempt,      \* runs started
  baseSha,      \* createBranch: head of the base branch
  parent,       \* commitChanges: baseCommitSha
  pending,      \* commitChanges: entries whose createBlob is still awaited
  sha,          \* commitChanges: newCommit.data.sha
  report,       \* the file lists of the result
  error,        \* class of the error the last run threw
  number,       \* pullRequest.number of the result
  \* History, read by no action
  wrote,        \* flows some write of which GitHub accepted
  removed,      \* branches deleted at some time
  faults, others

server == <<commits, refs, pulls, writable, wire>>
locals == <<baseSha, parent, pending, sha, report, number>>
history == <<wrote, removed, faults, others>>
vars == <<commits, refs, pulls, writable, wire, request, phase, attempt,
          baseSha, parent, pending, sha, report, error, number,
          wrote, removed, faults, others>>

-----------------------------------------------------------------------------
(* What a request asks for.  An operator marked (slip) is a plausible mistake  *)
(* in the code of the operator after it; no other definition uses it.          *)

DryRunOptIn(r) == r.dryRun = "yes"  \* (slip) input.dryRun ?? false
DryRun(r) == r.dryRun # "no"        \* input.dryRun ?? true
Draft(r) == r.draft # "no"          \* input.draft ?? true

PathsOf(r, op) == {f.path : f \in {g \in r.files : g.operation = op}}

\* The file list of CommitChangesInput.
Entries(r) ==
  {[path |-> f.path,
    content |-> IF f.operation = "delete" THEN NoContent ELSE f.nextContent] :
     f \in {g \in r.files : g.operation # "keep"}}

Deletions(r) == {e \in Entries(r) : e.content = NoContent}
Blobs(r) == Entries(r) \ Deletions(r)
PathSet(entries) == {e.path : e \in entries}

\* What createTree builds from base_tree and the entries.
Overlay(tree, entries) ==
  [p \in Path |-> IF p \in PathSet(entries)
                  THEN (CHOOSE e \in entries : e.path = p).content
                  ELSE tree[p]]

-----------------------------------------------------------------------------
(* What GitHub does with a write *)

Reach(i) == {i} \cup commits[i].past

FastForward(old, new) == old \in Reach(new)

ForcedOn == TRUE                    \* (slip) updateRef with force: true
Forced == FALSE                     \* updateRef leaves `force' at its default

HasOpenPull(b) == \E n \in DOMAIN pulls : pulls[n].head = b /\ pulls[n].open

\* (slip) updateRef with baseCommitSha instead of newCommit.data.sha.
WriteOldSha(c, call) ==
  [call |-> call, branch |-> request[c].branch, by |-> c,
   sha |-> IF call = "createRef" THEN baseSha[c] ELSE parent[c]]

\* A call that moves a ref or opens a pull request.
Write(c, call) ==
  [call |-> call, branch |-> request[c].branch, by |-> c,
   sha |-> IF call = "createRef" THEN baseSha[c] ELSE sha[c]]

Accepts(w) ==
  /\ writable
  /\ \/ w.call = "createRef" /\ refs[w.branch] = NoRef
     \/ /\ w.call = "updateRef"
        /\ refs[w.branch] # NoRef
        /\ Forced \/ FastForward(refs[w.branch], w.sha)
     \/ /\ w.call = "createPull"
        /\ refs[w.branch] # NoRef
        /\ refs[w.branch] \notin Reach(refs[Base])
        /\ ~HasOpenPull(w.branch)

Perform(w) ==
  /\ refs' = IF w.call = "createPull" THEN refs
             ELSE [refs EXCEPT ![w.branch] = w.sha]
  /\ pulls' = IF w.call # "createPull" THEN pulls
              ELSE Append(pulls, [head |-> w.branch, by |-> w.by, open |-> TRUE,
                                  draft |-> Draft(request[w.by]),
                                  at |-> refs[w.branch]])
  /\ wrote' = wrote \cup {w.by}
  /\ UNCHANGED writable

-----------------------------------------------------------------------------
(* The flow *)

Goto(c, p) == phase' = [phase EXCEPT ![c] = p]

\* The run throws; what it already wrote stays where it is.
Throw(c, class) ==
  /\ Goto(c, "failed")
  /\ error' = [error EXCEPT ![c] = class]

EmptyReport == [created |-> {}, modified |-> {}, deleted |-> {}]

\* runPullRequestFlow is called, for the first time or again after an error.
Call(c) ==
  /\ phase[c] \in {"idle", "failed"}
  /\ attempt[c] < MaxAttempts
  /\ Goto(c, "verify")
  /\ attempt' = [attempt EXCEPT ![c] = @ + 1]
  /\ error' = [error EXCEPT ![c] = "none"]
  /\ baseSha' = [baseSha EXCEPT ![c] = NoRef]
  /\ parent' = [parent EXCEPT ![c] = NoRef]
  /\ pending' = [pending EXCEPT ![c] = {}]
  /\ sha' = [sha EXCEPT ![c] = NoRef]
  /\ report' = [report EXCEPT ![c] = EmptyReport]
  /\ number' = [number EXCEPT ![c] = 0]
  /\ UNCHANGED <<server, request, history>>

\* verifyPermissions answers; a dry run returns its result at once.
VerifyPermissions(c) ==
  /\ phase[c] = "verify"
  /\ \/ /\ ~writable
        /\ Throw(c, "blocked")
        /\ UNCHANGED report
     \/ /\ writable /\ DryRun(request[c])
        /\ Goto(c, "dryRun")
        /\ report' = [report EXCEPT ![c] =
                        [created |-> PathsOf(request[c], "create"),
                         modified |-> PathsOf(request[c], "update"),
                         deleted |-> PathsOf(request[c], "delete")]]
        /\ UNCHANGED error
     \/ /\ writable /\ ~DryRun(request[c])
        /\ Goto(c, "readBase")
        /\ UNCHANGED <<report, error>>
  /\ UNCHANGED <<server, request, attempt, baseSha, parent, pending, sha,
                 number, history>>

\* createBranch: getRef of the base branch.
ReadBase(c) ==
  /\ phase[c] = "readBase"
  /\ baseSha' = [baseSha EXCEPT ![c] = refs[Base]]
  /\ Goto(c, "probe")
  /\ UNCHANGED <<server, request, attempt, parent, pending, sha, report, error,
                 number, history>>

\* createBranch: getRef of the work branch; only its success matters.
Probe(c) ==
  /\ phase[c] = "probe"
  /\ Goto(c, IF refs[request[c].branch] = NoRef THEN "createRef" ELSE "readBranch")
  /\ UNCHANGED <<server, request, attempt, locals, error, history>>

\* The same call failing for any reason reads as `the branch does not exist'.
ProbeFault(c) ==
  /\ phase[c] = "probe"
  /\ faults < MaxFaults
  /\ faults' = faults + 1
  /\ Goto(c, "createRef")
  /\ UNCHANGED <<server, request, attempt, locals, error, wrote, removed, others>>

CreateRef(c) ==
  /\ phase[c] = "createRef"
  /\ LET w == Write(c, "createRef") IN
     \/ /\ Accepts(w)
        /\ Perform(w)
        /\ Goto(c, "readBranch")
        /\ UNCHANGED error
     \/ /\ ~Accepts(w)
        /\ Throw(c, "raw")
        /\ UNCHANGED <<refs, pulls, writable, wrote>>
  /\ UNCHANGED <<commits, wire, request, attempt, locals, removed, faults, others>>

\* commitChanges: getRef of the work branch.
ReadBranch(c) ==
  /\ phase[c] = "readBranch"
  /\ \/ /\ refs[request[c].branch] # NoRef
        /\ parent' = [parent EXCEPT ![c] = refs[request[c].branch]]
        /\ Goto(c, "getCommit")
        /\ UNCHANGED error
     \/ /\ refs[request[c].branch] = NoRef
        /\ Throw(c, "raw")
        /\ UNCHANGED parent
  /\ UNCHANGED <<server, request, attempt, baseSha, pending, sha, report, number,
                 history>>

\* commitChanges: getCommit, then the synchronous part of the map over the files.
GetCommit(c) ==
  /\ phase[c] = "getCommit"
  /\ pending' = [pending EXCEPT ![c] = Blobs(request[c])]
  /\ report' = [report EXCEPT ![c].deleted = PathSet(Deletions(request[c]))]
  /\ Goto(c, "blobs")
  /\ UNCHANGED <<server, request, attempt, baseSha, parent, sha, error, number,
                 history>>

\* One of the createBlob calls under Promise.all answers.
CreateBlob(c, e) ==
  /\ phase[c] = "blobs"
  /\ e \in pending[c]
  /\ \/ /\ writable
        /\ pending' = [pending EXCEPT ![c] = @ \ {e}]
        /\ report' = [report EXCEPT ![c].modified = @ \cup {e.path}]
        /\ wrote' = wrote \cup {c}
        /\ UNCHANGED <<phase, error>>
     \/ /\ ~writable
        /\ Throw(c, "raw")
        /\ UNCHANGED <<pending, report, wrote>>
  /\ UNCHANGED <<server, request, attempt, baseSha, parent, sha, number,
                 removed, faults, others>>

BlobsNotAwaited(c) == TRUE          \* (slip) no await on Promise.all
\* (slip) a blob is awaited for every file, the deleted ones included
BlobPerFile(c) == report[c].modified = PathSet(Entries(request[c]))
BlobsDone(c) == pending[c] = {}

\* GitHub refuses to delete a path base_tree does not have.
Deletable(tree, r) == \A e \in Deletions(r) : tree[e.path] # NoContent

CreateTree(c) ==
  /\ phase[c] = "blobs"
  /\ BlobsDone(c)
  /\ \/ /\ writable /\ Deletable(commits[parent[c]].tree, request[c])
        /\ Goto(c, "createCommit")
        /\ wrote' = wrote \cup {c}
        /\ UNCHANGED error
     \/ /\ ~(writable /\ Deletable(commits[parent[c]].tree, request[c]))
        /\ Throw(c, "raw")
        /\ UNCHANGED wrote
  /\ UNCHANGED <<server, request, attempt, locals, removed, faults, others>>

CreateCommit(c) ==
  /\ phase[c] = "createCommit"
  /\ \/ /\ writable
        /\ commits' = Append(commits,
             [past |-> Reach(parent[c]), by |-> c,
              tree |-> Overlay(commits[parent[c]].tree, Entries(request[c]))])
        /\ sha' = [sha EXCEPT ![c] = Len(commits) + 1]
        /\ wrote' = wrote \cup {c}
        /\ Goto(c, "updateRef")
        /\ UNCHANGED error
     \/ /\ ~writable
        /\ Throw(c, "raw")
        /\ UNCHANGED <<commits, sha, wrote>>
  /\ UNCHANGED <<refs, pulls, writable, wire, request, attempt, baseSha, parent,
                 pending, report, number, removed, faults, others>>

UpdateRef(c) ==
  /\ phase[c] = "updateRef"
  /\ LET w == Write(c, "updateRef") IN
     \/ /\ Accepts(w)
        /\ Perform(w)
        /\ Goto(c, "createPull")
        /\ UNCHANGED error
     \/ /\ ~Accepts(w)
        /\ Throw(c, "raw")
        /\ UNCHANGED <<refs, pulls, writable, wrote>>
  /\ UNCHANGED <<commits, wire, request, attempt, locals, removed, faults, others>>

CreatePull(c) ==
  /\ phase[c] = "createPull"
  /\ LET w == Write(c, "createPull") IN
     \/ /\ Accepts(w)
        /\ Perform(w)
        /\ Goto(c, "opened")
        /\ number' = [number EXCEPT ![c] = Len(pulls) + 1]
        /\ UNCHANGED error
     \/ /\ ~Accepts(w)
        /\ Throw(c, "integration")
        /\ UNCHANGED <<refs, pulls, writable, wrote, number>>
  /\ UNCHANGED <<commits, wire, request, attempt, baseSha, parent, pending, sha,
                 report, removed, faults, others>>

-----------------------------------------------------------------------------
(* The network and the other writers *)

Reading == {"verify", "readBase", "readBranch", "getCommit"}
RefWriting == {"createRef", "updateRef", "createPull"}
Awaiting == Reading \cup RefWriting \cup {"probe", "blobs", "createCommit"}
Settled == {"failed", "dryRun", "opened"}

\* A call other than the probe fails: verifyPermissions and createPullRequest
\* wrap the error, the other methods let it through.
BarePhase(p) == p                   \* (slip) the error names the call, not a class
ErrorClass(p) == CASE p = "verify" -> "permission"
                   [] p = "createPull" -> "integration"
                   [] OTHER -> "raw"

\* The call is lost, or it arrives later although its caller saw an error.
Fault(c) ==
  /\ phase[c] \in Awaiting \ {"probe"}
  /\ faults < MaxFaults
  /\ faults' = faults + 1
  /\ Throw(c, ErrorClass(phase[c]))
  /\ \/ wire' = wire
     \/ phase[c] \in RefWriting /\ wire' = wire \cup {Write(c, phase[c])}
  /\ UNCHANGED <<commits, refs, pulls, writable, request, attempt, locals, wrote,
                 removed, others>>

Late(w) ==
  /\ w \in wire
  /\ wire' = wire \ {w}
  /\ \/ Accepts(w) /\ Perform(w)
     \/ ~Accepts(w) /\ UNCHANGED <<refs, pulls, writable, wrote>>
  /\ UNCHANGED <<commits, request, phase, attempt, locals, error, removed, faults,
                 others>>

\* Somebody else pushes a commit that changes one file.
Push(b, p, v) ==
  /\ refs[b] # NoRef /\ commits[refs[b]].tree[p] # v
  /\ others < MaxOthers
  /\ others' = others + 1
  /\ commits' = Append(commits,
       [past |-> Reach(refs[b]), by |-> Other,
        tree |-> [commits[refs[b]].tree EXCEPT ![p] = v]])
  /\ refs' = [refs EXCEPT ![b] = Len(commits) + 1]
  /\ UNCHANGED <<pulls, writable, wire, request, phase, attempt, locals, error,
                 wrote, removed, faults>>

\* Somebody else deletes a work branch, which closes its pull request.
DeleteBranch(b) ==
  /\ b # Base /\ refs[b] # NoRef
  /\ others < MaxOthers
  /\ others' = others + 1
  /\ refs' = [refs EXCEPT ![b] = NoRef]
  /\ removed' = removed \cup {b}
  /\ pulls' = [n \in DOMAIN pulls |->
                 IF pulls[n].head = b THEN [pulls[n] EXCEPT !.open = FALSE]
                 ELSE pulls[n]]
  /\ UNCHANGED <<commits, writable, wire, request, phase, attempt, locals, error,
                 wrote, faults>>

\* The token loses its push permission.
Revoke ==
  /\ writable
  /\ others < MaxOthers
  /\ others' = others + 1
  /\ writable' = FALSE
  /\ UNCHANGED <<commits, refs, pulls, wire, request, phase, attempt, locals,
                 error, wrote, removed, faults>>

-----------------------------------------------------------------------------

Init ==
  /\ commits = <<[past |-> {}, by |-> Other, tree |-> RootTree]>>
  /\ refs \in {r \in [Branch -> {NoRef, 1}] : r[Base] = 1}
  /\ pulls = <<>>
  /\ writable \in BOOLEAN
  /\ wire = {}
  /\ request \in [Client -> Requests]
  /\ phase = [c \in Client |-> "idle"]
  /\ attempt = [c \in Client |-> 0]
  /\ baseSha = [c \in Client |-> NoRef]
  /\ parent = [c \in Client |-> NoRef]
  /\ pending = [c \in Client |-> {}]
  /\ sha = [c \in Client |-> NoRef]
  /\ report = [c \in Client |-> EmptyReport]
  /\ error = [c \in Client |-> "none"]
  /\ number = [c \in Client |-> 0]
  /\ wrote = {} /\ removed = {} /\ faults = 0 /\ others = 0

\* The answer to the call a flow awaits.
Answer(c) ==
  \/ VerifyPermissions(c) \/ ReadBase(c) \/ Probe(c) \/ CreateRef(c)
  \/ ReadBranch(c) \/ GetCommit(c) \/ (\E e \in pending[c] : CreateBlob(c, e))
  \/ CreateTree(c) \/ CreateCommit(c) \/ UpdateRef(c) \/ CreatePull(c)

Outside ==
  \/ \E w \in wire : Late(w)
  \/ \E b \in Branch, p \in Path, v \in Content \cup {NoContent} : Push(b, p, v)
  \/ \E b \in Branch : DeleteBranch(b)
  \/ Revoke

Next ==
  \/ \E c \in Client : Call(c) \/ Answer(c) \/ ProbeFault(c) \/ Fault(c)
  \/ Outside

Spec == Init /\ [][Next]_vars

\* GitHub answers every call it is sent; nobody is obliged to call again, and
\* nothing is promised about late calls or other writers.
Fairness == \A c \in Client : WF_vars(Answer(c))
FairSpec == Spec /\ Fairness

-----------------------------------------------------------------------------
(* Correctness *)

Commit == [past : SUBSET Nat, by : Client \cup {Other}, tree : Tree]
Pull == [head : Branch, by : Client, open : BOOLEAN, draft : BOOLEAN, at : Nat]
WriteCall == [call : RefWriting, branch : Branch, by : Client, sha : Nat]
Entry == [path : Path, content : Content \cup {NoContent}]
Report == [created : SUBSET Path, modified : SUBSET Path, deleted : SUBSET Path]

\* Every variable of the repository and of the flows stays in its type.
TypeOK ==
  /\ commits \in Seq(Commit)
  /\ refs \in [Branch -> Nat]
  /\ pulls \in Seq(Pull)
  /\ writable \in BOOLEAN
  /\ wire \subseteq WriteCall
  /\ request \in [Client -> Requests]
  /\ phase \in [Client -> {"idle"} \cup Awaiting \cup Settled]
  /\ attempt \in [Client -> 0..MaxAttempts]
  /\ baseSha \in [Client -> Nat]
  /\ parent \in [Client -> Nat]
  /\ pending \in [Client -> SUBSET Entry]
  /\ sha \in [Client -> Nat]
  /\ report \in [Client -> Report]
  /\ error \in [Client -> {"none", "blocked", "permission", "raw", "integration"}]
  /\ number \in [Client -> Nat]
  /\ wrote \subseteq Client
  /\ removed \subseteq Branch
  /\ faults \in 0..MaxFaults
  /\ others \in 0..MaxOthers

\* Nothing of a flow ever reaches the repository, not even by a call that
\* arrives late, unless its caller turned dryRun off, and none of its pull
\* requests is ready for review unless the caller also turned draft off
\* (pull-request-flow.ts:19-20).
OptOutBeforeWrite ==
  /\ \A c \in wrote \cup {w.by : w \in wire} : request[c].dryRun = "no"
  /\ \A n \in DOMAIN pulls :
        /\ request[pulls[n].by].dryRun = "no"
        /\ ~pulls[n].draft => request[pulls[n].by].draft = "no"

\* When a flow's commit becomes the head of a branch, all its files land at
\* once and on top of the very head they replace: whatever other flows or
\* people committed between commitChanges' getRef and its updateRef survives.
\* A branch somebody deleted in between is excluded: its old commits come back.
LandsWhole ==
  [][\A b \in Branch \ removed :
       LET n == refs'[b] IN
         (refs[b] \notin {NoRef, n} /\ n # NoRef /\ commits'[n].by \in Client)
         => commits'[n].tree = Overlay(commits[refs[b]].tree,
                                       Entries(request[commits'[n].by]))]_vars

\* A pull request is opened only when the branch it proposes already holds a
\* commit of the flow that opened it, however often that flow failed and was
\* run again, and even when the call arrived after its caller gave up.
PullCarriesWork ==
  \A n \in DOMAIN pulls :
    pulls[n].head \notin removed =>
      \E i \in Reach(pulls[n].at) : commits[i].by = pulls[n].by

\* What a finished flow reports is true of the repository: the pull request
\* and the commit are its own, the commit is in what the pull request
\* proposed, the report lists every file in which the commit differs from its
\* parent, and what it calls deleted was there before and is gone.
ReportIsReal ==
  \A c \in Client : phase[c] = "opened" =>
    LET before == commits[parent[c]].tree
        after == commits[sha[c]].tree
        files == report[c].created \cup report[c].modified \cup report[c].deleted
    IN /\ number[c] \in DOMAIN pulls
       /\ pulls[number[c]].by = c /\ pulls[number[c]].head = request[c].branch
       /\ commits[sha[c]].by = c
       /\ request[c].branch \notin removed => sha[c] \in Reach(pulls[number[c]].at)
       /\ {p \in Path : before[p] # after[p]} \subseteq files
       /\ \A p \in report[c].deleted : before[p] # NoContent /\ after[p] = NoContent

\* Every run ends: whatever fails and whoever interferes, a flow that awaits a
\* call eventually returns a result or throws.
FlowSettles == \A c \in Client : phase[c] \in Awaiting ~> phase[c] \in Settled

\* Nobody else writes to the branch of c or to the base, nothing fails, and the
\* files to delete exist.
Undisturbed(c) ==
  /\ faults = 0 /\ others = 0 /\ writable
  /\ request[c].dryRun = "no" /\ request[c].branch # Base
  /\ \A d \in Client \ {c} : request[d].branch \notin {request[c].branch, Base}
  /\ Deletable(RootTree, request[c])

\* A flow that is left alone opens its pull request on its first run, while
\* other flows work on other branches of the same repository.
UndisturbedFlowLands ==
  \A c \in Client :
    ([]Undisturbed(c) /\ <>(phase[c] # "idle"))
      => <>(phase[c] = "opened" /\ attempt[c] = 1)

(* What the documentation says of the code, and the code does not do *)

\* ARCHITECTURE.md:54 and SECURITY.md:12: a repository write requires an
\* explicit file list.
WritesNameFiles == \A c \in wrote : Entries(request[c]) # {}

\* ARCHITECTURE.md:58: infrastructure adapters throw typed errors.
FailuresAreTyped == \A c \in Client : error[c] # "raw"

=============================================================================
