# Verification of aiquaa-mcp-qa-core

TLA+ models of the core of `aiquaa-mcp-qa-core`, model-checked with TLC on small
instances and, for the results listed below, proved with TLAPS for every value
of the constants. Source paths are relative to the repository.

## 1. The system

The repository is a TypeScript library that MCP servers for QA build on. It
turns requirements and plugin proposals into planned changes, changes into
patches, and patches into pull requests; every effect goes through a port with
one or more adapters. Nothing is persisted by the library itself: the state
that outlives a call is the workspace on disk, the repository on GitHub, and
the memory and AIQUAA services.

| Part | State it keeps | Operations | What makes it hard | What makes it correct |
|---|---|---|---|---|
| Pull request flow (`infrastructure/github/pull-request-flow.ts`, `octokit-pull-request.adapter.ts`, `ports/pull-request.port.ts`) | none of its own; refs, commits and pull requests on GitHub, and the locals a run carries from one `await` to the next | `verifyPermissions`, `createBranch`, `commitChanges`, `createPullRequest`, composed by `runPullRequestFlow` | about ten API calls in a row, other writers and other flows between them, any call can fail, nothing is rolled back, callers retry | commits land whole, nothing committed by others is lost, a dry run never writes, a result is true |
| Change planner (`application/changes/change-planner.ts`) | within one `plan`: the target paths taken so far | `plan`, with five blocking rules | the result depends on the order of the candidates and of the rules | no duplicates, no candidate wrongly accepted or blocked, every block explained |
| Line diff and unified diff (`patches/line-diff.ts`, `unified-diff.ts`) | none | `diffLines`, `buildUnifiedDiffBody`, `applyUnifiedDiff` | ties in the LCS table, hunk boundaries, missing final newline, CRLF | minimal diffs, headers that name the right lines, apply after build gives the new file |
| Patch generator, applier, validator (`patches/`) | the files being patched | `generateAll`, `applyAll`, `validate` | a file that changed since the patch was made, stopping half way, running again | what an interrupted or repeated application leaves behind |
| Traceability engine (`application/traceability/`) | the graph it returns | `build`, `merge`, queries | order of merging, duplicate links | queries agree with the graph, merge is well defined |
| Requirement normalization and ids (`application/requirements/`, `utils/ids.ts`) | none | `normalizeRequirements`, `generate*Id` | two inputs that get one id | distinct requirements keep distinct ids |
| Path policy, file system (`security/path-policy.ts`, `infrastructure/filesystem/`) | the workspace | `resolve`, `isSafe`, reads and writes | `..`, symbolic links, files that change between check and use | operations stay in the workspace |
| Write, execution and host policies (`security/`) | their options | `assertAllowed` and the like | defaults, empty lists | a write needs an explicit opt-in |
| External processes (`infrastructure/process/`, `infrastructure/git/`) | the child process | `runCommand`, `runGit` | a timeout racing the exit | one outcome, no orphan |
| Project memory, code context, AIQUAA client (`infrastructure/engram/`, `codegraph/`, `aiquaa/`) | held by the service | save, search, HTTP requests | an acknowledgement that is lost, sessions that share an adapter | a save that was confirmed stays, tokens do not mix |
| Core composition (`core/`) | the context object | `createQaCore`, `runPlugin` | the order of the stages, stopping at the first failure | a plugin never generates from an invalid plan |
| Repository readers (`infrastructure/github/github-repository.adapter.ts`, `infrastructure/git/`) | a worktree's HEAD, GitHub's refs | `getTree`, `listFiles`, `readFile`, the default branch | the repository changes between two reads | a tree is of the ref it names, what it lists can be read |
| Configuration, results, errors, formatting, logging, scanners | none | pure functions | text matching | unit tests |

How they interact: a plugin (run by the core) proposes candidates; the planner
decides; the plugin's changes become `FileChange`s, which the validator checks
against the path policy and the secret scanner; the generator turns them into
unified diffs that the applier writes to the workspace, or the pull request flow
commits the `FileChange`s to GitHub. All interaction is by direct call; the only
shared mutable state is outside the process, and that is where the concurrency
is. `PROJECT.json` lists every part with its status and every hazard with the
line where it bites.

## 2. Modules

| Module | Models | Extends or uses |
|---|---|---|
| `PullRequestFlow` | the flow and the Octokit adapter, call by call, with GitHub and its other users | |
| `PullRequestPromise` | the port as a caller sees it: branches that change in one step | |
| `PullRequestRefinement` | the mapping from the one to the other | `PullRequestFlow`, INSTANCE of `PullRequestPromise` |
| `PullRequestFlowProofs` | invariant and theorems of the flow, and the refinement, step by step | `PullRequestRefinement` |
| `MCPullRequestFlow` | the instances TLC checks | `PullRequestRefinement` |
| `ChangePlanner`, `MCChangePlanner` | the planner and its instance | |
| `UnifiedDiff` | diff, hunks and reconstruction, as functions | |
| `DiffRoundTrip`, `MCDiffRoundTrip` | a diff made and applied, and its instances | `UnifiedDiff` |
| `PatchApplier` | patches generated and applied to a workspace others use | `UnifiedDiff` |
| `PatchesProofs` | the theorems of the diff and of the applier | `DiffRoundTrip`, `PatchApplier`, `SequenceLemmas` |
| `ChangeGates` | validator, summaries and write policy, and the two ways a list of changes is written | |
| `ChangesProofs` | the theorems of the planner and of the gates | `ChangePlanner`, `ChangeGates` |
| `PathPolicy` | paths over segments, as functions | |
| `WorkspaceFiles` | the local file system adapter, call by call of node, with several clients | `PathPolicy` |
| `WorkspaceFilesProofs` | invariants and theorems of the files, the path policy and the twins | `FileSystemTwins`, `SequenceLemmas` |
| `FileSystemTwins` | the in-memory adapter beside the local one | `WorkspaceFiles` |
| `Traceability`, `MCTraceability` | graphs that are built, merged and queried by several viewers, and its instance | |
| `RequirementIds`, `MCRequirementIds` | normalized requirements and their ids, and its instance | |
| `SequenceLemmas` | lemmas on least elements, recursion and joined sequences | |
| `ProcessRunner` | `runCommand`, timer and child | |
| `EngramMemory`, `MCEngramMemory`, `EngramMemoryProofs` | sessions that save and search through child processes, their instance, and the theorems of both | `ProcessRunner` |
| `AiquaaClient` | sessions that share the HTTP adapter, and the in-memory one beside it | |
| `PluginRuns`, `PluginRunsProofs` | configuration, core, interleaved plugin runs, tool responses, and its theorems | |
| `RepositoryReads` | both readers while the repository changes | |
| `ServicesProofs` | the theorems of the readers, the client, the graphs and the ids | `RepositoryReads`, `AiquaaClient`, `Traceability`, `RequirementIds`, `SequenceLemmas` |
| `MCChanges` | what becomes of proposed changes | `MCChangePlanner`, `ChangeGates` |
| `MCPatches` | the diff and the applier | `MCDiffRoundTrip`, `PatchApplier`, and an INSTANCE of each for other bounds |
| `MCWorkspace` | what works on the consumer's machine | `MCEngramMemory`, `FileSystemTwins`, and an INSTANCE of the latter with fewer paths |
| `MCServices` | what a consumer gets from elsewhere | `AiquaaClient`, `RepositoryReads`, `MCTraceability`, `MCRequirementIds` |
| `MCCore` | what has to come to an end | `PluginRuns`, INSTANCE of `ProcessRunner` |

The last five modules hold several *studies*: the variable `study` picks one part in
the initial state, that part takes all the steps, and the others stay as they began.
The parts do not share state, so that checking them side by side is checking each.
An instance of a module that is also extended (`LongUnix`, `Edited`) differs in its bounds,
and two studies of one module (*race* and *policy*) in which of its steps they take.

An operator marked `(slip)` is a plausible mistake in the code of the operator
after it. No other definition uses it. Each property has one under which TLC
finds it violated; `PROJECT.json` pairs them under "mutants".

### PullRequestFlow

A *flow* is one caller with one `RunPullRequestFlowInput`. Its `phase` is the
API call it awaits, and each action named after a call is GitHub's handling of
that call together with the synchronous code up to the next `await`:

| Phase | Action | Code |
|---|---|---|
| `verify` | `VerifyPermissions` | `verifyPermissions` and the `allowed` and `dryRun` returns of `runPullRequestFlow` |
| `readBase`, `probe`, `createRef` | `ReadBase`, `Probe` / `ProbeFault`, `CreateRef` | `createBranch`; its `catch` takes every failure of the probe for an absent branch |
| `readBranch`, `getCommit`, `blobs`, `createCommit`, `updateRef` | `ReadBranch`, `GetCommit`, `CreateBlob` (one per file, in any order: `Promise.all`), `CreateTree`, `CreateCommit`, `UpdateRef` | `commitChanges` |
| `createPull` | `CreatePull` | `createPullRequest` |

`dryRun`, `opened` and `failed` are the ways a run ends; `Call` starts a run,
again after a failure if the caller wants. `Fault` is a call that fails on the
network: it is lost or, if it writes a ref or opens a pull request, it may stay
on the `wire` and take effect later (`Late`). `Push`, `DeleteBranch` and `Revoke`
are what other users of the repository do.

GitHub is not in `src/`; its rules are taken from how the adapter uses it:
`createRef` refuses an existing ref, `updateRef` without `force` accepts
fast-forwards only, `createTree` overlays the entries on `base_tree` and refuses
to delete an absent path, `pulls.create` refuses a second open pull request for
a head and a head with nothing to propose. Commits are numbered in the order of
creation; `past` is the set of ancestors. Contents, titles, reviewers and labels
do not matter to any property and are model values or absent. A file list that
names one path twice is left out (`DistinctPaths`): which entry wins is GitHub's
decision and nothing in the source says.

`wrote`, `removed`, `faults` and `others` are history: no action's effect
depends on the first two, and the last two are the bounds.

### PullRequestPromise

A branch is a `Snapshot`: its files, who put them there, who has work in its
history. `Land` changes all files of a request at once on top of the current
head, `Propose` opens a pull request for a branch that holds the caller's work.
`PullRequestRefinement` maps a branch to the commit its ref points to. A branch
that somebody deleted and another flow recreated is where the promise is
weaker (`LandOnRemoved`): a flow that read its parent before the deletion
fast-forwards the new branch and brings the old commits back.

### ChangePlanner

One `Evaluate` per iteration of `plan`'s loop, one `Return`. A candidate is
drawn when its turn comes, which gives the same plans because the evaluation of
a candidate reads nothing of the later ones. Paths are model values; `Above`
gives the directories a path starts with, which is what `startsWith` on
`` `${scoped}/` `` computes. `Evaluation` is the chain of the five `if`s, one `Try` after
the other: each looks at the decision as the ones before it left it, and one that applies
pushes its reason whatever was pushed before. A reason is the label of its change and the
rule that gave it; that there is one for each change the planner overruled, and that it is a
true one, is `BlocksExplained`.

### UnifiedDiff and DiffRoundTrip

A file is a sequence of lines with their terminators; `WellSplit` says which
sequences `splitLinesKeepEnds` can return. The table is a recursive function, and the
three loops of the walk are one `Turn` after the other: a turn with both files at an end
does nothing, so that as many turns as there are lines are the walk. The loop over the
changes that forms clusters is stated as the set of the changes that start one, and the
counters `oldLineAt` and `newLineAt` as the number of places before an op. A hunk keeps what its text keeps: the numbers of the
header, the sign and text of each line, and whether the no-newline marker
follows it. The two file header lines, which `applyUnifiedDiff` skips, are left
out. `Compare`, `Build` and `Apply` of `DiffRoundTrip` are the calls of
`diffLines`, of the rest of `buildUnifiedDiffBody` and of `applyUnifiedDiff`.

### PatchApplier

`patches` is what `generateAll` returns for a list of changes made from the disk
as it was (`base`). `Read`, `Write` and `Delete` are the awaited calls of
`apply`, `ApplyAll` and `Finish` the beginning and end of `applyAll`. `Read` takes the
synchronous check of `applyToContent` with it: a create patch for a file with
content throws, and nothing catches. `Stop` is a call that fails or a process
that ends; `ApplyAll` may follow again. `Edit` is anybody else. A read returns a whole
file and a write replaces one, as the types of `FileReader` and `FileWriter` have
it. Files have LF lines only, so that the result of patching an edited file is
a file again; a list names a path once, as the planner sees to for creates.

### ChangeGates

A list of changes is validated, looked at by the detectors of `summarize.ts`,
authorized by `RepositoryWritePolicy` and written, and stops where a gate
refuses it. `Written` is what the flow makes of a change, `Commit` is
the commit, `ApplyPatch` one turn of `applyAll` in a workspace; a create that meets
content throws and leaves what was written before it. A change may lack its old or its
new content, as its type allows. What the scanner takes for a secret is given. The write policy
is typed to get texts (`RepositoryWriteRequest`); a change without new content is `Handed`
to it as the empty text, since the scanner of the code throws on `undefined`.

### PathPolicy, WorkspaceFiles and FileSystemTwins

A path is a sequence of segments, absolute or not, without the segments that
resolving leaves out anyway (`"."` and empty ones); the comparison with `".."` in
`isWithinRoot` is one of prefixes of text, so names that begin with two dots have
a set of their own. In `WorkspaceFiles` a client's `phase` is the call of node it
awaits; `Invoke` begins a call of the port with the synchronous check of its path,
`Serve` is node answering: `Access`, `Read`, `MakeDirectories`, `OpenFile` and `Fill` (a write
truncates first), `Stat` and `Unlink`, `ReadDir` once per directory. A content is a sequence of chunks. `linked`,
`always`, `ever`, `disturbed` and `spoilt` are history for the properties.
`Crash` ends a client between two of its calls; `RemoveDirectory` is another
program. `FileSystemTwins` lets the in-memory adapter repeat each call (`Repeat`) when the
local adapter has answered it; clients take turns there (`HasTurn`), and none crashes.

### Traceability and RequirementIds

`Build` and `Merge` are the two functions of the engine over sequences of links;
`Publish` builds a graph somewhere, `Receive` merges it into a viewer's view.
`Input` holds graphs that refer to each other's entities. In `RequirementIds` a
text is a sequence of words, with or without blanks around it. What the normalization
leaves of a text is a sequence of *parts*, pieces of `[a-z0-9]` and hyphens: `Slug` gives
those of a word, `Hyphened` puts a hyphen for the blanks between words, and `Cut` keeps the
beginning of the whole. So ids of different texts can meet in three ways: a word that
differs in case or punctuation, a blank that stands for a hyphen, and a common beginning
that fills the id. The hash of a text is the text: two texts
with one sha256 prefix are out of the model. A link's `Key` is a tuple where the code joins
ids with `:` and `>`: it is assumed that ids do not hold `>`.

### ProcessRunner and EngramMemory

`Start` is the call of `execFile`; the child may do its work (`Work`) until it is
gone, also between the signal and its end, and its output is read (`Hear`) as long as its
pipes are open. `Fire` is the timer, `Flood` the limit of the output: node destroys the pipes
and sends a signal, so nothing is read after either. `Exit` is the callback with what
node reports and `Obey` the end of a child that was told to stop. A child that handles the
signal and ends with 0 after the timer makes `execFile` call back without an error, so that
its call succeeds with what was read, perhaps nothing; after `Flood` there is always an error.
A child that ignores SIGTERM for ever is left out: its call never settles, which the code
leaves to node. `EngramMemory` composes these
actions with the adapter: `Ask` starts the child of a save or a search, `Perform`
is the engram program doing it, `Proceed` the rest. A search asks for what matches a query
(a set of topics) in its project, at most `limit` entries; the program prints all that
matches or as many as it was asked for (`Printed`), and the adapter gets what came through
(`CameThrough`): all, or of a child whose pipes were destroyed any part. A session makes one
call after the other and may repeat one. The program is external: a child that
ends with 0 has done its work.

### AiquaaClient

`Issue` is everything a call does up to `fetch`, `Arrive` the server's handling,
`Hear` and `Unreachable` the two ways `fetch` settles. A call brings a token, none
(`Missing`) or an empty one (`Empty`), which is refused and not replaced by the default. A
request whose connection broke may arrive later, and so may one that something between
answered with a failure. The server is external: what it accepted is answered
with an empty body, a list, a page object, a page of HTML or an error.

### PluginRuns

`Begin` makes the context, asks `canHandle` and starts the first stage, `StageSettles` is the
plugin, `Resume` and `Reject` are the continuation of `runPlugin` after an
`await` and the tool handler that makes the outcome a response. A plugin may throw
an error of any of the core's classes, made with or without a `retryable` of its own, or
anything else (`Thrown`). What stages hand to each other is left out: the results are
locals of one call of `runPlugin`. `Reconfigure` assigns to the configuration object the
core shares.

### RepositoryReads

A reader asks for a tree (`AskTree`, for GitHub without a ref first
`HearDefault`), hears it (`HearTree`) and reads files of it by name and by the
ref the tree names (`AskFile`, `HearFile`); `Break` is a call that fails. A commit
carries its history (`past`) and, for each file, the commit that wrote it last. Others
`Commit`, `Switch` HEAD or the default branch, and `DeleteBranch`. An entry of a tree is a path
and a type. Locally the path is the line git prints, trimmed (`Shown`): for a name that git
quotes, or one with blanks at its ends, it is a path of no file, or of another file. On the
server the path is right, folders are listed too, and everything else, submodules and links
included, is listed as a file (`Listed`); `readFile` says of a submodule, and of a link that
leads out of the repository, that it is no file (`WithContent`).

## 3. What TLC checks

| Run | Studies and instances | Shows |
|---|---|---|
| `pr_safety` | two callers racing for one branch, each with either a two-file edit or a deletion, or one of them with a request that differs in `dryRun`, `draft`, branch (the base too) or has no files; two runs each, one network failure (with or without a late call), one intervention | `TypeOK`, `LandsWhole`, `PullCarriesWork`, `ReportIsReal`, `OptOutBeforeWrite` |
| `pr_liveness` | two callers on two branches or on one, with a two-file edit or a deletion, one failure, one intervention; two runs each where both make the same edit of one branch and nobody else intervenes, one run otherwise (`RacersRetry`); fairness | `FlowSettles`, `UndisturbedFlowLands`, and `FlowKeepsPromise`: the refinement |
| `changes` | *plan*: three candidates out of 22, every scope and every set of existing paths over a folder, a file in it and one beside it | `NoDuplicateCreate`, `AcceptsExactlyTheFaultless`, `StrategyHidesNoWrite`, `BlocksExplained` |
| | *gates*: lists of up to two changes, complete or not, for three paths, every scope and expectation | `WrittenAsTold`, `GatesAgree` |
| `patches` | *round trip*: every pair of files of up to five LF lines, and of up to three lines with LF, CRLF or no final newline, over two texts, context 0 and 1 | `DiffWellFormed`, `MinimalScript`, `Reconstructs` |
| | *apply*: lists of up to two changes for two files of up to three lines, one edit by somebody else, two runs, an end anywhere | `AppliedUpToNext`, `RunAgainConverges` |
| | *edit*: one file of up to four lines, edited up to twice before or while it is patched | `EditsElsewhereSurvive` |
| `workspace` | *memory*: a session of three calls and one of one, two spellings of a project and another project, of which the second session uses one; the last call may search, for one topic or two, for one entry or two; every call is a child process | `AnswersCanBeTrusted`, `NewestSaveStands`, `FindsOwnSaves` |
| | *race*: two clients, three calls, one crash or removed directory, a file and a directory with a file; the root is only listed | `CallsTell`, `WholeUnlessWriting` |
| | *policy*: one client, two calls with climbing, blocked, dotted and absolute paths, over a root that may hold a blocked directory and one named like itself | `StaysInside` |
| | *twins*: two clients that take turns, three calls with paths in their plain form, every tree with a file or directory beside a directory in a directory | `TwinsAgree` |
| `services` | *aiquaa*: a session of two calls and one of one; two tokens, the empty one or none | `OwnBearer`, `SavesInOrder`, `SameAsInMemory` |
| | *reads*: one reader of either kind, two branches, three commits, one switch; a plain file, one whose name is trimmed to that of the first, a link out of the repository with a quoted name, a submodule and a folder | `ReadsFollowTheRef`, `ListedCanBeRead` |
| | *traces*: two viewers, three graphs out of six inputs | `QueriesAcrossGraphs`, `FirstLinkStands` |
| | *ids*: pairs out of 330 sources, or one source normalized twice | `IdsIdentify` |
| `core` | *plugins*: two runs, every environment, override and option, one assignment; validation errors, timeouts (under one of the origins only) and other values are thrown | `WritesOnlyAfterOptOut`, `ResponseTells`, `RunsEnd` |
| | *processes*: two calls | `CallsSettle` |
| the runs of section 5 | | the disagreements described there |

**Bounds.** `MaxAttempts`, `MaxFaults` and `MaxOthers` bound the runs per caller,
the network failures and the interventions. Two callers are the least that race; every hazard
listed for the flow needs at most one failure or one intervention next to them,
and two runs are what a retry takes. Two files are the least a commit can tear. `MaxCandidates` is 3: a
candidate, one it depends on, and one between. `MaxLines` is 5: with context 1,
two changes need two equal lines in between to be separate hunks, so four lines
show one and two hunks, touching and apart, and the fifth moves them off the
ends. `Contexts` is 0 and 1 where the code's default is 3: the code uses the
number only in `context * 2`, `start - context` and `end + context`. In the
applier `MaxChanges` and `MaxRuns` are 2, and *apply* allows one of the two edits: a patch
before and one after the interruption, a run and its repetition, one edit; for
`EditsElsewhereSurvive` one patch, two edits and context 0, under which four
lines hold a hunk and an edit on either side of it. The proofs lift these bounds. In the other models:
`MaxGraphs` is 3, one graph for each end of a path of two links and one more, and
the inputs hold a requirement and a criterion with the same id, and a scenario in
two versions. `MaxRuns` of the ids is 2, because ids are compared in pairs.
`MaxCalls` of the files is 3: two calls race, and one prepares the workspace or
looks at the result; `MaxFaults` is 1. A content has one or two chunks, so that a
longer one can be overlaid by a shorter. A session of two AIQUAA calls, and of
three memory calls, repeats a save that failed (and then searches), while another
session does something in between. `Limit` is 1 or 2, so that a search of two topics may find
more than it asked for. `MaxReconfigured` is 1. Two processes, which share nothing, suffice
for one to hang while the other ends. `MaxCommits` is 3 and
`MaxSwitches` 1: the tree's commit, and two after it or one of them on the other branch, and
HEAD that leaves. `MaxSlug` is 3 parts: room for `pay-ship`, and none for what follows it.

**Symmetry** is used in safety runs only, over callers, clients or viewers that
range over the same requests and over tokens, that no definition tells apart.

**Deadlock** is not checked: the work of every model ends, as each cfg says, and a
caller, a session or a stage may also stop or hang for good.

**Fairness.** The flow has weak fairness of `Answer(c)` for each caller (`FairSpec`): GitHub
answers, positively or not, every call it was sent. The code waits for each
answer without a time limit, so nothing less would let a run end. A caller is
not obliged to retry, a late call need not arrive, and other users need not act.
In `ProcessRunner` the timer fires and a child that was told to stop ends; the
child itself owes nothing, so that `CallsSettle` rests on the timer. In
`PluginRuns` the event loop continues what has settled, and a stage returns,
throws or is known to hang; `RunsEnd` says that a run ends unless its own plugin hangs.

## 4. What is proved

The proofs are checked by TLAPS, from the assumptions on the constants alone
(`ConstantsAssumption`, `DistinctPaths`, `PlannerAssumption`, `GatesAssumption`, `ClientAssumption`,
`MemoryAssumption`, `RunsAssumption`, `FilesAssumption`, `ReadsAssumption`, `TraceabilityAssumption`,
`IdsAssumption`, `DiffAssumption`, `ApplierAssumption`), for any number of callers, branches,
files, lines, candidates, calls, sessions, readers, viewers, graphs, sources, runs, paths and
roots and any value of the bounds. Every invariant and action property of a run is a theorem.
Two theorems, `CallsTellTheorem` and `TwinsTheorem`, have hypotheses of their own.

`PullRequestFlowProofs`:

- `TypeCorrect`, `PullCarriesWorkTheorem`, `LandsWholeTheorem`: invariance and
  the action property rest on `IInv`. `PullCarriesWork` is not inductive: that a
  branch holds a flow's commit when its pull request opens was established
  calls earlier, and other flows moved the branch since. `IInv` therefore says
  that histories are closed and refer to earlier commits (`HistoryOK`); that
  refs point to commits (`HeadsOK`); that every commit of a flow was built on a
  parent its branch had and, unless the branch was deleted at some time, still
  has (`AuthorsOK`); that the parent, and after `updateRef` the commit, a flow
  holds in its locals is in its branch in the same way (`FlowsOK`), and likewise
  what a call on the wire names (`WireOK`); and that a pull request points to a
  commit that has its author's work behind it (`PullsOK`). There is one step
  lemma per action; lemmas on `Reach` say that appending commits and
  fast-forwarding refs lose no ancestor. `LandsWhole` follows: a fast-forward
  onto a flow's commit starts at an ancestor of its parent, the parent is itself
  an ancestor of the head, and ancestors have smaller numbers, so the head it
  replaces is the parent.
- `OptOutTheorem` rests on a second invariant: a flow in a phase that writes,
  and a call on the wire, belong to a request with `dryRun` off.
- `ReportTheorem` says that what a run reports is real (`ReportIsReal`). A report
  names a commit and a pull request made by calls that were answered earlier, while
  others kept pushing, so `ReportsOK` follows the flow's locals from call to call: a
  changed path is listed or its blob is awaited; from `createTree` on nothing is
  awaited and the parent held every path to be deleted; from `createCommit` on the
  flow's `sha` is a commit of its files on that parent; at the end its pull request
  is its own and, unless the branch was deleted, contains that commit. A flow that stands still keeps this whatever the others do
  (`ReportStable`), because commits, and whose a pull request is, never change.

`RefinementTheorem`, in the same module, states that the flow, call by call,
implements `PullRequestPromise`, where a branch changes in one step. Each action maps
to `StartBranch`, `Land`, `LandOnRemoved`, `Propose`, a step of another user, or a
stutter: the calls that prepare a commit change nothing a branch shows. Besides `IInv` and the
second invariant the mapping needs that the first commit is in every history and
that the commit a work branch is made from has been the head of the base
(`OriginOK`, `BasesOK`; together `MapInv`), since the promise creates a branch from
something the base has held.

`ChangesProofs`, of the planner: `TypeCorrect`, `AcceptanceTheorem`, `NoDuplicateTheorem`,
`BlocksExplainedTheorem`, `StrategyTheorem`. The invariant says what `seenTargetPaths` is: a path
is seen exactly if it existed or an accepted change targets it. With it, the
chain of rules and the judgement from outside (`Faultless`) agree on the next
candidate, and the judgement on earlier ones does not change. For the reasons, `TryOutcome` and
`BlockedStays` follow a candidate through the five rules: once one has blocked it none of
the later ones applies, so that it leaves at most one reason, and a change the planner
overruled has its place among the reasons by counting (`EvaluateRanks`).

Of the gates: `GatesInvTheorem`, `AgreeTheorem` (`GatesAgree`) and `WrittenTheorem`
(`WrittenAsTold`). Lists have any length. `CommitHas` says what the commit holds at each
path, which needs that a list names a path once. `DiskOK` follows the patches: the files
of the changes applied so far are as committed, those of the later ones as in the base,
and files that no change names untouched.

`EngramMemoryProofs` has two parts. Of `ProcessRunner`: `TypeCorrect`,
`AnsweredMeansOver`, `AnswersAreTrue` and the last two together, `TrustTheorem`. The
invariant is one of each call by itself: it has an answer exactly when it has
settled, its child lives only while it runs, and the answer agrees with what was read
and with what expired, whatever the order of timer, limit, output and exit.

Of `EngramMemory`: `MemoryTypeCorrect`, `NewestTheorem`, `FindsTheorem`. A step of the
memory is a step of the processes, so their invariant comes for free, and with it the
heart of the argument: when a session makes its next call, the child of the last one
is gone. `StoreOK` says that no work of the storing session is newer than what a place
holds, for all saves that were *done*, answered or not; `HeardOK` says of each
search that was done which saves it met: all that match, unless it found as many as it
asked for or its end cut its output short. The properties, which speak of
successful calls, are not inductive.

`ServicesProofs`, of the client: `TypeCorrect`, `OwnBearerTheorem`, `SavesTheorem`, `LateTheorem`
and the last two together, `SavesInOrderTheorem`. The invariant says that the default token stays what the adapter
was made with, that a session's calls are made in turn, and that exactly what
arrived and was accepted is stored, once. A save can overtake a later one only
if the later one was issued before it arrived, and then its answer was
`unreachable` or `refused`. `SameTheorem` is `SameAsInMemory`: `TwinOK` says that the in-memory
adapter holds the saves that were issued, each session's in their order. Together with
`SavesInOrder` this gives, once every call succeeded, the same saves on both sides; what
the two adapters answer to reads is not compared.

Of the readers: `ReadsInvTheorem`, `FollowTheorem` (`ReadsFollowTheRef`) and
`ListedTheorem` (`ListedCanBeRead`). A tree and the files after it are separate requests
for a *name*, and the property compares what they returned with what the name means now.
`ReadsInv` says that a commit's history is closed, and that a file is in it as an
ancestor had it, or written later, or gone (`HistoryOK`); that a ref a reader used has moved
along its history, unless its branch is gone or HEAD was switched (`Behind`); and so that what
a reader holds is behind its ref (`TreeOK`, `ContentOK`). `Onward` is the step of the
others: they lose nothing a ref has had. `ListedCanBeRead` holds with the exceptions it names:
submodules, links out of the repository on the server, and names that the local adapter
lists otherwise than they are.

`PluginRunsProofs`: `TypeCorrect`, `OptOutTheorem` and
`ResponseTheorem`. The invariant says, for each run by itself, that its context is
what option and configuration made of it when it began, that the stages before the current
one returned (`DoneOK`), and that it ended in one of three ways: completed, refused, or
rejected by what was thrown (`ResponseOK`). `FailureTells` is what the wrapping of an error
keeps of it.

`WorkspaceFilesProofs` rests on `Inv`: the workspace is a tree (`DiskOK`); a call under
way is at a node below a root and outside the blocked directories, and in a phase of
its operation (`PlaceOK`); a file that one client has open is empty until it is filled,
unless it counts as spoilt (`WriterOK`, `WholeOK`); what an undisturbed call has found
out still holds (`SteadyOK`). Lemmas on paths (`PrefixesCompare`, `NextBelow`) and on
`assertSafe` (`SafeInside`, `SafeUnder`) carry it, and one on each action.

- `InvTheorem`, `WholeTheorem`: `Inv` and `WholeUnlessWriting` are invariant.
- `InsideTheorem`: `StaysInside`, for any roots, paths and blocked names.
- `TellsTheorem`: `UndisturbedCallsTell` together with the type invariant.
- `CallsTellTheorem`: `CallsTell`, with `ListingTrue`, under `RootsApart`: no allowed root
  lies in another. That a listing misses no file is not inductive: the file may be
  below a directory that waits in `todo`. `Listing` says so, that what was found was
  there at some time, and that every directory in `todo` is below the one asked for.
  The hypothesis is needed (section 5), and one root, as in the run, satisfies it.
- `TwinsTheorem`: `TwinsAgree`, under `RootsApart` and `PlainPaths`: clients name relative
  paths below the root, without `..`, that the policy lets through; the in-memory adapter takes
  a path as it is written and knows no root. The study *twins* is an instance. Only the client whose turn it is
  can be in a call; the others' last answers have been looked at (`TwinInv`). Each
  step of node is one of four (`ServeDoes`): it leaves the files as they are, cuts one to
  nothing, fills it or removes it. `TwinOK` says that the in-memory adapter holds the files
  of the disk (`Mirror`), but for one that is open, and that what it keeps as directories
  are directories. What the local adapter answers is then known from the invariant
  (`Tells`, `Lists`), since nothing disturbs the call.

`PatchesProofs` has two parts. Of the diff: `DiffWellFormedHolds` (`DiffWellFormed`),
`MinimalScriptHolds` (`MinimalScript`) and `ReconstructsHolds` (`Reconstructs`). `DiffInv`
only says that each variable is what its function computes from the earlier ones; the
substance is what the functions compute, which is recursion over data of any length.
A recursion up to a bound is the function of its `Rounds` (`UpToRecursion` of
`SequenceLemmas`), and an induction over those a statement about a set of numbers:

- *Counting* (`BeforeCounts`, `BeforeGrows`, `Numbered`): the number of places before k goes
  up by one at each place, so the nth place exists, and reading a sequence at some
  places in order says how many lines come before each.
- *The table* (`LcsIsTable`, `LcsBounds`): what `lcs` holds is the fixed point of its
  equations, and its first entry is at least the length of any common subsequence.
- *The walk* (`TurnTakes`, `DiffLinesExplains`): the ops so far read as the lines before
  `i` and `j`, and the lines kept and the table's entry at `i` and `j` add up to the entry at
  the start. At the end the script is one of both files and keeps as many lines as the
  table promises, which no selection from both exceeds.
- *The hunks* (`EndOfCluster`, `HunksApart`, `Layout`): a hunk shows the ops from its start
  to its edge; starts and edges are in order, also where two contexts touch, and no
  change lies between them. So headers count what they show (`HunkReads`, `HeaderNames`).
- *Applying* (`ApplyingGoes`, `AppliedIsFile`, `RoundTrip`): after each hunk the output is the
  new file up to the edge, each line as `Written` writes it. The lemma is about any file of
  the old one's length, and so also serves a file that somebody edited.

Of the applier: `AppliedUpToNextHolds`, `RunAgainConvergesHolds` and
`EditsElsewhereSurviveHolds`. `ApplierInv` says that each patch was made from a change of
its own path and what that change asks (`Plan`), that the disk holds files, and that what
is held between read and write is what the file was then, unless somebody edited it
since (`Holding`). TLC checked it on the study *apply* before it was proved.
`PatchWorks` is what a patch does to any file, to the one it was made from and, if its
hunks keep the number of lines, to its own result. With `ApplierInv` both `AppliedSoFar`
(`AppliedUpToNext` without the types) and `RunAgainConverges` are inductive.
For `EditsElsewhereSurvive` lines outside the hunks are followed through the hunks
(`ShiftedByHunk`, `MovedTo`): each moves by what the hunks before it add or remove, and what
is not such a line is one a hunk wrote.

`ServicesProofs`, of the graphs: `QueriesTheorem` (`QueriesAcrossGraphs`) and
`FirstLinkTheorem` (`FirstLinkStands`). `Merge` is a recursive function over all links, so
first comes what it does for every list of graphs: the links of the first graph stay at
their places, the keys of the result are those of all graphs together, and no key is
there twice. What `Build` makes is stated as a set: the keys *drawn* by the entities of
an input (`Draws`). `TraceInv` joins the two: the keys of a viewer's graph are those drawn
by the entities of what it has received, and each key has one link. The queries then follow from which
entity can have drawn a key of each kind.

Of the ids: `IdsTheorem` (`IdsIdentify`). `IdsInv` says that every pair is a source and
what normalization made of it in some run; that the result is a source again is a lemma
(`NormalizedIsRaw`), so that `Again` keeps the invariant. Two made ids that are equal are
of one kind (`SharedId`): equal normalized beginnings, hashes of equal texts, or the random
ids of sources that say nothing. An external id that is one `Tidy` word, all lower case and
short enough, comes through the normalization unchanged (`TidyKept`), so two of these never share an id.

`SequenceLemmas`: a set of naturals that is not empty has a least element (`Least`), so a
set that has 0 and with each number the next has them all (`Everywhere`). With these an
induction is a statement about a set; functions defined by recursion exist
(`NatRecursion`, and up to a bound `UpToRecursion`), and `FlattenSeq` has the elements of what it joins (`FlattenedElements`).

**Only model-checked**: liveness, that is `FlowSettles`, `UndisturbedFlowLands`, `RunsEnd` and
`CallsSettle`: weak fairness is a statement about ENABLED, which is out of the prover's
reach. The properties of section 5 are refuted by TLC and are no theorems.

## 5. Where documentation and code disagree

- `pr_filelist`: ARCHITECTURE.md and SECURITY.md say a repository write requires
  an explicit file list; `runPullRequestFlow` creates a branch, a commit and a
  pull request for an empty one (or one of `keep` entries only).
- `pr_typederrors`: ARCHITECTURE.md says adapters throw typed errors;
  `createBranch` and `commitChanges` let Octokit's errors through.
- `diff_crlf`: `applyUnifiedDiff` is said to reconstruct the new content; every
  CRLF line inside a hunk comes back with LF.
- `changes_deletions`: a create or update without new content passes every
  gate, the detector of unexpected deletions included, and the commit deletes
  the file.
- `core_limits`: `runCommand` is said to enforce its timeout; a child that handles the
  signal of the timer and ends with 0 makes the call succeed with output that was cut off,
  perhaps to nothing, which a search of the memory then reports as nothing found.

Seen while modelling, and part of the models, but without a run of their own:

- normalized ids are said not to drift across runs; a requirement without text and
  external id gets its id from the clock (`RandomId`, left out of `IdsDoNotDrift`);
- `listFiles` is said to list recursively; one blocked directory below makes the
  whole listing throw (`ReadDir`);
- a child that exits with an error and whose command or stderr mentions a timeout
  is reported as a retryable `TimeoutError`, at once (`mention` in `Exit`);
- `listBusinessRules` answers a page object with no rules and no error; MIGRATION.md
  speaks of the API's paginated response (`page` in `AnswerTo`);
- `listFiles` of an absolute path resolves each directory below by the first root that
  holds it: with roots `/b/c` and `/b`, listing `/b` lists something else in place of
  `/b/c` (`ReadDir` and `AssertSafe`; the hypothesis `RootsApart` leaves it out);
- the local reader lists a file whose name git quotes, or that has blanks at its ends,
  under another name, which cannot be read or is another file's (`Shown`, an exception of
  `ListedCanBeRead`);
- both readers list submodules as files, and the one of GitHub links out of the repository,
  which its `readFile` says are no files (`WithContent`, the other exceptions).

## 6. Not modelled, and the plan

`RunAgainConverges` leaves out updates that change the number of lines: applied
to their own result they insert or remove once more, and nothing in the code
says otherwise. `EditsElsewhereSurvive` is about edits outside the hunks; what a
patch makes of an edit inside one, or of an edit between the read and the write,
is not stated: the code compares nothing and promises nothing.

Left out for good: regular expressions over text (secret scanner, redaction,
sanitizer), formatting, logging, schemas, the parsing of configuration values
other than the dry run, searches, and the execution and host policies, which
nothing in `src/` calls. The in-memory pull request adapter records calls and has
no repository behind it: every call succeeds and no answer depends on an earlier one, so
there is nothing to compare with `PullRequestPromise`. `CodeGraphCliAdapter` is one
read-only call of `runCommand`. The coverage engine is imported by
`core/create-qa-core.ts` but its directory is not in the repository.

Not modelled because they are the service's or the platform's: a tree that GitHub
truncates, files above its size limit, symbolic links, an HTTP request that is
never answered, a child that ignores SIGTERM, a git worktree entered below its root.

Next: the allowed roots of the two command line adapters, composed with `PathPolicy`.
