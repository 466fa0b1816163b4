---------------------------- MODULE ChangePlanner ----------------------------
(***************************************************************************)
(* ChangePlanner.plan (src/application/changes/change-planner.ts): the     *)
(* candidates a plugin proposes are evaluated one after the other, each    *)
(* against the target paths the earlier ones took.  A candidate is drawn   *)
(* when its turn comes: its evaluation reads nothing of the later ones.    *)
(***************************************************************************)
EXTENDS Integers, Sequences, FiniteSets

CONSTANTS
  Path,           \* target paths, and directories that a scope may name
  NoPath,         \* a candidate without targetPath
  Above,          \* path -> the directories whose name plus "/" it starts with
  Proposable,     \* the candidates a plugin may propose
  MaxCandidates,  \* bound: candidates in one plan
  Coverage        \* coverage figures, Unset among them

Decision == {"create", "extend", "modify", "keep", "deprecate", "delete", "block"}

\* `evidence': requirementIds or businessRuleIds is not empty; `read' is
\* hasReadExistingContent; `justified': the reason is not blank.
Candidate == [targetPath : Path \cup {NoPath}, decision : Decision,
              evidence : BOOLEAN, read : BOOLEAN, justified : BOOLEAN]

Unset == -1     \* a coverage figure left undefined

ASSUME PlannerAssumption ==
  /\ NoPath \notin Path
  /\ Above \in [Path -> SUBSET Path]
  /\ Proposable \subseteq Candidate
  /\ MaxCandidates \in Nat
  /\ Coverage \subseteq Nat \cup {Unset}

VARIABLES
  existing,         \* input.existingArtifactPaths
  scope,            \* input.requestedScope
  candidates,       \* input.candidates, as far as they were evaluated
  changes,          \* the PlannedChanges so far
  seenTargetPaths,
  blockedReasons,   \* the reasons of the plan
  warned,           \* the coverage warning was added
  strategy          \* "none" until plan returns

vars == <<existing, scope, candidates, changes, seenTargetPaths, blockedReasons,
          warned, strategy>>

-----------------------------------------------------------------------------
(* evaluateCandidate: five rules, one after the other, each looking at the    *)
(* decision d as the rules before it left it.                                 *)

Rule == {"evidence", "scope", "duplicate", "unread", "unjustified"}

\* A reason names what the change is about and why it is blocked; "own" stands
\* for the reason the candidate came with.
Reason(c, rule) == [label |-> c.targetPath, rule |-> rule]

AnyScope(path) == TRUE            \* (slip) the scope is ignored
IsInScope(path) == scope = {} \/ path \in scope \/ Above[path] \cap scope # {}

Unevidenced(c, d) == d # "keep" /\ ~c.evidence

\* (slip) a change that is blocked already is blocked once more
OutOfScopeAnyway(c, d) == c.targetPath # NoPath /\ ~IsInScope(c.targetPath)

OutOfScope(c, d) ==
  /\ d # "block" /\ c.targetPath # NoPath
  /\ ~IsInScope(c.targetPath)

\* (slip) only what existed before is a duplicate
DuplicatesExisting(c, d) == d = "create" /\ c.targetPath \in existing

Duplicates(c, d) ==
  d = "create" /\ c.targetPath # NoPath /\ c.targetPath \in seenTargetPaths

Unread(c, d) == d # "block" /\ d \in {"modify", "delete"} /\ ~c.read

Unjustified(c, d) == d = "delete" /\ ~c.justified

\* A rule that applies blocks the change and adds its reason.
Try(applies, c, rule, e) ==
  IF applies
  THEN [decision |-> "block", reason |-> Reason(c, rule),
        blockedReasons |-> Append(e.blockedReasons, Reason(c, rule))]
  ELSE e

Evaluation(c) ==
  LET proposed == [decision |-> c.decision, reason |-> Reason(c, "own"),
                   blockedReasons |-> <<>>]
      e1 == Try(Unevidenced(c, proposed.decision), c, "evidence", proposed)
      e2 == Try(OutOfScope(c, e1.decision), c, "scope", e1)
      e3 == Try(Duplicates(c, e2.decision), c, "duplicate", e2)
      e4 == Try(Unread(c, e3.decision), c, "unread", e3)
  IN Try(Unjustified(c, e4.decision), c, "unjustified", e4)

-----------------------------------------------------------------------------

\* (slip) decisions outside the list become "keep" instead of "mixed"
StrategyOrKeep(ds) ==
  IF \E d \in {"create", "extend", "modify", "keep", "block"} : ds = {d}
  THEN CHOOSE d \in ds : TRUE
  ELSE IF Cardinality(ds) < 2 THEN "keep" ELSE "mixed"

StrategyOf(ds) ==
  IF ds = {} THEN "keep"
  ELSE IF \E d \in {"create", "extend", "modify", "keep", "block"} : ds = {d}
       THEN CHOOSE d \in ds : TRUE
       ELSE "mixed"

Decisions == {changes[i].decision : i \in DOMAIN changes}

Evaluate(c) ==
  LET e == Evaluation(c)
  IN /\ strategy = "none"
     /\ Len(candidates) < MaxCandidates
     /\ candidates' = Append(candidates, c)
     /\ changes' = Append(changes, [decision |-> e.decision, targetPath |-> c.targetPath,
                                    reason |-> e.reason])
     /\ blockedReasons' = blockedReasons \o e.blockedReasons
     /\ seenTargetPaths' = IF c.targetPath # NoPath /\ e.decision # "block"
                           THEN seenTargetPaths \cup {c.targetPath}
                           ELSE seenTargetPaths
     /\ UNCHANGED <<existing, scope, warned, strategy>>

Return(before, after) ==
  /\ strategy = "none"
  /\ warned' = (before # Unset /\ after # Unset /\ after < before)
  /\ strategy' = StrategyOf(Decisions)
  /\ UNCHANGED <<existing, scope, candidates, changes, seenTargetPaths, blockedReasons>>

Init ==
  /\ existing \in SUBSET Path
  /\ scope \in SUBSET Path
  /\ candidates = <<>>
  /\ changes = <<>>
  /\ seenTargetPaths = existing
  /\ blockedReasons = <<>>
  /\ warned = FALSE
  /\ strategy = "none"

Next ==
  \/ \E c \in Proposable : Evaluate(c)
  \/ \E before, after \in Coverage : Return(before, after)

Spec == Init /\ [][Next]_vars

-----------------------------------------------------------------------------
(* Correctness *)

Label == Path \cup {NoPath}
Change == [decision : Decision, targetPath : Label,
           reason : [label : Label, rule : Rule \cup {"own"}]]

\* Every variable of the planner stays in its type.
TypeOK ==
  /\ existing \subseteq Path /\ scope \subseteq Path /\ seenTargetPaths \subseteq Path
  /\ candidates \in Seq(Proposable)
  /\ changes \in Seq(Change)
  /\ Len(changes) = Len(candidates)
  /\ blockedReasons \in Seq([label : Label, rule : Rule])
  /\ warned \in BOOLEAN
  /\ strategy \in {"none", "create", "extend", "modify", "mixed", "keep", "block"}

Accepted(i) == changes[i].decision # "block"

\* Nothing that existed, and no change accepted before the i-th, is at path.
Free(path, i) ==
  /\ path \notin existing
  /\ \A j \in 1..(i - 1) : Accepted(j) => changes[j].targetPath # path

\* However the candidates are ordered and whatever else is blocked, a plan
\* never creates a path that existed before or that an earlier accepted change
\* of the same plan already targets (change-planner.ts:35, "no duplicates").
NoDuplicateCreate ==
  \A i \in DOMAIN changes :
    (changes[i].decision = "create" /\ changes[i].targetPath # NoPath) =>
      Free(changes[i].targetPath, i)

\* The rules judged from outside: what is in the way of candidate i, given the
\* changes accepted before it.
SpeaksAgainst(rule, i) ==
  LET c == candidates[i]
  IN \/ rule = "evidence" /\ c.decision # "keep" /\ ~c.evidence
     \/ /\ rule = "scope" /\ c.targetPath # NoPath /\ scope # {}
        /\ c.targetPath \notin scope /\ Above[c.targetPath] \cap scope = {}
     \/ /\ rule = "duplicate" /\ c.decision = "create" /\ c.targetPath # NoPath
        /\ ~Free(c.targetPath, i)
     \/ rule = "unread" /\ c.decision \in {"modify", "delete"} /\ ~c.read
     \/ rule = "unjustified" /\ c.decision = "delete" /\ ~c.justified

Faultless(i) ==
  candidates[i].decision # "block" /\ \A rule \in Rule : ~SpeaksAgainst(rule, i)

\* The order in which the rules are tried neither lets a bad candidate through
\* nor blocks a good one: a change is accepted, with the decision the plugin
\* proposed, exactly when no rule speaks against it (change-planner.ts:34-36).
AcceptsExactlyTheFaultless ==
  \A i \in DOMAIN changes :
    /\ Accepted(i) <=> Faultless(i)
    /\ Accepted(i) => changes[i] = [decision |-> candidates[i].decision,
                                    targetPath |-> candidates[i].targetPath,
                                    reason |-> Reason(candidates[i], "own")]

\* A caller that trusts the strategy of a plan alone does not overlook a write:
\* a plan called "keep" or "block" holds no change that touches a file, and one
\* called after a decision holds no other decision (deriveStrategy).
StrategyHidesNoWrite ==
  strategy \notin {"none", "mixed"} =>
    \A i \in DOMAIN changes : changes[i].decision = strategy

\* The changes whose own reason gave way to one of the planner's.
Overruled == {i \in DOMAIN changes : changes[i].reason.rule # "own"}
Rank(i) == Cardinality({j \in Overruled : j <= i})

\* The reasons of a plan can be laid beside its changes: they are the reasons of
\* the changes the planner overruled, one each and in their order, although a
\* candidate may break several rules; each names a rule the candidate really
\* breaks, and no candidate is blocked without one unless it proposed to be
\* (change-planner.ts:92-127).
BlocksExplained ==
  /\ Len(blockedReasons) = Cardinality(Overruled)
  /\ \A i \in Overruled :
       /\ blockedReasons[Rank(i)] = changes[i].reason
       /\ ~Accepted(i) /\ SpeaksAgainst(changes[i].reason.rule, i)
  /\ \A i \in DOMAIN changes :
       (~Accepted(i) /\ candidates[i].decision # "block") => i \in Overruled

=============================================================================
