---------------------------- MODULE Traceability ----------------------------
(***************************************************************************)
(* TraceabilityEngine (src/application/traceability): teams build graphs   *)
(* of the entities they know, viewers merge the graphs they receive, in    *)
(* any order and repeatedly, and query what they have.                     *)
(***************************************************************************)
EXTENDS SequencesExt

CONSTANTS
  Viewer,     \* the readers of graphs
  Id,         \* ids of entities
  Input,      \* values of TraceabilityGraphInput
  Note,       \* what a caller may put into sourceReferences
  Unset,      \* no artifactId, no note
  MaxGraphs   \* bound: graphs that are published

EntityType == {"requirement", "acceptance_criterion", "business_rule", "test_scenario",
               "automation_artifact", "execution_result", "evidence"}
Relation == {"verifies", "implements", "covers", "depends_on", "derived_from", "executed_by",
             "produced"}

\* The collections a graph is built from, as far as buildTraceabilityGraph reads them.
GraphInput ==
  [requirements : Seq([id : Id, acceptanceCriteria : Seq(Id), businessRuleIds : Seq(Id)]),
   scenarios : Seq([id : Id, requirementIds : Seq(Id), acceptanceCriterionIds : Seq(Id),
                    businessRuleIds : Seq(Id)]),
   artifacts : Seq([id : Id, scenarioIds : Seq(Id)]),
   executionResults : Seq([id : Id, scenarioId : Id, artifactId : Id \cup {Unset}]),
   evidence : Seq([id : Id, relatedEntityType : EntityType, relatedEntityId : Id])]

ASSUME TraceabilityAssumption ==
  Input \subseteq GraphInput /\ MaxGraphs \in Nat /\ Unset \notin Note \cup Id

VARIABLES
  published,  \* graphs, each with the input it was built from
  received,   \* viewer -> the published graphs it has merged
  view        \* viewer -> its merged graph

traceVars == <<published, received, view>>

-----------------------------------------------------------------------------
(* Building a graph: an end of a link is a type and an id. *)

Link(from, to, relation) ==
  [from |-> from, to |-> to, relation |-> relation, sourceReferences |-> {}]

\* One link from `from' to every id of a list.
Fan(from, type, ids, relation) ==
  [k \in DOMAIN ids |-> Link(from, <<type, ids[k]>>, relation)]

RequirementLinks(q) ==
  LET end == <<"requirement", q.id>>
  IN [k \in DOMAIN q.acceptanceCriteria |->
        Link(<<"acceptance_criterion", q.acceptanceCriteria[k]>>, end, "derived_from")]
     \o Fan(end, "business_rule", q.businessRuleIds, "depends_on")

ScenarioLinks(s) ==
  LET end == <<"test_scenario", s.id>>
  IN Fan(end, "requirement", s.requirementIds, "verifies")
     \o Fan(end, "acceptance_criterion", s.acceptanceCriterionIds, "verifies")
     \o Fan(end, "business_rule", s.businessRuleIds, "covers")

ArtifactLinks(a) == Fan(<<"automation_artifact", a.id>>, "test_scenario", a.scenarioIds, "implements")

ExecutionLinks(e) ==
  LET end == <<"execution_result", e.id>>
  IN Fan(end, "test_scenario", <<e.scenarioId>>, "verifies")
     \o Fan(end, "automation_artifact",
            IF e.artifactId = Unset THEN <<>> ELSE <<e.artifactId>>, "executed_by")

EvidenceLinks(v) ==
  IF v.relatedEntityType = "execution_result"
  THEN Fan(<<"execution_result", v.relatedEntityId>>, "evidence", <<v.id>>, "produced")
  ELSE <<>>

Each(list, LinksOf(_)) == FlattenSeq([k \in DOMAIN list |-> LinksOf(list[k])])

Build(input) ==
  Each(input.requirements, RequirementLinks) \o Each(input.scenarios, ScenarioLinks)
  \o Each(input.artifacts, ArtifactLinks) \o Each(input.executionResults, ExecutionLinks)
  \o Each(input.evidence, EvidenceLinks)

-----------------------------------------------------------------------------
(* Merging and querying graphs *)

KeyByIdsOf(l) == <<l.from[2], l.relation, l.to[2]>>       \* (slip) the types are left out
\* The text `type:id>relation>type:id' tells as much as long as no id holds a `>': ids
\* are assumed to hold none.
Key(l) == <<l.from, l.relation, l.to>>

\* (slip) the last link of a key stands
MergeLast(graphs) ==
  LET all == FlattenSeq(graphs)
      lasts == {k \in DOMAIN all : \A j \in DOMAIN all : Key(all[j]) = Key(all[k]) => j <= k}
  IN [n \in 1..Cardinality(lasts) |-> all[SetToSortSeq(lasts, <)[n]]]

\* The first link of every key, in the order of the graphs.
Merge(graphs) ==
  LET all == FlattenSeq(graphs)
      kept[n \in 0..Len(all)] ==
        IF n = 0 THEN <<>>
        ELSE LET links == kept[n - 1]
             IN IF \E k \in DOMAIN links : Key(links[k]) = Key(all[n])
                THEN links ELSE Append(links, all[n])
  IN kept[Len(all)]

Links(g) == ToSet(g)

FindCoverageForRequirement(g, q) ==
  LET criteria == {l.from[2] : l \in {x \in Links(g) : x.to = <<"requirement", q>>
                                                       /\ x.relation = "derived_from"}}
  IN {l \in Links(g) : \/ l.to = <<"requirement", q>>
                       \/ l.to[1] = "acceptance_criterion" /\ l.to[2] \in criteria}

FindArtifactsForRule(g, rule) ==
  LET from(type, ends) == {l.from[2] : l \in {x \in Links(g) : x.from[1] = type /\ x.to \in ends}}
  IN from("automation_artifact",
          {<<"test_scenario", s>> : s \in from("test_scenario", {<<"business_rule", rule>>})})

FindOrphanArtifacts(g, artifacts) ==
  artifacts \ {l.from[2] : l \in {x \in Links(g) : x.from[1] = "automation_artifact"}}

FindUncoveredCriteria(g, criteria) ==
  criteria \ {l.to[2] : l \in {x \in Links(g) : x.to[1] = "acceptance_criterion"
                                                /\ x.relation = "verifies"}}

\* known: type -> ids, for the types the caller knows; other types are not checked.
Unknown(end, known) == end[1] \in DOMAIN known /\ end[2] \notin known[end[1]]

Broken(l, known) == Unknown(l.from, known) \/ Unknown(l.to, known)

FindBrokenLinks(g, known) == {l \in Links(g) : Broken(l, known)}

-----------------------------------------------------------------------------

Annotated(g, note) ==
  IF note = Unset THEN g
  ELSE [k \in DOMAIN g |-> [g[k] EXCEPT !.sourceReferences = {note}]]

Publish(input, note) ==
  /\ Cardinality(published) < MaxGraphs
  /\ published' = published \cup {[input |-> input, graph |-> Annotated(Build(input), note)]}
  /\ UNCHANGED <<received, view>>

\* A viewer merges a graph into what it has, perhaps for the second time.
Receive(r, p) ==
  /\ p \in published
  /\ received' = [received EXCEPT ![r] = @ \cup {p}]
  /\ view' = [view EXCEPT ![r] = Merge(<<view[r], p.graph>>)]
  /\ UNCHANGED published

TraceInit ==
  /\ published = {}
  /\ received = [r \in Viewer |-> {}]
  /\ view = [r \in Viewer |-> <<>>]

TraceNext ==
  \/ \E input \in Input, note \in Note \cup {Unset} : Publish(input, note)
  \/ \E r \in Viewer : \E p \in published : Receive(r, p)

TraceSpec == TraceInit /\ [][TraceNext]_traceVars

-----------------------------------------------------------------------------
(* What a viewer has received, by kind of entity *)

Had(r, kind) == UNION {ToSet(p.input[kind]) : p \in received[r]}
CriteriaOf(qs) == UNION {ToSet(q.acceptanceCriteria) : q \in qs}
Criteria == CriteriaOf(UNION {ToSet(i.requirements) : i \in Input})
IdsOf(entities) == {x.id : x \in entities}

\* Viewers hold graphs that were published, and links without repetition.
TraceTypeOK ==
  \A r \in Viewer :
    /\ received[r] \subseteq published
    /\ \A j, k \in DOMAIN view[r] : Key(view[r][j]) = Key(view[r][k]) => j = k
    /\ \A k \in DOMAIN view[r] : view[r][k].sourceReferences \subseteq Note

\* A criterion is uncovered exactly when no scenario of any graph received
\* names it, in whatever graphs, order and versions the criterion, the scenario
\* and their requirement arrived; and a requirement's coverage lists each
\* scenario or criterion that bears on it once (traceability-engine.ts:89).
CoverageAcrossGraphs ==
  \A r \in Viewer :
    LET scenarios == Had(r, "scenarios")
        requirements == Had(r, "requirements")
    IN /\ FindUncoveredCriteria(view[r], Criteria)
            = {c \in Criteria : \A s \in scenarios : c \notin ToSet(s.acceptanceCriterionIds)}
       /\ \A q \in IdsOf(requirements) :
            LET criteria == CriteriaOf({x \in requirements : x.id = q})
                end(type, id) == <<type, id>>
                bearing ==
                  {<<end("acceptance_criterion", c), end("requirement", q)>> : c \in criteria}
                  \cup {<<end("test_scenario", s.id), end("requirement", q)>> :
                          s \in {x \in scenarios : q \in ToSet(x.requirementIds)}}
                  \cup {<<end("test_scenario", x[1].id), end("acceptance_criterion", x[2])>> :
                          x \in {y \in scenarios \X criteria :
                                  y[2] \in ToSet(y[1].acceptanceCriterionIds)}}
                coverage == FindCoverageForRequirement(view[r], q)
            IN /\ {<<l.from, l.to>> : l \in coverage} = bearing
               /\ \A l, m \in coverage : l.from = m.from /\ l.to = m.to => l = m

\* The automation of a rule is found through scenarios and artifacts of
\* different graphs, and an artifact is an orphan only while no graph received
\* gives it a scenario.
AutomationAcrossGraphs ==
  \A r \in Viewer :
    LET scenarios == Had(r, "scenarios")
        artifacts == Had(r, "artifacts")
    IN /\ \A rule \in UNION {ToSet(s.businessRuleIds) : s \in scenarios} :
            FindArtifactsForRule(view[r], rule)
              = {a.id : a \in {x \in artifacts : \E s \in scenarios :
                                  rule \in ToSet(s.businessRuleIds) /\ s.id \in ToSet(x.scenarioIds)}}
       /\ FindOrphanArtifacts(view[r], IdsOf(artifacts))
            = {i \in IdsOf(artifacts) : \A a \in artifacts : a.id = i => a.scenarioIds = <<>>}

\* What the viewer knows of, as a caller of findBrokenLinks would collect it.
KnownTo(r) ==
  [requirement |-> IdsOf(Had(r, "requirements")),
   acceptance_criterion |-> CriteriaOf(Had(r, "requirements")),
   test_scenario |-> IdsOf(Had(r, "scenarios")),
   automation_artifact |-> IdsOf(Had(r, "artifacts")),
   execution_result |-> IdsOf(Had(r, "executionResults"))]

\* No link is broken exactly when every id an entity refers to has arrived: a
\* link that was broken because a graph was late is whole when the graph comes,
\* and rules and evidence, of which the viewer keeps no list, break nothing.
BrokenWhileMissing ==
  \A r \in Viewer :
    FindBrokenLinks(view[r], KnownTo(r)) = {}
      <=> /\ \A s \in Had(r, "scenarios") :
               /\ ToSet(s.requirementIds) \subseteq KnownTo(r)["requirement"]
               /\ ToSet(s.acceptanceCriterionIds) \subseteq KnownTo(r)["acceptance_criterion"]
          /\ \A a \in Had(r, "artifacts") : ToSet(a.scenarioIds) \subseteq KnownTo(r)["test_scenario"]
          /\ \A e \in Had(r, "executionResults") :
               /\ e.scenarioId \in KnownTo(r)["test_scenario"]
               /\ e.artifactId \in KnownTo(r)["automation_artifact"] \cup {Unset}
          /\ \A v \in Had(r, "evidence") :
               v.relatedEntityType = "execution_result"
                 => v.relatedEntityId \in KnownTo(r)["execution_result"]

\* findUncoveredCriteria, findCoverageForRequirement, findArtifactsForRule,
\* findOrphanArtifacts and findBrokenLinks answer on graphs merged in any order as if
\* all entities that have arrived had been known at once.
QueriesAcrossGraphs ==
  TraceTypeOK /\ CoverageAcrossGraphs /\ AutomationAcrossGraphs /\ BrokenWhileMissing

\* mergeTraceabilityGraphs: a viewer never loses, moves or rewrites a link it has; of
\* two links with one key the one that came first keeps its source references, however
\* often and in whatever order later graphs bring the other.
FirstLinkStands == [][\A r \in Viewer : IsPrefix(view[r], view'[r])]_traceVars

=============================================================================
