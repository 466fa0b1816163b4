--------------------------- MODULE MCTraceability ---------------------------
(* Inputs for Traceability, six, of teams that refer to each other's         *)
(* entities; a requirement and a criterion share an id, and a scenario       *)
(* comes in two versions.                                                    *)
EXTENDS Traceability, TLC

CONSTANTS shared, crit, rule, scn, ghost, art, stray, exec, ev, note, viewerOne, viewerTwo

Viewers == {viewerOne, viewerTwo}
EntityIds == {shared, crit, rule, scn, ghost, art, stray, exec, ev}
Notes == {note}
Symmetric == Permutations(Viewers)

Nothing == [requirements |-> <<>>, scenarios |-> <<>>, artifacts |-> <<>>,
            executionResults |-> <<>>, evidence |-> <<>>]

Scenario(id, qs, cs, rs) ==
  [id |-> id, requirementIds |-> qs, acceptanceCriterionIds |-> cs, businessRuleIds |-> rs]
Execution(a) == [id |-> exec, scenarioId |-> scn, artifactId |-> a]
Evidence(type) == [id |-> ev, relatedEntityType |-> type, relatedEntityId |-> exec]

Inputs ==
  {[Nothing EXCEPT !.requirements =
      <<[id |-> shared, acceptanceCriteria |-> <<shared, crit>>, businessRuleIds |-> <<rule>>]>>],
   [Nothing EXCEPT !.scenarios = <<Scenario(scn, <<shared>>, <<shared>>, <<>>)>>,
                   !.evidence = <<Evidence("automation_artifact")>>],
   [Nothing EXCEPT !.scenarios = <<Scenario(scn, <<shared>>, <<>>, <<rule>>), Scenario(ghost, <<>>, <<crit>>, <<>>)>>],
   [Nothing EXCEPT !.artifacts = <<[id |-> art, scenarioIds |-> <<scn, ghost>>],
                                   [id |-> stray, scenarioIds |-> <<>>]>>],
   [Nothing EXCEPT !.scenarios = <<Scenario(scn, <<shared>>, <<shared>>, <<>>), Scenario(scn, <<shared>>, <<crit>>, <<>>)>>,
                   !.executionResults = <<Execution(stray)>>],
   [Nothing EXCEPT !.executionResults = <<Execution(Unset)>>,
                   !.evidence = <<Evidence("execution_result")>>]}

=============================================================================
