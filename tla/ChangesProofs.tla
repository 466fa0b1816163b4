---------------------------- MODULE ChangesProofs ----------------------------
(***************************************************************************)
(* What becomes of proposed changes, in two parts. The planner's theorems, *)
(* for any paths, candidates and order of them: the invariant that carries *)
(* them says what the set of seen target paths is, what existed and what   *)
(* the accepted changes target. And the theorems of the gates, for any     *)
(* lists, scopes and secrets: what passes them is what is written.         *)
(***************************************************************************)
EXTENDS ChangePlanner, ChangeGates, FiniteSetTheorems, TLAPS

-----------------------------------------------------------------------------
(* The planner *)

SeenIsTaken ==
  \A p \in Path : p \in seenTargetPaths <=> ~Free(p, Len(changes) + 1)

\* The reason of an overruled change stands in its place and is true of it.
Explains(i) ==
  /\ blockedReasons[Rank(i)] = changes[i].reason
  /\ ~Accepted(i) /\ SpeaksAgainst(changes[i].reason.rule, i)

IInv == TypeOK /\ SeenIsTaken /\ AcceptsExactlyTheFaultless /\ BlocksExplained

\* The rule that blocks the candidate, or "none": the five rules in the order
\* they are tried, the first that applies stands.
FirstRule(c) ==
  IF Unevidenced(c, c.decision) THEN "evidence"
  ELSE IF OutOfScope(c, c.decision) THEN "scope"
  ELSE IF Duplicates(c, c.decision) THEN "duplicate"
  ELSE IF Unread(c, c.decision) THEN "unread"
  ELSE IF Unjustified(c, c.decision) THEN "unjustified"
  ELSE "none"

\* What an evaluation comes to when the rule was the first to apply.
Outcome(c, rule) ==
  IF rule = "none"
  THEN [decision |-> c.decision, reason |-> Reason(c, "own"), blockedReasons |-> <<>>]
  ELSE [decision |-> "block", reason |-> Reason(c, rule),
        blockedReasons |-> <<Reason(c, rule)>>]

-----------------------------------------------------------------------------

\* A rule that does not apply leaves the evaluation alone, and one that applies
\* to a change no rule has blocked makes it the outcome of that rule.
LEMMA TryOutcome ==
  ASSUME NEW c, NEW rule \in Rule, NEW applies \in BOOLEAN
  PROVE  Try(applies, c, rule, Outcome(c, "none")) =
           Outcome(c, IF applies THEN rule ELSE "none")
<1>1. rule # "none"
  BY DEF Rule
<1>2. Append(<<>>, Reason(c, rule)) = <<Reason(c, rule)>>
  OBVIOUS
<1>3. Outcome(c, "none").blockedReasons = <<>>
  BY DEF Outcome
<1> QED
  BY <1>1, <1>2, <1>3 DEF Try, Outcome

\* What is blocked stays as it is: no later rule looks at a blocked change.
LEMMA BlockedStays ==
  ASSUME NEW c
  PROVE  /\ ~OutOfScope(c, "block") /\ ~Duplicates(c, "block")
         /\ ~Unread(c, "block") /\ ~Unjustified(c, "block")
  BY DEF OutOfScope, Duplicates, Unread, Unjustified

\* The five rules together come to the outcome of the first that applies.
LEMMA EvaluationIs ==
  ASSUME NEW c
  PROVE  Evaluation(c) = Outcome(c, FirstRule(c))
<1> DEFINE e0 == Outcome(c, "none")
           e1 == Try(Unevidenced(c, e0.decision), c, "evidence", e0)
           e2 == Try(OutOfScope(c, e1.decision), c, "scope", e1)
           e3 == Try(Duplicates(c, e2.decision), c, "duplicate", e2)
           e4 == Try(Unread(c, e3.decision), c, "unread", e3)
           e5 == Try(Unjustified(c, e4.decision), c, "unjustified", e4)
           r1 == IF Unevidenced(c, c.decision) THEN "evidence" ELSE "none"
           r2 == IF r1 # "none" THEN r1
                 ELSE IF OutOfScope(c, c.decision) THEN "scope" ELSE "none"
           r3 == IF r2 # "none" THEN r2
                 ELSE IF Duplicates(c, c.decision) THEN "duplicate" ELSE "none"
           r4 == IF r3 # "none" THEN r3
                 ELSE IF Unread(c, c.decision) THEN "unread" ELSE "none"
           r5 == IF r4 # "none" THEN r4
                 ELSE IF Unjustified(c, c.decision) THEN "unjustified" ELSE "none"
<1>1. Evaluation(c) = e5
  BY DEF Evaluation, Outcome
<1>2. e0.decision = c.decision
  BY DEF Outcome
<1>3. /\ Unevidenced(c, c.decision) \in BOOLEAN /\ OutOfScope(c, c.decision) \in BOOLEAN
      /\ Duplicates(c, c.decision) \in BOOLEAN /\ Unread(c, c.decision) \in BOOLEAN
      /\ Unjustified(c, c.decision) \in BOOLEAN
  BY DEF Unevidenced, OutOfScope, Duplicates, Unread, Unjustified
<1>4. {"evidence", "scope", "duplicate", "unread", "unjustified"} = Rule /\ "none" \notin Rule
  BY DEF Rule
<1>5. ASSUME NEW r \in Rule PROVE Outcome(c, r).decision = "block"
  BY <1>4, <1>5 DEF Outcome
<1>7. e1 = Outcome(c, r1) /\ r1 \in Rule \cup {"none"}
  BY <1>2, <1>3, <1>4, TryOutcome
<1> HIDE DEF e0, e1, r1
<1>8. e2 = Outcome(c, r2) /\ r2 \in Rule \cup {"none"}
  <2>1. CASE r1 = "none"
    <3>1. e1.decision = c.decision
      BY <1>2, <1>7, <2>1 DEF e0
    <3> QED
      BY <1>3, <1>4, <1>7, <2>1, <3>1, TryOutcome
  <2>2. CASE r1 # "none"
    <3>1. e1.decision = "block"
      BY <1>5, <1>7, <2>2
    <3>2. ~OutOfScope(c, e1.decision)
      BY <3>1, BlockedStays
    <3>3. e2 = e1
      BY <3>2 DEF Try
    <3> QED
      BY <1>7, <2>2, <3>3
  <2> QED
    BY <2>1, <2>2
<1> HIDE DEF e2, r2
<1>9. e3 = Outcome(c, r3) /\ r3 \in Rule \cup {"none"}
  <2>1. CASE r2 = "none"
    <3>1. e2.decision = c.decision
      BY <1>2, <1>8, <2>1 DEF e0
    <3> QED
      BY <1>3, <1>4, <1>8, <2>1, <3>1, TryOutcome
  <2>2. CASE r2 # "none"
    <3>1. e2.decision = "block"
      BY <1>5, <1>8, <2>2
    <3>2. ~Duplicates(c, e2.decision)
      BY <3>1, BlockedStays
    <3>3. e3 = e2
      BY <3>2 DEF Try
    <3> QED
      BY <1>8, <2>2, <3>3
  <2> QED
    BY <2>1, <2>2
<1> HIDE DEF e3, r3
<1>10. e4 = Outcome(c, r4) /\ r4 \in Rule \cup {"none"}
  <2>1. CASE r3 = "none"
    <3>1. e3.decision = c.decision
      BY <1>2, <1>9, <2>1 DEF e0
    <3> QED
      BY <1>3, <1>4, <1>9, <2>1, <3>1, TryOutcome
  <2>2. CASE r3 # "none"
    <3>1. e3.decision = "block"
      BY <1>5, <1>9, <2>2
    <3>2. ~Unread(c, e3.decision)
      BY <3>1, BlockedStays
    <3>3. e4 = e3
      BY <3>2 DEF Try
    <3> QED
      BY <1>9, <2>2, <3>3
  <2> QED
    BY <2>1, <2>2
<1> HIDE DEF e4, r4
<1>11. e5 = Outcome(c, r5)
  <2>1. CASE r4 = "none"
    <3>1. e4.decision = c.decision
      BY <1>2, <1>10, <2>1 DEF e0
    <3> QED
      BY <1>3, <1>4, <1>10, <2>1, <3>1, TryOutcome
  <2>2. CASE r4 # "none"
    <3>1. e4.decision = "block"
      BY <1>5, <1>10, <2>2
    <3>2. ~Unjustified(c, e4.decision)
      BY <3>1, BlockedStays
    <3>3. e5 = e4
      BY <3>2 DEF Try
    <3> QED
      BY <1>10, <2>2, <3>3
  <2> QED
    BY <2>1, <2>2
<1>12. r5 = FirstRule(c)
  BY DEF FirstRule, r1, r2, r3, r4
<1> QED
  BY <1>1, <1>11, <1>12

\* What an evaluation leaves of the candidate, in its type.
LEMMA EvaluationTyped ==
  ASSUME NEW c \in Proposable
  PROVE  LET e == Evaluation(c)
         IN /\ FirstRule(c) \in Rule \cup {"none"}
            /\ e.decision = IF FirstRule(c) = "none" THEN c.decision ELSE "block"
            /\ e.reason = Reason(c, IF FirstRule(c) = "none" THEN "own" ELSE FirstRule(c))
            /\ e.blockedReasons = IF FirstRule(c) = "none" THEN <<>>
                                  ELSE <<Reason(c, FirstRule(c))>>
            /\ [decision |-> e.decision, targetPath |-> c.targetPath,
                reason |-> e.reason] \in Change
<1>1. c \in Candidate
  BY PlannerAssumption
<1>2. FirstRule(c) \in Rule \cup {"none"} /\ "none" \notin Rule
  BY DEF FirstRule, Rule
<1>3. /\ Evaluation(c).decision = IF FirstRule(c) = "none" THEN c.decision ELSE "block"
      /\ Evaluation(c).reason = Reason(c, IF FirstRule(c) = "none" THEN "own" ELSE FirstRule(c))
      /\ Evaluation(c).blockedReasons = IF FirstRule(c) = "none" THEN <<>>
                                        ELSE <<Reason(c, FirstRule(c))>>
  BY EvaluationIs DEF Outcome
<1>4. Evaluation(c).decision \in Decision /\ c.targetPath \in Label
  BY <1>1, <1>3 DEF Candidate, Decision, Label
<1>5. Evaluation(c).reason \in [label : Label, rule : Rule \cup {"own"}]
  BY <1>2, <1>3, <1>4 DEF Reason
<1> QED
  BY <1>2, <1>3, <1>4, <1>5 DEF Change

\* A planner that has evaluated nothing satisfies the invariant.
LEMMA InitIInv == Init => IInv
<1> SUFFICES ASSUME Init PROVE IInv
  OBVIOUS
<1>1. changes = <<>> /\ candidates = <<>> /\ blockedReasons = <<>>
  BY DEF Init
<1>2. Len(changes) = 0 /\ DOMAIN changes = {} /\ Len(blockedReasons) = 0
  BY <1>1
<1>3. changes \in Seq(Change) /\ candidates \in Seq(Proposable)
      /\ blockedReasons \in Seq([label : Label, rule : Rule])
  BY <1>1
<1>4. TypeOK
  BY <1>1, <1>3 DEF Init, TypeOK
<1>5. SeenIsTaken
  BY <1>2 DEF Init, SeenIsTaken, Free
<1>6. Overruled = {} /\ Cardinality(Overruled) = 0
  BY <1>2, FS_EmptySet DEF Overruled
<1>7. AcceptsExactlyTheFaultless /\ BlocksExplained
  BY <1>2, <1>6 DEF AcceptsExactlyTheFaultless, BlocksExplained
<1> QED
  BY <1>4, <1>5, <1>7 DEF IInv

\* Evaluating a candidate makes both sequences longer by one.
LEMMA EvaluateGrows ==
  ASSUME TypeOK, NEW c \in Proposable, Evaluate(c)
  PROVE  /\ c \in Candidate /\ Len(changes) \in Nat
         /\ candidates' \in Seq(Proposable) /\ changes' \in Seq(Change)
         /\ Len(candidates) = Len(changes) /\ Len(candidates') = Len(changes')
         /\ DOMAIN changes = 1..Len(changes) /\ DOMAIN changes' = 1..(Len(changes) + 1)
         /\ Len(changes') = Len(changes) + 1
<1>1. c \in Candidate
  BY PlannerAssumption
<1>2. [decision |-> Evaluation(c).decision, targetPath |-> c.targetPath,
       reason |-> Evaluation(c).reason] \in Change
  BY EvaluationTyped
<1> QED
  BY <1>1, <1>2 DEF TypeOK, Evaluate

\* It leaves the changes and candidates it finds alone.
LEMMA EvaluateKeeps ==
  ASSUME TypeOK, NEW c \in Proposable, Evaluate(c), NEW i \in 1..Len(changes)
  PROVE  changes'[i] = changes[i] /\ candidates'[i] = candidates[i]
<1>1. [decision |-> Evaluation(c).decision, targetPath |-> c.targetPath,
       reason |-> Evaluation(c).reason] \in Change
  BY EvaluationTyped
<1> QED
  BY <1>1 DEF TypeOK, Evaluate

\* It puts the candidate, and its change, at the end.
LEMMA EvaluateAdds ==
  ASSUME TypeOK, NEW c \in Proposable, Evaluate(c)
  PROVE  LET n == Len(changes) + 1
         IN /\ candidates'[n] = c
            /\ changes'[n] = [decision |-> changes'[n].decision, targetPath |-> c.targetPath,
                              reason |-> changes'[n].reason]
            /\ changes'[n].targetPath = c.targetPath
            /\ changes'[n].decision = IF FirstRule(c) = "none" THEN c.decision ELSE "block"
            /\ changes'[n].reason =
                 Reason(c, IF FirstRule(c) = "none" THEN "own" ELSE FirstRule(c))
            /\ changes'[n].decision = Evaluation(c).decision
<1> DEFINE d == Evaluation(c).decision
           r == Evaluation(c).reason
           ch == [decision |-> d, targetPath |-> c.targetPath, reason |-> r]
<1>1. ch \in Change
  BY EvaluationTyped
<1>2. candidates' = Append(candidates, c) /\ changes' = Append(changes, ch)
  BY DEF Evaluate
<1>3. changes \in Seq(Change) /\ candidates \in Seq(Proposable) /\ Len(changes) = Len(candidates)
  BY DEF TypeOK
<1>4. /\ d = IF FirstRule(c) = "none" THEN c.decision ELSE "block"
      /\ r = Reason(c, IF FirstRule(c) = "none" THEN "own" ELSE FirstRule(c))
  BY EvaluationTyped
<1>5. ch.decision = d /\ ch.targetPath = c.targetPath /\ ch.reason = r
      /\ ch = [decision |-> ch.decision, targetPath |-> ch.targetPath, reason |-> ch.reason]
  OBVIOUS
<1> HIDE DEF ch
<1>6. changes'[Len(changes) + 1] = ch /\ candidates'[Len(changes) + 1] = c
  BY <1>1, <1>2, <1>3
<1> QED
  BY <1>4, <1>5, <1>6

\* The types survive an evaluation.
LEMMA EvaluateTypeOK ==
  ASSUME TypeOK, NEW c \in Proposable, Evaluate(c)
  PROVE  TypeOK'
<1>1. c.targetPath \in Path \cup {NoPath} /\ c.targetPath \in Label
  BY EvaluateGrows DEF Candidate, Label
<1>2. seenTargetPaths' \subseteq Path
  BY <1>1 DEF TypeOK, Evaluate
<1>3. Evaluation(c).blockedReasons \in Seq([label : Label, rule : Rule])
  <2>1. CASE FirstRule(c) = "none"
    <3>1. Evaluation(c).blockedReasons = <<>>
      BY <2>1, EvaluationTyped
    <3> QED
      BY <3>1
  <2>2. CASE FirstRule(c) \in Rule
    <3>1. Evaluation(c).blockedReasons = <<Reason(c, FirstRule(c))>>
      BY <2>2, EvaluationTyped DEF Rule
    <3>2. Reason(c, FirstRule(c)) \in [label : Label, rule : Rule]
      BY <1>1, <2>2 DEF Reason
    <3> QED
      BY <3>1, <3>2
  <2> QED
    BY <2>1, <2>2, EvaluationTyped
<1>4. blockedReasons' \in Seq([label : Label, rule : Rule])
  BY <1>3 DEF TypeOK, Evaluate
<1> QED
  BY <1>2, <1>4, EvaluateGrows DEF TypeOK, Evaluate

\* An earlier change is judged by what came before it, so the judgement stays.
LEMMA FreeStable ==
  ASSUME TypeOK, NEW c \in Proposable, Evaluate(c), NEW i \in 1..(Len(changes) + 1),
         NEW p \in Path
  PROVE  Free(p, i)' <=> Free(p, i)
<1>1. \A j \in 1..(i - 1) : changes'[j] = changes[j]
  <2>1. 1..(i - 1) \subseteq 1..Len(changes)
    BY EvaluateGrows
  <2> QED
    BY <2>1, EvaluateKeeps
<1> QED
  BY <1>1 DEF Free, Accepted, Evaluate

\* The set of seen paths keeps its meaning.
LEMMA EvaluateSeen ==
  ASSUME TypeOK, SeenIsTaken, NEW c \in Proposable, Evaluate(c)
  PROVE  SeenIsTaken'
<1>1. PICK n \in Nat : n = Len(changes)
  BY EvaluateGrows
<1>2. Len(changes') = n + 1 /\ 1..((n + 1 + 1) - 1) = 1..((n + 1) - 1) \cup {n + 1}
  BY <1>1, EvaluateGrows
<1>3. changes'[n + 1].targetPath = c.targetPath
  BY <1>1, EvaluateAdds
<1>4. seenTargetPaths' = IF c.targetPath # NoPath /\ changes'[n + 1].decision # "block"
                         THEN seenTargetPaths \cup {c.targetPath} ELSE seenTargetPaths
  BY <1>1, EvaluateAdds DEF Evaluate
<1>5. ASSUME NEW p \in Path
      PROVE  p \in seenTargetPaths' <=> ~Free(p, n + 1 + 1)'
  <2>1. Free(p, n + 1)' <=> Free(p, n + 1)
    BY <1>1, FreeStable
  <2>2. Free(p, n + 1 + 1)' <=>
          Free(p, n + 1)' /\ (changes'[n + 1].decision # "block" => c.targetPath # p)
    BY <1>2, <1>3 DEF Free, Accepted
  <2>3. p \in seenTargetPaths <=> ~Free(p, n + 1)
    BY <1>1 DEF SeenIsTaken
  <2>4. p # NoPath
    BY PlannerAssumption
  <2> QED
    BY <1>4, <2>1, <2>2, <2>3, <2>4
<1> QED
  <2>1. Path' = Path
    OBVIOUS
  <2> QED
    BY <1>2, <1>5 DEF SeenIsTaken

\* No rule blocks the next candidate exactly when none speaks against it.
LEMMA RulesMatch ==
  ASSUME TypeOK, SeenIsTaken, NEW c \in Proposable, Evaluate(c),
         NEW n \in Nat, n = Len(changes)
  PROVE  /\ Faultless(n + 1)' <=> changes'[n + 1].decision # "block"
         /\ \A r \in Rule : FirstRule(c) = r => SpeaksAgainst(r, n + 1)'
<1>1. n = Len(changes)
  OBVIOUS
<1>2. c \in Candidate
  BY PlannerAssumption
<1>3. c.evidence \in BOOLEAN /\ c.read \in BOOLEAN /\ c.justified \in BOOLEAN
      /\ c.targetPath \in Path \cup {NoPath}
  BY <1>2 DEF Candidate
<1>4. candidates'[n + 1] = c /\ scope' = scope
  BY <1>1, EvaluateAdds DEF Evaluate
<1>5. c.targetPath # NoPath => (Free(c.targetPath, n + 1)' <=> c.targetPath \notin seenTargetPaths)
  <2> SUFFICES ASSUME c.targetPath \in Path
               PROVE  Free(c.targetPath, n + 1)' <=> c.targetPath \notin seenTargetPaths
    BY <1>3
  <2>1. PICK p \in Path : p = c.targetPath
    OBVIOUS
  <2>2. Free(p, n + 1)' <=> Free(p, n + 1)
    BY <1>1, FreeStable
  <2> QED
    BY <1>1, <2>1, <2>2 DEF SeenIsTaken
<1>6. /\ Unevidenced(c, c.decision) <=> SpeaksAgainst("evidence", n + 1)'
      /\ OutOfScope(c, c.decision) \/ c.decision = "block" <=>
           SpeaksAgainst("scope", n + 1)' \/ c.decision = "block"
      /\ Duplicates(c, c.decision) <=> SpeaksAgainst("duplicate", n + 1)'
      /\ Unread(c, c.decision) <=> SpeaksAgainst("unread", n + 1)'
      /\ Unjustified(c, c.decision) <=> SpeaksAgainst("unjustified", n + 1)'
  BY <1>3, <1>4, <1>5 DEF SpeaksAgainst, Unevidenced, OutOfScope, IsInScope, Duplicates,
    Unread, Unjustified
<1>7. FirstRule(c) = "none" <=>
        ~(\/ Unevidenced(c, c.decision) \/ OutOfScope(c, c.decision)
          \/ Duplicates(c, c.decision) \/ Unread(c, c.decision) \/ Unjustified(c, c.decision))
  BY DEF FirstRule
<1>8. changes'[n + 1].decision = IF FirstRule(c) = "none" THEN c.decision ELSE "block"
  BY <1>1, EvaluateAdds
<1>9. Faultless(n + 1)' <=>
        ~(\/ SpeaksAgainst("evidence", n + 1)' \/ SpeaksAgainst("scope", n + 1)'
          \/ SpeaksAgainst("duplicate", n + 1)' \/ SpeaksAgainst("unread", n + 1)'
          \/ SpeaksAgainst("unjustified", n + 1)' \/ c.decision = "block")
  BY <1>4 DEF Faultless, Rule
<1>10. ASSUME NEW r \in Rule, FirstRule(c) = r
       PROVE  SpeaksAgainst(r, n + 1)'
  <2>1. /\ r = "evidence" => Unevidenced(c, c.decision)
        /\ r = "scope" => OutOfScope(c, c.decision)
        /\ r = "duplicate" => Duplicates(c, c.decision)
        /\ r = "unread" => Unread(c, c.decision)
        /\ r = "unjustified" => Unjustified(c, c.decision)
    BY <1>10 DEF FirstRule
  <2>2. r = "scope" => c.decision # "block"
    BY <2>1 DEF OutOfScope
  <2> QED
    BY <1>6, <2>1, <2>2 DEF Rule
<1> QED
  BY <1>6, <1>7, <1>8, <1>9, <1>10

\* What speaks against an earlier candidate spoke against it before.
LEMMA SpeaksStable ==
  ASSUME TypeOK, NEW c \in Proposable, Evaluate(c), NEW i \in 1..Len(changes), NEW rule
  PROVE  SpeaksAgainst(rule, i)' <=> SpeaksAgainst(rule, i)
<1>1. PICK n \in Nat : n = Len(changes)
  BY EvaluateGrows
<1>2. candidates'[i] = candidates[i] /\ scope' = scope
  BY EvaluateKeeps DEF Evaluate
<1>3. candidates[i].targetPath \in Path \cup {NoPath}
  <2>1. candidates[i] \in Proposable
    BY EvaluateGrows DEF TypeOK
  <2> QED
    BY <2>1, PlannerAssumption DEF Candidate
<1>4. candidates[i].targetPath # NoPath =>
        (Free(candidates[i].targetPath, i)' <=> Free(candidates[i].targetPath, i))
  <2> SUFFICES ASSUME candidates[i].targetPath # NoPath
               PROVE  Free(candidates[i].targetPath, i)' <=> Free(candidates[i].targetPath, i)
    OBVIOUS
  <2>1. PICK p \in Path : p = candidates[i].targetPath
    BY <1>3
  <2>2. i \in 1..(Len(changes) + 1)
    BY <1>1
  <2>3. Free(p, i)' <=> Free(p, i)
    BY <2>2, FreeStable
  <2> QED
    BY <1>2, <2>1, <2>3
<1> QED
  BY <1>2, <1>4 DEF SpeaksAgainst

\* A change is accepted exactly when it is faultless, after as before.
LEMMA EvaluateAccepts ==
  ASSUME TypeOK, SeenIsTaken, AcceptsExactlyTheFaultless,
         NEW c \in Proposable, Evaluate(c)
  PROVE  AcceptsExactlyTheFaultless'
<1> DEFINE Told(i) == changes[i] = [decision |-> candidates[i].decision,
                                    targetPath |-> candidates[i].targetPath,
                                    reason |-> Reason(candidates[i], "own")]
<1>1. PICK n \in Nat : n = Len(changes)
  BY EvaluateGrows
<1>2. DOMAIN changes' = 1..n \cup {n + 1} /\ DOMAIN changes = 1..n
  <2>1. DOMAIN changes' = 1..(n + 1) /\ DOMAIN changes = 1..n
    BY <1>1, EvaluateGrows
  <2>2. 1..(n + 1) = 1..n \cup {n + 1}
    OBVIOUS
  <2> QED
    BY <2>1, <2>2
<1>3. ASSUME NEW i \in 1..n
      PROVE  (Accepted(i)' <=> Faultless(i)') /\ (Accepted(i)' => Told(i)')
  <2>1. changes'[i] = changes[i] /\ candidates'[i] = candidates[i]
    BY <1>1, EvaluateKeeps
  <2>2. Faultless(i)' <=> Faultless(i)
    <3>1. \A rule \in Rule : SpeaksAgainst(rule, i)' <=> SpeaksAgainst(rule, i)
      BY <1>1, SpeaksStable
    <3> QED
      BY <2>1, <3>1 DEF Faultless
  <2>3. (Accepted(i) <=> Faultless(i)) /\ (Accepted(i) => Told(i))
    BY <1>2 DEF AcceptsExactlyTheFaultless
  <2> QED
    BY <2>1, <2>2, <2>3 DEF Accepted, Reason
<1>4. (Accepted(n + 1)' <=> Faultless(n + 1)') /\ (Accepted(n + 1)' => Told(n + 1)')
  <2>1. Faultless(n + 1)' <=> changes'[n + 1].decision # "block"
    BY <1>1, RulesMatch
  <2>2. /\ candidates'[n + 1] = c
        /\ changes'[n + 1] = [decision |-> changes'[n + 1].decision, targetPath |-> c.targetPath,
                              reason |-> changes'[n + 1].reason]
        /\ changes'[n + 1].decision = IF FirstRule(c) = "none" THEN c.decision ELSE "block"
        /\ changes'[n + 1].reason =
             Reason(c, IF FirstRule(c) = "none" THEN "own" ELSE FirstRule(c))
    BY <1>1, EvaluateAdds
  <2>3. changes'[n + 1].decision # "block" => FirstRule(c) = "none"
    BY <2>2
  <2>4. FirstRule(c) = "none" =>
          changes'[n + 1] = [decision |-> c.decision, targetPath |-> c.targetPath,
                             reason |-> Reason(c, "own")]
    BY <2>2
  <2>5. Told(n + 1)' <=> changes'[n + 1] = [decision |-> c.decision, targetPath |-> c.targetPath,
                                            reason |-> Reason(c, "own")]
    BY <2>2 DEF Reason
  <2> QED
    BY <2>1, <2>3, <2>4, <2>5 DEF Accepted
<1> QED
  BY <1>2, <1>3, <1>4 DEF AcceptsExactlyTheFaultless

\* The overruled changes stay overruled at their ranks, and the new one, if it
\* is overruled, takes the next.
LEMMA EvaluateRanks ==
  ASSUME TypeOK, NEW c \in Proposable, Evaluate(c), NEW n \in Nat, n = Len(changes)
  PROVE  /\ IsFiniteSet(Overruled) /\ Overruled \subseteq 1..n
         /\ \A i \in Overruled : Rank(i) \in 1..Cardinality(Overruled) /\ Rank(i)' = Rank(i)
         /\ FirstRule(c) = "none" => Overruled' = Overruled
         /\ FirstRule(c) # "none" => /\ Overruled' = Overruled \cup {n + 1}
                                     /\ Cardinality(Overruled') = Cardinality(Overruled) + 1
                                     /\ Rank(n + 1)' = Cardinality(Overruled) + 1
<1>1. DOMAIN changes = 1..n /\ DOMAIN changes' = 1..(n + 1)
  BY EvaluateGrows
<1>2. \A i \in 1..n : changes'[i] = changes[i]
  BY EvaluateKeeps
<1>3. Overruled \subseteq 1..n /\ n + 1 \notin Overruled
  BY <1>1 DEF Overruled
<1>4. IsFiniteSet(Overruled)
  BY <1>3, FS_Interval, FS_Subset, 1 \in Int, n \in Int
<1>5. FirstRule(c) \in Rule \cup {"none"} /\ "own" \notin Rule
  BY EvaluationTyped DEF Rule
<1>6. changes'[n + 1].reason.rule = IF FirstRule(c) = "none" THEN "own" ELSE FirstRule(c)
  <2>1. changes'[n + 1].reason = Reason(c, IF FirstRule(c) = "none" THEN "own" ELSE FirstRule(c))
    BY EvaluateAdds
  <2> QED
    BY <2>1 DEF Reason
<1>7. Overruled' = IF FirstRule(c) = "none" THEN Overruled ELSE Overruled \cup {n + 1}
  <2>1. Overruled' = {i \in 1..(n + 1) : changes'[i].reason.rule # "own"}
    BY <1>1 DEF Overruled
  <2>2. Overruled = {i \in 1..n : changes[i].reason.rule # "own"}
    BY <1>1 DEF Overruled
  <2>3. FirstRule(c) # "none" => FirstRule(c) # "own"
    BY <1>5
  <2> QED
    BY <1>2, <1>6, <2>1, <2>2, <2>3
<1>8. ASSUME NEW i \in Overruled
      PROVE  Rank(i) \in 1..Cardinality(Overruled) /\ Rank(i)' = Rank(i)
  <2> DEFINE upTo == {j \in Overruled : j <= i}
  <2>1. IsFiniteSet(upTo) /\ upTo \subseteq Overruled
    BY <1>4, FS_Subset
  <2>2. Cardinality(upTo) \in Nat /\ Cardinality(upTo) <= Cardinality(Overruled)
        /\ Cardinality(Overruled) \in Nat
    BY <1>4, <2>1, FS_Subset, FS_CardinalityType
  <2>3. i \in upTo
    BY <1>3
  <2>4. Cardinality(upTo) # 0
    BY <2>1, <2>3, FS_EmptySet
  <2>5. {j \in Overruled' : j <= i} = upTo
    BY <1>3, <1>7
  <2>6. Rank(i) = Cardinality(upTo) /\ Rank(i)' = Cardinality(upTo)
    BY <2>5 DEF Rank
  <2> HIDE DEF upTo
  <2> QED
    BY <2>2, <2>4, <2>6
<1>9. ASSUME FirstRule(c) # "none"
      PROVE  /\ Cardinality(Overruled') = Cardinality(Overruled) + 1
             /\ Rank(n + 1)' = Cardinality(Overruled) + 1
  <2>1. Overruled' = Overruled \cup {n + 1}
    BY <1>7, <1>9
  <2>2. Cardinality(Overruled \cup {n + 1}) = Cardinality(Overruled) + 1
    BY <1>3, <1>4, FS_AddElement
  <2>3. \A j \in Overruled \cup {n + 1} : j <= n + 1
    BY <1>3
  <2>4. {j \in Overruled' : j <= n + 1} = Overruled \cup {n + 1}
    BY <2>1, <2>3
  <2> QED
    BY <2>1, <2>2, <2>4 DEF Rank
<1> QED
  BY <1>3, <1>4, <1>7, <1>8, <1>9

\* The reasons stay beside their changes, and a block gets its reason.
LEMMA EvaluateReasons ==
  ASSUME TypeOK, SeenIsTaken, BlocksExplained, NEW c \in Proposable, Evaluate(c)
  PROVE  BlocksExplained'
<1>1. PICK n \in Nat : n = Len(changes)
  BY EvaluateGrows
<1>2. PICK m \in Nat : m = Len(blockedReasons)
  BY DEF TypeOK
<1>3. DOMAIN changes = 1..n /\ DOMAIN changes' = 1..(n + 1)
  BY <1>1, EvaluateGrows
<1>4. \A i \in 1..n : changes'[i] = changes[i] /\ candidates'[i] = candidates[i]
  BY <1>1, EvaluateKeeps
<1>5. /\ candidates'[n + 1] = c
      /\ changes'[n + 1].decision = IF FirstRule(c) = "none" THEN c.decision ELSE "block"
      /\ changes'[n + 1].reason = Reason(c, IF FirstRule(c) = "none" THEN "own" ELSE FirstRule(c))
  BY <1>1, EvaluateAdds
<1>6. /\ Overruled \subseteq 1..n
      /\ \A i \in Overruled : Rank(i) \in 1..m /\ Rank(i)' = Rank(i)
      /\ FirstRule(c) = "none" => Overruled' = Overruled
      /\ FirstRule(c) # "none" => /\ Overruled' = Overruled \cup {n + 1}
                                  /\ Cardinality(Overruled') = m + 1
                                  /\ Rank(n + 1)' = m + 1
  BY <1>1, <1>2, EvaluateRanks DEF BlocksExplained
<1>7. /\ FirstRule(c) = "none" => blockedReasons' = blockedReasons
      /\ FirstRule(c) # "none" => blockedReasons' = Append(blockedReasons, Reason(c, FirstRule(c)))
  <2>1. blockedReasons' = blockedReasons \o
          (IF FirstRule(c) = "none" THEN <<>> ELSE <<Reason(c, FirstRule(c))>>)
    BY EvaluationTyped DEF Evaluate
  <2> QED
    BY <2>1 DEF TypeOK
<1>8. ASSUME NEW i \in Overruled
      PROVE  Explains(i)'
  <2>1. Explains(i)
    BY DEF BlocksExplained, Explains
  <2>2. changes'[i] = changes[i] /\ Rank(i)' = Rank(i) /\ Rank(i) \in 1..m
    BY <1>4, <1>6
  <2>3. blockedReasons'[Rank(i)] = blockedReasons[Rank(i)]
    BY <1>2, <1>7, <2>2 DEF TypeOK
  <2>4. PICK r : r = changes[i].reason.rule
    OBVIOUS
  <2>5. SpeaksAgainst(r, i)' <=> SpeaksAgainst(r, i)
    BY <1>1, <1>6, SpeaksStable
  <2>6. SpeaksAgainst(r, i)
    BY <2>1, <2>4 DEF Explains
  <2>7. r = changes'[i].reason.rule
    BY <2>2, <2>4
  <2>8. blockedReasons'[Rank(i)'] = changes'[i].reason /\ ~Accepted(i)'
    BY <2>1, <2>2, <2>3 DEF Explains, Accepted
  <2> QED
    BY <2>5, <2>6, <2>7, <2>8 DEF Explains, SpeaksAgainst
<1>9. ASSUME NEW i \in 1..n, ~Accepted(i)', candidates'[i].decision # "block"
      PROVE  i \in Overruled
  BY <1>3, <1>4, <1>9 DEF BlocksExplained, Accepted
<1>10. CASE FirstRule(c) = "none"
  <2>1. Overruled' = Overruled /\ blockedReasons' = blockedReasons
    BY <1>6, <1>7, <1>10
  <2>2. Accepted(n + 1)' \/ candidates'[n + 1].decision = "block"
    BY <1>5, <1>10 DEF Accepted
  <2>3. Len(blockedReasons') = Cardinality(Overruled')
    BY <2>1 DEF BlocksExplained
  <2>4. \A i \in Overruled' : Explains(i)'
    BY <1>8, <2>1
  <2>5. \A i \in DOMAIN changes' :
          (~Accepted(i)' /\ candidates'[i].decision # "block") => i \in Overruled'
    BY <1>3, <1>9, <2>1, <2>2
  <2> QED
    BY <2>3, <2>4, <2>5 DEF BlocksExplained, Explains
<1>11. CASE FirstRule(c) # "none"
  <2>1. Overruled' = Overruled \cup {n + 1} /\ Rank(n + 1)' = m + 1
        /\ Cardinality(Overruled') = m + 1
    BY <1>6, <1>11
  <2>2. PICK r : r = FirstRule(c)
    OBVIOUS
  <2>3. r \in Rule
    BY <1>11, <2>2, EvaluationTyped
  <2>4. Reason(c, r) = changes'[n + 1].reason /\ changes'[n + 1].reason.rule = r
        /\ ~Accepted(n + 1)'
    BY <1>5, <1>11, <2>2 DEF Accepted, Reason
  <2>5. blockedReasons' = Append(blockedReasons, Reason(c, r))
    BY <1>7, <1>11, <2>2
  <2>6. Len(blockedReasons') = m + 1 /\ blockedReasons'[m + 1] = Reason(c, r)
    BY <1>2, <2>5 DEF TypeOK
  <2>7. SpeaksAgainst(r, n + 1)'
    BY <1>1, <2>2, <2>3, RulesMatch
  <2>8. Explains(n + 1)'
    BY <2>1, <2>4, <2>6, <2>7 DEF Explains, SpeaksAgainst
  <2>9. \A i \in Overruled' : Explains(i)'
    BY <1>8, <2>1, <2>8
  <2>10. Len(blockedReasons') = Cardinality(Overruled')
    BY <2>1, <2>6
  <2>11. \A i \in DOMAIN changes' :
           (~Accepted(i)' /\ candidates'[i].decision # "block") => i \in Overruled'
    BY <1>3, <1>9, <2>1
  <2> QED
    BY <2>9, <2>10, <2>11 DEF BlocksExplained, Explains
<1> QED
  BY <1>10, <1>11

-----------------------------------------------------------------------------

\* The judgements of a plan speak of nothing but its inputs, changes and reasons.
LEMMA SamePlan ==
  ASSUME IInv,
         UNCHANGED <<existing, scope, candidates, changes, seenTargetPaths, blockedReasons>>
  PROVE  SeenIsTaken' /\ AcceptsExactlyTheFaultless' /\ BlocksExplained'
<1>1. SeenIsTaken'
  BY DEF IInv, SeenIsTaken, Free, Accepted
<1>2. AcceptsExactlyTheFaultless'
  BY DEF IInv, AcceptsExactlyTheFaultless, Faultless, SpeaksAgainst, Free, Accepted
<1>3. Overruled' = Overruled
  BY DEF Overruled
<1>4. \A i : Rank(i)' = Rank(i)
  BY <1>3 DEF Rank
<1>5. BlocksExplained'
  BY <1>3, <1>4 DEF IInv, BlocksExplained, SpeaksAgainst, Free, Accepted
<1> QED
  BY <1>1, <1>2, <1>5

\* Returning, and stuttering, touch nothing the invariant speaks about but the
\* strategy, which is one of those deriveStrategy can return.
LEMMA ReturnIInv ==
  ASSUME IInv, NEW before, NEW after, Return(before, after)
  PROVE  IInv'
<1>1. warned' \in BOOLEAN
  BY DEF Return
<1>2. strategy' \in {"none", "create", "extend", "modify", "mixed", "keep", "block"}
  BY DEF Return, StrategyOf
<1>3. TypeOK'
  BY <1>1, <1>2 DEF Return, IInv, TypeOK
<1> QED
  BY <1>3, SamePlan DEF Return, IInv

LEMMA NextIInv == IInv /\ [Next]_vars => IInv'
<1> SUFFICES ASSUME IInv, [Next]_vars PROVE IInv'
  OBVIOUS
<1>1. ASSUME NEW c \in Proposable, Evaluate(c) PROVE IInv'
  BY <1>1, EvaluateTypeOK, EvaluateSeen, EvaluateAccepts, EvaluateReasons DEF IInv
<1>2. ASSUME NEW before \in Coverage, NEW after \in Coverage, Return(before, after) PROVE IInv'
  BY <1>2, ReturnIInv
<1>3. CASE UNCHANGED vars
  <2>1. TypeOK'
    BY <1>3 DEF vars, IInv, TypeOK
  <2> QED
    BY <1>3, <2>1, SamePlan DEF vars, IInv
<1> QED
  BY <1>1, <1>2, <1>3 DEF Next

LEMMA Invariance == Spec => []IInv
  BY InitIInv, NextIInv, PTL DEF Spec

\* An accepted create is faultless, and a faultless create is at a free path.
LEMMA FaultlessIsFree == IInv => NoDuplicateCreate
<1> SUFFICES ASSUME IInv, NEW i \in DOMAIN changes, changes[i].decision = "create",
                    changes[i].targetPath # NoPath
             PROVE  Free(changes[i].targetPath, i)
  BY DEF NoDuplicateCreate
<1>1. Accepted(i) /\ Faultless(i)
  BY DEF IInv, AcceptsExactlyTheFaultless, Accepted
<1>2. changes[i] = [decision |-> candidates[i].decision, targetPath |-> candidates[i].targetPath,
                     reason |-> Reason(candidates[i], "own")]
  BY <1>1 DEF IInv, AcceptsExactlyTheFaultless
<1>3. changes[i].decision = candidates[i].decision /\ changes[i].targetPath = candidates[i].targetPath
  BY <1>2
<1> QED
  BY <1>1, <1>3 DEF Faultless, SpeaksAgainst, Rule

\* The planner's variables keep their types whatever a plugin proposes.
THEOREM TypeCorrect == Spec => []TypeOK
  BY Invariance, PTL DEF IInv

\* A change is accepted, as proposed, exactly when no rule of the planner speaks
\* against it, for plans of any length in any order.
THEOREM AcceptanceTheorem == Spec => []AcceptsExactlyTheFaultless
  BY Invariance, PTL DEF IInv

\* No plan creates a path that exists or that it already targets.
THEOREM NoDuplicateTheorem == Spec => []NoDuplicateCreate
  BY Invariance, FaultlessIsFree, PTL

\* The reasons of a plan are, one each and in order, those of the changes the
\* planner overruled, and each names a rule the candidate breaks.
THEOREM BlocksExplainedTheorem == Spec => []BlocksExplained
  BY Invariance, PTL DEF IInv

-----------------------------------------------------------------------------

\* A strategy other than "mixed" is the decision of every change.
LEMMA StrategyIsDecision ==
  ASSUME StrategyOf(Decisions) # "mixed", NEW i \in DOMAIN changes
  PROVE  changes[i].decision = StrategyOf(Decisions)
<1>1. changes[i].decision \in Decisions
  BY DEF Decisions
<1>2. PICK d : Decisions = {d} /\ StrategyOf(Decisions) = d
  BY <1>1 DEF StrategyOf
<1> QED
  BY <1>1, <1>2

\* A plan that is not called "mixed" holds no change of another decision than
\* the one it is called after: the strategy, once given, is never given again.
THEOREM StrategyTheorem == Spec => []StrategyHidesNoWrite
<1>1. Init => StrategyHidesNoWrite
  BY DEF Init, StrategyHidesNoWrite
<1>2. StrategyHidesNoWrite /\ [Next]_vars => StrategyHidesNoWrite'
  <2> SUFFICES ASSUME StrategyHidesNoWrite, [Next]_vars
               PROVE  StrategyHidesNoWrite'
    OBVIOUS
  <2>1. ASSUME NEW c \in Proposable, Evaluate(c) PROVE StrategyHidesNoWrite'
    BY <2>1 DEF Evaluate, StrategyHidesNoWrite
  <2>2. ASSUME NEW before \in Coverage, NEW after \in Coverage, Return(before, after)
        PROVE  StrategyHidesNoWrite'
    <3>1. strategy' = StrategyOf(Decisions) /\ changes' = changes
      BY <2>2 DEF Return
    <3> QED
      BY <3>1, StrategyIsDecision DEF StrategyHidesNoWrite
  <2>3. CASE UNCHANGED vars
    BY <2>3 DEF vars, StrategyHidesNoWrite
  <2> QED
    BY <2>1, <2>2, <2>3 DEF Next
<1> QED
  BY <1>1, <1>2, PTL DEF Spec

-----------------------------------------------------------------------------
(* The gates *)

Kept == Content \cup {Absent}
Listing == [path : FilePath, operation : {"create", "update", "delete", "keep"},
            previousContent : Kept, nextContent : Kept]

\* A list of changes names a path once.
ListOK ==
  /\ base \in [FilePath -> Kept]
  /\ listed \in Seq(Listing)
  /\ \A j, k \in DOMAIN listed : listed[j].path = listed[k].path => j = k

\* What passed a gate passed it with the list that is written.
PassedOK ==
  /\ stage \in {"proposed", "validated", "detected", "authorized", "committed", "written",
                "rejected", "blocked", "refused"}
  /\ Out \/ stage = "authorized" => Allowed(Files(listed))
  /\ Out => tree = Committed(Files(listed))

\* The patches so far made the files of the commit out of those of the base.
DiskOK ==
  /\ applied \in 0..Len(listed) /\ disk \in [FilePath -> Kept]
  /\ ~Out => applied = 0
  /\ (\A c \in All(listed) : Complete(c)) =>
       \A k \in DOMAIN listed :
         k > applied => disk[listed[k].path] = base[listed[k].path]
  /\ (Out /\ \A c \in All(listed) : Complete(c)) =>
       /\ \A k \in 1..applied : disk[listed[k].path] = tree[listed[k].path]
  /\ \A p \in FilePath : (\A k \in DOMAIN listed : listed[k].path # p) => disk[p] = base[p]
  /\ stage = "written" => applied = Len(listed)
  /\ stage = "refused" => applied < Len(listed) /\ Refuses(listed[applied + 1], disk)

GatesInv == ListOK /\ PassedOK /\ DiskOK

-----------------------------------------------------------------------------
(* Lemmas *)

\* The members of a list, and their form.
LEMMA Members ==
  ASSUME ListOK
  PROVE  /\ \A c \in All(listed) : c \in Listing
         /\ \A c, d \in All(listed) : c.path = d.path => c = d
         /\ DOMAIN listed = 1..Len(listed) /\ Len(listed) \in Nat
         /\ \A k \in DOMAIN listed : listed[k] \in All(listed) /\ listed[k] \in Listing
<1>1. DOMAIN listed = 1..Len(listed) /\ Len(listed) \in Nat
      /\ \A k \in DOMAIN listed : listed[k] \in Listing
  BY DEF ListOK
<1> QED
  BY <1>1 DEF All, ListOK

\* The commit has what each change says, and the rest of the base.
LEMMA CommitHas ==
  ASSUME ListOK
  PROVE  /\ \A c \in Changing(listed) : Committed(Files(listed))[c.path] = Written(c).content
         /\ \A p \in FilePath : (\A c \in Changing(listed) : c.path # p)
                                  => Committed(Files(listed))[p] = base[p]
         /\ Committed(Files(listed)) \in [FilePath -> Kept]
<1>1. ASSUME NEW c \in Changing(listed)
      PROVE  Committed(Files(listed))[c.path] = Written(c).content /\ Written(c).content \in Kept
  <2>1. c \in All(listed) /\ c \in Listing /\ c.path \in FilePath
    BY Members DEF Changing, Listing
  <2>2. Written(c) \in Files(listed) /\ Written(c).path = c.path
    BY DEF Files, Written
  <2>3. ASSUME NEW f \in Files(listed), f.path = c.path PROVE f = Written(c)
    <3>1. PICK d \in Changing(listed) : f = Written(d)
      BY DEF Files
    <3>2. d \in All(listed) /\ d.path = c.path
      BY <2>3, <3>1 DEF Written, Changing
    <3> QED
      BY <2>1, <3>1, <3>2, Members
  <2>4. (CHOOSE f \in Files(listed) : f.path = c.path) = Written(c)
    BY <2>2, <2>3
  <2>5. Written(c).content \in Kept
    BY <2>1 DEF Written, Kept, Listing
  <2> QED
    BY <2>1, <2>2, <2>4, <2>5 DEF Committed
<1>2. ASSUME NEW p \in FilePath, \A c \in Changing(listed) : c.path # p
      PROVE  Committed(Files(listed))[p] = base[p]
  <2>1. ~ \E f \in Files(listed) : f.path = p
    BY <1>2 DEF Files, Written
  <2> QED
    BY <2>1 DEF Committed
<1>3. ASSUME NEW p \in FilePath PROVE Committed(Files(listed))[p] \in Kept
  <2>1. CASE \E c \in Changing(listed) : c.path = p
    BY <1>1, <2>1
  <2>2. CASE \A c \in Changing(listed) : c.path # p
    BY <1>2, <2>2 DEF ListOK
  <2> QED
    BY <2>1, <2>2
<1>4. Committed(Files(listed)) = [p \in FilePath |-> Committed(Files(listed))[p]]
  BY DEF Committed
<1> QED
  BY <1>1, <1>2, <1>3, <1>4

\* A complete change leaves what it says also as a patch.
LEMMA PatchedHas ==
  ASSUME ListOK, NEW c \in All(listed), Complete(c), NEW d \in [FilePath -> Kept]
  PROVE  /\ Patched(c, d) \in [FilePath -> Kept]
         /\ \A p \in FilePath \ {c.path} : Patched(c, d)[p] = d[p]
         /\ Patched(c, d)[c.path] =
              IF c.operation = "keep" THEN d[c.path] ELSE Written(c).content
<1>1. c \in Listing /\ c.path \in FilePath /\ Empty \in Kept /\ Absent \in Kept
  BY Members, GatesAssumption DEF Listing, Kept
<1>2. c.operation \notin {"keep", "delete"} => TextOf(c.nextContent) = c.nextContent
  BY <1>1 DEF Complete, TextOf, Listing
<1>3. Written(c).content = IF c.operation = "delete" THEN Absent ELSE c.nextContent
  BY DEF Written
<1>4. c.nextContent \in Kept
  BY <1>1 DEF Listing
<1> QED
  BY <1>1, <1>2, <1>3, <1>4 DEF Patched

LEMMA PatchedKeeps ==
  ASSUME ListOK, NEW c \in All(listed), NEW d \in [FilePath -> Kept]
  PROVE  /\ Patched(c, d) \in [FilePath -> Kept]
         /\ \A p \in FilePath \ {c.path} : Patched(c, d)[p] = d[p]
<1>1. c \in Listing /\ c.path \in FilePath /\ Empty \in Kept /\ Absent \in Kept
  BY Members, GatesAssumption DEF Listing, Kept
<1>2. TextOf(c.nextContent) \in Kept
  BY <1>1 DEF TextOf, Listing
<1> QED
  BY <1>1, <1>2 DEF Patched

\* A list as it is proposed.
LEMMA InitGates == GatesInit => GatesInv
<1> SUFFICES ASSUME GatesInit PROVE GatesInv
  OBVIOUS
<1>1. base \in [FilePath -> Kept]
  BY GatesAssumption DEF GatesInit, Kept
<1>2. \A p \in FilePath : ChangesOf(p) \subseteq Listing
  <2> TAKE p \in FilePath
  <2>1. base[p] \in Kept /\ Absent \in Kept
    BY <1>1 DEF Kept
  <2> QED
    BY <2>1 DEF ChangesOf, FileChange, Listing, Kept
<1>3. listed \in Seq(Listing)
  <2>1. PICK n \in 0..MaxChanges : listed \in [1..n -> UNION {ChangesOf(p) : p \in FilePath}]
    BY DEF GatesInit, Lists
  <2>2. listed \in [1..n -> Listing] /\ n \in Nat
    BY <1>2, <2>1, GatesAssumption
  <2> QED
    BY <2>2
<1>4. ListOK
  BY <1>1, <1>3 DEF GatesInit, Lists, ListOK
<1>5. Len(listed) \in Nat /\ 0 \in 0..Len(listed)
  BY <1>4, Members
<1>6. PassedOK
  BY DEF PassedOK, GatesInit, Out
<1>7. DiskOK
  BY <1>1, <1>5 DEF DiskOK, GatesInit, Out
<1> QED
  BY <1>4, <1>6, <1>7 DEF GatesInv

\* A gate asks about the list and changes nothing.
LEMMA GatesKeep ==
  ASSUME GatesInv, Validate \/ Detect \/ Authorize
  PROVE  GatesInv'
<1>1. UNCHANGED <<base, listed, granted, expected, tree, disk, applied>> /\ ~Out /\ ~Out'
  BY DEF Validate, Detect, Authorize, Go, Out
<1>2. ListOK'
  BY <1>1 DEF GatesInv, ListOK
<1>3. stage' = "authorized" => Allowed(Files(listed))
  BY DEF Validate, Detect, Authorize, Go
<1>4. Allowed(Files(listed))' <=> Allowed(Files(listed))
  BY <1>1 DEF Allowed, Handed, TextOf, Files, Changing, All, InScope
<1>5. PassedOK'
  BY <1>1, <1>3, <1>4 DEF PassedOK, Out, Validate, Detect, Authorize, Go
<1>6. stage' \notin {"written", "refused"}
  BY <1>1 DEF Out
<1>7. DiskOK'
  BY <1>1, <1>6 DEF GatesInv, DiskOK, All
<1> QED
  BY <1>2, <1>5, <1>7 DEF GatesInv

\* The commit makes the tree; no patch was applied before it.
LEMMA CommitKeeps ==
  ASSUME GatesInv, Commit
  PROVE  GatesInv'
<1>1. /\ UNCHANGED <<base, listed, granted, expected, disk, applied>>
      /\ ~Out /\ stage = "authorized" /\ stage' = "committed" /\ Out'
      /\ tree' = Committed(Files(listed))
  BY DEF Commit, Go, Out
<1>2. ListOK'
  BY <1>1 DEF GatesInv, ListOK
<1>3. PassedOK'
  <2>1. Allowed(Files(listed))' <=> Allowed(Files(listed))
    BY <1>1 DEF Allowed, Handed, TextOf, Files, Changing, All, InScope
  <2>2. Committed(Files(listed))' = Committed(Files(listed))
    BY <1>1 DEF Committed, Files, Changing, All
  <2> QED
    BY <1>1, <2>1, <2>2 DEF GatesInv, PassedOK
<1>4. applied' = 0 /\ 1..applied' = {}
  BY <1>1 DEF GatesInv, DiskOK
<1>5. DiskOK'
  BY <1>1, <1>4 DEF GatesInv, DiskOK, All
<1> QED
  BY <1>2, <1>3, <1>5 DEF GatesInv

\* A patch changes the file of its change to what the commit has there.
LEMMA PatchKeeps ==
  ASSUME GatesInv, ApplyPatch
  PROVE  GatesInv'
<1> DEFINE c == listed[applied + 1]
<1>1. /\ UNCHANGED <<base, listed, granted, expected, tree>>
      /\ stage = "committed" /\ Out /\ Out' /\ stage' \in {"committed", "refused"}
      /\ applied \in Nat /\ applied + 1 \in DOMAIN listed /\ applied < Len(listed)
      /\ c \in All(listed) /\ c \in Listing /\ ListOK
  <2>1. ListOK /\ applied \in 0..Len(listed) /\ applied < Len(listed) /\ Len(listed) \in Nat
    BY Members DEF GatesInv, DiskOK, ApplyPatch
  <2>2. applied + 1 \in DOMAIN listed
    BY <2>1, Members
  <2> QED
    BY <2>1, <2>2, Members DEF ApplyPatch, Out
<1>2. ListOK'
  BY <1>1 DEF GatesInv, ListOK
<1>3. PassedOK'
  <2>1. Allowed(Files(listed))' <=> Allowed(Files(listed))
    BY <1>1 DEF Allowed, Handed, TextOf, Files, Changing, All, InScope
  <2>2. Committed(Files(listed))' = Committed(Files(listed))
    BY <1>1 DEF Committed, Files, Changing, All
  <2> QED
    BY <1>1, <2>1, <2>2 DEF GatesInv, PassedOK
<1>4. CASE Refuses(c, disk)
  <2>1. stage' = "refused" /\ UNCHANGED <<disk, applied>>
    BY <1>4 DEF ApplyPatch
  <2>2. Refuses(c, disk)'
    BY <1>1, <1>4, <2>1 DEF Refuses
  <2>3. DiskOK'
    BY <1>1, <2>1, <2>2 DEF GatesInv, DiskOK, All
  <2> QED
    BY <1>2, <1>3, <2>3 DEF GatesInv
<1>5. CASE ~Refuses(c, disk)
  <2>1. disk' = Patched(c, disk) /\ applied' = applied + 1 /\ stage' = "committed"
    BY <1>1, <1>5 DEF ApplyPatch
  <2>2. disk \in [FilePath -> Kept] /\ disk' \in [FilePath -> Kept]
        /\ \A p \in FilePath \ {c.path} : disk'[p] = disk[p]
    BY <1>1, <2>1, PatchedKeeps DEF GatesInv, DiskOK
  <2>3. applied' \in 0..Len(listed)
    BY <1>1, <2>1, Members
  <2>4. \A k \in DOMAIN listed : k # applied + 1 =>
          disk'[listed[k].path] = disk[listed[k].path]
    BY <1>1, <2>2, Members DEF ListOK, Listing
  <2>5. ASSUME \A x \in All(listed) : Complete(x)
        PROVE  /\ \A k \in DOMAIN listed :
                    k > applied' => disk'[listed[k].path] = base[listed[k].path]
               /\ \A k \in 1..applied' : disk'[listed[k].path] = tree[listed[k].path]
    <3>1. \A k \in DOMAIN listed : k > applied' => k > applied /\ k # applied + 1
      BY <1>1, <2>1, Members
    <3>2. \A k \in DOMAIN listed : k > applied => disk[listed[k].path] = base[listed[k].path]
      BY <2>5 DEF GatesInv, DiskOK
    <3>3. \A k \in 1..applied' : k = applied + 1 \/ (k \in 1..applied /\ k \in DOMAIN listed /\ k # applied + 1)
      BY <1>1, <2>1, Members
    <3>4. disk'[c.path] = tree[c.path]
      <4>1. disk'[c.path] = IF c.operation = "keep" THEN disk[c.path] ELSE Written(c).content
        BY <1>1, <2>1, <2>2, <2>5, PatchedHas
      <4>2. disk[c.path] = base[c.path]
        <5>1. applied + 1 > applied
          BY <1>1
        <5> QED
          BY <1>1, <3>2, <5>1
      <4>3. tree = Committed(Files(listed))
        BY <1>1 DEF GatesInv, PassedOK
      <4>4. CASE c.operation # "keep"
        BY <1>1, <4>1, <4>3, <4>4, CommitHas DEF Changing
      <4>5. CASE c.operation = "keep"
        <5>1. \A x \in Changing(listed) : x.path # c.path
          BY <1>1, <4>5, Members DEF Changing
        <5>2. c.path \in FilePath
          BY <1>1 DEF Listing
        <5> QED
          BY <1>1, <4>1, <4>2, <4>3, <4>5, <5>1, <5>2, CommitHas
      <4> QED
        BY <4>4, <4>5
    <3>5. \A k \in 1..applied : disk[listed[k].path] = tree[listed[k].path]
      BY <1>1, <2>5 DEF GatesInv, DiskOK
    <3>6. \A k \in DOMAIN listed :
            k > applied' => disk'[listed[k].path] = base[listed[k].path]
      BY <2>4, <3>1, <3>2
    <3>7. \A k \in 1..applied' : disk'[listed[k].path] = tree[listed[k].path]
      BY <2>4, <3>3, <3>4, <3>5
    <3> QED
      BY <3>6, <3>7
  <2>6. \A p \in FilePath : (\A k \in DOMAIN listed : listed[k].path # p) => disk'[p] = base[p]
    BY <1>1, <2>2 DEF GatesInv, DiskOK
  <2>7. All(listed)' = All(listed)
    BY <1>1 DEF All
  <2>8. DiskOK'
    BY <1>1, <2>1, <2>2, <2>3, <2>5, <2>6, <2>7 DEF DiskOK
  <2> QED
    BY <1>2, <1>3, <2>8 DEF GatesInv
<1> QED
  BY <1>4, <1>5

LEMMA AppliedKeeps ==
  ASSUME GatesInv, Applied
  PROVE  GatesInv'
<1>1. /\ UNCHANGED <<base, listed, granted, expected, tree, disk, applied>>
      /\ Out /\ Out' /\ stage' = "written" /\ applied = Len(listed)
  BY DEF Applied, Go, Out
<1>2. ListOK'
  BY <1>1 DEF GatesInv, ListOK
<1>3. PassedOK'
  <2>1. Allowed(Files(listed))' <=> Allowed(Files(listed))
    BY <1>1 DEF Allowed, Handed, TextOf, Files, Changing, All, InScope
  <2>2. Committed(Files(listed))' = Committed(Files(listed))
    BY <1>1 DEF Committed, Files, Changing, All
  <2> QED
    BY <1>1, <2>1, <2>2 DEF GatesInv, PassedOK
<1>4. DiskOK'
  BY <1>1 DEF GatesInv, DiskOK, All
<1> QED
  BY <1>2, <1>3, <1>4 DEF GatesInv

-----------------------------------------------------------------------------
(* Theorems *)

\* A list passes the gates, is committed and applied as it was proposed.
THEOREM GatesInvTheorem == GatesSpec => []GatesInv
<1>1. GatesInv /\ [GatesNext]_gateVars => GatesInv'
  <2> SUFFICES ASSUME GatesInv, [GatesNext]_gateVars PROVE GatesInv'
    OBVIOUS
  <2>1. CASE Validate \/ Detect \/ Authorize
    BY <2>1, GatesKeep
  <2>2. CASE Commit
    BY <2>2, CommitKeeps
  <2>3. CASE ApplyPatch
    BY <2>3, PatchKeeps
  <2>4. CASE Applied
    BY <2>4, AppliedKeeps
  <2>5. CASE UNCHANGED gateVars
    <3>1. ListOK' /\ PassedOK' /\ DiskOK'
      BY <2>5 DEF gateVars, GatesInv, ListOK, PassedOK, DiskOK, Out, Allowed, Handed, TextOf, Files, Changing,
                  All, InScope, Committed, Refuses
    <3> QED
      BY <3>1 DEF GatesInv
  <2> QED
    BY <2>1, <2>2, <2>3, <2>4, <2>5 DEF GatesNext
<1> QED
  BY <1>1, InitGates, PTL DEF GatesSpec

\* What a caller hands to the policy holds a secret exactly when the file does.
LEMMA HandedSecret == ASSUME NEW f PROVE Handed(f) \in Secrets <=> f.content \in Secrets
<1>1. Empty \notin Secrets /\ Absent \notin Secrets
  BY GatesAssumption
<1> QED
  BY <1>1 DEF Handed, TextOf

\* PatchValidator, detectOutOfScopeChanges and RepositoryWritePolicy answer alike, for any
\* list, scope and secrets.
THEOREM AgreeTheorem == GatesSpec => []GatesAgree
<1>1. ASSUME ListOK PROVE GatesAgree
  <2>1. ASSUME Valid(listed), OutsideScope(listed) = {}, granted # {}, Changing(listed) # {}
        PROVE  Allowed(Files(listed))
    <3>1. Files(listed) # {}
      BY <2>1 DEF Files
    <3>2. ASSUME NEW f \in Files(listed)
          PROVE  f.path \in SafePaths /\ InScope(f.path) /\ f.content \notin Secrets
      <4>1. PICK c \in Changing(listed) : f = Written(c)
        BY DEF Files
      <4>2. c \in All(listed) /\ c.operation # "keep" /\ c \in Listing /\ f.path = c.path
        BY <1>1, <4>1, Members DEF Changing, Written
      <4>3. c.path \in SafePaths /\ ~SecretIn(c) /\ InScope(c.path)
        BY <2>1, <4>2 DEF Valid, Issue, OutsideScope
      <4>4. f.content = IF c.operation = "delete" THEN Absent ELSE c.nextContent
        BY <4>1 DEF Written
      <4>5. f.content \notin Secrets
        BY <4>2, <4>3, <4>4, GatesAssumption DEF SecretIn, Listing
      <4> QED
        BY <4>2, <4>3, <4>5
    <3> QED
      BY <2>1, <3>1, <3>2, HandedSecret DEF Allowed
  <2>2. ASSUME Allowed(Files(listed)), NEW c \in Changing(listed)
        PROVE  InScope(c.path) /\ (Issue(c) => ReadMissing(c))
    <3>1. Written(c) \in Files(listed) /\ Written(c).path = c.path
      BY DEF Files, Written
    <3>2. c.path \in SafePaths /\ InScope(c.path) /\ Written(c).content \notin Secrets
      BY <2>2, <3>1, HandedSecret DEF Allowed
    <3>3. ~SecretIn(c)
      BY <3>2 DEF Written, SecretIn
    <3> QED
      BY <3>2, <3>3 DEF Issue
  <2> QED
    BY <2>1, <2>2 DEF GatesAgree
<1>2. GatesInv => GatesAgree
  BY <1>1 DEF GatesInv
<1> QED
  BY <1>2, GatesInvTheorem, PTL

\* summarizePatch, commitChanges and PatchApplier: what is committed and what is patched
\* is what the list and its summary say, for lists of any length.
THEOREM WrittenTheorem == GatesSpec => []WrittenAsTold
<1>1. ASSUME GatesInv, Out PROVE SummaryTellsTheCommit
  <2>1. ListOK /\ Allowed(Files(listed)) /\ tree = Committed(Files(listed))
    BY <1>1 DEF GatesInv, PassedOK
  <2>2. ASSUME NEW p \in FilePath, tree[p] # base[p]
        PROVE  /\ p \in SafePaths /\ InScope(p) /\ tree[p] \notin Secrets
               /\ p \in Bucket(listed, "create") \cup Bucket(listed, "update")
                          \cup Bucket(listed, "delete")
    <3>1. PICK c \in Changing(listed) : c.path = p
      BY <2>1, <2>2, CommitHas
    <3>2. tree[p] = Written(c).content /\ Written(c) \in Files(listed) /\ Written(c).path = p
      BY <2>1, <3>1, CommitHas DEF Files, Written
    <3>3. c \in All(listed) /\ c.operation \in {"create", "update", "delete"}
      BY <2>1, Members DEF Changing, Listing
    <3> QED
      BY <2>1, <3>1, <3>2, <3>3, HandedSecret DEF Allowed, Bucket
  <2>3. ASSUME NEW p \in Bucket(listed, "delete") PROVE tree[p] = Absent
    <3>1. PICK c \in All(listed) : c.operation = "delete" /\ c.path = p
      BY DEF Bucket
    <3> QED
      BY <2>1, <3>1, CommitHas DEF Changing, Written
  <2>4. ASSUME NEW p \in Bucket(listed, "keep") PROVE tree[p] = base[p]
    <3>1. PICK c \in All(listed) : c.operation = "keep" /\ c.path = p
      BY DEF Bucket
    <3>2. \A x \in Changing(listed) : x.path # p
      BY <2>1, <3>1, Members DEF Changing
    <3>3. p \in FilePath
      BY <2>1, <3>1, Members DEF Listing
    <3> QED
      BY <2>1, <3>2, <3>3, CommitHas
  <2> QED
    BY <2>2, <2>3, <2>4 DEF SummaryTellsTheCommit
<1>2. ASSUME GatesInv, Out, \A c \in All(listed) : Complete(c)
      PROVE  WaysOutAgree
  <2>1. /\ ListOK /\ tree = Committed(Files(listed)) /\ tree \in [FilePath -> Kept]
        /\ disk \in [FilePath -> Kept] /\ applied \in 0..Len(listed) /\ Len(listed) \in Nat
        /\ DOMAIN listed = 1..Len(listed)
        /\ \A k \in DOMAIN listed : k > applied => disk[listed[k].path] = base[listed[k].path]
        /\ \A k \in 1..applied : disk[listed[k].path] = tree[listed[k].path]
        /\ \A p \in FilePath : (\A k \in DOMAIN listed : listed[k].path # p) => disk[p] = base[p]
    BY <1>2, CommitHas, Members DEF GatesInv, PassedOK, DiskOK
  <2>2. ASSUME NEW p \in FilePath, \A k \in DOMAIN listed : listed[k].path # p
        PROVE  disk[p] = base[p] /\ tree[p] = base[p]
    <3>1. \A c \in Changing(listed) : c.path # p
      BY <2>2 DEF Changing, All
    <3> QED
      BY <2>1, <2>2, <3>1, CommitHas
  <2>3. ASSUME NEW p \in FilePath PROVE disk[p] \in {base[p], tree[p]}
    <3>1. CASE \A k \in DOMAIN listed : listed[k].path # p
      BY <2>2, <3>1
    <3>2. ASSUME NEW k \in DOMAIN listed, listed[k].path = p PROVE disk[p] \in {base[p], tree[p]}
      <4>1. k > applied \/ k \in 1..applied
        BY <2>1
      <4> QED
        BY <2>1, <3>2, <4>1
    <3> QED
      BY <3>1, <3>2
  <2>4. ASSUME stage = "written" PROVE disk = tree
    <3>1. applied = Len(listed)
      BY <1>2, <2>4 DEF GatesInv, DiskOK
    <3>2. ASSUME NEW p \in FilePath PROVE disk[p] = tree[p]
      <4>1. CASE \A k \in DOMAIN listed : listed[k].path # p
        BY <2>2, <4>1
      <4>2. CASE \E k \in DOMAIN listed : listed[k].path = p
        BY <2>1, <3>1, <4>2
      <4> QED
        BY <4>1, <4>2
    <3> QED
      BY <2>1, <3>2
  <2>5. ASSUME stage = "refused" PROVE disk[listed[applied + 1].path] \notin {Absent, Empty}
    <3>1. Refuses(listed[applied + 1], disk)
      BY <1>2, <2>5 DEF GatesInv, DiskOK
    <3> QED
      BY <3>1 DEF Refuses, TextOf
  <2> QED
    BY <2>3, <2>4, <2>5 DEF WaysOutAgree
<1>3. GatesInv => WrittenAsTold
  <2>1. ~Out => WrittenAsTold
    BY DEF WrittenAsTold, SummaryTellsTheCommit, WaysOutAgree
  <2>2. (~ \A c \in All(listed) : Complete(c)) => WaysOutAgree
    BY DEF WaysOutAgree
  <2> QED
    BY <1>1, <1>2, <2>1, <2>2 DEF WrittenAsTold
<1> QED
  BY <1>3, GatesInvTheorem, PTL
=============================================================================
