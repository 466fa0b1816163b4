-------------------------- MODULE PluginRunsProofs --------------------------
(***************************************************************************)
(* Runs of plugins on one core stay apart and answer truly, for any number *)
(* of runs and of assignments to the configuration.                        *)
(***************************************************************************)
EXTENDS PluginRuns, TLAPS

Promise == {"none", "pending", "resolved", "rejected", "hung"}
Codes == Code \cup {"UNKNOWN_ERROR"}
Response == [success : BOOLEAN, errors : SUBSET [code : Codes, retryable : BOOLEAN]]
Progress == [stage : 0..(Stages + 1), promise : Promise, cause : Thrown, done : SUBSET (1..Stages),
             response : Response, context : Context]

\* The context is what the option and the configuration made of it.
ContextOK(c) == c.dryRun = IF c.option = Unset THEN c.default ELSE c.option

\* The stages that have returned are those before the current one, and itself once
\* it resolved.
DoneOK(p) ==
  /\ p.stage = 0 => p.done = {}
  /\ p.stage \in 1..Stages =>
       /\ p.promise # "none"
       /\ p.done = IF p.promise = "resolved" THEN 1..p.stage ELSE 1..(p.stage - 1)

\* The three ways a run ends.
Completed(p) == p.promise = "none" /\ p.response = Success /\ p.done = 1..Stages
Refused(p) == p.promise = "none" /\ p.response = Failure(Refusal) /\ p.done = {}
Rejected(p) == p.promise = "rejected" /\ p.response = Failure(p.cause) /\ p.done # 1..Stages

ResponseOK(p) ==
  /\ p.stage \in 0..Stages => p.response = NoResponse
  /\ p.stage = Stages + 1 => Completed(p) \/ Refused(p) \/ Rejected(p)

Good(p) ==
  /\ p \in Progress
  /\ ContextOK(p.context)
  /\ DoneOK(p)
  /\ ResponseOK(p)

\* A writer has reached the last stage with a context that is no dry run.
WriterOK(p) == ~p.context.dryRun /\ p.stage >= Stages /\ ~Refused(p)

Origin == [env : {Unset, "off", "on"}, override : BOOLEAN \cup {Unset}]

ConfigurationOK ==
  /\ origin \in Origin /\ dryRun \in BOOLEAN /\ edits \in 0..MaxReconfigured
  /\ edits = 0 => dryRun = Merged(ParseDryRun(origin.env), origin.override)

RunsOK == DOMAIN run = Run /\ \A r \in Run : Good(run[r])
WritersOK == written \subseteq Run /\ \A r \in written : WriterOK(run[r])

IInv == ConfigurationOK /\ RunsOK /\ WritersOK

-----------------------------------------------------------------------------
(* Lemmas *)

\* A step of one run changes that run only, and none that has written.
LEMMA OneRun ==
  ASSUME IInv, NEW r \in Run, NEW p, Good(p),
         run' = [run EXCEPT ![r] = p], UNCHANGED <<origin, dryRun, edits, written>>,
         r \in written => WriterOK(p)
  PROVE  IInv'
<1>1. ConfigurationOK'
  BY DEF IInv, ConfigurationOK
<1>2. DOMAIN run' = Run /\ run'[r] = p /\ \A q \in Run \ {r} : run'[q] = run[q]
  BY DEF IInv, RunsOK
<1>3. RunsOK'
  <2>1. ASSUME NEW q \in Run PROVE Good(run'[q])
    BY <1>2 DEF IInv, RunsOK
  <2> QED
    BY <1>2, <2>1 DEF RunsOK
<1>4. WritersOK'
  BY <1>2 DEF IInv, WritersOK
<1> QED
  BY <1>1, <1>3, <1>4 DEF IInv

\* What is thrown is a QaCoreError of a code, or is not.
LEMMA ThrownFacts ==
  /\ Refusal \in Thrown /\ Untyped \in Thrown
  /\ \A thrown \in Thrown :
       thrown.typed \in BOOLEAN /\ (thrown.typed => thrown.code \in Code /\ thrown.retryable \in BOOLEAN)
  /\ Refusal.typed /\ Refusal.code = "VALIDATION_ERROR" /\ Refusal.retryable = FALSE
<1>1. \A code, option : /\ NewError(code, option).typed = TRUE /\ NewError(code, option).code = code
                        /\ NewError(code, option).retryable
                             = IF option = Unset THEN code = "TIMEOUT_ERROR" ELSE option
  BY DEF NewError
<1>2. Refusal \in Thrown /\ Untyped \in Thrown
  BY RunsAssumption DEF Refusal, Thrown
<1>3. ASSUME NEW thrown \in Thrown
      PROVE  thrown.typed \in BOOLEAN /\ (thrown.typed => thrown.code \in Code /\ thrown.retryable \in BOOLEAN)
  <2>1. CASE thrown = Untyped
    BY <2>1 DEF Untyped
  <2>2. CASE thrown # Untyped
    <3>1. PICK code \in Code, option \in BOOLEAN \cup {Unset} : thrown = NewError(code, option)
      BY <2>2 DEF Thrown
    <3>2. thrown.typed = TRUE /\ thrown.code \in Code
      BY <1>1, <3>1
    <3>3. thrown.retryable \in BOOLEAN
      <4>1. thrown.retryable = IF option = Unset THEN code = "TIMEOUT_ERROR" ELSE option
        BY <1>1, <3>1
      <4>2. CASE option = Unset
        <5>1. thrown.retryable = (code = "TIMEOUT_ERROR")
          BY <4>1, <4>2
        <5> QED
          BY <5>1
      <4>3. CASE option # Unset
        <5>1. thrown.retryable = option /\ option \in BOOLEAN
          BY <4>1, <4>3
        <5> QED
          BY <5>1
      <4> QED
        BY <4>2, <4>3
    <3> QED
      BY <3>2, <3>3
  <2> QED
    BY <2>1, <2>2
<1>4. Refusal.typed /\ Refusal.code = "VALIDATION_ERROR" /\ Refusal.retryable = FALSE
  BY <1>1 DEF Refusal
<1> QED
  BY <1>2, <1>3, <1>4

\* A failed response names the one error that ended the run, with its own code and
\* retryable mark if it is a QaCoreError.
LEMMA FailureTells ==
  ASSUME NEW thrown \in Thrown
  PROVE  /\ Failure(thrown) \in Response
         /\ Failure(thrown).success = FALSE /\ Failure(thrown).errors # {}
         /\ thrown.typed => Failure(thrown).errors = {[code |-> thrown.code, retryable |-> thrown.retryable]}
         /\ ~thrown.typed => Failure(thrown).errors = {[code |-> "UNKNOWN_ERROR", retryable |-> FALSE]}
<1>1. thrown.typed \in BOOLEAN /\ (thrown.typed => thrown.code \in Code /\ thrown.retryable \in BOOLEAN)
  BY ThrownFacts
<1>2. Failure(thrown).success = FALSE /\ Failure(thrown).errors = {Serialized(ToQaCoreError(thrown))}
  BY DEF Failure
<1>3. CASE thrown.typed
  <2>1. Serialized(ToQaCoreError(thrown)) = [code |-> thrown.code, retryable |-> thrown.retryable]
    BY <1>3 DEF Serialized, ToQaCoreError
  <2> QED
    BY <1>1, <1>2, <1>3, <2>1 DEF Failure, Response, Codes
<1>4. CASE ~thrown.typed
  <2>1. Serialized(ToQaCoreError(thrown)) = [code |-> "UNKNOWN_ERROR", retryable |-> FALSE]
    BY <1>4 DEF Serialized, ToQaCoreError, NewError
  <2> QED
    BY <1>1, <1>2, <1>4, <2>1 DEF Failure, Response, Codes
<1> QED
  BY <1>1, <1>3, <1>4

-----------------------------------------------------------------------------
(* Every action *)

\* A run that has not begun.
LEMMA FreshGood == Good(Fresh)
<1>1. /\ Fresh.stage = 0 /\ Fresh.promise = "none" /\ Fresh.done = {} /\ Fresh.response = NoResponse
      /\ Fresh.context = [dryRun |-> TRUE, option |-> Unset, default |-> TRUE]
  BY DEF Fresh
<1>2. Fresh \in Progress
  <2>1. NoResponse \in Response /\ Untyped \in Thrown
    BY ThrownFacts DEF NoResponse, Response
  <2> QED
    BY <2>1 DEF Fresh, Progress, Promise, Context, Stages
<1>3. ContextOK(Fresh.context) /\ DoneOK(Fresh) /\ ResponseOK(Fresh)
  BY <1>1 DEF ContextOK, DoneOK, ResponseOK, Stages
<1> QED
  BY <1>2, <1>3 DEF Good

LEMMA InitGood == Init => IInv
<1> SUFFICES ASSUME Init PROVE IInv
  OBVIOUS
<1>1. ConfigurationOK
  <2>1. origin \in Origin /\ origin.override \in BOOLEAN \cup {Unset}
    BY DEF Init, Origin
  <2>2. ParseDryRun(origin.env) \in BOOLEAN
    BY DEF ParseDryRun, DefaultDryRun
  <2>3. dryRun \in BOOLEAN
    BY <2>1, <2>2 DEF Init, Merged
  <2> QED
    BY <2>1, <2>3, RunsAssumption DEF Init, ConfigurationOK
<1>2. Good(Fresh)
  BY FreshGood
<1> QED
  BY <1>1, <1>2 DEF Init, IInv, RunsOK, WritersOK

\* A run begins with a context of its own, or is over at once.
LEMMA BeginGood ==
  ASSUME IInv, NEW r \in Run, NEW option \in BOOLEAN \cup {Unset}, Begin(r, option)
  PROVE  IInv'
<1> DEFINE c == NewContext(option)
           fresh == [Fresh EXCEPT !.context = c]
           over == [fresh EXCEPT !.stage = Stages + 1]
<1>1. c \in Context /\ ContextOK(c)
  BY RunsAssumption DEF NewContext, Context, ContextOK, IInv, ConfigurationOK
<1> HIDE DEF c
<1>2. ASSUME NEW p, Begins(r, p), p \in Progress, p.context = c, DoneOK(p), ResponseOK(p)
      PROVE  IInv'
  <2>1. r \notin written
    BY <1>2 DEF IInv, WritersOK, WriterOK, Begins, Stages
  <2> QED
    BY <1>1, <1>2, <2>1, OneRun DEF Begins, Good
<1>3. Good(Fresh)
  BY FreshGood
<1>4. Refusal \in Thrown /\ \A thrown \in Thrown : Failure(thrown) \in Response
  BY ThrownFacts, FailureTells
<1>5. /\ fresh \in Progress /\ fresh.context = c /\ fresh.done = {} /\ fresh.response = NoResponse
      /\ fresh.promise = "none"
  <2>1. Fresh \in Progress /\ Fresh.done = {} /\ Fresh.response = NoResponse /\ Fresh.promise = "none"
    BY <1>3 DEF Good, Fresh
  <2> QED
    BY <1>1, <2>1 DEF Progress
<1> HIDE DEF fresh
<1>6. /\ over \in Progress /\ over.context = c /\ over.done = {} /\ over.stage = Stages + 1
      /\ over.promise = "none"
  <2> DEFINE n == Stages + 1
  <2>1. n \in 0..(Stages + 1)
    BY DEF Stages
  <2> HIDE DEF n
  <2>2. over = [fresh EXCEPT !.stage = n]
    BY DEF n
  <2>3. over \in Progress /\ over.context = c /\ over.done = {} /\ over.stage = n /\ over.promise = "none"
    BY <1>5, <2>1, <2>2 DEF Progress
  <2> QED
    BY <2>3 DEF n
<1> HIDE DEF over
<1>7. CASE Begins(r, [fresh EXCEPT !.stage = 1, !.promise = "pending"])
  <2> DEFINE p == [fresh EXCEPT !.stage = 1, !.promise = "pending"]
  <2>1. p \in Progress /\ p.context = c /\ p.done = {} /\ p.response = NoResponse
        /\ p.promise = "pending" /\ p.stage = 1
    <3>1. 1 \in 0..(Stages + 1) /\ "pending" \in Promise
      BY DEF Stages, Promise
    <3> QED
      BY <1>5, <3>1 DEF Progress
  <2>2. Begins(r, p)
    BY <1>7
  <2> HIDE DEF p
  <2>3. DoneOK(p) /\ ResponseOK(p)
    <3>1. 1..(1 - 1) = {}
      OBVIOUS
    <3> QED
      BY <2>1, <3>1 DEF DoneOK, ResponseOK, Stages
  <2> QED
    BY <1>2, <2>1, <2>2, <2>3
<1>8. CASE Begins(r, [over EXCEPT !.response = Failure(Refusal)])
  <2> DEFINE f == Failure(Refusal)
             p == [over EXCEPT !.response = f]
  <2>1. f \in Response /\ f = Failure(Refusal) /\ Begins(r, p)
    BY <1>4, <1>8
  <2> HIDE DEF f
  <2>2. p \in Progress /\ p.context = c /\ p.done = {} /\ p.response = f
        /\ p.promise = "none" /\ p.stage = Stages + 1
    BY <1>6, <2>1 DEF Progress
  <2> HIDE DEF p
  <2>3. DoneOK(p) /\ ResponseOK(p)
    BY <2>1, <2>2 DEF DoneOK, ResponseOK, Refused, Stages
  <2> QED
    BY <1>2, <2>1, <2>2, <2>3
<1>9. CASE \E thrown \in Thrown :
             Begins(r, [over EXCEPT !.promise = "rejected", !.cause = thrown, !.response = Failure(thrown)])
  <2>1. PICK thrown \in Thrown :
          Begins(r, [over EXCEPT !.promise = "rejected", !.cause = thrown, !.response = Failure(thrown)])
    BY <1>9
  <2> DEFINE f == Failure(thrown)
             p == [over EXCEPT !.promise = "rejected", !.cause = thrown, !.response = f]
  <2>2. f \in Response /\ f = Failure(thrown) /\ Begins(r, p)
    BY <1>4, <2>1
  <2> HIDE DEF f
  <2>3. p \in Progress /\ p.context = c /\ p.done = {} /\ p.response = f /\ p.cause = thrown
        /\ p.promise = "rejected" /\ p.stage = Stages + 1
    BY <1>6, <2>2 DEF Progress, Promise
  <2> HIDE DEF p
  <2>4. DoneOK(p) /\ ResponseOK(p)
    <3>1. {} # 1..Stages
      BY DEF Stages
    <3> QED
      BY <2>2, <2>3, <3>1 DEF DoneOK, ResponseOK, Rejected, Stages
  <2> QED
    BY <1>2, <2>2, <2>3, <2>4
<1> QED
  BY <1>7, <1>8, <1>9 DEF Begin, fresh, over, c

\* A stage that returns joins those that have, and its run stays where it is.
LEMMA StageSettlesGood ==
  ASSUME IInv, NEW r \in Run, StageSettles(r)
  PROVE  IInv'
<1>1. Good(run[r]) /\ run[r].stage \in 1..Stages /\ run[r].promise = "pending"
  BY DEF IInv, RunsOK, StageSettles, StageReturns, StageThrows, StageHangs, Running
<1>2. run[r] \in Progress /\ run[r].done = 1..(run[r].stage - 1)
  BY <1>1 DEF Good, DoneOK
<1>3. ASSUME NEW promise \in {"resolved", "rejected", "hung"}, NEW cause \in Thrown,
             NEW done, done = IF promise = "resolved" THEN 1..run[r].stage ELSE 1..(run[r].stage - 1),
             run' = [run EXCEPT ![r] = [run[r] EXCEPT !.promise = promise, !.cause = cause, !.done = done]],
             UNCHANGED <<origin, dryRun, edits, written>>
      PROVE  IInv'
  <2> DEFINE p == [run[r] EXCEPT !.promise = promise, !.cause = cause, !.done = done]
  <2>1. done \subseteq 1..Stages
    BY <1>1, <1>3 DEF Stages
  <2>2. p \in Progress
    BY <1>2, <2>1 DEF Progress, Promise
  <2>3. /\ p.stage = run[r].stage /\ p.promise = promise /\ p.done = done
        /\ p.response = run[r].response /\ p.context = run[r].context
    BY <1>2 DEF Progress
  <2>4. run' = [run EXCEPT ![r] = p]
    BY <1>3
  <2> HIDE DEF p
  <2>5. Good(p)
    <3>1. DoneOK(p)
      BY <1>1, <1>3, <2>3 DEF DoneOK, Stages
    <3> QED
      BY <1>1, <2>2, <2>3, <3>1 DEF Good, ResponseOK, Stages
  <2>6. r \in written => WriterOK(p)
    BY <1>1, <2>3 DEF IInv, WritersOK, WriterOK, Refused
  <2> QED
    BY <1>3, <2>4, <2>5, <2>6, OneRun
<1>4. DOMAIN run = Run
  BY DEF IInv, RunsOK
<1>5. CASE StageReturns(r)
  <2> DEFINE done == run[r].done \cup {run[r].stage}
  <2>1. done = 1..run[r].stage
    BY <1>1, <1>2 DEF Stages
  <2>2. run' = [run EXCEPT ![r] = [run[r] EXCEPT !.promise = "resolved", !.cause = run[r].cause, !.done = done]]
    BY <1>2, <1>4, <1>5 DEF StageReturns, Progress
  <2> HIDE DEF done
  <2>3. run[r].cause \in Thrown /\ UNCHANGED <<origin, dryRun, edits, written>>
    BY <1>2, <1>5 DEF Progress, StageReturns
  <2> QED
    BY <1>3, <2>1, <2>2, <2>3
<1>6. CASE \E thrown \in Thrown : StageThrows(r, thrown)
  <2>1. PICK thrown \in Thrown : StageThrows(r, thrown)
    BY <1>6
  <2>2. run' = [run EXCEPT ![r] = [run[r] EXCEPT !.promise = "rejected", !.cause = thrown, !.done = run[r].done]]
        /\ UNCHANGED <<origin, dryRun, edits, written>>
    BY <1>2, <1>4, <2>1 DEF StageThrows, Progress
  <2> QED
    BY <1>2, <1>3, <2>2
<1>7. CASE StageHangs(r)
  <2>1. run' = [run EXCEPT ![r] = [run[r] EXCEPT !.promise = "hung", !.cause = run[r].cause, !.done = run[r].done]]
        /\ UNCHANGED <<origin, dryRun, edits, written>>
    BY <1>2, <1>4, <1>7 DEF StageHangs, Progress
  <2>2. run[r].cause \in Thrown
    BY <1>2 DEF Progress
  <2> QED
    BY <1>2, <1>3, <2>1, <2>2
<1> QED
  BY <1>5, <1>6, <1>7 DEF StageSettles

\* The next stage is called, or the run returns, after all of them.
LEMMA ResumeGood ==
  ASSUME IInv, NEW r \in Run, Resume(r)
  PROVE  IInv'
<1> DEFINE n == run[r].stage + 1
           promise == IF n > Stages THEN "none" ELSE "pending"
           response == IF n > Stages THEN Success ELSE run[r].response
           p == [run[r] EXCEPT !.stage = n, !.promise = promise, !.response = response]
<1>1. Good(run[r]) /\ run[r].stage \in 1..Stages /\ run[r].promise = "resolved"
  BY DEF IInv, RunsOK, Resume, Running
<1>2. run[r] \in Progress /\ run[r].done = 1..(n - 1) /\ n \in 2..(Stages + 1)
      /\ run[r].response = NoResponse
  BY <1>1 DEF Good, DoneOK, ResponseOK, Stages
<1>3. run' = [run EXCEPT ![r] = p] /\ UNCHANGED <<origin, dryRun, edits, written>>
  BY <1>1 DEF Resume, IInv, RunsOK
<1>4. /\ p.stage = n /\ p.promise = promise /\ p.response = response
      /\ p.done = run[r].done /\ p.context = run[r].context
  BY <1>2 DEF Progress
<1>5. Success \in Response /\ NoResponse \in Response
  BY DEF Success, NoResponse, Response
<1>6. p \in Progress
  <2>1. n \in 0..(Stages + 1) /\ promise \in Promise /\ response \in Response
    BY <1>2, <1>5 DEF Promise, Stages
  <2> HIDE DEF n, promise, response
  <2> QED
    BY <1>2, <2>1 DEF Progress
<1> HIDE DEF p
<1>7. DoneOK(p)
  BY <1>2, <1>4 DEF DoneOK, Stages
<1>8. ResponseOK(p)
  <2>1. CASE n \in 2..Stages
    BY <1>2, <1>4, <2>1 DEF ResponseOK, Stages
  <2>2. CASE n = Stages + 1
    <3>1. p.promise = "none" /\ p.response = Success /\ p.done = 1..Stages
      BY <1>2, <1>4, <2>2 DEF Stages
    <3> QED
      BY <1>4, <2>2, <3>1 DEF ResponseOK, Completed, Stages
  <2> QED
    BY <1>2, <2>1, <2>2 DEF Stages
<1>9. r \in written => WriterOK(p)
  <2>1. p.done # {}
    BY <1>2, <1>4 DEF Stages
  <2>2. r \in written => ~run[r].context.dryRun /\ run[r].stage >= Stages
    BY DEF IInv, WritersOK, WriterOK
  <2> QED
    BY <1>1, <1>4, <2>1, <2>2 DEF WriterOK, Refused, Stages
<1> QED
  BY <1>1, <1>3, <1>4, <1>6, <1>7, <1>8, <1>9, OneRun DEF Good

\* A rejected stage ends its run with the error it threw.
LEMMA RejectGood ==
  ASSUME IInv, NEW r \in Run, Reject(r)
  PROVE  IInv'
<1> DEFINE response == Failure(run[r].cause)
           n == Stages + 1
           p == [run[r] EXCEPT !.stage = n, !.response = response]
<1>1. Good(run[r]) /\ run[r].stage \in 1..Stages /\ run[r].promise = "rejected"
  BY DEF IInv, RunsOK, Reject, Running
<1>2. run[r] \in Progress /\ run[r].done = 1..(run[r].stage - 1)
  BY <1>1 DEF Good, DoneOK
<1>3. run' = [run EXCEPT ![r] = p] /\ UNCHANGED <<origin, dryRun, edits, written>>
  BY <1>1 DEF Reject, IInv, RunsOK
<1>4. /\ p.stage = n /\ p.promise = "rejected" /\ p.response = response /\ p.cause = run[r].cause
      /\ p.done = run[r].done /\ p.context = run[r].context
  BY <1>1, <1>2 DEF Progress
<1>5. response \in Response
  BY <1>2, FailureTells DEF Progress
<1>6. p \in Progress
  <2>1. n \in 0..(Stages + 1)
    BY DEF Stages
  <2> HIDE DEF n, response
  <2> QED
    BY <1>2, <1>5, <2>1 DEF Progress
<1> HIDE DEF p
<1>7. p.done # 1..Stages
  <2>1. Stages \notin 1..(run[r].stage - 1) /\ Stages \in 1..Stages
    BY <1>1 DEF Stages
  <2> QED
    BY <1>2, <1>4, <2>1
<1>8. DoneOK(p) /\ ResponseOK(p)
  BY <1>4, <1>7 DEF DoneOK, ResponseOK, Rejected, Stages
<1>9. r \in written => WriterOK(p)
  BY <1>1, <1>4 DEF IInv, WritersOK, WriterOK, Refused, Stages
<1> QED
  BY <1>1, <1>3, <1>4, <1>6, <1>8, <1>9, OneRun DEF Good

\* A plugin writes in the last stage, and only outside a dry run.
LEMMA WriteGood ==
  ASSUME IInv, NEW r \in Run, Write(r)
  PROVE  IInv'
<1>1. WriterOK(run[r])
  BY DEF Write, ContextDryRun, WriterOK, Refused, Stages
<1>2. ConfigurationOK' /\ RunsOK'
  BY DEF IInv, ConfigurationOK, RunsOK, Write
<1>3. WritersOK'
  BY <1>1 DEF IInv, WritersOK, Write
<1> QED
  BY <1>2, <1>3 DEF IInv

\* The configuration changes under the runs, and not under their contexts.
LEMMA ReconfigureGood ==
  ASSUME IInv, NEW v \in BOOLEAN, Reconfigure(v)
  PROVE  IInv'
<1>1. ConfigurationOK'
  BY RunsAssumption DEF IInv, ConfigurationOK, Reconfigure
<1>2. RunsOK' /\ WritersOK'
  BY DEF IInv, RunsOK, WritersOK, Reconfigure
<1> QED
  BY <1>1, <1>2 DEF IInv

LEMMA Invariance == Spec => []IInv
<1>1. IInv /\ [Next]_vars => IInv'
  <2> SUFFICES ASSUME IInv, [Next]_vars PROVE IInv'
    OBVIOUS
  <2>1. CASE UNCHANGED vars
    BY <2>1 DEF vars, IInv, ConfigurationOK, RunsOK, WritersOK
  <2>2. CASE Next
    BY <2>2, BeginGood, StageSettlesGood, ResumeGood, RejectGood, WriteGood, ReconfigureGood DEF Next
  <2> QED
    BY <2>1, <2>2
<1> QED
  BY <1>1, InitGood, PTL DEF Spec

-----------------------------------------------------------------------------
(* Theorems *)

\* createQaCore: the configuration, the runs and the writers keep their types, and
\* a run in a stage awaits it.
THEOREM TypeCorrect == Spec => []TypeOK
<1>1. IInv => TypeOK
  <2> SUFFICES ASSUME IInv PROVE TypeOK
    OBVIOUS
  <2>1. dryRun \in BOOLEAN /\ edits \in 0..MaxReconfigured /\ written \subseteq Run
    BY DEF IInv, ConfigurationOK, WritersOK
  <2>2. ASSUME NEW r \in Run
        PROVE  /\ run[r].stage \in 0..(Stages + 1)
               /\ run[r].promise \in Promise
               /\ Running(r) => run[r].promise # "none"
               /\ run[r].context \in Context
               /\ run[r].cause \in Thrown /\ run[r].done \subseteq 1..Stages
    <3>1. run[r] \in Progress /\ DoneOK(run[r])
      BY DEF IInv, RunsOK, Good
    <3> QED
      BY <3>1 DEF Progress, DoneOK, Running
  <2> QED
    BY <2>1, <2>2 DEF TypeOK, Promise
<1> QED
  BY <1>1, Invariance, PTL

\* createQaCore.runPlugin: who writes was told so by the option of its run or by
\* the configuration it began with, and that one is not off by default.
THEOREM OptOutTheorem == Spec => []WritesOnlyAfterOptOut
<1>1. IInv => WritesOnlyAfterOptOut
  <2> SUFFICES ASSUME IInv PROVE WritesOnlyAfterOptOut
    OBVIOUS
  <2>1. ASSUME NEW r \in written
        PROVE  run[r].context.option = FALSE
               \/ (run[r].context.option = Unset /\ run[r].context.default = FALSE)
    <3>1. r \in Run /\ ~run[r].context.dryRun
      BY DEF IInv, WritersOK, WriterOK
    <3>2. run[r].context \in Context /\ ContextOK(run[r].context)
      BY <3>1 DEF IInv, RunsOK, Good, Progress
    <3> QED
      BY <3>1, <3>2 DEF Context, ContextOK
  <2>2. (edits = 0 /\ ~dryRun)
          => origin.override = FALSE \/ (origin.env = "off" /\ origin.override = Unset)
    BY DEF IInv, ConfigurationOK, Origin, Merged, ParseDryRun, DefaultDryRun
  <2> QED
    BY <2>1, <2>2 DEF WritesOnlyAfterOptOut
<1> QED
  BY <1>1, Invariance, PTL

\* createToolSuccess, createToolFailure and toQaCoreError after runPlugin: the response
\* tells how the run ended, with the code and the retryable mark of what ended it.
THEOREM ResponseTheorem == Spec => []ResponseTells
<1>1. IInv => ResponseTells
  <2> SUFFICES ASSUME IInv, NEW r \in Run, Ended(r)
               PROVE  LET response == run[r].response
                          threw == run[r].promise = "rejected"
                      IN /\ response.success <=> run[r].done = 1..Stages
                         /\ response.success <=> response.errors = {}
                         /\ (~response.success /\ ~threw) =>
                              /\ response.errors = {[code |-> "VALIDATION_ERROR", retryable |-> FALSE]}
                              /\ run[r].done = {} /\ r \notin written
                         /\ (threw /\ run[r].cause.typed) =>
                              response.errors = {[code |-> run[r].cause.code, retryable |-> run[r].cause.retryable]}
                         /\ (threw /\ ~run[r].cause.typed) =>
                              response.errors = {[code |-> "UNKNOWN_ERROR", retryable |-> FALSE]}
    BY DEF ResponseTells
  <2>1. Completed(run[r]) \/ Refused(run[r]) \/ Rejected(run[r])
    BY DEF IInv, RunsOK, Good, ResponseOK, Ended
  <2>2. r \in written => ~Refused(run[r])
    BY DEF IInv, WritersOK, WriterOK
  <2>3. CASE Completed(run[r])
    BY <2>3 DEF Completed, Success
  <2>4. CASE Refused(run[r])
    <3>1. run[r].response = Failure(Refusal) /\ run[r].done = {} /\ run[r].promise = "none"
          /\ run[r].done # 1..Stages /\ r \notin written
      BY <2>2, <2>4 DEF Refused, Stages
    <3>2. run[r].response.success = FALSE
          /\ run[r].response.errors = {[code |-> "VALIDATION_ERROR", retryable |-> FALSE]}
      BY <3>1, FailureTells, ThrownFacts
    <3> QED
      BY <3>1, <3>2
  <2>5. CASE Rejected(run[r])
    <3>1. run[r].response = Failure(run[r].cause) /\ run[r].promise = "rejected" /\ run[r].done # 1..Stages
      BY <2>5 DEF Rejected
    <3>2. run[r].cause \in Thrown
      BY DEF IInv, RunsOK, Good, Progress
    <3>3. /\ run[r].response.success = FALSE /\ run[r].response.errors # {}
          /\ run[r].cause.typed => run[r].response.errors
               = {[code |-> run[r].cause.code, retryable |-> run[r].cause.retryable]}
          /\ ~run[r].cause.typed => run[r].response.errors = {[code |-> "UNKNOWN_ERROR", retryable |-> FALSE]}
      BY <3>1, <3>2, FailureTells
    <3> QED
      BY <3>1, <3>3
  <2> QED
    BY <2>1, <2>3, <2>4, <2>5
<1> QED
  BY <1>1, Invariance, PTL

=============================================================================
