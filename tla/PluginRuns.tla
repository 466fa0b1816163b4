----------------------------- MODULE PluginRuns -----------------------------
(***************************************************************************)
(* createQaCore and its configuration: runs of plugins share one core, one *)
(* configuration object and the ports; each run takes the plugin through   *)
(* four awaited stages with a context of its own, and the tool handler of  *)
(* the consumer makes the outcome a response. The plugin is modelled from  *)
(* its contract (core/plugin.ts): it may settle, reject or never answer,   *)
(* and writes only when its context is not a dry run.                      *)
(***************************************************************************)
EXTENDS Naturals

CONSTANTS
  Run,
  Unset,
  Code,             \* codes of the error classes
  MaxReconfigured   \* bound: assignments to the configuration after the core was made

ASSUME RunsAssumption ==
  /\ Unset \notin BOOLEAN /\ MaxReconfigured \in Nat
  /\ "VALIDATION_ERROR" \in Code

VARIABLES
  origin,    \* where the configuration came from: QA_CORE_DRY_RUN and the override
  dryRun,    \* config.security.dryRun of the object the core shares
  edits,     \* assignments to it so far
  run,       \* run -> its progress
  written    \* runs whose plugin has written through a port

vars == <<origin, dryRun, edits, run, written>>

Stages == 4      \* analyze, evaluateCoverage, planChanges, generateArtifacts

Context == [dryRun : BOOLEAN, option : BOOLEAN \cup {Unset}, default : BOOLEAN]
NoResponse == [success |-> FALSE, errors |-> {}]

-----------------------------------------------------------------------------
(* Errors *)

\* Every class but one is not retryable unless the option of its constructor says so.
NewError(code, option) ==
  [typed |-> TRUE, code |-> code,
   retryable |-> IF option = Unset THEN code = "TIMEOUT_ERROR" ELSE option]

\* What a plugin may throw: any QaCoreError, or a value that is none.
Untyped == [typed |-> FALSE, code |-> "none", retryable |-> FALSE]
Thrown == {NewError(code, option) : code \in Code, option \in BOOLEAN \cup {Unset}} \cup {Untyped}

WrapAll(thrown) == NewError("UNKNOWN_ERROR", Unset)    \* (slip) what is already a QaCoreError is not preserved
ToQaCoreError(thrown) == IF thrown.typed THEN thrown ELSE NewError("UNKNOWN_ERROR", Unset)

-----------------------------------------------------------------------------
(* Runs *)

\* stage 0 before and Stages + 1 after the run; done: the stages that returned;
\* cause: what the plugin threw.
Fresh == [stage |-> 0, promise |-> "none", cause |-> Untyped, done |-> {}, response |-> NoResponse,
          context |-> [dryRun |-> TRUE, option |-> Unset, default |-> TRUE]]

Running(r) == run[r].stage \in 1..Stages
Ended(r) == run[r].stage = Stages + 1

-----------------------------------------------------------------------------
(* Configuration *)

DefaultDryRun == TRUE

\* parseBoolean: only false, 0, no and off turn it off.
ParseDryRun(v) == IF v = Unset THEN DefaultDryRun ELSE v # "off"
Merged(base, override) == IF override = Unset THEN base ELSE override

\* `??' falls through only when the option is not given.
LiveDryRun(r) == dryRun     \* (slip) the shared configuration is asked at the time of the write
ContextDryRun(r) == run[r].context.dryRun

NewContext(option) ==
  [dryRun |-> IF option = Unset THEN dryRun ELSE option, option |-> option, default |-> dryRun]

-----------------------------------------------------------------------------
(* Responses *)

Serialized(error) == [code |-> error.code, retryable |-> error.retryable]

Success == [success |-> TRUE, errors |-> {}]
Failure(thrown) == [success |-> FALSE, errors |-> {Serialized(ToQaCoreError(thrown))}]

-----------------------------------------------------------------------------
(* runPlugin *)

Refusal == NewError("VALIDATION_ERROR", Unset)

Begins(r, progress) ==
  /\ run[r].stage = 0
  /\ run' = [run EXCEPT ![r] = progress]
  /\ UNCHANGED <<origin, dryRun, edits, written>>

\* canHandle says yes or no, or throws itself.
Begin(r, option) ==
  LET fresh == [Fresh EXCEPT !.context = NewContext(option)]
      over == [fresh EXCEPT !.stage = Stages + 1]
  IN \/ Begins(r, [fresh EXCEPT !.stage = 1, !.promise = "pending"])
     \/ Begins(r, [over EXCEPT !.response = Failure(Refusal)])
     \/ \E thrown \in Thrown :
          Begins(r, [over EXCEPT !.promise = "rejected", !.cause = thrown, !.response = Failure(thrown)])

\* The plugin's stage returns, rejects, or is never heard of again.
StageReturns(r) ==
  /\ Running(r) /\ run[r].promise = "pending"
  /\ run' = [run EXCEPT ![r].promise = "resolved", ![r].done = @ \cup {run[r].stage}]
  /\ UNCHANGED <<origin, dryRun, edits, written>>

StageThrows(r, thrown) ==
  /\ Running(r) /\ run[r].promise = "pending"
  /\ run' = [run EXCEPT ![r].promise = "rejected", ![r].cause = thrown]
  /\ UNCHANGED <<origin, dryRun, edits, written>>

StageHangs(r) ==
  /\ Running(r) /\ run[r].promise = "pending"
  /\ run' = [run EXCEPT ![r].promise = "hung"]
  /\ UNCHANGED <<origin, dryRun, edits, written>>

StageSettles(r) == StageReturns(r) \/ (\E thrown \in Thrown : StageThrows(r, thrown)) \/ StageHangs(r)

\* generateArtifacts may write before it settles.
Write(r) ==
  /\ run[r].stage = Stages /\ run[r].promise = "pending" /\ ~ContextDryRun(r)
  /\ written' = written \cup {r}
  /\ UNCHANGED <<origin, dryRun, edits, run>>

\* (slip) the pipeline is not resumed after coverage was evaluated
ForgetCoverage(r) ==
  /\ Running(r) /\ run[r].promise = "resolved" /\ run[r].stage # 2
  /\ run' = [run EXCEPT ![r].stage = @ + 1, ![r].promise = "pending"]
  /\ UNCHANGED <<origin, dryRun, edits, written>>

\* The awaited stage resolved: the next one is called, or the run returns.
Resume(r) ==
  /\ Running(r) /\ run[r].promise = "resolved"
  /\ LET n == run[r].stage + 1
     IN run' = [run EXCEPT
          ![r].stage = n,
          ![r].promise = IF n > Stages THEN "none" ELSE "pending",
          ![r].response = IF n > Stages THEN Success ELSE @]
  /\ UNCHANGED <<origin, dryRun, edits, written>>

\* It rejected: no later stage is called, and the handler answers with the error.
Reject(r) ==
  /\ Running(r) /\ run[r].promise = "rejected"
  /\ run' = [run EXCEPT ![r].stage = Stages + 1, ![r].response = Failure(run[r].cause)]
  /\ UNCHANGED <<origin, dryRun, edits, written>>

\* The consumer keeps the object it passed in, and may assign to it.
Reconfigure(v) ==
  /\ edits < MaxReconfigured
  /\ dryRun' = v /\ edits' = edits + 1
  /\ UNCHANGED <<origin, run, written>>

Init ==
  /\ origin \in [env : {Unset, "off", "on"}, override : BOOLEAN \cup {Unset}]
  /\ dryRun = Merged(ParseDryRun(origin.env), origin.override)
  /\ edits = 0
  /\ run = [r \in Run |-> Fresh]
  /\ written = {}

Next ==
  \/ \E v \in BOOLEAN : Reconfigure(v)
  \/ \E r \in Run :
       \/ \E option \in BOOLEAN \cup {Unset} : Begin(r, option)
       \/ StageSettles(r) \/ Write(r) \/ Resume(r) \/ Reject(r)

\* The event loop continues what has settled. A stage settles or hangs: what the
\* property below says of a run that hangs is only that it may.
Fairness == \A r \in Run :
  WF_vars(Resume(r)) /\ WF_vars(Reject(r)) /\ WF_vars(StageSettles(r))

Spec == Init /\ [][Next]_vars /\ Fairness

-----------------------------------------------------------------------------
(* Correctness *)

TypeOK ==
  /\ dryRun \in BOOLEAN /\ edits \in 0..MaxReconfigured /\ written \subseteq Run
  /\ \A r \in Run :
       /\ run[r].stage \in 0..(Stages + 1)
       /\ run[r].promise \in {"none", "pending", "resolved", "rejected", "hung"}
       /\ Running(r) => run[r].promise # "none"
       /\ run[r].context \in Context
       /\ run[r].cause \in Thrown /\ run[r].done \subseteq 1..Stages

\* Somebody who writes was told to: by the option of the run, or, when it gave
\* none, by the configuration at the time the run began, whatever it says now. And
\* the configuration allows it only if the environment, an override or an assignment
\* said so: the default is a dry run.
WritesOnlyAfterOptOut ==
  /\ \A r \in written :
       LET c == run[r].context
       IN c.option = FALSE \/ (c.option = Unset /\ c.default = FALSE)
  /\ (edits = 0 /\ ~dryRun) => origin.override = FALSE \/ (origin.env = "off" /\ origin.override = Unset)

\* The response of a tool tells what happened, whatever kind of error a stage or
\* canHandle throws: success is a run of which every stage returned. A failure names
\* one error: for input the plugin refused, a validation error that is not
\* retryable, after which nothing has been written; for a QaCoreError that ended
\* the run, its code, and retryable if and only if it is; for anything else, an
\* unknown error that is not retryable.
ResponseTells ==
  \A r \in Run :
    Ended(r) =>
      LET response == run[r].response
          threw == run[r].promise = "rejected"
      IN /\ response.success <=> run[r].done = 1..Stages
         /\ response.success <=> response.errors = {}
         /\ (~response.success /\ ~threw) =>
              /\ response.errors = {[code |-> "VALIDATION_ERROR", retryable |-> FALSE]}
              /\ run[r].done = {} /\ r \notin written
         /\ (threw /\ run[r].cause.typed) =>
              response.errors = {[code |-> run[r].cause.code, retryable |-> run[r].cause.retryable]}
         /\ (threw /\ ~run[r].cause.typed) =>
              response.errors = {[code |-> "UNKNOWN_ERROR", retryable |-> FALSE]}

\* A run ends, unless its plugin never answers: nothing in the core times it out.
RunsEnd == \A r \in Run : Running(r) ~> (Ended(r) \/ run[r].promise = "hung")

=============================================================================
