--------------------------- MODULE ProcessRunner ---------------------------
(***************************************************************************)
(* runCommand (src/infrastructure/process/run-command.ts) on node's        *)
(* execFile: a child process works, prints and exits while the timer of    *)
(* its call and the limit of its output may kill it. The caller hears of   *)
(* it once, when the child is gone: the answer, and what was read of its   *)
(* output.                                                                 *)
(***************************************************************************)
CONSTANT CallId       \* each stands for one call of runCommand

VARIABLE proc         \* call -> its child process and its answer

Answer == {"none", "ok", "timeout", "failed"}   \* TimeoutError, ExternalProcessError

\* `read' tells how much of what the child prints was read.
Fresh == [phase |-> "idle", alive |-> FALSE, worked |-> FALSE, read |-> "nothing",
          fired |-> FALSE, flooded |-> FALSE, answer |-> "none"]

Idle(c) == proc[c].phase = "idle"
Running(c) == proc[c].phase = "running"
Settled(c) == proc[c].phase = "settled"

-----------------------------------------------------------------------------

Start(c) ==
  /\ Idle(c)
  /\ proc' = [proc EXCEPT ![c].phase = "running", ![c].alive = TRUE]

\* The binary cannot be started.
StartFails(c) ==
  /\ Idle(c)
  /\ proc' = [proc EXCEPT ![c].phase = "settled", ![c].answer = "failed"]

\* The child has done what it was started for, perhaps after it was told to stop.
Work(c) ==
  /\ proc[c].alive /\ ~proc[c].worked
  /\ proc' = [proc EXCEPT ![c].worked = TRUE]

\* Output arrives, while nothing has closed the pipe: some, or the last of it.
Hear(c) ==
  /\ proc[c].alive /\ ~proc[c].fired /\ ~proc[c].flooded
  /\ \E amount \in {"part", "all"} :
       /\ amount = "part" => proc[c].read = "nothing"
       /\ amount = "all" => proc[c].worked /\ proc[c].read # "all"
       /\ proc' = [proc EXCEPT ![c].read = amount]

\* (slip) the call answers when the timer expires, not when the child is gone
FireSettles(c) ==
  /\ Running(c) /\ ~proc[c].fired
  /\ proc' = [proc EXCEPT ![c].fired = TRUE, ![c].phase = "settled", ![c].answer = "timeout"]

\* (slip) the timer is never set
NeverFire(c) == FALSE /\ UNCHANGED proc

\* The timer expires: the child is sent a signal and its pipes are destroyed, so
\* that what was not read by now is lost.
Fire(c) ==
  /\ Running(c) /\ ~proc[c].fired
  /\ proc' = [proc EXCEPT ![c].fired = TRUE]

\* More output than maxBuffer: the same, and execFile keeps an error for it.
Flood(c) ==
  /\ Running(c) /\ ~proc[c].fired /\ ~proc[c].flooded
  /\ proc' = [proc EXCEPT ![c].flooded = TRUE]

\* execFile calls back with an error unless the child ended with 0 and printed no
\* more than it may; that the timer expired is no error by itself.
IsError(p, code) == code # "zero" \/ p.flooded

\* error.killed, which the error of an output too large lacks, or a message,
\* made of the command line and of stderr, that speaks of a timeout.
IsTimeout(p, mention) == (p.fired /\ ~p.flooded) \/ mention

AnswerOf(p, code, mention) ==
  IF ~IsError(p, code) THEN "ok" ELSE IF IsTimeout(p, mention) THEN "timeout" ELSE "failed"

\* The child is gone and its pipes are at their end, everything read unless they
\* were destroyed; a child that was told to stop may still end with 0.
Exit(c, code, mention) ==
  /\ Running(c) /\ proc[c].alive
  /\ mention => code # "zero" /\ ~proc[c].flooded
  /\ proc' = [proc EXCEPT ![c].phase = "settled", ![c].alive = FALSE,
                          ![c].answer = AnswerOf(proc[c], code, mention),
                          ![c].read = IF proc[c].fired \/ proc[c].flooded THEN @ ELSE "all"]

\* A child that was told to stop stops.
Obey(c) == (proc[c].fired \/ proc[c].flooded) /\ Exit(c, "signal", FALSE)

Init == proc = [c \in CallId |-> Fresh]

Next ==
  \E c \in CallId :
    \/ Start(c) \/ StartFails(c) \/ Work(c) \/ Hear(c) \/ Fire(c) \/ Flood(c) \/ Obey(c)
    \/ \E code \in {"zero", "nonzero", "signal"}, mention \in BOOLEAN : Exit(c, code, mention)

\* The timer is node's and fires; a child may hang for ever, until it is killed.
Fairness == \A c \in CallId : WF_proc(Fire(c)) /\ WF_proc(Obey(c))

Spec == Init /\ [][Next]_proc /\ Fairness

-----------------------------------------------------------------------------
(* Correctness *)

Process == [phase : {"idle", "running", "settled"}, alive : BOOLEAN, worked : BOOLEAN,
            read : {"nothing", "part", "all"}, fired : BOOLEAN, flooded : BOOLEAN,
            answer : Answer]

\* A call has an answer exactly when it has settled.
TypeOK ==
  /\ proc \in [CallId -> Process]
  /\ \A c \in CallId : Settled(c) <=> proc[c].answer # "none"

\* Whoever has the answer of a call, also that it ran out of time, may rely on
\* its child: it is gone and changes nothing any more.
AnsweredIsOver == \A c \in CallId : Settled(c) => ~proc[c].alive

\* What was cut off at the limit of the output never reads as success, and what
\* succeeded was heard to its end unless the timer expired on the way; what was
\* killed for its time and did not succeed is a TimeoutError.
AnswersTell ==
  \A c \in CallId :
    /\ proc[c].answer = "ok" => ~proc[c].flooded /\ (proc[c].read = "all" \/ proc[c].fired)
    /\ (Settled(c) /\ proc[c].fired /\ ~proc[c].flooded /\ proc[c].answer # "ok")
         => proc[c].answer = "timeout"

\* A caller can go by the answer of its call, to repeat it as well: the child is
\* gone, and the answer says what became of it, as far as AnswersTell says.
AnswersCanBeTrusted == AnsweredIsOver /\ AnswersTell

\* What the comment on runCommand promises (run-command.ts:14, "enforcing timeout
\* and output-size limits"): a call that ran into one of its limits before its
\* output was complete does not succeed.
LimitsEnforced == \A c \in CallId : proc[c].answer = "ok" => proc[c].read = "all"

\* Every call settles, although its child may hang: the timer bounds it.
CallsSettle == \A c \in CallId : Running(c) ~> Settled(c)

=============================================================================
