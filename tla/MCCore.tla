------------------------------- MODULE MCCore -------------------------------
(* What has to come to an end, two studies in one run: the runs of plugins on *)
(* one core, and the calls of runCommand.                                     *)
EXTENDS PluginRuns

CONSTANTS first, second

VARIABLES study, proc

Calls == {first, second}

Runner == INSTANCE ProcessRunner WITH CallId <- Calls

\* What a study leaves alone stays as it is here.
NoPlugin == origin = [env |-> Unset, override |-> Unset]

\* Every value of the environment and of the override, which wins both ways.
Origins ==
  {[env |-> v, override |-> Unset] : v \in {Unset, "off", "on"}}
  \cup {[env |-> "off", override |-> TRUE], [env |-> "on", override |-> FALSE]}

CoreInit ==
  \/ study = "plugins" /\ origin \in Origins /\ Init /\ Runner!Init
  \/ study = "processes" /\ NoPlugin /\ Init /\ Runner!Init

\* Errors of a class that is retryable by itself are thrown under one origin only:
\* nothing of the configuration goes into an error.
FewerErrors ==
  origin # [env |-> "off", override |-> Unset] => \A r \in Run : run'[r].cause.code # "TIMEOUT_ERROR"

CoreNext ==
  \/ study = "plugins" /\ Next /\ FewerErrors /\ UNCHANGED <<study, proc>>
  \/ study = "processes" /\ Runner!Next /\ UNCHANGED <<study, vars>>

CoreSpec == CoreInit /\ [][CoreNext]_<<study, vars, proc>> /\ Fairness /\ Runner!Fairness

\* runCommand: every call settles, although its child may hang.
CallsSettle == Runner!CallsSettle

\* runCommand: what succeeds stayed within its limits (run-command.ts:14).
LimitsEnforced == Runner!LimitsEnforced

=============================================================================
