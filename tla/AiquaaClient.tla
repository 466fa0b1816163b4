---------------------------- MODULE AiquaaClient ----------------------------
(***************************************************************************)
(* HttpAiquaaAdapter: sessions share one adapter, each call with a bearer  *)
(* token of its own or the configured one. A request whose connection      *)
(* breaks is an error to the caller, who may call again, and may still     *)
(* reach the server. Next to it InMemoryAiquaaAdapter hears the same saves.*)
(* The server is modelled from the adapter's use: it stores what an        *)
(* accepted save brings, and answers with a status and a body.             *)
(***************************************************************************)
EXTENDS Naturals, Sequences

CONSTANTS
  Session,
  Token,
  Missing,    \* no token
  Empty,      \* the token ""
  Calls       \* bound: session -> number of its calls

ASSUME ClientAssumption ==
  Missing \notin Token /\ Empty \notin Token /\ Calls \in [Session -> Nat]

Passed == Token \cup {Missing, Empty}     \* what a caller may pass as accessToken

VARIABLES
  configured,     \* the accessToken the adapter was made with
  defaultToken,   \* its defaultAccessToken
  call,           \* call -> request and answer
  stored,         \* the server: calls whose input it stored, in order
  twin            \* the in-memory adapter: the same

vars == <<configured, defaultToken, call, stored, twin>>

CallId == UNION {{s} \X (1..Calls[s]) : s \in Session}

Idle(c) == call[c].phase = "idle"
Settled(c) == call[c].phase = "settled"
IsSave(c) == call[c].op = "save"

Fresh == [phase |-> "idle", op |-> "none", token |-> Missing, bearer |-> Missing,
          arrived |-> FALSE, accepted |-> FALSE, answer |-> "none"]

-----------------------------------------------------------------------------
(* The adapter *)

\* An empty token is one: it is refused below, and not replaced by the default.
ResolveToken(token) == IF token # Missing THEN token ELSE defaultToken

RememberToken(token) == ResolveToken(token)   \* (slip) the adapter keeps the token of the call
DefaultAfter(token) == defaultToken

\* (slip) a save is posted and not awaited
NotAwaited(request) == [request EXCEPT !.phase = "settled", !.answer = "ok"]
Fetched(request) == [request EXCEPT !.phase = "sent"]

\* The in-memory adapter pushes what it is given to save.
SavedInMemory(op, c) == IF op = "save" THEN Append(twin, c) ELSE twin

\* A call of the next operation of a session: saveCoverage, saveExecution and
\* linkPullRequest post, listBusinessRules and the other reads get.
Issue(c, op, token) ==
  /\ Idle(c) /\ \A n \in 1..(c[2] - 1) : Settled(<<c[1], n>>)
  /\ LET request == [Fresh EXCEPT !.op = op, !.token = token, !.bearer = ResolveToken(token)]
     IN call' = [call EXCEPT ![c] =
          IF request.bearer \notin Token
          THEN [request EXCEPT !.phase = "settled", !.answer = "noToken"]
          ELSE Fetched(request)]
  /\ defaultToken' = DefaultAfter(token)
  /\ twin' = SavedInMemory(op, c)
  /\ UNCHANGED <<configured, stored>>

\* The network fails under the call.
Unreachable(c) ==
  /\ call[c].phase = "sent"
  /\ call' = [call EXCEPT ![c].phase = "settled", ![c].answer = "unreachable"]
  /\ UNCHANGED <<configured, defaultToken, stored, twin>>

\* What fetchJson makes of a response; a read gets what is in the body.
AnyStatus(reply) == IF reply = "html" THEN "notJson" ELSE "ok"   \* (slip) response.ok is not asked
AnswerTo(reply) ==
  CASE reply = "error" -> "refused"                 \* not 2xx
    [] reply = "html" -> "notJson"                  \* 2xx, and no JSON
    [] reply \in {"empty", "list", "page"} -> "ok"  \* 204, or JSON

\* What may come back: something between may answer with a failure before the request
\* arrives, or hide behind one, or behind a page of its own, that it was stored.
Replies(c) ==
  IF ~call[c].accepted THEN {"error"}
  ELSE IF IsSave(c) THEN {"empty", "html", "error"} ELSE {"list", "page", "html", "error"}

Hear(c, reply) ==
  /\ call[c].phase = "sent" /\ reply \in Replies(c)
  /\ call' = [call EXCEPT ![c].phase = "settled", ![c].answer = AnswerTo(reply)]
  /\ UNCHANGED <<configured, defaultToken, stored, twin>>

-----------------------------------------------------------------------------
(* The server *)

\* The request arrives, perhaps after its caller gave up, and its input is stored
\* unless the server refuses it.
Arrive(c, accepted) ==
  /\ call[c].bearer \in Token /\ ~call[c].arrived /\ ~Idle(c)
  /\ call' = [call EXCEPT ![c].arrived = TRUE, ![c].accepted = accepted]
  /\ stored' = IF accepted /\ IsSave(c) THEN Append(stored, c) ELSE stored
  /\ UNCHANGED <<configured, defaultToken, twin>>

Init ==
  /\ configured \in Passed /\ defaultToken = configured
  /\ call = [c \in CallId |-> Fresh]
  /\ stored = <<>> /\ twin = <<>>

Next ==
  \E c \in CallId :
    \/ \E op \in {"save", "rules"}, token \in Passed : Issue(c, op, token)
    \/ Unreachable(c)
    \/ \E accepted \in BOOLEAN : Arrive(c, accepted)
    \/ \E reply \in {"empty", "list", "page", "html", "error"} : Hear(c, reply)

Spec == Init /\ [][Next]_vars

-----------------------------------------------------------------------------
(* Correctness *)

Ok(c) == call[c].answer = "ok"
Holds(log, c) == \E i \in DOMAIN log : log[i] = c
Before(log, c, d) == \E i, j \in DOMAIN log : i < j /\ log[i] = c /\ log[j] = d

\* A call without a token to use reaches nobody.
TypeOK ==
  /\ stored \in Seq(CallId) /\ twin \in Seq(CallId)
  /\ \A c \in CallId :
       /\ Settled(c) <=> call[c].answer # "none"
       /\ call[c].answer = "noToken" => ~call[c].arrived /\ call[c].bearer \notin Token

\* "Per-request bearer token, never persisted on the adapter instance": whatever
\* other calls of the adapter did, a request bears the token its call brought, or
\* the one the adapter was made with.
OwnBearer ==
  \A c \in CallId :
    ~Idle(c) => call[c].bearer = IF call[c].token # Missing THEN call[c].token ELSE configured

\* A save that succeeded is stored, once, whatever became of other calls, and one
\* that never left is known by its answer.
SavesAreStored ==
  \A c \in CallId : IsSave(c) =>
    LET copies == {i \in DOMAIN stored : stored[i] = c}
    IN /\ \A i, j \in copies : i = j
       /\ Ok(c) => copies # {}
       /\ call[c].answer = "noToken" => copies = {}

\* The saves of a session are stored in the order of its calls, except that one
\* whose connection broke, or that was answered with a failure, may come later than
\* the calls its session made since.
OnlyLostComesLate ==
  \A i, j \in DOMAIN stored :
    LET c == stored[i]
        d == stored[j]
    IN (c[1] = d[1] /\ d[2] < c[2] /\ i < j) => call[d].answer \in {"unreachable", "refused"}

\* What sessions saved is on the server once and in their order, apart
\* from late arrivals of what its session knows to have failed.
SavesInOrder == SavesAreStored /\ OnlyLostComesLate

\* Where every call succeeded, the in-memory adapter holds the saves the server holds,
\* each session's in the same order.
SameAsInMemory ==
  (\A c \in CallId : Idle(c) \/ Ok(c)) =>
    \A c, d \in CallId :
      /\ Holds(stored, c) <=> Holds(twin, c)
      /\ c[1] = d[1] => (Before(stored, c, d) <=> Before(twin, c, d))

=============================================================================
