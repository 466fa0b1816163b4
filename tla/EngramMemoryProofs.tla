------------------------- MODULE EngramMemoryProofs -------------------------
(***************************************************************************)
(* What a session may expect of the memory it saves to through             *)
(* EngramCliAdapter, for any number of sessions, calls, keys and topics.   *)
(* The steps of the processes are those of ProcessRunner, about which the  *)
(* first part is: what a caller of runCommand may conclude from its        *)
(* answer.                                                                 *)
(***************************************************************************)
EXTENDS EngramMemory, TLAPS

-----------------------------------------------------------------------------
(* The calls of runCommand, whoever makes them *)

\* A call has an answer exactly when it has settled; its child lives at most
\* while it runs.
CallOK(p) ==
  /\ p.phase = "settled" <=> p.answer # "none"
  /\ p.alive => p.phase = "running"

\* The answer agrees with what became of the child.
AnswerOK(p) ==
  /\ p.answer = "ok" => ~p.flooded /\ (p.read = "all" \/ p.fired)
  /\ (p.phase = "settled" /\ p.fired /\ ~p.flooded /\ p.answer # "ok") => p.answer = "timeout"

Good(p) == p \in Process /\ CallOK(p) /\ AnswerOK(p)

IInv == proc \in [CallId -> Process] /\ \A c \in CallId : Good(proc[c])

\* A step of a call changes its own process only.
Only(c) == proc' \in [CallId -> Process] /\ \A d \in CallId \ {c} : proc'[d] = proc[d]

-----------------------------------------------------------------------------

\* It is enough to look at the call that made the step.
LEMMA OneCall ==
  ASSUME IInv, NEW c \in CallId, Only(c), Good(proc'[c])
  PROVE  IInv'
<1>1. ASSUME NEW d \in CallId PROVE Good(proc'[d])
  <2>1. CASE d = c
    BY <2>1
  <2>2. CASE d # c
    BY <2>2 DEF IInv, Only
  <2> QED
    BY <2>1, <2>2
<1> QED
  BY <1>1 DEF IInv, Only

\* Starting, and failing to start, leave a good process.
LEMMA StartsWell ==
  ASSUME IInv, NEW c \in CallId, Start(c) \/ StartFails(c)
  PROVE  IInv'
<1>1. proc[c] \in Process /\ CallOK(proc[c]) /\ AnswerOK(proc[c]) /\ proc \in [CallId -> Process]
  BY DEF IInv, Good
<1>2. Only(c) /\ Good(proc'[c])
  <2>1. CASE Start(c)
    BY <1>1, <2>1 DEF Start, Idle, Only, Good, CallOK, AnswerOK, Process, Answer
  <2>2. CASE StartFails(c)
    BY <1>1, <2>2 DEF StartFails, Idle, Only, Good, CallOK, AnswerOK, Process, Answer
  <2> QED
    BY <2>1, <2>2
<1> QED
  BY <1>2, OneCall

\* What happens to a child before it exits does not touch the answer.
LEMMA RunsWell ==
  ASSUME IInv, NEW c \in CallId, Work(c) \/ Hear(c) \/ Fire(c) \/ Flood(c)
  PROVE  IInv'
<1>1. proc[c] \in Process /\ CallOK(proc[c]) /\ AnswerOK(proc[c]) /\ proc \in [CallId -> Process]
  BY DEF IInv, Good
<1>2. Only(c) /\ Good(proc'[c])
  <2>1. CASE Work(c)
    BY <1>1, <2>1 DEF Work, Only, Good, CallOK, AnswerOK, Process, Answer
  <2>2. CASE Fire(c)
    BY <1>1, <2>2 DEF Fire, Running, Only, Good, CallOK, AnswerOK, Process, Answer
  <2>3. CASE Flood(c)
    BY <1>1, <2>3 DEF Flood, Running, Only, Good, CallOK, AnswerOK, Process, Answer
  <2>4. CASE Hear(c)
    <3>1. PICK amount \in {"part", "all"} : proc' = [proc EXCEPT ![c].read = amount]
      BY <2>4 DEF Hear
    <3>2. proc[c].phase = "running"
      BY <1>1, <2>4 DEF Hear, CallOK
    <3> QED
      BY <1>1, <3>1, <3>2 DEF Only, Good, CallOK, AnswerOK, Process, Answer
  <2> QED
    BY <2>1, <2>2, <2>3, <2>4
<1> QED
  BY <1>2, OneCall

\* The exit decides the answer, from how the child ended and what it was told.
LEMMA ExitsWell ==
  ASSUME IInv, NEW c \in CallId, NEW code \in {"zero", "nonzero", "signal"},
         NEW mention \in BOOLEAN, Exit(c, code, mention)
  PROVE  IInv'
<1>1. proc[c] \in Process /\ proc \in [CallId -> Process]
  BY DEF IInv, Good
<1> DEFINE a == AnswerOf(proc[c], code, mention)
           r == IF proc[c].fired \/ proc[c].flooded THEN proc[c].read ELSE "all"
<1>2. /\ a \in {"ok", "timeout", "failed"}
      /\ a = "ok" => code = "zero" /\ ~proc[c].flooded
      /\ (proc[c].fired /\ ~proc[c].flooded /\ a # "ok") => a = "timeout"
  BY DEF AnswerOf, IsError, IsTimeout
<1>3. proc' = [proc EXCEPT ![c].phase = "settled", ![c].alive = FALSE, ![c].answer = a,
                          ![c].read = r]
  BY DEF Exit
<1>5. r \in {"nothing", "part", "all"} /\ (~proc[c].fired /\ ~proc[c].flooded => r = "all")
  BY <1>1 DEF Process
<1> HIDE DEF a, r
<1>4. Only(c) /\ Good(proc'[c])
  BY <1>1, <1>2, <1>3, <1>5 DEF Only, Good, CallOK, AnswerOK, Process, Answer
<1> QED
  BY <1>4, OneCall

\* Obeying a signal is an exit by it.
LEMMA StepIInv == IInv /\ [Next]_proc => IInv'
<1> SUFFICES ASSUME IInv, [Next]_proc PROVE IInv'
  OBVIOUS
<1>1. CASE UNCHANGED proc
  BY <1>1 DEF IInv, Good
<1>2. CASE Next
  <2>1. PICK c \in CallId :
          \/ Start(c) \/ StartFails(c) \/ Work(c) \/ Hear(c) \/ Fire(c) \/ Flood(c) \/ Obey(c)
          \/ \E code \in {"zero", "nonzero", "signal"}, mention \in BOOLEAN : Exit(c, code, mention)
    BY <1>2 DEF Next
  <2>2. CASE Start(c) \/ StartFails(c)
    BY <2>2, StartsWell
  <2>3. CASE Work(c) \/ Hear(c) \/ Fire(c) \/ Flood(c)
    BY <2>3, RunsWell
  <2>4. CASE Obey(c)
    <3>1. Exit(c, "signal", FALSE)
      BY <2>4 DEF Obey
    <3> QED
      BY <3>1, ExitsWell
  <2>5. CASE \E code \in {"zero", "nonzero", "signal"}, mention \in BOOLEAN : Exit(c, code, mention)
    BY <2>5, ExitsWell
  <2> QED
    BY <2>1, <2>2, <2>3, <2>4, <2>5
<1> QED
  BY <1>1, <1>2

LEMMA InitIInv == Init => IInv
  BY DEF Init, IInv, Good, CallOK, AnswerOK, Process, Answer, Fresh

LEMMA Invariance == Spec => []IInv
<1>1. Init => IInv
  BY InitIInv
<1>2. IInv /\ [Next]_proc => IInv'
  BY StepIInv
<1> QED
  BY <1>1, <1>2, PTL DEF Spec

-----------------------------------------------------------------------------

\* Every process keeps its form, and a call has an answer exactly when it has
\* settled (run-command.ts:28-38).
THEOREM TypeCorrect == Spec => []TypeOK
<1>1. IInv => TypeOK
  BY DEF IInv, Good, CallOK, TypeOK, Settled
<1> QED
  BY <1>1, Invariance, PTL

\* Whoever has the answer of runCommand, a TimeoutError included, will see nothing
\* more of its child: the hazard of run-command.ts:22.
THEOREM AnsweredMeansOver == Spec => []AnsweredIsOver
<1>1. IInv => AnsweredIsOver
  BY DEF IInv, Good, CallOK, AnsweredIsOver, Settled
<1> QED
  BY <1>1, Invariance, PTL

\* The answer of runCommand tells whether a limit was hit, for any number of calls.
THEOREM AnswersAreTrue == Spec => []AnswersTell
<1>1. IInv => AnswersTell
  BY DEF IInv, Good, AnswerOK, AnswersTell, Settled
<1> QED
  BY <1>1, Invariance, PTL

\* runCommand: an answer, a TimeoutError included, may be acted on and the call
\* repeated, for any number of calls in whatever order timers and children act.
THEOREM TrustTheorem == Spec => []AnswersCanBeTrusted
<1>1. AnsweredIsOver /\ AnswersTell => AnswersCanBeTrusted
  BY DEF AnswersCanBeTrusted
<1> QED
  BY <1>1, AnsweredMeansOver, AnswersAreTrue, PTL

-----------------------------------------------------------------------------
(* The memory: the child of a call that has an answer is gone *)

Places == Names \X Topic
Worked(c) == proc[c].worked
Earlier(d, c) == d[1] = c[1] /\ d[2] < c[2]

StateOK ==
  /\ store \in [Places -> CallId \cup {None}]
  /\ request \in [CallId -> Requests \cup {NoRequest}]
  /\ heard \in [CallId -> SUBSET CallId]
  /\ \A c \in CallId : Worked(c) => proc[c].phase # "idle"
  /\ \A c \in CallId : proc[c].phase # "idle" => request[c] \in Requests
  /\ \A c \in CallId : proc[c].answer = "ok" => Worked(c)

\* Sessions make their calls one after the other.
TurnsOK ==
  \A c \in CallId : proc[c].phase # "idle" =>
    \A d \in CallId : Earlier(d, c) => proc[d].phase = "settled"

\* A place holds a save for it that was done, no done save of that session is
\* newer, and one that was done left something there.
StoreOK ==
  /\ \A e \in Places : store[e] # None =>
       /\ Worked(store[e]) /\ IsSave(store[e]) /\ Entry(store[e]) = e
       /\ \A c \in CallId : (IsSave(c) /\ Entry(c) = e /\ Worked(c) /\ c[1] = store[e][1])
                              => c[2] <= store[e][2]
  /\ \A c \in CallId : (IsSave(c) /\ Worked(c)) => store[Entry(c)] # None

\* The call has not ended, or with all of its output.
Whole(c) == proc[c].phase = "settled" => proc[c].answer = "ok" /\ proc[c].read = "all"

\* A search that was done heard saves of its project, of its own session only
\* earlier ones; and unless its end cut it short or it found as much as it was asked
\* for, it heard of each of these that was done itself or one it gave way to.
HeardOfSaves(c) ==
  \A o \in heard[c] : /\ IsSave(o) /\ Worked(o) /\ request[o].project = request[c].project
                      /\ o[1] = c[1] => o[2] < c[2]

HeardOfAll(c) ==
  (Whole(c) /\ Cardinality(heard[c]) # request[c].limit) => \A d \in CallId :
    (/\ IsSave(d) /\ Worked(d) /\ Earlier(d, c) /\ request[d].project = request[c].project
     /\ request[d].topic \in request[c].query)
      => \E o \in heard[c] : Entry(o) = Entry(d) /\ (o[1] = d[1] => d[2] <= o[2])

HeardOf(c) == HeardOfSaves(c) /\ HeardOfAll(c)

HeardOK == \A c \in CallId : (request[c].op = "search" /\ Worked(c)) => HeardOf(c)

MInv == IInv /\ StateOK /\ TurnsOK /\ StoreOK /\ HeardOK

-----------------------------------------------------------------------------
(* Lemmas *)

\* A call is its session and its number, and sessions number their calls in turn.
LEMMA CallIds ==
  ASSUME NEW c \in CallId
  PROVE  /\ c[1] \in Session /\ c[2] \in Nat /\ c = <<c[1], c[2]>>
         /\ \A d \in CallId : Earlier(d, c) => d = <<c[1], d[2]>> /\ d[2] \in 1..(c[2] - 1)
<1>1. ASSUME NEW d \in CallId PROVE d[1] \in Session /\ d[2] \in Nat \ {0} /\ d = <<d[1], d[2]>>
  <2>1. PICK s \in Session : d \in {s} \X (1..Attempts[s])
    BY MemoryAssumption
  <2>2. Attempts[s] \in Nat
    BY <2>1, MemoryAssumption
  <2> QED
    BY <2>1, <2>2
<1>2. ASSUME NEW d \in CallId, Earlier(d, c) PROVE d = <<c[1], d[2]>> /\ d[2] \in 1..(c[2] - 1)
  BY <1>1, <1>2 DEF Earlier
<1> QED
  BY <1>1, <1>2

\* What can be asked for.
LEMMA RequestFacts ==
  /\ \A r \in Requests : r.op \in {"save", "search"}
  /\ \A r \in Requests : r.op = "save" => <<r.project, r.topic>> \in Places
  /\ NoRequest.op = "none"
BY DEF Requests, Request, SaveRequest, SearchRequest, ProjectName, Places, Names, NoRequest

\* A call that was done has been asked for.
LEMMA WorkedAsked ==
  ASSUME MInv, NEW c \in CallId, Worked(c)
  PROVE  request[c] \in Requests /\ (IsSave(c) => Entry(c) \in Places)
BY RequestFacts DEF MInv, StateOK, IsSave, Entry

\* A step by which nothing is done anywhere.
LEMMA NothingDone ==
  ASSUME MInv, IInv', NEW c \in CallId,
         \A d \in CallId \ {c} : proc'[d] = proc[d] /\ request'[d] = request[d],
         proc'[c].worked = proc[c].worked, proc'[c].phase # "idle",
         proc[c].phase # "settled", proc'[c].answer = "ok" => proc[c].worked,
         request' \in [CallId -> Requests \cup {NoRequest}], request'[c] \in Requests,
         proc[c].phase # "idle" => request'[c] = request[c],
         proc[c].phase = "idle" => \A d \in CallId : Earlier(d, c) => proc[d].phase = "settled",
         store' = store, heard' \in [CallId -> SUBSET CallId], heard'[c] \subseteq heard[c],
         \A d \in CallId \ {c} : heard'[d] = heard[d], Whole(c)' => heard'[c] = heard[c]
  PROVE  MInv'
<1>1. \A d \in CallId : Worked(d)' = Worked(d)
  BY DEF Worked
<1>2. \A d \in CallId : Worked(d) => request'[d] = request[d]
  BY DEF MInv, StateOK
<1>3. StateOK'
  BY <1>1 DEF MInv, StateOK, Worked
<1>4. TurnsOK'
  <2> SUFFICES ASSUME NEW a \in CallId, proc'[a].phase # "idle", NEW d \in CallId, Earlier(d, a)
               PROVE  proc'[d].phase = "settled"
    BY DEF TurnsOK, Earlier
  <2>1. proc[d].phase = "settled"
    BY DEF MInv, TurnsOK
  <2> QED
    BY <2>1
<1>5. StoreOK'
  <2>1. ASSUME NEW e \in Places, store[e] # None
        PROVE  /\ Worked(store[e])' /\ request'[store[e]] = request[store[e]]
               /\ IsSave(store[e]) /\ Entry(store[e]) = e
               /\ \A a \in CallId : (request'[a].op = "save" /\ <<request'[a].project, request'[a].topic>> = e
                                     /\ Worked(a)' /\ a[1] = store[e][1]) => a[2] <= store[e][2]
    <3>1. store[e] \in CallId
      BY <2>1 DEF MInv, StateOK
    <3> QED
      BY <1>1, <1>2, <2>1, <3>1 DEF MInv, StoreOK, IsSave, Entry
  <2>2. ASSUME NEW a \in CallId, request'[a].op = "save", Worked(a)'
        PROVE  store[<<request'[a].project, request'[a].topic>>] # None
    BY <1>1, <1>2, <2>2 DEF MInv, StoreOK, IsSave, Entry
  <2> QED
    BY <2>1, <2>2 DEF StoreOK, IsSave, Entry, Worked
<1>6. HeardOK'
  <2> SUFFICES ASSUME NEW a \in CallId, request'[a].op = "search", Worked(a)'
               PROVE  HeardOf(a)'
    BY DEF HeardOK
  <2>1. Worked(a) /\ request'[a] = request[a] /\ HeardOf(a) /\ heard[a] \subseteq CallId
    BY <1>1, <1>2 DEF MInv, StateOK, HeardOK
  <2>2. heard'[a] \subseteq heard[a]
    OBVIOUS
  <2>3. Whole(a)' => Whole(a) /\ heard'[a] = heard[a]
    <3>1. CASE a = c
      BY <3>1 DEF Whole
    <3>2. CASE a # c
      BY <3>2 DEF Whole
    <3> QED
      BY <3>1, <3>2
  <2>4. ASSUME NEW o \in heard[a]
        PROVE  /\ Worked(o)' /\ request'[o] = request[o] /\ IsSave(o)
               /\ request[o].project = request[a].project /\ (o[1] = a[1] => o[2] < a[2])
    BY <1>1, <1>2, <2>1 DEF HeardOf, HeardOfSaves
  <2>5. ASSUME Whole(a)', Cardinality(heard'[a]) # request'[a].limit,
               NEW d \in CallId, request'[d].op = "save", Worked(d)', Earlier(d, a),
               request'[d].project = request'[a].project, request'[d].topic \in request'[a].query
        PROVE  \E o \in heard'[a] : <<request'[o].project, request'[o].topic>> = <<request'[d].project, request'[d].topic>>
                                    /\ (o[1] = d[1] => d[2] <= o[2])
    <3>1. Worked(d) /\ request'[d] = request[d]
      BY <1>1, <1>2, <2>5
    <3>2. PICK o \in heard[a] : Entry(o) = Entry(d) /\ (o[1] = d[1] => d[2] <= o[2])
      BY <2>1, <2>3, <2>5, <3>1 DEF HeardOf, HeardOfSaves, HeardOfAll, IsSave
    <3> QED
      BY <2>3, <2>4, <2>5, <3>1, <3>2 DEF Entry
  <2>6. HeardOfSaves(a)'
    BY <2>1, <2>2, <2>4 DEF HeardOfSaves, IsSave
  <2>7. HeardOfAll(a)'
    BY <2>5 DEF HeardOfAll, IsSave, Entry, Earlier
  <2> QED
    BY <2>6, <2>7 DEF HeardOf, HeardOfSaves
<1> QED
  BY <1>3, <1>4, <1>5, <1>6 DEF MInv

\* What a child does when it works, and to which calls it is known.
LEMMA WorkFacts ==
  ASSUME MInv, IInv', NEW c \in CallId, Work(c)
  PROVE  /\ \A d \in CallId \ {c} : Worked(d)' = Worked(d)
         /\ Worked(c)' /\ ~Worked(c) /\ request[c] \in Requests
         /\ \A d \in CallId : proc'[d].phase = proc[d].phase
         /\ \A d \in CallId : proc[d].phase # "idle" => ~Earlier(c, d)
         /\ \A d \in CallId : Earlier(d, c) => proc[d].phase = "settled"
         /\ \A d \in CallId : Whole(d)' <=> Whole(d)
         /\ \A d \in CallId : proc'[d].answer = "ok" => Worked(d)'
<1>1. proc \in [CallId -> Process] /\ proc[c].phase = "running" /\ ~proc[c].worked
  BY DEF MInv, IInv, Good, CallOK, Work
<1>2. \A d \in CallId \ {c} : proc'[d] = proc[d]
  BY <1>1 DEF Work
<1>3. proc'[c].worked /\ proc'[c].phase = proc[c].phase
  BY <1>1 DEF Work, Process
<1>4. \A d \in CallId : proc[d].phase # "idle" => ~Earlier(c, d)
  BY <1>1 DEF MInv, TurnsOK
<1>5. \A d \in CallId : Earlier(d, c) => proc[d].phase = "settled"
  BY <1>1 DEF MInv, TurnsOK
<1>6. request[c] \in Requests
  BY <1>1 DEF MInv, StateOK
<1>7. \A d \in CallId : Whole(d)' <=> Whole(d)
  BY <1>1, <1>2, <1>3 DEF Whole
<1>8. \A d \in CallId : proc'[d].answer = "ok" => proc'[d].worked
  BY <1>2, <1>3 DEF MInv, StateOK, Worked
<1> QED
  BY <1>1, <1>2, <1>3, <1>4, <1>5, <1>6, <1>7, <1>8 DEF Worked

\* A save that is done is the newest of its session.
LEMMA SaveGood ==
  ASSUME MInv, IInv', NEW c \in CallId, Work(c), IsSave(c),
         store' = [store EXCEPT ![Entry(c)] = c], UNCHANGED <<heard, request>>
  PROVE  MInv'
<1>1. /\ \A d \in CallId \ {c} : Worked(d)' = Worked(d)
      /\ Worked(c)' /\ ~Worked(c) /\ request[c] \in Requests
      /\ \A d \in CallId : proc'[d].phase = proc[d].phase
      /\ \A d \in CallId : proc[d].phase # "idle" => ~Earlier(c, d)
      /\ \A d \in CallId : Whole(d)' <=> Whole(d)
      /\ \A d \in CallId : proc'[d].answer = "ok" => Worked(d)'
  BY WorkFacts
<1>2. Entry(c) \in Places /\ c # None
  BY <1>1, RequestFacts, MemoryAssumption DEF Entry, IsSave
<1>3. \A d \in CallId : IsSave(d)' = IsSave(d) /\ Entry(d)' = Entry(d)
  BY DEF IsSave, Entry
<1>4. \A e \in Places : store'[e] = IF e = Entry(c) THEN c ELSE store[e]
  BY DEF MInv, StateOK
<1>5. StateOK'
  <2>1. store' \in [Places -> CallId \cup {None}]
    BY DEF MInv, StateOK
  <2>2. \A d \in CallId : Worked(d)' => proc'[d].phase # "idle"
    BY <1>1, WorkFacts DEF MInv, StateOK, Work, IInv, Good, CallOK
  <2> QED
    BY <1>1, <2>1, <2>2 DEF MInv, StateOK
<1>6. TurnsOK'
  BY <1>1 DEF MInv, TurnsOK, Earlier
<1>7. StoreOK'
  <2>1. ASSUME NEW e \in Places, store'[e] # None
        PROVE  /\ proc'[store'[e]].worked /\ IsSave(store'[e]) /\ Entry(store'[e]) = e
               /\ \A d \in CallId : (IsSave(d) /\ Entry(d) = e /\ Worked(d)' /\ d[1] = store'[e][1])
                                      => d[2] <= store'[e][2]
    <3>1. CASE e = Entry(c)
      <4>1. ASSUME NEW d \in CallId, Worked(d)', d[1] = c[1] PROVE d[2] <= c[2]
        <5>1. proc[d].phase # "idle" \/ d = c
          BY <1>1, <4>1 DEF MInv, StateOK
        <5> QED
          BY <1>1, <4>1, <5>1, CallIds DEF Earlier
      <4> QED
        BY <1>1, <1>4, <3>1, <4>1 DEF Worked
    <3>2. CASE e # Entry(c)
      <4>1. store'[e] = store[e] /\ store[e] \in CallId /\ store[e] # c
        BY <1>4, <2>1, <3>2, <1>1 DEF MInv, StateOK, StoreOK
      <4> QED
        <5>1. \A d \in CallId : (Entry(d) = e /\ Worked(d)') => Worked(d)
          BY <1>1, <3>2
        <5> QED
          BY <1>1, <2>1, <4>1, <5>1 DEF MInv, StoreOK, Worked
    <3> QED
      BY <3>1, <3>2
  <2>2. ASSUME NEW d \in CallId, IsSave(d), Worked(d)' PROVE store'[Entry(d)] # None
    <3>1. CASE d = c
      BY <3>1, <1>2, <1>4
    <3>2. CASE d # c
      <4>1. Worked(d)
        BY <1>1, <2>2, <3>2
      <4>2. store[Entry(d)] # None /\ Entry(d) \in Places
        BY <2>2, <4>1, WorkedAsked DEF MInv, StoreOK
      <4> QED
        BY <1>2, <1>4, <4>2
    <3> QED
      BY <3>1, <3>2
  <2>3. \A e \in Places : store'[e] # None => store'[e] \in CallId
    BY <1>5 DEF StateOK
  <2> QED
    BY <1>3, <2>1, <2>2, <2>3 DEF StoreOK, IsSave, Entry, Worked
<1>8. HeardOK'
  <2> SUFFICES ASSUME NEW a \in CallId, request[a].op = "search", Worked(a)'
               PROVE  HeardOf(a)'
    BY DEF HeardOK
  <2>1. a # c /\ Worked(a) /\ HeardOf(a)
    BY <1>1 DEF MInv, HeardOK, IsSave
  <2>2. proc[a].phase # "idle" /\ heard[a] \subseteq CallId
    BY <2>1 DEF MInv, StateOK
  <2>3. ~Earlier(c, a)
    BY <1>1, <2>2
  <2>4. \A o \in heard[a] : Worked(o)'
    BY <1>1, <2>1, <2>2 DEF HeardOf, HeardOfSaves
  <2>5. \A d \in CallId : Worked(d)' /\ Earlier(d, a) => Worked(d)
    BY <1>1, <2>3
  <2>6. HeardOfSaves(a)'
    BY <2>1, <2>4 DEF HeardOf, HeardOfSaves, IsSave
  <2>7. HeardOfAll(a)'
    <3>1. Whole(a)' => Whole(a)
      BY <1>1
    <3>2. HeardOfAll(a)
      BY <2>1 DEF HeardOf, HeardOfSaves
    <3> QED
      BY <2>5, <3>1, <3>2 DEF HeardOfAll, IsSave, Entry, Earlier
  <2> QED
    BY <2>6, <2>7 DEF HeardOf, HeardOfSaves
<1> QED
  BY <1>5, <1>6, <1>7, <1>8 DEF MInv

\* A search hears what its project holds.
LEMMA SearchGood ==
  ASSUME MInv, IInv', NEW c \in CallId, Work(c), request[c].op = "search",
         NEW s \in Printed(request[c]), heard' = [heard EXCEPT ![c] = s],
         UNCHANGED <<store, request>>
  PROVE  MInv'
<1>1. /\ \A d \in CallId \ {c} : Worked(d)' = Worked(d)
      /\ Worked(c)' /\ ~Worked(c) /\ request[c] \in Requests
      /\ \A d \in CallId : proc'[d].phase = proc[d].phase
      /\ \A d \in CallId : proc[d].phase # "idle" => ~Earlier(c, d)
      /\ \A d \in CallId : Whole(d)' <=> Whole(d)
      /\ \A d \in CallId : proc'[d].answer = "ok" => Worked(d)'
  BY WorkFacts
<1>2. \A d \in CallId : IsSave(d)' = IsSave(d) /\ Entry(d)' = Entry(d)
  BY DEF IsSave, Entry
<1>3. ~IsSave(c)
  BY DEF IsSave
<1>4. \A d \in CallId : IsSave(d) => Worked(d)' = Worked(d)
  BY <1>1, <1>3
<1>5. request[c].project \in Names
  BY <1>1 DEF Requests, Request, SaveRequest, SearchRequest, ProjectName, Names
<1>6. \A o \in s :
        \E t \in Topic : o = store[<<request[c].project, t>>] /\ o # None /\ <<request[c].project, t>> \in Places
  <2>1. request[c].query \subseteq Topic
    BY <1>1, MemoryAssumption DEF Requests, Request, SaveRequest, SearchRequest
  <2> QED
    BY <1>5, <2>1 DEF Printed, Matching, Places
<1>7. StateOK'
  <2>1. s \subseteq CallId
    BY <1>6 DEF MInv, StateOK
  <2>2. heard' \in [CallId -> SUBSET CallId]
    BY <2>1 DEF MInv, StateOK
  <2>3. \A d \in CallId : Worked(d)' => proc'[d].phase # "idle"
    BY <1>1 DEF MInv, StateOK, Work, IInv, Good, CallOK
  <2> QED
    BY <1>1, <2>2, <2>3 DEF MInv, StateOK
<1>8. TurnsOK'
  BY <1>1 DEF MInv, TurnsOK, Earlier
<1>9. StoreOK'
  <2>1. \A e \in Places : store[e] # None => store[e] \in CallId /\ Worked(store[e])' = Worked(store[e])
    BY <1>4 DEF MInv, StateOK, StoreOK
  <2> QED
    BY <1>4, <2>1 DEF MInv, StoreOK, IsSave, Entry
<1>10. HeardOK'
  <2> SUFFICES ASSUME NEW a \in CallId, request[a].op = "search", Worked(a)'
               PROVE  HeardOf(a)'
    BY DEF HeardOK
  <2>1. CASE a # c
    <3>1. Worked(a) /\ HeardOf(a) /\ heard'[a] = heard[a] /\ heard[a] \subseteq CallId
      BY <1>1, <2>1 DEF MInv, StateOK, HeardOK
    <3>2. \A o \in heard[a] : Worked(o)'
      BY <1>4, <3>1 DEF HeardOf, HeardOfSaves
    <3>3. HeardOfSaves(a)'
      BY <3>1, <3>2 DEF HeardOf, HeardOfSaves, IsSave
    <3>4. HeardOfAll(a)'
      <4>1. Whole(a)' => Whole(a)
        BY <1>1
      <4>2. HeardOfAll(a)
        BY <3>1 DEF HeardOf, HeardOfSaves
      <4> QED
        BY <1>4, <3>1, <4>1, <4>2 DEF HeardOfAll, IsSave, Entry, Earlier
    <3> QED
      BY <3>3, <3>4 DEF HeardOf, HeardOfSaves
  <2>2. CASE a = c
    <3>1. heard'[c] = s
      BY DEF MInv, StateOK
    <3>2. ASSUME NEW o \in heard'[c]
          PROVE  /\ IsSave(o) /\ Worked(o)' /\ request[o].project = request[c].project
                 /\ o[1] = c[1] => o[2] < c[2]
      <4>1. PICK t \in Topic : /\ o = store[<<request[c].project, t>>] /\ o # None
                               /\ <<request[c].project, t>> \in Places
        BY <1>6, <3>1, <3>2
      <4>2. o \in CallId /\ Worked(o) /\ IsSave(o) /\ Entry(o) = <<request[c].project, t>>
        BY <4>1 DEF MInv, StateOK, StoreOK
      <4>3. o # c /\ proc[o].phase # "idle"
        BY <1>1, <4>2 DEF MInv, StateOK
      <4>4. o[1] = c[1] => o[2] < c[2]
        <5>1. ~Earlier(c, o)
          BY <1>1, <4>2, <4>3
        <5>2. o[2] \in Nat /\ c[2] \in Nat /\ o = <<o[1], o[2]>> /\ c = <<c[1], c[2]>>
          BY <4>2, CallIds
        <5>3. o[1] = c[1] => o[2] # c[2]
          BY <4>3, <5>2
        <5> QED
          BY <5>1, <5>2, <5>3 DEF Earlier
      <4> QED
        BY <1>4, <4>2, <4>4 DEF Entry
    <3>3. ASSUME NEW d \in CallId, IsSave(d), Worked(d)', request[d].project = request[c].project,
                 request[d].topic \in request[c].query, Cardinality(heard'[c]) # request[c].limit
          PROVE  \E o \in heard'[c] : Entry(o) = Entry(d) /\ (o[1] = d[1] => d[2] <= o[2])
      <4>1. Worked(d)
        BY <1>4, <3>3
      <4>2. Entry(d) \in Places /\ store[Entry(d)] # None
        BY <3>3, <4>1, WorkedAsked DEF MInv, StoreOK
      <4>3. store[Entry(d)] \in heard'[c]
        <5>1. s = Matching(request[c])
          BY <3>1, <3>3 DEF Printed
        <5> QED
          BY <3>1, <3>3, <4>2, <5>1 DEF Matching, Entry
      <4>4. /\ Entry(store[Entry(d)]) = Entry(d)
            /\ store[Entry(d)][1] = d[1] => d[2] <= store[Entry(d)][2]
        BY <3>3, <4>1, <4>2 DEF MInv, StoreOK
      <4> QED
        BY <4>3, <4>4
    <3>4. HeardOfSaves(c)'
      BY <3>2 DEF HeardOfSaves, IsSave
    <3>5. HeardOfAll(c)'
      BY <3>3 DEF HeardOfAll, IsSave, Entry, Earlier
    <3> QED
      BY <2>2, <3>4, <3>5 DEF HeardOf, HeardOfSaves
  <2> QED
    BY <2>1, <2>2
<1> QED
  BY <1>7, <1>8, <1>9, <1>10 DEF MInv

\* Calls that begin, time out or end do nothing to the store.
LEMMA AskGood ==
  ASSUME MInv, IInv', NEW c \in CallId, NEW r \in Requests, Ask(c, r)
  PROVE  MInv'
<1>1. proc \in [CallId -> Process] /\ proc[c].phase = "idle" /\ proc[c].answer # "ok"
  BY DEF Ask, Turn, Idle, MInv, IInv, Good, CallOK
<1>2. \A d \in CallId : Earlier(d, c) => proc[d].phase = "settled"
  <2> SUFFICES ASSUME NEW d \in CallId, Earlier(d, c) PROVE proc[d].phase = "settled"
    OBVIOUS
  <2>1. d = <<c[1], d[2]>> /\ d[2] \in 1..(c[2] - 1)
    BY CallIds
  <2> QED
    BY <2>1 DEF Ask, Turn, Settled
<1>3. /\ \A d \in CallId \ {c} : proc'[d] = proc[d]
      /\ proc'[c].worked = proc[c].worked /\ proc'[c].phase # "idle" /\ proc'[c].answer # "ok"
  BY <1>1 DEF Ask, Start, StartFails, Process
<1>4. /\ request' \in [CallId -> Requests \cup {NoRequest}] /\ request'[c] \in Requests
      /\ \A d \in CallId \ {c} : request'[d] = request[d]
      /\ store' = store /\ heard' = heard /\ heard' \in [CallId -> SUBSET CallId]
  BY DEF Ask, MInv, StateOK
<1> QED
  BY <1>1, <1>2, <1>3, <1>4, NothingDone

\* An exit settles its call; a call that succeeds had ended with 0, and what was
\* read of its output is what the exit leaves.
LEMMA ExitFacts ==
  ASSUME proc \in [CallId -> Process], NEW c \in CallId,
         NEW code, NEW mention \in BOOLEAN, Exit(c, code, mention)
  PROVE  /\ proc[c].phase = "running" /\ proc'[c].phase = "settled"
         /\ proc'[c].worked = proc[c].worked
         /\ proc'[c].answer = "ok" => code = "zero"
         /\ \A d \in CallId \ {c} : proc'[d] = proc[d]
<1> DEFINE answer == AnswerOf(proc[c], code, mention)
           r == IF proc[c].fired \/ proc[c].flooded THEN proc[c].read ELSE "all"
<1>1. /\ proc' = [proc EXCEPT ![c].phase = "settled", ![c].alive = FALSE, ![c].answer = answer,
                             ![c].read = r]
      /\ proc[c].phase = "running"
  BY DEF Exit, Running
<1>2. answer = "ok" => code = "zero"
  BY DEF AnswerOf, IsError
<1> HIDE DEF answer, r
<1> QED
  BY <1>1, <1>2 DEF Process

\* A call whose child goes on, or ends and loses at most a part of its output.
LEMMA ProceedGood ==
  ASSUME MInv, IInv', NEW c \in CallId, Proceed(c)
  PROVE  MInv'
<1>1. proc \in [CallId -> Process] /\ heard \in [CallId -> SUBSET CallId]
      /\ CallOK(proc[c]) /\ (proc[c].answer = "ok" => proc[c].worked)
  BY DEF MInv, StateOK, IInv, Good, Worked
<1>2. store' = store /\ request' = request
  BY DEF Proceed
<1>3. CASE Fire(c) \/ Hear(c)
  <2>1. /\ proc[c].phase = "running" /\ proc'[c].phase = "running"
        /\ proc'[c].worked = proc[c].worked /\ proc'[c].answer = proc[c].answer
        /\ \A d \in CallId \ {c} : proc'[d] = proc[d]
    <3>1. CASE Fire(c)
      BY <1>1, <3>1 DEF Fire, Running, Process
    <3>2. CASE Hear(c)
      <4>1. PICK amount \in {"part", "all"} : proc' = [proc EXCEPT ![c].read = amount]
        BY <3>2 DEF Hear
      <4>2. proc[c].phase = "running"
        BY <1>1, <3>2 DEF Hear, CallOK
      <4> QED
        BY <1>1, <4>1, <4>2 DEF Process
    <3> QED
      BY <1>3, <3>1, <3>2
  <2>2. heard' = heard
    <3>1. ~Exit(c, "zero", FALSE) /\ ~Exit(c, "nonzero", FALSE) /\ ~Exit(c, "signal", FALSE)
      BY <1>1, <2>1, ExitFacts
    <3> QED
      BY <3>1 DEF Proceed, Obey
  <2>3. request \in [CallId -> Requests \cup {NoRequest}] /\ request[c] \in Requests
    BY <2>1 DEF MInv, StateOK
  <2> QED
    BY <1>1, <1>2, <2>1, <2>2, <2>3, NothingDone
<1>4. CASE /\ Obey(c) \/ Exit(c, "nonzero", FALSE) \/ (proc[c].worked /\ Exit(c, "zero", FALSE))
           /\ \E s \in CameThrough(heard[c], proc'[c]) : heard' = [heard EXCEPT ![c] = s]
  <2>1. /\ proc[c].phase = "running" /\ proc'[c].phase = "settled"
        /\ proc'[c].worked = proc[c].worked /\ (proc'[c].answer = "ok" => proc[c].worked)
        /\ \A d \in CallId \ {c} : proc'[d] = proc[d]
    <3>1. ASSUME NEW code \in {"zero", "nonzero", "signal"}, Exit(c, code, FALSE),
                 code = "zero" => proc[c].worked
          PROVE  /\ proc[c].phase = "running" /\ proc'[c].phase = "settled"
                 /\ proc'[c].worked = proc[c].worked /\ (proc'[c].answer = "ok" => proc[c].worked)
                 /\ \A d \in CallId \ {c} : proc'[d] = proc[d]
      BY <1>1, <3>1, ExitFacts
    <3> QED
      BY <1>4, <3>1 DEF Obey
  <2>2. PICK s \in CameThrough(heard[c], proc'[c]) : heard' = [heard EXCEPT ![c] = s]
    BY <1>4
  <2>3. /\ s \subseteq heard[c]
        /\ (proc'[c].answer = "ok" /\ proc'[c].read = "all") => s = heard[c]
    BY DEF CameThrough
  <2>4. /\ heard' \in [CallId -> SUBSET CallId] /\ heard'[c] = s
        /\ \A d \in CallId \ {c} : heard'[d] = heard[d]
    BY <1>1, <2>2, <2>3
  <2>5. Whole(c)' => heard'[c] = heard[c]
    BY <2>1, <2>3, <2>4 DEF Whole
  <2>6. request \in [CallId -> Requests \cup {NoRequest}] /\ request[c] \in Requests
    BY <2>1 DEF MInv, StateOK
  <2> QED
    BY <1>2, <2>1, <2>3, <2>4, <2>5, <2>6, NothingDone
<1> QED
  BY <1>3, <1>4 DEF Proceed

LEMMA PerformGood ==
  ASSUME MInv, IInv', NEW c \in CallId, Perform(c)
  PROVE  MInv'
<1>1. CASE request[c].op = "save" /\ store' = [store EXCEPT ![Entry(c)] = c]
           /\ UNCHANGED heard
  BY <1>1, SaveGood DEF Perform, IsSave, Entry
<1>2. CASE request[c].op = "search" /\ UNCHANGED store
           /\ \E s \in Printed(request[c]) : heard' = [heard EXCEPT ![c] = s]
  <2>1. PICK s \in Printed(request[c]) : heard' = [heard EXCEPT ![c] = s]
    BY <1>2
  <2> QED
    BY <1>2, <2>1, SearchGood DEF Perform
<1> QED
  BY <1>1, <1>2 DEF Perform, Entry

\* Every step of the memory is a step of the processes, or none of them moves.
LEMMA StepOfProcesses == MemoryNext => Next
<1> SUFFICES ASSUME NEW c \in CallId, (\E r \in Requests : Ask(c, r)) \/ Perform(c) \/ Proceed(c)
             PROVE  Next
  BY DEF MemoryNext
<1>1. \/ Start(c) \/ StartFails(c) \/ Work(c) \/ Hear(c) \/ Fire(c) \/ Obey(c)
      \/ Exit(c, "nonzero", FALSE) \/ Exit(c, "zero", FALSE)
  BY DEF Ask, Perform, Proceed
<1> QED
  BY <1>1 DEF Next

LEMMA InitGood == MemoryInit => MInv
<1> SUFFICES ASSUME MemoryInit PROVE MInv
  OBVIOUS
<1>1. IInv
  BY InitIInv DEF MemoryInit
<1>2. \A c \in CallId : proc[c].phase = "idle" /\ ~proc[c].worked /\ proc[c].answer = "none"
  BY DEF MemoryInit, Init, Fresh
<1>3. StateOK
  BY <1>2 DEF MemoryInit, StateOK, Worked, Places
<1>4. StoreOK
  BY <1>2 DEF MemoryInit, StoreOK, Worked, Places
<1> QED
  BY <1>1, <1>2, <1>3, <1>4 DEF MInv, TurnsOK, HeardOK, Worked

LEMMA MemoryInvariance == MemorySpec => []MInv
<1>1. MInv /\ [MemoryNext]_vars => MInv'
  <2> SUFFICES ASSUME MInv, [MemoryNext]_vars PROVE MInv'
    OBVIOUS
  <2>1. CASE UNCHANGED vars
    <3>1. UNCHANGED <<proc, store, request, heard>>
      BY <2>1 DEF vars
    <3>2. IInv'
      BY <3>1 DEF MInv, IInv, Good
    <3>3. StateOK' /\ TurnsOK'
      BY <3>1 DEF MInv, StateOK, TurnsOK, Worked
    <3>4. StoreOK'
      BY <3>1 DEF MInv, StoreOK, Worked, IsSave, Entry
    <3>5. HeardOK'
      BY <3>1 DEF MInv, HeardOK, HeardOf, HeardOfSaves, HeardOfAll, Whole, Worked, IsSave, Entry, Earlier
    <3> QED
      BY <3>2, <3>3, <3>4, <3>5 DEF MInv
  <2>2. CASE MemoryNext
    <3>1. IInv'
      BY <2>2, StepOfProcesses, StepIInv DEF MInv
    <3> QED
      BY <2>2, <3>1, AskGood, PerformGood, ProceedGood DEF MemoryNext
  <2> QED
    BY <2>1, <2>2
<1> QED
  BY <1>1, InitGood, PTL DEF MemorySpec

-----------------------------------------------------------------------------
(* Theorems *)

\* EngramCliAdapter.save: nothing is stored that nobody asked to save there.
THEOREM MemoryTypeCorrect == MemorySpec => []MemoryTypeOK
<1>1. MInv => MemoryTypeOK
  <2> SUFFICES ASSUME MInv PROVE MemoryTypeOK
    OBVIOUS
  <2>1. TypeOK
    BY DEF MInv, IInv, Good, CallOK, TypeOK, Settled
  <2> QED
    BY <2>1 DEF MemoryTypeOK, MInv, StateOK, StoreOK, Places
<1> QED
  BY <1>1, MemoryInvariance, PTL

\* EngramCliAdapter.save: a save that returned is not undone by a call its session
\* made before, also not by one that ran out of time.
THEOREM NewestTheorem == MemorySpec => []NewestSaveStands
<1>1. MInv => NewestSaveStands
  <2> SUFFICES ASSUME MInv, NEW e \in Places, store[e] # None, NEW c \in CallId,
                      IsSave(c), Entry(c) = e, Succeeded(c), c[1] = store[e][1]
               PROVE  c[2] <= store[e][2]
    BY DEF NewestSaveStands, Places
  <2>1. Worked(c)
    BY DEF MInv, StateOK, Succeeded
  <2> QED
    BY <2>1 DEF MInv, StoreOK
<1> QED
  BY <1>1, MemoryInvariance, PTL

\* EngramCliAdapter.search: nothing of other projects is found; and what the session
\* saved last is, unless as much was found as was asked for or the time ran out.
THEOREM FindsTheorem == MemorySpec => []FindsOwnSaves
<1>1. MInv => FindsOwnSaves
  <2> SUFFICES ASSUME MInv, NEW c \in CallId, request[c].op = "search", Succeeded(c)
               PROVE  /\ \A d \in Found(c) : IsSave(d) /\ request[d].project = request[c].project
                      /\ (proc[c].read = "all" /\ Cardinality(Found(c)) < request[c].limit) =>
                           \A d \in CallId :
                             (/\ IsSave(d) /\ Succeeded(d) /\ LastSavedBy(d, c)
                              /\ request[d].project = request[c].project
                              /\ request[d].topic \in request[c].query)
                               => d \in Found(c)
    BY DEF FindsOwnSaves
  <2>1. \A d \in CallId : Succeeded(d) => Worked(d)
    BY DEF MInv, StateOK, Succeeded
  <2>2. HeardOf(c) /\ heard[c] \subseteq CallId
    BY <2>1 DEF MInv, HeardOK, StateOK
  <2>3. Found(c) = heard[c]
    BY DEF Found, ParseEntries
  <2>4. ASSUME proc[c].read = "all", Cardinality(heard[c]) < request[c].limit,
               NEW d \in CallId, IsSave(d), Succeeded(d), LastSavedBy(d, c),
               request[d].project = request[c].project, request[d].topic \in request[c].query
        PROVE  d \in heard[c]
    <3>1. Whole(c) /\ Cardinality(heard[c]) # request[c].limit
      <4>1. request[c].limit \in Nat
        BY MemoryAssumption DEF MInv, StateOK, Requests, Request, SaveRequest, SearchRequest, NoRequest
      <4>2. Whole(c)
        BY <2>4 DEF Whole, Succeeded
      <4>3. ASSUME Cardinality(heard[c]) = request[c].limit PROVE FALSE
        BY <2>4, <4>1, <4>3
      <4> QED
        BY <4>2, <4>3
    <3>2. PICK o \in heard[c] : Entry(o) = Entry(d) /\ (o[1] = d[1] => d[2] <= o[2])
      BY <2>1, <2>2, <2>4, <3>1 DEF HeardOf, HeardOfAll, LastSavedBy, Earlier
    <3>3. o \in CallId /\ IsSave(o) /\ (o[1] = c[1] => o[2] < c[2])
      BY <2>2, <3>2 DEF HeardOf, HeardOfSaves
    <3>4. o[1] = d[1] /\ (o[2] <= d[2] \/ o[2] > c[2]) /\ d[2] <= o[2] /\ o[2] < c[2]
      BY <2>4, <3>2, <3>3 DEF LastSavedBy
    <3>5. o[2] \in Nat /\ d[2] \in Nat /\ c[2] \in Nat /\ o = <<o[1], o[2]>> /\ d = <<d[1], d[2]>>
      BY <3>3, CallIds
    <3>6. o[2] = d[2]
      BY <3>4, <3>5
    <3> QED
      BY <3>2, <3>4, <3>5, <3>6
  <2> QED
    BY <2>2, <2>3, <2>4 DEF HeardOf, HeardOfSaves
<1> QED
  BY <1>1, MemoryInvariance, PTL

=============================================================================
