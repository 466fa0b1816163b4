---------------------------- MODULE EngramMemory ----------------------------
(***************************************************************************)
(* EngramCliAdapter (src/infrastructure/engram) on runCommand: sessions    *)
(* save to and search one memory, one call after the other, and may repeat *)
(* a save that failed. A save that runs out of time may have been stored.  *)
(* The engram program is modelled from its use: a save replaces what the   *)
(* topic held in the project, a search prints what matches a query, at     *)
(* most as much as it was asked for, and a child that ends with 0 has      *)
(* done its work.                                                          *)
(***************************************************************************)
EXTENDS ProcessRunner, FiniteSets, Naturals

CONSTANTS
  Session,
  Key,          \* values of projectKey
  Project,      \* key -> projectName(key): prefixed, in lower case
  Topic,
  Query,        \* what is searched for: the topics whose contents match
  Limit,        \* values of limit
  None,
  Attempts      \* bound: session -> number of its calls

ASSUME MemoryAssumption ==
  /\ Attempts \in [Session -> Nat]
  /\ CallId = UNION {{s} \X (1..Attempts[s]) : s \in Session}
  /\ None \notin CallId
  /\ Query \subseteq SUBSET Topic /\ Limit \subseteq Nat

VARIABLES
  store,     \* project and topic -> the call whose content it holds
  request,   \* call -> what was asked for
  heard      \* call -> for a search, the contents its child printed, and once
             \* the call has settled, what came through of them

vars == <<proc, store, request, heard>>

Names == {Project[k] : k \in Key}
Request(op, project, topic, query, limit) ==
  [op |-> op, project |-> project, topic |-> topic, query |-> query, limit |-> limit]
NoRequest == Request("none", None, None, {}, 0)

-----------------------------------------------------------------------------

ProjectName(k) == Project[k]

\* What a session may ask for; every save has a content of its own.
SaveRequest(k, t) == Request("save", ProjectName(k), t, {}, 0)
SearchRequest(k, q, n) == Request("search", ProjectName(k), None, q, n)

Requests == {SaveRequest(k, t) : k \in Key, t \in Topic}
            \cup {SearchRequest(k, q, n) : k \in Key, q \in Query, n \in Limit}

\* A session makes its calls one after the other.
Turn(c) == Idle(c) /\ \A n \in 1..(c[2] - 1) : Settled(<<c[1], n>>)

Ask(c, r) ==
  /\ Turn(c)
  /\ Start(c) \/ StartFails(c)
  /\ request' = [request EXCEPT ![c] = r]
  /\ UNCHANGED <<store, heard>>

\* (slip) no --project
AnyMatching(r) == {store[<<p, t>>] : p \in Names, t \in r.query} \ {None}
Matching(r) == {store[<<r.project, t>>] : t \in r.query} \ {None}

\* All that matches, or as much as was asked for.
Printed(r) ==
  {s \in SUBSET Matching(r) : s = Matching(r) \/ Cardinality(s) = r.limit}

Perform(c) ==
  /\ Work(c)
  /\ LET r == request[c]
     IN \/ /\ r.op = "save"
           /\ store' = [store EXCEPT ![<<r.project, r.topic>>] = c]
           /\ UNCHANGED heard
        \/ /\ r.op = "search"
           /\ \E s \in Printed(r) : heard' = [heard EXCEPT ![c] = s]
           /\ UNCHANGED store
  /\ UNCHANGED request

\* What may have come through of the contents printed when the process p is over:
\* an error hands over nothing.
CameThrough(printed, p) ==
  {s \in SUBSET printed :
     /\ p.answer # "ok" \/ p.read = "nothing" => s = {}
     /\ p.answer = "ok" /\ p.read = "all" => s = printed}

\* What becomes of the child and of the call otherwise. Nobody looks at what a save
\* prints; what a search prints, entries of maxContentLength characters, stays below
\* the limit of runCommand.
Proceed(c) ==
  \/ Fire(c) /\ UNCHANGED <<store, request, heard>>
  \/ proc[c].worked /\ request[c].op = "search" /\ Hear(c)
     /\ UNCHANGED <<store, request, heard>>
  \/ /\ Obey(c) \/ Exit(c, "nonzero", FALSE) \/ (proc[c].worked /\ Exit(c, "zero", FALSE))
     /\ \E s \in CameThrough(heard[c], proc'[c]) : heard' = [heard EXCEPT ![c] = s]
     /\ UNCHANGED <<store, request>>

\* parseEntries: the whole output is one entry, no output is none.
ParseEntries(text) == IF text = {} THEN {} ELSE {text}

MemoryInit ==
  /\ Init
  /\ store = [e \in Names \X Topic |-> None]
  /\ request = [c \in CallId |-> NoRequest]
  /\ heard = [c \in CallId |-> {}]

MemoryNext == \E c \in CallId : (\E r \in Requests : Ask(c, r)) \/ Perform(c) \/ Proceed(c)

MemorySpec == MemoryInit /\ [][MemoryNext]_vars

-----------------------------------------------------------------------------
(* Correctness *)

Entry(c) == <<request[c].project, request[c].topic>>
IsSave(c) == request[c].op = "save"
Succeeded(c) == Settled(c) /\ proc[c].answer = "ok"   \* any other answer is a MemoryError

\* Nothing is stored that nobody asked to save there.
MemoryTypeOK ==
  /\ TypeOK
  /\ \A c \in CallId : request[c] \in Requests \cup {NoRequest}
  /\ \A e \in Names \X Topic :
       store[e] = None \/ (store[e] \in CallId /\ IsSave(store[e]) /\ Entry(store[e]) = e)

\* A save that returned its entry is never undone by an earlier attempt of the
\* same session, one that failed or ran out of time and was repeated included:
\* what is stored comes from a call that no later success of its session followed.
NewestSaveStands ==
  \A e \in Names \X Topic :
    store[e] # None =>
      \A c \in CallId :
        (IsSave(c) /\ Entry(c) = e /\ Succeeded(c) /\ c[1] = store[e][1]) => c[2] <= store[e][2]

Found(c) == UNION ParseEntries(heard[c])

\* Nobody but the session of d, and not between d and its call c, saved where d did.
LastSavedBy(d, c) ==
  /\ d[1] = c[1] /\ d[2] < c[2]
  /\ \A o \in CallId : (IsSave(o) /\ Entry(o) = Entry(d))
                         => o[1] = d[1] /\ (o[2] <= d[2] \/ o[2] > c[2])

\* A search finds nothing of other projects; and a session finds what it saved
\* last and asks for, under any spelling of the project's key, unless another
\* session or a failed attempt in between saved to the same topic, as much else
\* was found as was asked for, or the time of the search ran out before all of
\* its output was read (engram-cli.adapter.ts:30-43).
FindsOwnSaves ==
  \A c \in CallId :
    (request[c].op = "search" /\ Succeeded(c)) =>
      /\ \A d \in Found(c) : IsSave(d) /\ request[d].project = request[c].project
      /\ (proc[c].read = "all" /\ Cardinality(Found(c)) < request[c].limit) =>
           \A d \in CallId :
             (/\ IsSave(d) /\ Succeeded(d) /\ LastSavedBy(d, c)
              /\ request[d].project = request[c].project /\ request[d].topic \in request[c].query)
               => d \in Found(c)

=============================================================================
