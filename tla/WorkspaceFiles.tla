--------------------------- MODULE WorkspaceFiles ---------------------------
(***************************************************************************)
(* LocalFileSystemAdapter (src/infrastructure/filesystem): clients of the  *)
(* port work on one workspace at the same time. Every call of node:fs is a *)
(* step of its own; writeFile opens and truncates first and fills then.    *)
(* A content is a sequence of chunks, written at once from the beginning.  *)
(***************************************************************************)
EXTENDS PathPolicy, Naturals, FiniteSets

CONSTANTS
  Client,
  Node,       \* absolute paths of the workspace that may exist
  Candidate,  \* paths that clients name
  Chunk,
  Content,    \* contents that clients write: sequences of chunks
  Absent, Dir,
  MaxCalls,   \* bound: calls of the port
  MaxFaults   \* bound: crashes and directories removed by others

Ancestors(p) == {SubSeq(p, 1, n) : n \in 1..(Len(p) - 1)}

\* The root of the machine itself is not a workspace.
ASSUME FilesAssumption ==
  /\ PathAssumption
  /\ IsFiniteSet(Node) /\ Node \subseteq Seq(Segment) \ {<<>>}
  /\ ToSet(Root) \subseteq Node /\ \A p \in Node : Ancestors(p) \subseteq Node
  /\ Candidate \subseteq [absolute : BOOLEAN, segments : Seq(Segment)]
  /\ Absent # Dir /\ {Absent, Dir} \cap Seq(Chunk) = {}
  /\ Content \subseteq Seq(Chunk) \ {<<>>}
  /\ MaxCalls \in Nat /\ MaxFaults \in Nat

VARIABLES
  disk,      \* node -> Absent, Dir or a content
  call,      \* client -> its current or last call
  calls, faults,
  spoilt     \* history: files cut short by a crash or written by two at once

filesVars == <<disk, call, calls, faults, spoilt>>

Operation == {"readFile", "writeFile", "exists", "listFiles", "createDirectory", "deleteFile"}

\* An answer is "ok", a result, or an error: "unsafe" for UnsafePathError,
\* "notFound" for FileNotFoundError, "raw" for node's own.
NoCall == [op |-> "none", at |-> <<>>, content |-> <<>>, phase |-> "done",
         linked |-> FALSE, todo |-> <<>>, found |-> {}, answer |-> <<>>,
         disturbed |-> TRUE, always |-> {}, ever |-> {}]

IsFile(x) == x \notin {Absent, Dir}
Files == {p \in Node : IsFile(disk[p])}
Parent(p) == IF Len(p) = 1 THEN p ELSE Front(p)
Entries(d) == {p \in Node : Len(p) = Len(d) + 1 /\ Front(p) = d /\ disk[p] # Absent}

-----------------------------------------------------------------------------
(* Steps of a client c: the call it is in and what becomes of the disk *)

In(c, phase) == call[c].phase = phase
At(c) == call[c].at

\* What a step of somebody else does to the record k of a call when the disk
\* becomes d: an answer has been looked at by then; of a call under way the files
\* there all the time, those ever there, and a change on its path are kept.
Watched(d, k) ==
  IF k.phase = "done" THEN NoCall
  ELSE LET files == IF k.op = "listFiles" THEN {p \in Node : IsFile(d[p])} ELSE {}
       IN [k EXCEPT !.always = @ \cap files, !.ever = @ \cup files,
                    !.disturbed = @ \/ \E p \in {k.at} \cup Ancestors(k.at) : d[p] # disk[p]]

\* Client c goes on to k, the disk becomes d.
Step(c, k, d) ==
  /\ disk' = d
  /\ call' = [e \in Client |-> IF e = c THEN k ELSE Watched(d, call[e])]

Goes(c, phase) == [call[c] EXCEPT !.phase = phase]
Answers(c, answer) == [call[c] EXCEPT !.phase = "done", !.answer = answer]
Put(p, x) == [disk EXCEPT ![p] = x]

FirstPhase(op) ==
  CASE op = "readFile" -> "read" [] op = "writeFile" -> "parents" [] op = "exists" -> "access"
    [] op = "listFiles" -> "readdir" [] op = "createDirectory" -> "mkdir" [] op = "deleteFile" -> "stat"

\* assertSafe comes first in every operation; exists answers false instead.
Call(c, op, path, content) ==
  /\ In(c, "done") /\ calls < MaxCalls
  /\ calls' = calls + 1
  /\ IsSafe(path) => AssertSafe(path) \in Node
  /\ LET safe == IsSafe(path)
         lists == op = "listFiles"
         files == IF lists THEN Files ELSE {}
     IN Step(c, [op |-> op, content |-> content, linked |-> FALSE, found |-> {},
                 at |-> IF safe THEN AssertSafe(path) ELSE <<>>,
                 phase |-> IF safe THEN FirstPhase(op) ELSE "done",
                 todo |-> IF lists THEN <<path>> ELSE <<>>,
                 answer |-> IF safe THEN <<>> ELSE IF op = "exists" THEN <<"exists", FALSE>> ELSE <<"unsafe">>,
                 disturbed |-> ~safe, always |-> files, ever |-> files],
             disk)
  /\ UNCHANGED <<faults, spoilt>>

Read(c) ==
  /\ In(c, "read")
  /\ Step(c, Answers(c, IF IsFile(disk[At(c)]) THEN <<"content", disk[At(c)]>> ELSE <<"notFound">>), disk)
  /\ UNCHANGED <<calls, faults, spoilt>>

Access(c) ==
  /\ In(c, "access")
  /\ Step(c, Answers(c, <<"exists", disk[At(c)] # Absent>>), disk)
  /\ UNCHANGED <<calls, faults, spoilt>>

\* mkdir with `recursive': fails where a file stands in the way.
Made(dirs) == [p \in Node |-> IF p \in dirs THEN Dir ELSE disk[p]]
MakeDirectories(c) ==
  /\ call[c].phase \in {"parents", "mkdir"}
  /\ LET dirs == Ancestors(At(c)) \cup (IF In(c, "mkdir") THEN {At(c)} ELSE {})
     IN \/ /\ \E p \in dirs : IsFile(disk[p])
           /\ Step(c, Answers(c, <<"raw">>), disk)
        \/ /\ \A p \in dirs : ~IsFile(disk[p])
           /\ Step(c, IF In(c, "mkdir") THEN Answers(c, <<"ok">>) ELSE Goes(c, "open"), Made(dirs))
  /\ UNCHANGED <<calls, faults, spoilt>>

Writers(p) == {e \in Client : call[e].phase = "fill" /\ call[e].linked /\ At(e) = p}

\* (slip) the file is opened without truncating it
OldContent(old) == IF IsFile(old) THEN old ELSE <<>>
Truncated(old) == <<>>

OpenFile(c) ==
  /\ In(c, "open")
  /\ \/ /\ disk[At(c)] = Dir \/ disk[Parent(At(c))] # Dir
        /\ Step(c, Answers(c, <<"raw">>), disk)
        /\ UNCHANGED spoilt
     \/ /\ disk[At(c)] # Dir /\ disk[Parent(At(c))] = Dir
        /\ Step(c, [Goes(c, "fill") EXCEPT !.linked = TRUE], Put(At(c), Truncated(disk[At(c)])))
        /\ spoilt' = IF Writers(At(c)) # {} THEN spoilt \cup {At(c)} ELSE spoilt \ {At(c)}
  /\ UNCHANGED <<calls, faults>>

Overlaid(old, new) == new \o SubSeq(old, Len(new) + 1, Len(old))

\* The file may have been unlinked since it was opened: the content then goes
\* nowhere, and writeFile succeeds all the same.
Fill(c) ==
  /\ In(c, "fill")
  /\ Step(c, Answers(c, <<"ok">>),
          IF call[c].linked THEN Put(At(c), Overlaid(disk[At(c)], call[c].content)) ELSE disk)
  /\ UNCHANGED <<calls, faults, spoilt>>

Stat(c) ==
  /\ In(c, "stat")
  /\ Step(c, CASE disk[At(c)] = Absent -> Answers(c, <<"notFound">>)
               [] disk[At(c)] = Dir -> Answers(c, <<"unsafe">>)
               [] OTHER -> Goes(c, "unlink"), disk)
  /\ UNCHANGED <<calls, faults, spoilt>>

Unlink(c) ==
  /\ In(c, "unlink")
  /\ \/ /\ ~IsFile(disk[At(c)])
        /\ Step(c, Answers(c, <<"raw">>), disk)
     \/ /\ IsFile(disk[At(c)])
        /\ disk' = Put(At(c), Absent)
        /\ call' = [e \in Client |->
             IF e = c THEN Answers(c, <<"ok">>)
             ELSE [Watched(disk', call[e]) EXCEPT !.linked = @ /\ At(e) # At(c)]]
  /\ UNCHANGED <<calls, faults, spoilt>>

\* (slip) what is left to list is forgotten below a directory
RestForgotten(dirs, todo) == dirs
Rest(dirs, todo) == dirs \o Tail(todo)

\* Entries of a directory that was named by a path, each named by it and its own name.
Named(path, entries) == [k \in DOMAIN entries |-> Under(path, Last(entries[k]))]

\* One call of readdir: files are taken as they are, directories are listed
\* next, each through assertSafe again.
ReadDir(c) ==
  /\ In(c, "readdir")
  /\ LET todo == call[c].todo
         path == todo[1]
         dir == AssertSafe(path)
         below == Entries(dir)
     IN \/ /\ ~IsSafe(path)
           /\ Step(c, Answers(c, <<"unsafe">>), disk)
        \/ /\ IsSafe(path) /\ disk[dir] # Dir
           /\ Step(c, Answers(c, <<"raw">>), disk)
        \/ /\ IsSafe(path) /\ disk[dir] = Dir
           /\ \E order \in SetToSeqs({p \in below : disk[p] = Dir}) :
                LET rest == Rest(Named(path, order), todo)
                    found == call[c].found \cup {p \in below : IsFile(disk[p])}
                IN Step(c, IF rest = <<>> THEN [Answers(c, <<"ok">>) EXCEPT !.found = found, !.todo = rest]
                           ELSE [call[c] EXCEPT !.found = found, !.todo = rest], disk)
  /\ UNCHANGED <<calls, faults, spoilt>>

\* The process of a client ends.
Crash(c) ==
  /\ ~In(c, "done") /\ faults < MaxFaults
  /\ faults' = faults + 1
  /\ spoilt' = IF In(c, "fill") /\ call[c].linked THEN spoilt \cup {At(c)} ELSE spoilt
  /\ Step(c, NoCall, disk)
  /\ UNCHANGED calls

\* Another program removes an empty directory below a root.
RemoveDirectory(p) ==
  /\ faults < MaxFaults
  /\ disk[p] = Dir /\ Entries(p) = {} /\ p \notin ToSet(Root)
  /\ faults' = faults + 1
  /\ disk' = Put(p, Absent)
  /\ call' = [e \in Client |-> Watched(disk', call[e])]
  /\ UNCHANGED <<calls, spoilt>>

FilesInit ==
  /\ disk \in {d \in [Node -> {Absent, Dir} \cup Content] :
                 /\ \A p \in Node : d[p] # Absent => \A a \in Ancestors(p) : d[a] = Dir
                 /\ \A k \in DOMAIN Root : d[Root[k]] = Dir}
  /\ call = [c \in Client |-> NoCall]
  /\ calls = 0 /\ faults = 0 /\ spoilt = {}

Invoke(c, path) ==
  \/ \E op \in Operation \ {"writeFile"} : Call(c, op, path, <<>>)
  \/ \E x \in Content : Call(c, "writeFile", path, x)

Serve(c) ==
  \/ Read(c) \/ Access(c) \/ MakeDirectories(c) \/ OpenFile(c) \/ Fill(c)
  \/ Stat(c) \/ Unlink(c) \/ ReadDir(c)

FilesNext ==
  \/ \E c \in Client : (\E path \in Candidate : Invoke(c, path)) \/ Serve(c) \/ Crash(c)
  \/ \E p \in Node : RemoveDirectory(p)

FilesSpec == FilesInit /\ [][FilesNext]_filesVars

-----------------------------------------------------------------------------
(* Correctness *)

\* The workspace stays a tree, and a client is where its operation can be.
FilesTypeOK ==
  /\ \A p \in Node : disk[p] # Absent => \A a \in Ancestors(p) : disk[a] = Dir
  /\ calls \in 0..MaxCalls /\ faults \in 0..MaxFaults /\ spoilt \subseteq Node
  /\ \A c \in Client :
       /\ call[c].op \in Operation \cup {"none"}
       /\ call[c].phase \in {"read", "parents", "open", "fill", "access", "readdir", "mkdir",
                             "stat", "unlink", "done"}
       /\ call[c].found \subseteq Node

\* A call during which nobody else touches its path or the directories above
\* it acts as one step of the port, whatever happens elsewhere: it answers what
\* is there, and what it says it did is done.
UndisturbedCallsTell ==
  \A c \in Client :
    LET k == call[c]
        there == disk[k.at]
    IN (k.phase = "done" /\ ~k.disturbed) =>
         CASE k.op = "readFile" -> k.answer = IF IsFile(there) THEN <<"content", there>> ELSE <<"notFound">>
           [] k.op = "exists" -> k.answer = <<"exists", there # Absent>>
           [] k.op = "writeFile" -> k.answer = <<"ok">> => there = k.content
           [] k.op = "createDirectory" -> k.answer = <<"ok">> => there = Dir
           [] k.op = "deleteFile" ->
                /\ k.answer \in {<<"ok">>, <<"notFound">>} <=> there = Absent
                /\ k.answer = <<"unsafe">> <=> there = Dir
           [] OTHER -> TRUE

\* A listing that succeeds names every file below the directory that was there
\* all the time, and none that never was, although other clients create and
\* delete files and directories between its calls of readdir.
ListingTrue ==
  \A c \in Client :
    LET k == call[c]
        below(files) == {p \in files : IsPrefix(k.at, p) /\ p # k.at}
    IN (k.op = "listFiles" /\ k.answer = <<"ok">>) =>
         /\ below(k.always) \subseteq k.found
         /\ k.found \subseteq below(k.ever)

\* A file is always a content somebody wrote, as a whole, unless a write is in
\* the middle of it, a writer crashed there, or two wrote it at the same time.
WholeUnlessWriting ==
  \A p \in Files : disk[p] \in Content \/ Writers(p) # {} \/ p \in spoilt

\* LocalFileSystemAdapter: the workspace stays a tree, a call whose path nobody else
\* touches tells what is there and does what it says, and a listing is true.
CallsTell == FilesTypeOK /\ UndisturbedCallsTell /\ ListingTrue

\* assertSafe: clients change nothing but what lies below a root and not in a blocked
\* directory, and never remove a directory; only other programs do.
StepStaysInside ==
  \A p \in Node : disk'[p] # disk[p] /\ faults' = faults =>
    /\ \E k \in DOMAIN Root :
         /\ IsPrefix(Root[k], p) /\ p # Root[k]
         /\ \A n \in (Len(Root[k]) + 1)..Len(p) : p[n] \notin Blocked
    /\ disk[p] # Dir
StaysInside == [][StepStaysInside]_filesVars

=============================================================================
