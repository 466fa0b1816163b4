----------------------------- MODULE MCWorkspace -----------------------------
(* What works on the machine of the consumer, four studies in one run: the    *)
(* memory behind child processes, two clients racing in one workspace, one    *)
(* client that names paths of every kind, and the twin adapter of the tests.  *)
EXTENDS MCEngramMemory, FileSystemTwins

CONSTANTS ws, a, d, b, git, dots, other, one, two, clientOne, clientTwo

VARIABLE study

Racers == {clientOne, clientTwo}
Symmetric == Permutations(Racers)

Roots == <<<<ws>>>>
BlockedNames == {git}
DottedNames == {dots}
Segments == {ws, a, d, b, git, dots, other, ".."}

Long == <<one, one>>
TwoContents == {Long, <<two>>}
SmallTree == {<<ws>>, <<ws, a>>, <<ws, d>>, <<ws, d, b>>}
SmallCandidates == {Relative(<<>>), Relative(<<a>>), Relative(<<d>>), Relative(<<d, b>>)}

\* With a repository's .git directory, and a directory named like the root that may
\* hold another one.
DeepTree == {<<ws>>, <<ws, d>>, <<ws, ws>>, <<ws, ws, a>>, <<ws, ws, d>>, <<ws, ws, d, b>>}
WideTree == SmallTree \cup DeepTree \cup {<<ws, git>>, <<ws, git, a>>}
WideCandidates ==
  SmallCandidates \cup
  {Relative(<<"..", a>>), Relative(<<git, a>>), Relative(<<dots>>),
   Relative(<<git>>), Absolute(<<ws, a>>), Absolute(<<ws>>), Absolute(<<other, a>>)}

\* Paths in their plain form, for both adapters.
PlainCandidates == {Relative(<<d>>), Relative(<<ws>>), Relative(<<ws, a>>), Relative(<<ws, d, b>>)}
Twins == INSTANCE FileSystemTwins WITH Candidate <- PlainCandidates

\* The files there at first hold the long content, and only some nodes are there.
OnlyAtFirst(nodes) == \A p \in Node : disk[p] # Absent => p \in nodes /\ disk[p] \in {Dir, Long}
DirectoriesIn(nodes) == \A p \in Node : disk[p] = Dir => p \in nodes

\* What a study leaves alone stays as it is here.
NoTwin == memory = <<>> /\ directories = {} /\ twin = <<>> /\ parted = TRUE

WorkspaceInit ==
  /\ MemoryInit /\ FilesInit
  /\ \/ study = "memory" /\ OnlyAtFirst({<<ws>>}) /\ NoTwin
     \/ /\ study = "race" /\ NoTwin
        /\ OnlyAtFirst(SmallTree) /\ DirectoriesIn({<<ws>>, <<ws, d>>}) /\ ~IsFile(disk[<<ws, d>>])
     \/ study = "policy" /\ OnlyAtFirst(WideTree \ {<<ws, d>>, <<ws, ws, d>>}) /\ NoTwin
     \/ study = "twins" /\ OnlyAtFirst(DeepTree) /\ TwinInit

\* Each session asks for what it is here to ask for.
MemoryStep ==
  MemoryNext /\ \A c \in CallId : request'[c] # request[c] => request'[c] \in AsksOf(c)

\* Two clients, and directories removed by others, in the small tree; the root is
\* for listing only.
RaceNext ==
  \/ \E c \in Client :
       \/ \E path \in SmallCandidates :
            Invoke(c, path) /\ (path.segments = <<>> => call'[c].op = "listFiles")
       \/ Serve(c) \/ Crash(c)
  \/ \E p \in Node : RemoveDirectory(p)

\* One client that names paths of every kind, and writes the long content.
Alone(c) == \A o \in Client \ {c} : call[o].op = "none"
PolicyNext ==
  \E c \in Client :
    /\ Alone(c)
    /\ (calls < 2 /\ \E path \in Candidate : Invoke(c, path)) \/ Serve(c)
    /\ call'[c].content # <<two>>

WorkspaceNext ==
  \/ study = "memory" /\ MemoryStep /\ UNCHANGED <<study, filesVars, twinVars>>
  \/ study = "race" /\ RaceNext /\ UNCHANGED <<study, vars, twinVars>>
  \/ study = "policy" /\ PolicyNext /\ UNCHANGED <<study, vars, twinVars>>
  \/ study = "twins" /\ Twins!TwinNext /\ UNCHANGED <<study, vars>>

WorkspaceSpec == WorkspaceInit /\ [][WorkspaceNext]_<<study, vars, filesVars, twinVars>>

=============================================================================
