--------------------------- MODULE FileSystemTwins ---------------------------
(***************************************************************************)
(* InMemoryFileSystemAdapter (src/testing), which stands in for the local  *)
(* adapter in tests: it repeats every call once the local adapter has      *)
(* answered it. The clients take turns, and nothing fails meanwhile.       *)
(***************************************************************************)
EXTENDS WorkspaceFiles

VARIABLES
  memory,       \* its files: path -> content
  directories,  \* paths of createDirectory
  twin,         \* its answer to the call answered last
  parted        \* history: the local adapter met a failure that it does not know

twinVars == <<memory, directories, twin, parted>>

HasFile(p) == p \in DOMAIN memory
WithIt(p) == memory                             \* (slip) deleteFile keeps the file
Without(p) == [q \in DOMAIN memory \ {p} |-> memory[q]]

TwinAnswer(k) ==
  CASE k.op = "readFile" -> IF HasFile(k.at) THEN <<"content", memory[k.at]>> ELSE <<"notFound">>
    [] k.op = "exists" -> <<"exists", HasFile(k.at) \/ k.at \in directories>>
    [] k.op = "deleteFile" -> IF HasFile(k.at) THEN <<"ok">> ELSE <<"notFound">>
    [] k.op = "listFiles" -> <<"files", {q \in DOMAIN memory : q # k.at /\ IsPrefix(k.at, q)}>>
    [] OTHER -> <<"ok">>

Repeat(k) ==
  /\ twin' = TwinAnswer(k)
  /\ memory' = CASE k.op = "writeFile" ->
                      [q \in DOMAIN memory \cup {k.at} |-> IF q = k.at THEN k.content ELSE memory[q]]
                 [] k.op = "deleteFile" -> Without(k.at)
                 [] OTHER -> memory
  /\ directories' = IF k.op = "createDirectory" THEN directories \cup {k.at} ELSE directories
  /\ parted' = (parted \/ k.answer \in {<<"raw">>, <<"unsafe">>})

Answered(c) == ~In(c, "done") /\ call'[c].phase = "done"

TwinInit ==
  /\ FilesInit
  /\ memory = [p \in Files |-> disk[p]]
  /\ directories = {} /\ twin = <<>> /\ parted = FALSE

HasTurn(c) == \A e \in Client \ {c} : In(e, "done")

TwinNext ==
  \E c \in Client :
    /\ HasTurn(c)
    /\ (\E path \in Candidate : Invoke(c, path)) \/ Serve(c)
    /\ \/ Answered(c) /\ Repeat(call'[c])
       \/ ~Answered(c) /\ UNCHANGED twinVars

TwinSpec == TwinInit /\ [][TwinNext]_<<filesVars, twinVars>>

-----------------------------------------------------------------------------

\* What clients do one after the other to paths in their plain form comes out the
\* same with both adapters, through any sequence of calls, until the local one fails
\* in a way the other cannot, such as a file where a directory is needed; only whether
\* a directory exists they judge differently, where nobody created it by itself.
TwinsAgree ==
  (~parted /\ \A c \in Client : In(c, "done")) =>
    \A c \in Client :
      LET k == call[c]
      IN /\ memory = [p \in Files |-> disk[p]]
         /\ \/ k.op = "none"
            \/ k.op = "exists" /\ disk[k.at] = Dir
            \/ twin = IF k.op = "listFiles" THEN <<"files", k.found>> ELSE k.answer

=============================================================================
