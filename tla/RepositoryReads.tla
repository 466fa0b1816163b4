--------------------------- MODULE RepositoryReads ---------------------------
(***************************************************************************)
(* The readers of a repository: GitHubRepositoryAdapter asks the server,   *)
(* LocalGitRepositoryAdapter runs git in a worktree. A consumer takes a    *)
(* tree and reads its files by name and ref, one call after the other,     *)
(* while others commit, switch HEAD and delete branches. git and the       *)
(* server are modelled from how the adapters use them; HEAD stands for the *)
(* checkout of the one and the default branch of the other.                *)
(***************************************************************************)
EXTENDS Naturals, Sequences

CONSTANTS
  Branch,
  Name,         \* what a path may be: of a file, of a folder, of nothing
  File,         \* what ls-tree -r lists: files, links and submodules
  Folder,       \* of files that nobody touches here
  Submodule,    \* commits of another repository
  Outside,      \* links that lead out of the repository
  Shown,        \* file -> its name as git prints it, quoted perhaps, and trimmed
  Reader,
  None,
  MaxCommits,   \* bound: commits in the repository
  MaxSwitches   \* bound: how often HEAD moves to another branch

Head_ == "HEAD"      \* the ref of a local tree for which none was given
Errors == {"octokit", "FileNotFoundError", "RepositoryNotFoundError"}
Entry == [path : Name, type : {"file", "directory"}]

ASSUME ReadsAssumption ==
  /\ File \subseteq Name /\ Folder \subseteq Name \ File
  /\ Submodule \subseteq File /\ Outside \subseteq File
  /\ Shown \in [File -> Name \ Folder] /\ Head_ \notin Branch
  /\ None \notin Branch /\ None \notin Errors \cup {Head_} /\ None \notin Entry
  /\ MaxCommits \in Nat \ {0} /\ MaxSwitches \in Nat

VARIABLES
  commits,    \* its history, itself included, and file -> commit of the last write, or 0
  tip,        \* branch -> commit, 0 when there is no such branch
  head,       \* the branch HEAD stands for
  switches,
  reader      \* reader -> its adapter, its call, and the tree it holds

readVars == <<commits, tip, head, switches, reader>>

NoTree == [ref |-> None, commit |-> 0, entries |-> {}]
NoRead(kind) == [kind |-> kind, phase |-> "idle", ref |-> None, file |-> None,
                 tree |-> NoTree, content |-> 0, error |-> None]

Resolve(ref) == IF ref = Head_ THEN tip[head] ELSE tip[ref]
FilesOf(c) == {f \in File : commits[c].files[f] # 0}

Ancestors(c) == commits[c].past

-----------------------------------------------------------------------------
(* The readers *)

\* The lines of git's output, trimmed, are what the local adapter takes for names.
NameOf(kind, f) == IF kind = "local" THEN Shown[f] ELSE f

\* What readFile finds contents of: the server says of a submodule, and of a link
\* it cannot follow, that they are no files; git shows where a link leads.
WithContent(kind) == File \ (Submodule \cup IF kind = "local" THEN {} ELSE Outside)

\* (slip) the type of an entry is ignored
AllFiles(kind, c) ==
  {[path |-> p, type |-> "file"] :
     p \in {NameOf(kind, f) : f \in FilesOf(c)} \cup IF kind = "local" THEN {} ELSE Folder}

\* What an adapter lists of a commit: a tree of the server holds the folders as
\* well, and all that is no folder is listed as a file.
Listed(kind, c) ==
  {[path |-> NameOf(kind, f), type |-> "file"] : f \in FilesOf(c)}
  \cup {[path |-> d, type |-> "directory"] : d \in IF kind = "local" THEN {} ELSE Folder}

Update(r, fields) == reader' = [reader EXCEPT ![r] = fields]

\* getTree, and listFiles, its files: without a ref the local adapter takes HEAD,
\* the other asks for the default branch first.
AskTree(r, ref) ==
  LET me == reader[r]
  IN /\ me.phase = "idle" /\ me.tree = NoTree
     /\ Update(r, IF ref # None THEN [me EXCEPT !.phase = "tree", !.ref = ref]
                  ELSE IF me.kind = "local" THEN [me EXCEPT !.phase = "tree", !.ref = Head_]
                  ELSE [me EXCEPT !.phase = "default"])

HearDefault(r) ==
  LET me == reader[r]
  IN /\ me.phase = "default"
     /\ Update(r, [me EXCEPT !.phase = "tree", !.ref = head])

Failed(me, error) == [me EXCEPT !.phase = "idle", !.error = error]

\* runGit turns every error into one; the octokit's own errors pass through.
ErrorOf(kind, error) == IF kind = "local" THEN "RepositoryNotFoundError" ELSE error

TreeRef(me) == me.ref

HearTree(r) ==
  LET me == reader[r]
      c == Resolve(me.ref)
  IN /\ me.phase = "tree"
     /\ Update(r, IF c = 0 THEN Failed(me, ErrorOf(me.kind, "octokit"))
                  ELSE [me EXCEPT !.phase = "idle", !.error = None,
                          !.tree = [ref |-> TreeRef(me), commit |-> c, entries |-> Listed(me.kind, c)]])

\* The consumer reads an entry of its tree at the ref of the tree.
RefOmitted(me) == Head_          \* (slip) the ref is not passed on
RefOfTree(me) == me.tree.ref

AskFile(r, e) ==
  LET me == reader[r]
  IN /\ me.phase = "idle" /\ e \in me.tree.entries
     /\ Update(r, [me EXCEPT !.phase = "file", !.file = e, !.ref = RefOfTree(me),
                             !.content = 0, !.error = None])

HearFile(r) ==
  LET me == reader[r]
      c == Resolve(me.ref)
      path == me.file.path
      files == IF c = 0 THEN {} ELSE FilesOf(c)
      objects == IF c = 0 THEN {} ELSE files \cup Folder
  IN /\ me.phase = "file"
     /\ \/ /\ path \in files \cap WithContent(me.kind)
           /\ Update(r, [me EXCEPT !.phase = "idle", !.content = commits[c].files[path]])
        \/ /\ path \in objects \ (files \cap WithContent(me.kind))
           /\ Update(r, Failed(me, ErrorOf(me.kind, "FileNotFoundError")))
        \/ /\ path \notin objects
           /\ Update(r, Failed(me, ErrorOf(me.kind, "octokit")))

\* git times out or the connection breaks; getMetadata names that of its own call.
Break(r) ==
  LET me == reader[r]
  IN /\ me.phase \in {"default", "tree", "file"}
     /\ Update(r, Failed(me, IF me.phase = "default" THEN "RepositoryNotFoundError"
                             ELSE ErrorOf(me.kind, "octokit")))

-----------------------------------------------------------------------------
(* Others *)

\* A commit on a branch writes or removes one file.
Commit(b, f, write) ==
  /\ Len(commits) < MaxCommits /\ tip[b] # 0 /\ (write \/ f \in FilesOf(tip[b]))
  /\ LET c == Len(commits) + 1
     IN /\ commits' = Append(commits, [past |-> {c} \cup Ancestors(tip[b]),
              files |-> [commits[tip[b]].files EXCEPT ![f] = IF write THEN c ELSE 0]])
        /\ tip' = [tip EXCEPT ![b] = c]
  /\ UNCHANGED <<head, switches, reader>>

Switch(b) ==
  /\ switches < MaxSwitches /\ b # head /\ tip[b] # 0
  /\ head' = b /\ switches' = switches + 1
  /\ UNCHANGED <<commits, tip, reader>>

DeleteBranch(b) ==
  /\ b # head /\ tip[b] # 0
  /\ tip' = [tip EXCEPT ![b] = 0]
  /\ UNCHANGED <<commits, head, switches, reader>>

ReadsInit ==
  /\ commits = <<[past |-> {1}, files |-> [f \in File |-> 1]]>>
  /\ tip = [b \in Branch |-> 1]
  /\ head \in Branch /\ switches = 0
  /\ \E kinds \in [Reader -> {"local", "github"}] : reader = [r \in Reader |-> NoRead(kinds[r])]

ReaderStep(r) ==
  /\ \/ \E ref \in Branch \cup {None} : AskTree(r, ref)
     \/ \E e \in reader[r].tree.entries : AskFile(r, e)
     \/ HearDefault(r) \/ HearTree(r) \/ HearFile(r) \/ Break(r)
  /\ UNCHANGED <<commits, tip, head, switches>>

ReadsNext ==
  \/ \E r \in Reader : ReaderStep(r)
  \/ \E b \in Branch : Switch(b) \/ DeleteBranch(b) \/ \E f \in File, write \in BOOLEAN : Commit(b, f, write)

ReadsSpec == ReadsInit /\ [][ReadsNext]_readVars

-----------------------------------------------------------------------------
(* Correctness *)

HoldsTree(r) == reader[r].tree # NoTree
Undisturbed(r) == HoldsTree(r) /\ Resolve(reader[r].tree.ref) = reader[r].tree.commit
Done(r) == reader[r].phase = "idle" /\ reader[r].file # None

\* A read that is over has brought the content or an error, never both or neither.
ReadsTypeOK ==
  /\ \A b \in Branch : tip[b] \in 0..Len(commits)
  /\ tip[head] # 0
  /\ \A r \in Reader :
       /\ reader[r].phase \in {"idle", "default", "tree", "file"}
       /\ reader[r].ref \in Branch \cup {None, Head_}
       /\ reader[r].content \in 0..Len(commits)
       /\ Done(r) => (reader[r].content # 0 <=> reader[r].error = None)

FilePaths(entries) == {e.path : e \in {d \in entries : d.type = "file"}}

\* A tree lists, by the names the adapter gives them, the files that the ref it names
\* held at some time of the call, whatever moved between its requests: following the
\* ref from its commit on leads to what the ref holds now, unless the branch is gone
\* or HEAD went elsewhere.
TreeIsOfItsRef ==
  \A r \in Reader :
    HoldsTree(r) =>
      LET me == reader[r]
          tree == me.tree
          now == Resolve(tree.ref)
      IN /\ FilePaths(tree.entries) = {NameOf(me.kind, f) : f \in FilesOf(tree.commit)}
         /\ now = 0 \/ (tree.ref = Head_ /\ switches > 0) \/ tree.commit \in Ancestors(now)

\* Reading the files of a tree one by one gives the contents of that commit or of
\* later ones, never of another branch, while HEAD stays where it is.
ReadsFollowTheTree ==
  \A r \in Reader :
    (HoldsTree(r) /\ reader[r].content # 0) =>
      LET me == reader[r]
          now == Resolve(me.tree.ref)
      IN \/ me.content = commits[me.tree.commit].files[me.file.path]
         \/ me.content > me.tree.commit /\ (now = 0 \/ me.content \in Ancestors(now))
         \/ me.tree.ref = Head_ /\ switches > 0

\* getTree and readFile: a tree is what the ref it names held at some time of the
\* call, by the names the adapter lists; its files come from that commit or from
\* later ones of the ref; and a read that is over has brought the content or an
\* error, never both or neither.
ReadsFollowTheRef == ReadsTypeOK /\ TreeIsOfItsRef /\ ReadsFollowTheTree

\* Names that the local adapter lists and no file has, for git quoted them or the
\* adapter trimmed them.
Misnamed(kind, c) ==
  IF kind = "local" THEN {Shown[f] : f \in FilesOf(c)} \ FilesOf(c) ELSE {}

\* listFiles, getTree and readFile: what is listed as a file is read as it was listed,
\* as long as nobody touches the branch and no call breaks, with these exceptions:
\* submodules, which both adapters list as files; links out of the repository, on
\* the server; and, locally, names that git quotes or the adapter trims, which name
\* no file.
ListedCanBeRead ==
  [][\A r \in Reader :
       LET me == reader[r]
           c == me.tree.commit
       IN (HearFile(r) /\ Undisturbed(r) /\ me.file.type = "file") =>
            \/ me.file.path \in Misnamed(me.kind, c) \cup Submodule
            \/ me.kind = "github" /\ me.file.path \in Outside
            \/ /\ reader'[r].error = None
               /\ reader'[r].content = commits[c].files[me.file.path]]_readVars

=============================================================================
