---------------------------- MODULE ServicesProofs ----------------------------
(***************************************************************************)
(* What a consumer gets from elsewhere: RepositoryReads, for any number of *)
(* readers, branches, files, commits and switches of HEAD, and             *)
(* AiquaaClient, for any number of sessions, calls and tokens.  What it    *)
(* does with requirements: queries on merged graphs, for any inputs,       *)
(* viewers and orders, and ids of normalized requirements, for any words,  *)
(* sources and runs.                                                       *)
(***************************************************************************)
EXTENDS RepositoryReads, AiquaaClient, Traceability, RequirementIds, SequenceLemmas, TLAPS

-----------------------------------------------------------------------------
(* Repository readers *)

Ref == Branch \cup {Head_}
CommitRecord == [past : SUBSET Nat, files : [File -> Nat]]
Tree == [ref : Ref \cup {None}, commit : Nat, entries : SUBSET Entry]
Read == [kind : {"local", "github"}, phase : {"idle", "default", "tree", "file"},
         ref : Ref \cup {None}, file : Entry \cup {None}, tree : Tree, content : Nat,
         error : Errors \cup {None}]

Known == 1..Len(commits)

\* Histories are closed and refer to earlier commits; of what an ancestor held a
\* file is the same, was written later, or is gone.
HistoryOK ==
  /\ commits \in Seq(CommitRecord)
  /\ \A c \in Known : c \in Ancestors(c) /\ Ancestors(c) \subseteq 1..c
  /\ \A c \in Known : \A d \in Ancestors(c) : Ancestors(d) \subseteq Ancestors(c)
  /\ \A c \in Known : \A f \in File : commits[c].files[f] \in Ancestors(c) \cup {0}
  /\ \A c \in Known : \A d \in Ancestors(c) : \A f \in File :
       commits[c].files[f] \in {0, commits[d].files[f]} \/ commits[c].files[f] > d

TipsOK ==
  /\ tip \in [Branch -> Nat] /\ \A b \in Branch : tip[b] \in Known \cup {0}
  /\ head \in Branch /\ tip[head] # 0 /\ switches \in Nat

\* A commit the ref has had is in its history, unless the branch is gone or HEAD
\* went elsewhere.
Behind(ref, c) ==
  Resolve(ref) = 0 \/ (ref = Head_ /\ switches > 0) \/ c \in Ancestors(Resolve(ref))

\* A tree lists a commit its ref has had.
TreeOK(me) ==
  /\ me.tree.ref \in Ref /\ me.tree.commit \in Known
  /\ me.tree.entries = Listed(me.kind, me.tree.commit)
  /\ Behind(me.tree.ref, me.tree.commit)

\* What was read is the tree's version or a later one of the ref.
ContentOK(me) ==
  /\ me.content \in Known
  /\ \/ me.content = commits[me.tree.commit].files[me.file.path]
     \/ me.content > me.tree.commit /\ Behind(me.tree.ref, me.content)
     \/ me.tree.ref = Head_ /\ switches > 0

PhaseOK(me) ==
  /\ me \in Read
  /\ me.phase = "tree" => me.ref \in Ref
  /\ me.phase \in {"default", "tree"} => me.tree = NoTree
  /\ me.phase = "file" => /\ me.tree # NoTree /\ me.ref = me.tree.ref /\ me.error = None
                          /\ me.file \in me.tree.entries /\ me.content = 0
  /\ me.tree = NoTree => me.file = None /\ me.content = 0
  /\ me.phase = "idle" /\ me.file # None => (me.content # 0 <=> me.error = None)

ReadOK(me) ==
  /\ PhaseOK(me)
  /\ me.tree # NoTree => TreeOK(me)
  /\ me.content # 0 => ContentOK(me)

ReadersOK == reader \in [Reader -> Read] /\ \A r \in Reader : ReadOK(reader[r])

ReadsInv == HistoryOK /\ TipsOK /\ ReadersOK

-----------------------------------------------------------------------------
(* What others do *)

\* Commits stay, and a ref moves along its history, goes, or HEAD is switched.
Onward ==
  /\ HistoryOK /\ HistoryOK' /\ TipsOK /\ TipsOK'
  /\ \A c \in Known : c \in Known' /\ commits'[c] = commits[c]
  /\ \A ref \in Ref, c \in Known : Behind(ref, c) => Behind(ref, c)'
  /\ switches > 0 => switches' > 0

LEMMA OthersKeep ==
  ASSUME Onward, ReadersOK, reader' = reader
  PROVE  ReadersOK'
<1> SUFFICES ASSUME NEW r \in Reader PROVE ReadOK(reader[r])'
  BY DEF ReadersOK
<1> DEFINE me == reader[r]
<1>1. ReadOK(me) /\ me \in Read
  BY DEF ReadersOK
<1>2. PhaseOK(me)'
  BY <1>1 DEF ReadOK, PhaseOK
<1>3. \A c \in Known : commits'[c] = commits[c] /\ c \in Known' /\ FilesOf(c)' = FilesOf(c)
  BY DEF Onward, FilesOf
<1>4. me.tree # NoTree => TreeOK(me)'
  BY <1>1, <1>3 DEF ReadOK, TreeOK, Onward, Listed, NameOf
<1>5. me.content # 0 => ContentOK(me)'
  BY <1>1, <1>3 DEF ReadOK, PhaseOK, ContentOK, TreeOK, Onward
<1> QED
  BY <1>2, <1>4, <1>5 DEF ReadOK

LEMMA CommitOnward ==
  ASSUME ReadsInv, NEW b \in Branch, NEW f \in File, NEW write \in BOOLEAN, Commit(b, f, write)
  PROVE  Onward
<1>0. Len(commits) + 1 \in Nat
  BY DEF ReadsInv, HistoryOK
<1> PICK c \in Nat : c = Len(commits) + 1
  BY <1>0
<1> DEFINE t == tip[b]
           record == [past |-> {c} \cup Ancestors(t),
                      files |-> [commits[t].files EXCEPT ![f] = IF write THEN c ELSE 0]]
<1>1. commits \in Seq(CommitRecord) /\ t \in Known /\ c \in Nat
  BY DEF ReadsInv, HistoryOK, TipsOK, Commit, Known
<1>2. commits[t] \in CommitRecord
  BY <1>1 DEF Known
<1>3. record \in CommitRecord
  BY <1>1, <1>2 DEF CommitRecord, Ancestors
<1>4. commits' = Append(commits, record) /\ tip' = [tip EXCEPT ![b] = c]
      /\ UNCHANGED <<head, switches, reader>>
  BY DEF Commit
<1>5. /\ record.past = {c} \cup Ancestors(t)
      /\ \A g \in File : record.files[g] = IF g = f THEN (IF write THEN c ELSE 0) ELSE commits[t].files[g]
  BY <1>2 DEF CommitRecord
<1> HIDE DEF record
<1>6. /\ commits' \in Seq(CommitRecord) /\ Known' = Known \cup {c} /\ c \notin Known
      /\ commits'[c] = record /\ \A d \in Known : commits'[d] = commits[d]
      /\ \A d \in Known : d \in Nat /\ d < c /\ d # 0
  BY <1>1, <1>3, <1>4 DEF Known
<1>7. Ancestors(c)' = {c} \cup Ancestors(t) /\ \A d \in Known : Ancestors(d)' = Ancestors(d)
  BY <1>5, <1>6 DEF Ancestors
<1>8. \A d \in Known : Ancestors(d) \subseteq Known
  BY <1>1 DEF ReadsInv, HistoryOK, Known
<1>9. HistoryOK'
  <2>1. \A d \in Known' : d \in Ancestors(d)' /\ Ancestors(d)' \subseteq 1..d
    BY <1>1, <1>6, <1>7 DEF ReadsInv, HistoryOK, Known
  <2>2. \A d \in Known' : \A e \in Ancestors(d)' : Ancestors(e)' \subseteq Ancestors(d)'
    BY <1>1, <1>6, <1>7, <1>8 DEF ReadsInv, HistoryOK
  <2>3. \A d \in Known' : \A g \in File : commits'[d].files[g] \in Ancestors(d)' \cup {0}
    BY <1>1, <1>5, <1>6, <1>7 DEF ReadsInv, HistoryOK
  <2>4. \A d \in Known' : \A e \in Ancestors(d)' : \A g \in File :
          commits'[d].files[g] \in {0, commits'[e].files[g]} \/ commits'[d].files[g] > e
    <3>1. \A d \in Known : \A e \in Ancestors(d) : \A g \in File :
            commits'[d].files[g] \in {0, commits'[e].files[g]} \/ commits'[d].files[g] > e
      BY <1>6, <1>8 DEF ReadsInv, HistoryOK
    <3>2. \A e \in Ancestors(t) : \A g \in File :
            commits'[c].files[g] \in {0, commits'[e].files[g]} \/ commits'[c].files[g] > e
      BY <1>1, <1>5, <1>6, <1>8, <3>1
    <3> QED
      BY <1>6, <1>7, <3>1, <3>2
  <2> QED
    BY <1>6, <2>1, <2>2, <2>3, <2>4 DEF HistoryOK
<1>10. TipsOK'
  BY <1>1, <1>4, <1>6 DEF ReadsInv, TipsOK
<1>11. ASSUME NEW ref \in Ref, NEW d \in Known, Behind(ref, d)
       PROVE  Behind(ref, d)'
  <2>1. Resolve(ref) \in Known \cup {0} /\ Resolve(ref)' \in {Resolve(ref), c}
    BY <1>4 DEF ReadsInv, TipsOK, Resolve, Ref
  <2>2. Resolve(ref)' = c => Resolve(ref) = t
    BY <1>4, <1>6, <2>1 DEF ReadsInv, TipsOK, Resolve, Ref
  <2>3. CASE Resolve(ref)' = c
    BY <1>1, <1>4, <1>6, <1>7, <1>11, <2>2, <2>3 DEF Behind
  <2>4. CASE Resolve(ref)' = Resolve(ref)
    BY <1>4, <1>7, <1>11, <2>1, <2>4 DEF Behind
  <2> QED
    BY <2>1, <2>3, <2>4
<1> QED
  BY <1>4, <1>6, <1>9, <1>10, <1>11 DEF Onward, ReadsInv

LEMMA SwitchOnward ==
  ASSUME ReadsInv, NEW b \in Branch, Switch(b)
  PROVE  Onward
<1>1. /\ UNCHANGED <<commits, tip>> /\ switches \in Nat /\ switches' = switches + 1
      /\ head' = b /\ tip[b] # 0
  BY DEF Switch, ReadsInv, TipsOK
<1>2. HistoryOK' /\ TipsOK' /\ Known' = Known
  BY <1>1 DEF ReadsInv, HistoryOK, TipsOK, Known, Ancestors
<1>3. switches' \in Nat /\ switches' > 0
  BY <1>1
<1> QED
  BY <1>1, <1>2, <1>3 DEF Onward, ReadsInv, Behind, Resolve, Ancestors

LEMMA DeleteOnward ==
  ASSUME ReadsInv, NEW b \in Branch, DeleteBranch(b)
  PROVE  Onward
<1>1. UNCHANGED <<commits, head, switches>> /\ tip' = [tip EXCEPT ![b] = 0] /\ b # head
  BY DEF DeleteBranch
<1>2. HistoryOK' /\ TipsOK' /\ Known' = Known
  BY <1>1 DEF ReadsInv, HistoryOK, TipsOK, Known, Ancestors
<1>3. \A ref \in Ref : Resolve(ref)' \in {0, Resolve(ref)}
  BY <1>1 DEF ReadsInv, TipsOK, Resolve, Ref
<1> QED
  BY <1>1, <1>2, <1>3 DEF Onward, ReadsInv, Behind, Ancestors

-----------------------------------------------------------------------------
(* What a reader does *)

\* A step of one reader that leaves it in order leaves everything in order.
LEMMA ReaderMoves ==
  ASSUME ReadsInv, NEW r \in Reader, NEW q, ReadOK(q), reader' = [reader EXCEPT ![r] = q],
         UNCHANGED <<commits, tip, head, switches>>
  PROVE  ReadsInv'
<1>1. HistoryOK' /\ TipsOK' /\ Known' = Known
  BY DEF ReadsInv, HistoryOK, TipsOK, Known, Ancestors
<1>2. \A me : ReadOK(me) => ReadOK(me)'
  BY <1>1 DEF ReadOK, PhaseOK, TreeOK, ContentOK, Behind, Resolve, Ancestors, Listed, NameOf, FilesOf
<1>3. ReadersOK'
  BY <1>2 DEF ReadsInv, ReadersOK, ReadOK, PhaseOK
<1> QED
  BY <1>1, <1>3 DEF ReadsInv

LEMMA AskTreeOK ==
  ASSUME ReadsInv, NEW r \in Reader, NEW ref \in Branch \cup {None}, AskTree(r, ref),
         UNCHANGED <<commits, tip, head, switches>>
  PROVE  ReadsInv'
<1> DEFINE me == reader[r]
           q == IF ref # None THEN [me EXCEPT !.phase = "tree", !.ref = ref]
                ELSE IF me.kind = "local" THEN [me EXCEPT !.phase = "tree", !.ref = Head_]
                ELSE [me EXCEPT !.phase = "default"]
<1>1. me \in Read /\ ReadOK(me) /\ me.tree = NoTree
  BY DEF ReadsInv, ReadersOK, AskTree
<1>2. /\ q \in Read /\ q.phase \in {"tree", "default"} /\ (q.phase = "tree" => q.ref \in Ref)
      /\ q.tree = me.tree /\ q.content = me.content /\ q.file = me.file
  BY <1>1 DEF Read, Ref
<1>3. reader' = [reader EXCEPT ![r] = q]
  BY DEF AskTree, Update
<1> HIDE DEF q
<1>4. ReadOK(q)
  BY <1>1, <1>2 DEF ReadOK, PhaseOK
<1> QED
  BY <1>3, <1>4, ReaderMoves

LEMMA HearDefaultOK ==
  ASSUME ReadsInv, NEW r \in Reader, HearDefault(r), UNCHANGED <<commits, tip, head, switches>>
  PROVE  ReadsInv'
<1> DEFINE me == reader[r]
           q == [me EXCEPT !.phase = "tree", !.ref = head]
<1>1. me \in Read /\ ReadOK(me) /\ me.tree = NoTree /\ head \in Ref
  BY DEF ReadsInv, ReadersOK, HearDefault, ReadOK, PhaseOK, TipsOK, Ref
<1>2. /\ q \in Read /\ q.phase = "tree" /\ q.ref \in Ref
      /\ q.tree = me.tree /\ q.content = me.content /\ q.file = me.file
  BY <1>1 DEF Read
<1>3. reader' = [reader EXCEPT ![r] = q]
  BY DEF HearDefault, Update
<1> HIDE DEF q
<1>4. ReadOK(q)
  BY <1>1, <1>2 DEF ReadOK, PhaseOK
<1> QED
  BY <1>3, <1>4, ReaderMoves

\* A call that fails leaves an error, and no content.
LEMMA FailedOK ==
  ASSUME NEW me, ReadOK(me), NEW error \in Errors, me.phase # "idle"
  PROVE  ReadOK(Failed(me, error))
<1> DEFINE q == Failed(me, error)
<1>1. me \in Read
  BY DEF ReadOK, PhaseOK
<1>2. /\ q \in Read /\ q.phase = "idle" /\ q.error = error /\ q.kind = me.kind
      /\ q.tree = me.tree /\ q.content = me.content /\ q.file = me.file
  BY <1>1 DEF Read, Failed
<1>3. error # None
  BY ReadsAssumption
<1> HIDE DEF q
<1>4. me.content = 0
  BY DEF ReadOK, PhaseOK, Read
<1>5. ReadOK(q)
  BY <1>1, <1>2, <1>3, <1>4 DEF ReadOK, PhaseOK, TreeOK
<1> QED
  BY <1>5 DEF q

LEMMA ErrorOfOK ==
  ASSUME NEW kind, NEW error \in Errors
  PROVE  ErrorOf(kind, error) \in Errors
BY DEF ErrorOf, Errors

LEMMA BreakOK ==
  ASSUME ReadsInv, NEW r \in Reader, Break(r), UNCHANGED <<commits, tip, head, switches>>
  PROVE  ReadsInv'
<1> DEFINE me == reader[r]
           error == IF me.phase = "default" THEN "RepositoryNotFoundError" ELSE ErrorOf(me.kind, "octokit")
<1>1. ReadOK(me) /\ me.phase # "idle"
  BY DEF ReadsInv, ReadersOK, Break
<1>2. error \in Errors
  BY ErrorOfOK DEF Errors
<1>3. reader' = [reader EXCEPT ![r] = Failed(me, error)]
  BY DEF Break, Update
<1> HIDE DEF error
<1> QED
  BY <1>1, <1>2, <1>3, FailedOK, ReaderMoves

\* What an adapter lists as files are the files of the commit, by its names for them.
LEMMA ListedEntries ==
  ASSUME NEW kind, NEW c
  PROVE  /\ Listed(kind, c) \in SUBSET Entry
         /\ FilePaths(Listed(kind, c)) = {NameOf(kind, f) : f \in FilesOf(c)}
<1>1. FilesOf(c) \subseteq File /\ \A f \in File : NameOf(kind, f) \in Name
  BY ReadsAssumption DEF FilesOf, NameOf
<1>2. Folder \subseteq Name
  BY ReadsAssumption
<1>3. Listed(kind, c) \in SUBSET Entry
  BY <1>1, <1>2 DEF Listed, Entry
<1>4. \A e \in Listed(kind, c) : e.type = "file" => \E f \in FilesOf(c) : e.path = NameOf(kind, f)
  BY DEF Listed
<1>5. \A f \in FilesOf(c) : [path |-> NameOf(kind, f), type |-> "file"] \in Listed(kind, c)
  BY DEF Listed
<1>6. \A f \in FilesOf(c) : NameOf(kind, f) \in FilePaths(Listed(kind, c))
  <2> TAKE f \in FilesOf(c)
  <2> DEFINE e == [path |-> NameOf(kind, f), type |-> "file"]
  <2>1. e \in Listed(kind, c) /\ e.type = "file" /\ e.path = NameOf(kind, f)
    BY <1>5
  <2> QED
    BY <2>1 DEF FilePaths
<1>7. \A p \in FilePaths(Listed(kind, c)) : \E f \in FilesOf(c) : p = NameOf(kind, f)
  BY <1>4 DEF FilePaths
<1> QED
  BY <1>3, <1>6, <1>7

LEMMA HearTreeOK ==
  ASSUME ReadsInv, NEW r \in Reader, HearTree(r), UNCHANGED <<commits, tip, head, switches>>
  PROVE  ReadsInv'
<1> DEFINE me == reader[r]
           c == Resolve(me.ref)
           tree == [ref |-> TreeRef(me), commit |-> c, entries |-> Listed(me.kind, c)]
           q == [me EXCEPT !.phase = "idle", !.error = None, !.tree = tree]
<1>1. /\ ReadOK(me) /\ me \in Read /\ me.phase = "tree" /\ me.ref \in Ref /\ me.tree = NoTree
      /\ me.file = None /\ me.content = 0
  BY DEF ReadsInv, ReadersOK, HearTree, ReadOK, PhaseOK
<1>2. c \in Known \cup {0}
  BY <1>1 DEF ReadsInv, TipsOK, Resolve, Ref
<1>3. CASE c = 0
  <2> DEFINE error == ErrorOf(me.kind, "octokit")
  <2>1. error \in Errors
    BY ErrorOfOK DEF Errors
  <2>2. reader' = [reader EXCEPT ![r] = Failed(me, error)]
    BY <1>3 DEF HearTree, Update
  <2> HIDE DEF error, c, q
  <2> QED
    BY <1>1, <2>1, <2>2, FailedOK, ReaderMoves
<1>4. CASE c # 0
  <2>1. reader' = [reader EXCEPT ![r] = q]
    BY <1>4 DEF HearTree, Update
  <2>2. Listed(me.kind, c) \in SUBSET Entry
    BY ListedEntries
  <2>3. tree \in Tree /\ tree # NoTree /\ tree.ref = me.ref /\ tree.commit = c
        /\ tree.entries = Listed(me.kind, c)
    BY <1>1, <1>2, <1>4, <2>2 DEF Tree, NoTree, TreeRef, Known
  <2> HIDE DEF tree
  <2>4. /\ q \in Read /\ q.phase = "idle" /\ q.tree = tree /\ q.kind = me.kind
        /\ q.content = 0 /\ q.file = None
    BY <1>1, <2>3 DEF Read
  <2> HIDE DEF q
  <2>5. c \in Known /\ Behind(me.ref, c)
    BY <1>2, <1>4 DEF Behind, ReadsInv, HistoryOK
  <2>6. ReadOK(q)
    BY <1>1, <2>3, <2>4, <2>5 DEF ReadOK, PhaseOK, TreeOK
  <2> QED
    BY <2>1, <2>6, ReaderMoves
<1> QED
  BY <1>3, <1>4

LEMMA AskFileOK ==
  ASSUME ReadsInv, NEW r \in Reader, NEW e, AskFile(r, e), UNCHANGED <<commits, tip, head, switches>>
  PROVE  ReadsInv'
<1> DEFINE me == reader[r]
           q == [me EXCEPT !.phase = "file", !.file = e, !.ref = RefOfTree(me),
                           !.content = 0, !.error = None]
<1>1. ReadOK(me) /\ me \in Read /\ me.phase = "idle" /\ e \in me.tree.entries
  BY DEF ReadsInv, ReadersOK, AskFile
<1>2. me.tree # NoTree /\ TreeOK(me) /\ e \in Entry
  BY <1>1 DEF NoTree, ReadOK, Read, Tree
<1>3. /\ q \in Read /\ q.phase = "file" /\ q.tree = me.tree /\ q.kind = me.kind /\ q.file = e
      /\ q.ref = me.tree.ref /\ q.content = 0 /\ q.error = None
  BY <1>1, <1>2 DEF Read, RefOfTree, TreeOK
<1>4. reader' = [reader EXCEPT ![r] = q]
  BY DEF AskFile, Update
<1> HIDE DEF q
<1>5. ReadOK(q)
  BY <1>1, <1>2, <1>3 DEF ReadOK, PhaseOK, TreeOK
<1> QED
  BY <1>4, <1>5, ReaderMoves

\* A listed file that is read at a commit its ref has come to is as it was in the
\* tree or was written later.
LEMMA HearFileOK ==
  ASSUME ReadsInv, NEW r \in Reader, HearFile(r), UNCHANGED <<commits, tip, head, switches>>
  PROVE  ReadsInv'
<1> DEFINE me == reader[r]
           c == Resolve(me.ref)
           q == [me EXCEPT !.phase = "idle", !.content = commits[c].files[me.file.path]]
<1>1. /\ ReadOK(me) /\ me \in Read /\ me.phase = "file" /\ me.tree # NoTree /\ TreeOK(me)
      /\ me.ref = me.tree.ref /\ me.file \in me.tree.entries /\ me.file \in Entry
  BY DEF ReadsInv, ReadersOK, HearFile, ReadOK, PhaseOK, Read, Tree
<1>2. c \in Known \cup {0}
  BY <1>1 DEF ReadsInv, TipsOK, Resolve, Ref, TreeOK
<1>3. ASSUME NEW error \in Errors, reader' = [reader EXCEPT ![r] = Failed(me, error)]
      PROVE  ReadsInv'
  <2> HIDE DEF c, q
  <2> QED
    BY <1>1, <1>3, FailedOK, ReaderMoves
<1>4. ASSUME c # 0, me.file.path \in FilesOf(c), reader' = [reader EXCEPT ![r] = q]
      PROVE  ReadsInv'
  <2> DEFINE f == me.file.path
             v == commits[c].files[f]
             d == me.tree.commit
  <2>1. c \in Known /\ d \in Known /\ f \in File /\ commits \in Seq(CommitRecord)
    BY <1>1, <1>2, <1>4 DEF FilesOf, TreeOK, ReadsInv, HistoryOK
  <2>2. v \in Nat /\ v # 0 /\ v \in Ancestors(c) /\ v \in Known /\ d \in Nat
    BY <1>4, <2>1 DEF CommitRecord, FilesOf, ReadsInv, HistoryOK, Known
  <2>3. Behind(me.tree.ref, v)
    BY <1>1, <2>2 DEF Behind
  <2>4. \/ v = commits[d].files[f] \/ v > d
        \/ me.tree.ref = Head_ /\ switches > 0
    BY <1>1, <1>4, <2>1, <2>2 DEF TreeOK, Behind, ReadsInv, HistoryOK
  <2>5. /\ q \in Read /\ q.phase = "idle" /\ q.content = v /\ q.tree = me.tree /\ q.kind = me.kind
        /\ q.file = me.file /\ q.error = me.error
    BY <1>1, <2>2 DEF Read
  <2> HIDE DEF q
  <2>6. ContentOK(q)
    BY <2>2, <2>3, <2>4, <2>5 DEF ContentOK
  <2>7. me.error = None
    BY <1>1 DEF ReadOK, PhaseOK
  <2>8. ReadOK(q)
    BY <1>1, <2>2, <2>5, <2>6, <2>7 DEF ReadOK, PhaseOK, TreeOK
  <2> QED
    BY <1>4, <2>8, ReaderMoves
<1>5. \A error \in {"octokit", "FileNotFoundError"} : ErrorOf(me.kind, error) \in Errors
  BY ErrorOfOK DEF Errors
<1>6. \/ \E error \in Errors : reader' = [reader EXCEPT ![r] = Failed(me, error)]
      \/ /\ c # 0 /\ me.file.path \in FilesOf(c)
         /\ reader' = [reader EXCEPT ![r] = q]
  <2> DEFINE files == IF c = 0 THEN {} ELSE FilesOf(c)
             found == files \cap WithContent(me.kind)
  <2>1. \/ me.file.path \in found /\ reader' = [reader EXCEPT ![r] = q]
        \/ reader' = [reader EXCEPT ![r] = Failed(me, ErrorOf(me.kind, "FileNotFoundError"))]
        \/ reader' = [reader EXCEPT ![r] = Failed(me, ErrorOf(me.kind, "octokit"))]
    BY DEF HearFile, Update
  <2>2. me.file.path \in found => c # 0 /\ me.file.path \in FilesOf(c)
    OBVIOUS
  <2> HIDE DEF found, q, c
  <2> QED
    BY <1>5, <2>1, <2>2
<1> QED
  BY <1>3, <1>4, <1>6

-----------------------------------------------------------------------------
(* Theorems about the readers *)

LEMMA InitReads == ReadsInit => ReadsInv
<1> SUFFICES ASSUME ReadsInit PROVE ReadsInv
  OBVIOUS
<1>1. commits = <<[past |-> {1}, files |-> [f \in File |-> 1]]>>
  BY DEF ReadsInit
<1>2. commits \in Seq(CommitRecord) /\ Len(commits) = 1
      /\ commits[1].past = {1} /\ \A f \in File : commits[1].files[f] = 1
  BY <1>1 DEF CommitRecord
<1>3. HistoryOK
  BY <1>2 DEF HistoryOK, Known, Ancestors
<1>4. TipsOK
  BY <1>2 DEF ReadsInit, TipsOK, Known
<1>5. ReadersOK
  <2>1. PICK kinds \in [Reader -> {"local", "github"}] : reader = [r \in Reader |-> NoRead(kinds[r])]
    BY DEF ReadsInit
  <2>2. ASSUME NEW kind \in {"local", "github"} PROVE ReadOK(NoRead(kind))
    BY DEF ReadOK, PhaseOK, NoRead, Read, NoTree, Tree
  <2> QED
    BY <2>1, <2>2 DEF ReadersOK, ReadOK, PhaseOK
<1> QED
  BY <1>3, <1>4, <1>5 DEF ReadsInv

LEMMA NextReads == ReadsInv /\ [ReadsNext]_readVars => ReadsInv'
<1> SUFFICES ASSUME ReadsInv, [ReadsNext]_readVars PROVE ReadsInv'
  OBVIOUS
<1>1. ASSUME NEW r \in Reader, ReaderStep(r) PROVE ReadsInv'
  BY <1>1, AskTreeOK, AskFileOK, HearDefaultOK, HearTreeOK, HearFileOK, BreakOK DEF ReaderStep
<1>2. ASSUME Onward, reader' = reader PROVE ReadsInv'
  BY <1>2, OthersKeep DEF ReadsInv, Onward
<1>3. ASSUME NEW b \in Branch, Switch(b) \/ DeleteBranch(b) PROVE ReadsInv'
  BY <1>2, <1>3, SwitchOnward, DeleteOnward DEF Switch, DeleteBranch
<1>4. ASSUME NEW b \in Branch, NEW f \in File, NEW write \in BOOLEAN, Commit(b, f, write) PROVE ReadsInv'
  BY <1>2, <1>4, CommitOnward DEF Commit
<1>5. CASE UNCHANGED readVars
  <2>1. HistoryOK' /\ TipsOK' /\ Known' = Known
    BY <1>5 DEF readVars, ReadsInv, HistoryOK, TipsOK, Known, Ancestors
  <2>2. Onward
    BY <1>5, <2>1 DEF readVars, ReadsInv, Onward, Behind, Resolve, Ancestors
  <2> QED
    BY <1>2, <1>5, <2>2 DEF readVars
<1> QED
  BY <1>1, <1>3, <1>4, <1>5 DEF ReadsNext

\* Histories, refs and readers stay in order, whoever does what when.
THEOREM ReadsInvTheorem == ReadsSpec => []ReadsInv
BY InitReads, NextReads, PTL DEF ReadsSpec

\* RepositoryPort.getTree and readFile: a tree is of the ref it names, and its files are
\* of that commit or later ones of the ref, although each is a request of its own.
THEOREM FollowTheorem == ReadsSpec => []ReadsFollowTheRef
<1>1. ReadsInv => ReadsTypeOK
  <2> SUFFICES ASSUME ReadsInv PROVE ReadsTypeOK
    OBVIOUS
  <2>1. \A b \in Branch : tip[b] \in 0..Len(commits)
    <3> TAKE b \in Branch
    <3>1. Len(commits) \in Nat
      BY DEF ReadsInv, HistoryOK
    <3>2. tip[b] \in 1..Len(commits) \cup {0}
      BY DEF ReadsInv, TipsOK, Known
    <3> HIDE DEF ReadsInv
    <3> QED
      BY <3>1, <3>2
  <2>2. ASSUME NEW r \in Reader
        PROVE  /\ reader[r].phase \in {"idle", "default", "tree", "file"}
               /\ reader[r].ref \in Branch \cup {None, Head_}
               /\ reader[r].content \in 0..Len(commits)
               /\ Done(r) => (reader[r].content # 0 <=> reader[r].error = None)
    <3>1. ReadOK(reader[r]) /\ reader[r] \in Read
      BY DEF ReadsInv, ReadersOK
    <3>2. reader[r].content \in 0..Len(commits)
      BY <3>1 DEF ReadOK, ContentOK, Known, ReadsInv, HistoryOK, Read
    <3> QED
      BY <3>1, <3>2 DEF Read, Ref, ReadOK, PhaseOK, Done
  <2> QED
    BY <2>1, <2>2 DEF ReadsTypeOK, ReadsInv, TipsOK
<1>2. ReadsInv => TreeIsOfItsRef
  <2> SUFFICES ASSUME ReadsInv, NEW r \in Reader, HoldsTree(r)
               PROVE  /\ FilePaths(reader[r].tree.entries)
                           = {NameOf(reader[r].kind, f) : f \in FilesOf(reader[r].tree.commit)}
                      /\ Behind(reader[r].tree.ref, reader[r].tree.commit)
    BY DEF TreeIsOfItsRef, Behind
  <2>1. TreeOK(reader[r])
    BY DEF ReadsInv, ReadersOK, ReadOK, HoldsTree
  <2> QED
    BY <2>1, ListedEntries DEF TreeOK
<1>3. ReadsInv => ReadsFollowTheTree
  BY DEF ReadsInv, ReadersOK, ReadOK, ContentOK, ReadsFollowTheTree, HoldsTree, Behind
<1> QED
  BY <1>1, <1>2, <1>3, ReadsInvTheorem, PTL DEF ReadsFollowTheRef

\* RepositoryPort.listFiles, getTree and readFile: what was listed as a file, and is
\* no submodule, no link out of the repository on the server and no name that git
\* quotes or the local adapter trims, is read as it was listed while its ref stays
\* where it is.
THEOREM ListedTheorem == ReadsSpec => ListedCanBeRead
<1> DEFINE Excepted(me) == \/ me.file.path \in Misnamed(me.kind, me.tree.commit) \cup Submodule
                           \/ me.kind = "github" /\ me.file.path \in Outside
           Step == \A r \in Reader :
                     LET me == reader[r]
                         c == me.tree.commit
                     IN (HearFile(r) /\ Undisturbed(r) /\ me.file.type = "file") =>
                          \/ me.file.path \in Misnamed(me.kind, c) \cup Submodule
                          \/ me.kind = "github" /\ me.file.path \in Outside
                          \/ /\ reader'[r].error = None
                             /\ reader'[r].content = commits[c].files[me.file.path]
<1>1. ASSUME ReadsInv, NEW r \in Reader, HearFile(r), Undisturbed(r), reader[r].file.type = "file",
             ~Excepted(reader[r])
      PROVE  /\ reader'[r].error = None
             /\ reader'[r].content = commits[reader[r].tree.commit].files[reader[r].file.path]
  <2> DEFINE me == reader[r]
             c == Resolve(me.ref)
             q == [me EXCEPT !.phase = "idle", !.content = commits[c].files[me.file.path]]
  <2>1. /\ me \in Read /\ TreeOK(me) /\ me.ref = me.tree.ref /\ me.file \in me.tree.entries
        /\ me.error = None
    BY <1>1 DEF ReadsInv, ReadersOK, ReadOK, PhaseOK, HearFile, Undisturbed, HoldsTree
  <2>2. c = me.tree.commit /\ c # 0
    BY <1>1, <2>1 DEF Undisturbed, TreeOK, Known
  <2>3. me.file.path \in {NameOf(me.kind, f) : f \in FilesOf(c)}
    <3> DEFINE entries == Listed(me.kind, c)
    <3>1. me.file \in entries
      BY <2>1, <2>2 DEF TreeOK
    <3>2. me.file.path \in FilePaths(entries)
      BY <1>1, <3>1 DEF FilePaths
    <3> HIDE DEF entries, me, c
    <3> QED
      BY <3>2, ListedEntries DEF entries
  <2>4. me.file.path \in FilesOf(c)
    BY <1>1, <2>2, <2>3 DEF Misnamed, NameOf
  <2>5. me.file.path \in WithContent(me.kind)
    <3>1. me.kind \in {"local", "github"}
      BY <2>1 DEF Read
    <3>2. me.file.path \in File
      BY <2>4 DEF FilesOf
    <3> HIDE DEF c
    <3> QED
      BY <1>1, <3>1, <3>2 DEF WithContent
  <2>6. reader' = [reader EXCEPT ![r] = q]
    BY <1>1, <2>2, <2>4, <2>5 DEF HearFile, Update
  <2>7. q.error = None /\ q.content = commits[c].files[me.file.path]
    BY <2>1 DEF Read
  <2> HIDE DEF q
  <2> QED
    BY <1>1, <2>2, <2>6, <2>7 DEF ReadsInv, ReadersOK
<1>2. ReadsInv /\ [ReadsNext]_readVars => [Step]_readVars
  BY <1>1
<1> HIDE DEF Step
<1>3. ReadsSpec => [][Step]_readVars
  BY <1>2, ReadsInvTheorem, PTL DEF ReadsSpec
<1> QED
  BY <1>3 DEF Step, ListedCanBeRead

-----------------------------------------------------------------------------
(* Sessions of the AIQUAA client *)

Ops == {"none", "save", "rules"}
Answer == {"none", "noToken", "unreachable", "refused", "notJson", "ok"}

Request == [phase : {"idle", "sent", "settled"}, op : Ops,
            token : Passed, bearer : Passed,
            arrived : BOOLEAN, accepted : BOOLEAN, answer : Answer]

\* A call settles with its answer; one that left has a bearer, and only the server
\* answers with anything but a failure.
AnswerOK(q) ==
  /\ q.phase = "settled" <=> q.answer # "none"
  /\ q.phase = "idle" => ~q.arrived
  /\ q.arrived => q.bearer \in Token
  /\ q.accepted => q.arrived
  /\ q.answer \in {"ok", "notJson"} => q.accepted
  /\ q.answer = "noToken" => q.bearer \notin Token
  /\ (q.phase = "settled" /\ q.bearer \in Token /\ ~q.arrived)
       => q.answer \in {"unreachable", "refused"}

BearerOK(q) ==
  q.phase # "idle" => q.bearer = IF q.token # Missing THEN q.token ELSE configured

Good(q) == q \in Request /\ AnswerOK(q) /\ BearerOK(q)

CallsOK == call \in [CallId -> Request] /\ \A c \in CallId : Good(call[c])

TokensOK == configured \in Passed /\ defaultToken = configured

\* Calls of a session are made one after the other.
InTurn ==
  \A c \in CallId : call[c].phase # "idle" =>
    \A n \in 1..(c[2] - 1) : call[<<c[1], n>>].phase = "settled"

\* What is stored are saves that arrived, each once; a save that succeeded is.
StoredOK ==
  /\ stored \in Seq(CallId) /\ twin \in Seq(CallId)
  /\ \A i \in DOMAIN stored : call[stored[i]].arrived /\ call[stored[i]].op = "save"
  /\ \A i, j \in DOMAIN stored : stored[i] = stored[j] => i = j
  /\ \A c \in CallId : (call[c].op = "save" /\ call[c].accepted) => Holds(stored, c)

LateOK == OnlyLostComesLate

IInv == TokensOK /\ CallsOK /\ InTurn /\ StoredOK /\ LateOK

-----------------------------------------------------------------------------
(* Lemmas *)

\* A call is its session and its number, and so are those before it.
LEMMA CallIds ==
  ASSUME NEW c \in CallId
  PROVE  /\ c[1] \in Session /\ c[2] \in Nat \ {0} /\ c = <<c[1], c[2]>>
         /\ \A n \in 1..(c[2] - 1) : <<c[1], n>> \in CallId /\ <<c[1], n>> # c
<1>1. PICK s \in Session : c \in {s} \X (1..Calls[s])
  BY DEF CallId
<1>2. Calls[s] \in Nat
  BY <1>1, ClientAssumption
<1>3. c[1] = s /\ c[2] \in 1..Calls[s] /\ c = <<c[1], c[2]>>
  BY <1>1
<1>4. ASSUME NEW n \in 1..(c[2] - 1) PROVE <<c[1], n>> \in CallId /\ <<c[1], n>> # c
  <2>1. n \in 1..Calls[s] /\ n # c[2]
    BY <1>2, <1>3
  <2>2. <<c[1], n>> \in {s} \X (1..Calls[s])
    BY <1>3, <2>1
  <2> QED
    BY <1>3, <2>1, <2>2 DEF CallId
<1> QED
  BY <1>1, <1>2, <1>3, <1>4

\* A step of call c that makes it q keeps what is said of each call and of their order.
LEMMA OneCall ==
  ASSUME IInv, NEW c \in CallId, NEW q, Good(q), q.phase # "idle",
         call' = [call EXCEPT ![c] = q], UNCHANGED <<configured, defaultToken>>,
         call[c].phase = "settled" => q.phase = "settled",
         call[c].phase = "idle" => \A n \in 1..(c[2] - 1) : call[<<c[1], n>>].phase = "settled"
  PROVE  /\ TokensOK' /\ CallsOK' /\ InTurn'
         /\ call'[c] = q /\ \A d \in CallId \ {c} : call'[d] = call[d]
<1>1. call'[c] = q /\ \A d \in CallId \ {c} : call'[d] = call[d]
  BY DEF IInv, CallsOK
<1>2. TokensOK'
  BY DEF IInv, TokensOK
<1>3. CallsOK'
  <2>1. call' \in [CallId -> Request]
    BY DEF IInv, CallsOK, Good
  <2>2. ASSUME NEW d \in CallId PROVE Good(call[d])'
    <3>1. Good(q)' /\ Good(call[d])
      BY DEF Good, BearerOK, IInv, CallsOK
    <3> QED
      BY <1>1, <3>1 DEF Good, BearerOK
  <2> QED
    BY <2>1, <2>2 DEF CallsOK
<1>4. InTurn'
  <2> SUFFICES ASSUME NEW d \in CallId, call'[d].phase # "idle", NEW n \in 1..(d[2] - 1)
               PROVE  call'[<<d[1], n>>].phase = "settled"
    BY DEF InTurn
  <2>1. <<d[1], n>> \in CallId
    BY CallIds
  <2>2. call[<<d[1], n>>].phase = "settled"
    BY <1>1 DEF IInv, InTurn
  <2> QED
    BY <1>1, <2>1, <2>2
<1> QED
  BY <1>1, <1>2, <1>3, <1>4

\* It keeps what is said of the server as well when the server does not hear of it.
LEMMA ServerUntouched ==
  ASSUME IInv, NEW c \in CallId, NEW q,
         call'[c] = q, \A d \in CallId \ {c} : call'[d] = call[d],
         UNCHANGED stored, twin' \in Seq(CallId),
         call[c].arrived => q.arrived /\ q.op = call[c].op,
         call[c].answer # "none" => q.answer = call[c].answer,
         q.op = "save" /\ q.accepted => Holds(stored, c)
  PROVE  StoredOK' /\ LateOK'
<1>1. stored \in Seq(CallId) /\ \A i \in DOMAIN stored : stored[i] \in CallId
  BY DEF IInv, StoredOK
<1>2. \A i \in DOMAIN stored : call'[stored[i]].arrived /\ call'[stored[i]].op = "save"
  BY <1>1 DEF IInv, StoredOK
<1>3. \A d \in CallId :
        call'[d].op = "save" /\ call'[d].accepted => Holds(stored, d)
  BY DEF IInv, StoredOK
<1>4. StoredOK'
  BY <1>1, <1>2, <1>3 DEF IInv, StoredOK, Holds
<1>5. LateOK'
  <2> SUFFICES ASSUME NEW i \in DOMAIN stored, NEW j \in DOMAIN stored,
                      stored[i][1] = stored[j][1], stored[j][2] < stored[i][2], i < j
               PROVE  call'[stored[j]].answer \in {"unreachable", "refused"}
    BY DEF LateOK, OnlyLostComesLate
  <2>1. call[stored[j]].answer \in {"unreachable", "refused"}
    BY DEF IInv, LateOK, OnlyLostComesLate
  <2> QED
    BY <1>1, <2>1
<1> QED
  BY <1>4, <1>5

-----------------------------------------------------------------------------
(* Every action *)

LEMMA InitGood == Init => IInv
<1> SUFFICES ASSUME Init PROVE IInv
  OBVIOUS
<1>1. TokensOK
  BY DEF Init, TokensOK
<1>2. Good(Fresh)
  BY ClientAssumption DEF Good, Fresh, Request, Passed, Ops, Answer, AnswerOK, BearerOK
<1>3. CallsOK /\ InTurn
  BY <1>2 DEF Init, CallsOK, InTurn, Good, Fresh
<1>4. StoredOK
  BY DEF Init, StoredOK, Fresh
<1>5. LateOK
  BY DEF Init, LateOK, OnlyLostComesLate
<1> QED
  BY <1>1, <1>3, <1>4, <1>5 DEF IInv

\* Issue: the token is resolved before anything is sent.
LEMMA IssueGood ==
  ASSUME IInv, NEW c \in CallId, NEW op \in {"save", "rules"}, NEW token \in Passed,
         Issue(c, op, token)
  PROVE  IInv'
<1> DEFINE bearer == ResolveToken(token)
           request == [Fresh EXCEPT !.op = op, !.token = token, !.bearer = bearer]
           q == IF request.bearer \notin Token
                THEN [request EXCEPT !.phase = "settled", !.answer = "noToken"]
                ELSE Fetched(request)
<1>1. call[c].phase = "idle" /\ \A n \in 1..(c[2] - 1) : call[<<c[1], n>>].phase = "settled"
  BY DEF Issue, Idle, Settled
<1>2. configured \in Passed /\ defaultToken = configured
  BY DEF IInv, TokensOK
<1>3. bearer \in Passed /\ bearer = IF token # Missing THEN token ELSE configured
  BY <1>2 DEF ResolveToken
<1>4. call' = [call EXCEPT ![c] = q]
  BY DEF Issue
<1>5. UNCHANGED <<configured, defaultToken, stored>>
  BY DEF Issue, DefaultAfter
<1>6. /\ q.phase = IF bearer \notin Token THEN "settled" ELSE "sent"
      /\ q.answer = IF bearer \notin Token THEN "noToken" ELSE "none"
      /\ q.op = op /\ q.token = token /\ q.bearer = bearer
      /\ q.arrived = FALSE /\ q.accepted = FALSE /\ q \in Request
  <2> HIDE DEF bearer
  <2>1. Fresh \in Request
    BY ClientAssumption DEF Fresh, Request, Passed, Ops, Answer
  <2>2. /\ request.phase = "idle" /\ request.answer = "none" /\ request.op = op
        /\ request.token = token /\ request.bearer = bearer
        /\ request.arrived = FALSE /\ request.accepted = FALSE
    BY DEF Fresh
  <2>3. request \in Request
    BY <2>1, <1>3 DEF Request, Ops
  <2> HIDE DEF request
  <2>4. CASE bearer \notin Token
    BY <2>2, <2>3, <2>4 DEF Request, Answer
  <2>5. CASE bearer \in Token
    BY <2>2, <2>3, <2>5 DEF Request, Fetched
  <2> QED
    BY <2>4, <2>5
<1>7. twin' \in Seq(CallId)
  BY DEF Issue, SavedInMemory, IInv, StoredOK
<1>8. call[c].answer = "none" /\ ~call[c].arrived
  BY <1>1 DEF IInv, CallsOK, Good, AnswerOK, Request
<1> HIDE DEF q, request, bearer
<1>9. Good(q) /\ q.phase # "idle" /\ ~q.accepted
  BY <1>3, <1>6 DEF Good, AnswerOK, BearerOK
<1>10. /\ TokensOK' /\ CallsOK' /\ InTurn'
       /\ call'[c] = q /\ \A d \in CallId \ {c} : call'[d] = call[d]
  BY <1>1, <1>4, <1>5, <1>9, OneCall
<1>11. StoredOK' /\ LateOK'
  BY <1>5, <1>7, <1>8, <1>9, <1>10, ServerUntouched
<1> QED
  BY <1>10, <1>11 DEF IInv

\* A call that settles, with an answer that agrees with the server, keeps the
\* invariant.
LEMMA SettlingGood ==
  ASSUME IInv, NEW c \in CallId, NEW answer \in Answer \ {"none", "noToken"},
         call[c].phase = "sent",
         call' = [call EXCEPT ![c].phase = "settled", ![c].answer = answer],
         UNCHANGED <<configured, defaultToken, stored, twin>>,
         call[c].arrived \/ answer \in {"unreachable", "refused"},
         answer \in {"ok", "notJson"} => call[c].accepted
  PROVE  IInv'
<1> DEFINE q == [call[c] EXCEPT !.phase = "settled", !.answer = answer]
<1>1. Good(call[c]) /\ call[c] \in Request
  BY DEF IInv, CallsOK, Good
<1>2. /\ q.phase = "settled" /\ q.answer = answer /\ q.op = call[c].op
      /\ q.arrived = call[c].arrived /\ q.accepted = call[c].accepted /\ q.bearer = call[c].bearer /\ q.token = call[c].token
  BY <1>1 DEF Request
<1>3. q \in Request
  BY <1>1 DEF Request
<1>4. call' = [call EXCEPT ![c] = q]
  BY DEF IInv, CallsOK
<1> HIDE DEF q
<1>5. Good(q)
  BY <1>1, <1>2, <1>3 DEF Good, AnswerOK, BearerOK
<1>6. /\ TokensOK' /\ CallsOK' /\ InTurn'
      /\ call'[c] = q /\ \A d \in CallId \ {c} : call'[d] = call[d]
  BY <1>2, <1>4, <1>5, OneCall
<1>7. call[c].answer = "none"
  BY <1>1 DEF Good, AnswerOK
<1>8. q.op = "save" /\ q.accepted => Holds(stored, c)
  BY <1>2 DEF IInv, StoredOK
<1>9. twin' \in Seq(CallId)
  BY DEF IInv, StoredOK
<1>10. StoredOK' /\ LateOK'
  BY <1>2, <1>6, <1>7, <1>8, <1>9, ServerUntouched
<1> QED
  BY <1>6, <1>10 DEF IInv

LEMMA UnreachableGood ==
  ASSUME IInv, NEW c \in CallId, Unreachable(c)
  PROVE  IInv'
<1> PICK answer : answer = "unreachable"
  OBVIOUS
<1>1. answer \in Answer \ {"none", "noToken"} /\ answer \in {"unreachable", "refused"}
      /\ answer \notin {"ok", "notJson"}
  BY DEF Answer
<1>2. /\ call[c].phase = "sent"
      /\ call' = [call EXCEPT ![c].phase = "settled", ![c].answer = answer]
      /\ UNCHANGED <<configured, defaultToken, stored, twin>>
  BY DEF Unreachable
<1> QED
  BY <1>1, <1>2, SettlingGood

\* A reply is a failure, or what the server made of a request it accepted.
LEMMA HearGood ==
  ASSUME IInv, NEW c \in CallId, NEW reply \in {"empty", "list", "page", "html", "error"},
         Hear(c, reply)
  PROVE  IInv'
<1> DEFINE answer == AnswerTo(reply)
<1>1. call[c].accepted => call[c].arrived
  BY DEF IInv, CallsOK, Good, AnswerOK
<1>2. reply # "error" => call[c].accepted
  BY DEF Hear, Replies
<1>3. /\ answer \in Answer \ {"none", "noToken"}
      /\ reply = "error" => answer = "refused"
  BY DEF AnswerTo, Answer
<1> HIDE DEF answer
<1>4. call' = [call EXCEPT ![c].phase = "settled", ![c].answer = answer]
  BY DEF Hear, answer
<1> QED
  BY <1>1, <1>2, <1>3, <1>4, SettlingGood DEF Hear

\* An arrival stores a save that is not stored yet, after everything that is; only
\* if its caller gave up on it can a later call of the session be there before it.
LEMMA ArriveGood ==
  ASSUME IInv, NEW c \in CallId, NEW accepted \in BOOLEAN, Arrive(c, accepted)
  PROVE  IInv'
<1> DEFINE q == [call[c] EXCEPT !.arrived = TRUE, !.accepted = accepted]
           kept == accepted /\ call[c].op = "save"
<1>1. Good(call[c]) /\ call[c] \in Request
  BY DEF IInv, CallsOK, Good
<1>2. call[c].bearer \in Token /\ ~call[c].arrived /\ call[c].phase # "idle"
  BY DEF Arrive, Idle
<1>4. /\ q.phase = call[c].phase /\ q.answer = call[c].answer /\ q.op = call[c].op
      /\ q.accepted = accepted /\ q.arrived = TRUE /\ q.bearer = call[c].bearer /\ q.token = call[c].token
  BY <1>1 DEF Request
<1>5. q \in Request
  BY <1>1 DEF Request
<1>6. call' = [call EXCEPT ![c] = q]
  BY DEF Arrive, IInv, CallsOK
<1>7. stored' = (IF kept THEN Append(stored, c) ELSE stored)
      /\ UNCHANGED <<configured, defaultToken, twin>>
  BY DEF Arrive, IsSave
<1>8. /\ call[c].phase = "settled" => call[c].answer \in {"unreachable", "refused"}
      /\ call[c].answer # "ok"
  BY <1>1, <1>2 DEF Good, AnswerOK
<1> HIDE DEF q, kept
<1>9. Good(q)
  BY <1>1, <1>2, <1>4, <1>5, <1>8 DEF Good, AnswerOK, BearerOK
<1>10. /\ TokensOK' /\ CallsOK' /\ InTurn'
       /\ call'[c] = q /\ \A d \in CallId \ {c} : call'[d] = call[d]
  BY <1>2, <1>4, <1>6, <1>7, <1>9, OneCall
<1>11. CASE ~kept
  <2>1. ~(q.op = "save" /\ q.accepted)
    BY <1>4, <1>11 DEF kept
  <2>2. twin' \in Seq(CallId)
    BY <1>7 DEF IInv, StoredOK
  <2>3. StoredOK' /\ LateOK'
    BY <1>2, <1>4, <1>7, <1>10, <1>11, <2>1, <2>2, ServerUntouched
  <2> QED
    BY <1>10, <2>3 DEF IInv
<1>12. CASE kept
  <2> DEFINE last == Len(stored) + 1
  <2>1. stored \in Seq(CallId) /\ twin \in Seq(CallId)
    BY DEF IInv, StoredOK
  <2>2. /\ stored' \in Seq(CallId) /\ DOMAIN stored' = 1..last /\ stored'[last] = c
        /\ last \in Nat /\ \A i \in DOMAIN stored : i \in 1..(last - 1) /\ stored'[i] = stored[i]
        /\ \A i \in 1..last : i # last => i \in DOMAIN stored
    BY <1>7, <1>12, <2>1
  <2>3. \A i \in DOMAIN stored : stored[i] \in CallId \ {c} /\ call[stored[i]].arrived
                                /\ call[stored[i]].op = "save"
    BY <1>2, <2>1 DEF IInv, StoredOK
  <2>4. \A d \in CallId : Holds(stored, d) \/ d = c => Holds(stored', d)
    BY <2>1, <2>2 DEF Holds
  <2> HIDE DEF last
  <2>5. \A i \in DOMAIN stored' : call'[stored'[i]].arrived /\ call'[stored'[i]].op = "save"
    <3> SUFFICES ASSUME NEW i \in 1..last PROVE call'[stored'[i]].arrived /\ call'[stored'[i]].op = "save"
      BY <2>2
    <3>1. CASE i = last
      BY <3>1, <2>2, <1>4, <1>10, <1>12 DEF kept
    <3>2. CASE i # last
      BY <3>2, <2>2, <2>3, <1>10
    <3> QED
      BY <3>1, <3>2
  <2>6. \A i, j \in DOMAIN stored' : stored'[i] = stored'[j] => i = j
    BY <2>2, <2>3 DEF IInv, StoredOK
  <2>7. \A d \in CallId :
          call'[d].op = "save" /\ call'[d].accepted => Holds(stored', d)
    BY <1>10, <2>4 DEF IInv, StoredOK
  <2>8. StoredOK'
    BY <1>7, <2>1, <2>2, <2>5, <2>6, <2>7 DEF StoredOK
  <2>9. LateOK'
    <3> SUFFICES ASSUME NEW i \in DOMAIN stored', NEW j \in DOMAIN stored',
                        stored'[i][1] = stored'[j][1], stored'[j][2] < stored'[i][2], i < j
                 PROVE  call'[stored'[j]].answer \in {"unreachable", "refused"}
      BY DEF LateOK, OnlyLostComesLate
    <3>1. i \in DOMAIN stored /\ stored'[i] = stored[i]
      BY <2>2
    <3>2. CASE j # last
      BY <3>1, <3>2, <2>2, <2>3, <1>10 DEF IInv, LateOK, OnlyLostComesLate
    <3>3. CASE j = last
      <4> DEFINE d == stored[i]
      <4>1. d \in CallId /\ call[d].phase # "idle" /\ stored'[j] = c
        BY <3>1, <3>3, <2>2, <2>3 DEF IInv, CallsOK, Good, AnswerOK
      <4>2. c[2] \in Nat /\ c[2] \in 1..(d[2] - 1) /\ c = <<d[1], c[2]>>
        <5>1. c[2] \in Nat \ {0} /\ c = <<c[1], c[2]>> /\ d[2] \in Nat
          BY <4>1, CallIds
        <5>2. d[1] = c[1] /\ c[2] < d[2]
          BY <3>1, <4>1
        <5> QED
          BY <5>1, <5>2
      <4>3. call[c].phase = "settled"
        BY <4>1, <4>2 DEF IInv, InTurn
      <4> QED
        BY <1>4, <1>8, <1>10, <4>1, <4>3
    <3> QED
      BY <3>2, <3>3
  <2> QED
    BY <1>10, <2>8, <2>9 DEF IInv
<1> QED
  BY <1>11, <1>12

LEMMA Invariance == Spec => []IInv
<1>1. IInv /\ [Next]_vars => IInv'
  <2> SUFFICES ASSUME IInv, [Next]_vars PROVE IInv'
    OBVIOUS
  <2>1. CASE UNCHANGED vars
    BY <2>1 DEF vars, IInv, TokensOK, CallsOK, Good, BearerOK, InTurn, StoredOK, Holds, LateOK, OnlyLostComesLate
  <2>2. CASE Next
    BY <2>2, IssueGood, UnreachableGood, HearGood, ArriveGood DEF Next
  <2> QED
    BY <2>1, <2>2
<1> QED
  BY <1>1, InitGood, PTL DEF Spec

-----------------------------------------------------------------------------
(* Theorems *)

\* HttpAiquaaAdapter: a call without a token reaches nobody, and a call is over
\* exactly when it has an answer.
THEOREM TypeCorrect == Spec => []TypeOK
<1>1. IInv => TypeOK
  BY DEF IInv, CallsOK, Good, AnswerOK, StoredOK, TypeOK, Settled
<1> QED
  BY <1>1, Invariance, PTL

\* HttpAiquaaAdapter.resolveToken: no call ever bears the token another brought.
THEOREM OwnBearerTheorem == Spec => []OwnBearer
<1>1. IInv => OwnBearer
  BY DEF IInv, CallsOK, Good, BearerOK, OwnBearer, Idle
<1> QED
  BY <1>1, Invariance, PTL

\* saveCoverage, saveExecution, linkPullRequest: what succeeded is stored, once.
THEOREM SavesTheorem == Spec => []SavesAreStored
<1>1. IInv => SavesAreStored
  <2> SUFFICES ASSUME IInv, NEW c \in CallId, call[c].op = "save"
               PROVE  /\ \A i, j \in DOMAIN stored : stored[i] = c /\ stored[j] = c => i = j
                      /\ call[c].answer = "ok" => \E i \in DOMAIN stored : stored[i] = c
                      /\ call[c].answer = "noToken" => \A i \in DOMAIN stored : stored[i] # c
    BY DEF SavesAreStored, IsSave, Ok
  <2>1. /\ call[c].answer = "noToken" => ~call[c].arrived
        /\ call[c].answer = "ok" => call[c].accepted
    BY DEF IInv, CallsOK, Good, AnswerOK
  <2> QED
    BY <2>1 DEF IInv, StoredOK, Holds
<1> QED
  BY <1>1, Invariance, PTL

\* fetchJson: only a call that its caller was told had failed is stored after later
\* calls.
THEOREM LateTheorem == Spec => []OnlyLostComesLate
<1>1. IInv => OnlyLostComesLate
  BY DEF IInv, LateOK
<1> QED
  BY <1>1, Invariance, PTL

\* The server holds what the sessions saved, once each and in the order of their
\* calls but for the late arrivals, however many sessions share the adapter.
THEOREM SavesInOrderTheorem == Spec => []SavesInOrder
<1>1. SavesAreStored /\ OnlyLostComesLate => SavesInOrder
  BY DEF SavesInOrder
<1> QED
  BY <1>1, SavesTheorem, LateTheorem, PTL

-----------------------------------------------------------------------------
(* The in-memory adapter beside it *)

\* It was handed exactly the saves that were made, a session's in the order of its calls.
TwinOK ==
  /\ twin \in Seq(CallId)
  /\ \A c \in CallId : call[c].phase = "idle" => call[c].op = "none"
  /\ \A c \in CallId : Holds(twin, c) <=> call[c].op = "save"
  /\ \A i, j \in DOMAIN twin : i < j /\ twin[i][1] = twin[j][1] => twin[i][2] < twin[j][2]

\* Only Issue hands it something, and a session's earlier calls have settled by then.
LEMMA IssueTwin ==
  ASSUME IInv, TwinOK, NEW c \in CallId, NEW op \in {"save", "rules"},
         NEW token \in Passed, Issue(c, op, token)
  PROVE  TwinOK'
<1>1. call[c].phase = "idle" /\ call[c].op = "none" /\ call \in [CallId -> Request]
  BY DEF Issue, Idle, TwinOK, IInv, CallsOK
<1>2. call'[c].op = op /\ call'[c].phase # "idle" /\ \A d \in CallId \ {c} : call'[d] = call[d]
  <2> DEFINE request == [Fresh EXCEPT !.op = op, !.token = token, !.bearer = ResolveToken(token)]
             q == IF request.bearer \notin Token
                  THEN [request EXCEPT !.phase = "settled", !.answer = "noToken"]
                  ELSE Fetched(request)
  <2>1. q.op = op /\ q.phase # "idle"
    BY DEF Fresh, Fetched
  <2>2. call' = [call EXCEPT ![c] = q]
    BY DEF Issue
  <2> HIDE DEF q
  <2> QED
    BY <1>1, <2>1, <2>2
<1>3. ~Holds(twin, c) /\ twin \in Seq(CallId)
  BY <1>1 DEF TwinOK
<1>4. CASE op = "rules"
  BY <1>2, <1>3, <1>4 DEF Issue, SavedInMemory, TwinOK, Holds
<1>5. CASE op = "save"
  <2> DEFINE last == Len(twin) + 1
  <2>1. /\ twin' \in Seq(CallId) /\ DOMAIN twin' = 1..last /\ twin'[last] = c /\ last \in Nat
        /\ \A i \in DOMAIN twin : i \in 1..last /\ twin'[i] = twin[i]
        /\ \A i \in 1..last : i # last => i \in DOMAIN twin
        /\ last \in 1..last /\ \A i \in 1..last : ~(last < i)
    BY <1>3, <1>5 DEF Issue, SavedInMemory
  <2> HIDE DEF last
  <2>2. \A d \in CallId : Holds(twin', d) <=> Holds(twin, d) \/ d = c
    <3> TAKE d \in CallId
    <3>1. ASSUME Holds(twin, d) \/ d = c PROVE Holds(twin', d)
      BY <2>1, <3>1 DEF Holds
    <3>2. ASSUME Holds(twin', d) PROVE Holds(twin, d) \/ d = c
      BY <2>1, <3>2 DEF Holds
    <3> QED
      BY <3>1, <3>2
  <2>3. ASSUME NEW i \in DOMAIN twin', NEW j \in DOMAIN twin', i < j, twin'[i][1] = twin'[j][1]
        PROVE  twin'[i][2] < twin'[j][2]
    <3>1. i \in DOMAIN twin /\ twin'[i] = twin[i]
      BY <2>1, <2>3
    <3>2. CASE j # last
      BY <3>1, <3>2, <2>1, <2>3 DEF TwinOK
    <3>3. CASE j = last
      <4> DEFINE d == twin[i]
      <4>1. d \in CallId /\ call[d].op = "save" /\ d[1] = c[1]
        BY <3>1, <3>3, <1>3, <2>1, <2>3 DEF TwinOK, Holds
      <4> HIDE DEF d
      <4>2. call[d].phase # "idle"
        BY <4>1 DEF TwinOK
      <4>3. /\ c[2] \in Nat \ {0} /\ d[2] \in Nat \ {0} /\ c = <<c[1], c[2]>> /\ d = <<d[1], d[2]>>
        BY <4>1, CallIds
      <4>4. c # d /\ c[2] # d[2]
        BY <1>1, <4>1, <4>2, <4>3
      <4>5. ~(c[2] < d[2])
        <5> SUFFICES ASSUME c[2] < d[2] PROVE FALSE
          OBVIOUS
        <5>1. c[2] \in 1..(d[2] - 1)
          BY <4>3
        <5>2. call[<<d[1], c[2]>>].phase = "settled"
          BY <4>1, <4>2, <5>1 DEF IInv, InTurn
        <5> QED
          BY <1>1, <4>1, <4>3, <5>2
      <4> QED
        BY <3>1, <3>3, <2>1, <4>3, <4>4, <4>5 DEF d
    <3> QED
      BY <3>2, <3>3
  <2>4. \A d \in CallId : call'[d].op = "save" <=> call[d].op = "save" \/ d = c
    BY <1>2, <1>5
  <2>5. \A d \in CallId : call'[d].phase = "idle" => call'[d].op = "none"
    BY <1>2 DEF TwinOK
  <2> QED
    BY <2>1, <2>2, <2>3, <2>4, <2>5 DEF TwinOK
<1> QED
  BY <1>4, <1>5

LEMMA NextTwin == IInv /\ TwinOK /\ [Next]_vars => TwinOK'
<1> SUFFICES ASSUME IInv, TwinOK, [Next]_vars PROVE TwinOK'
  OBVIOUS
<1>1. CASE UNCHANGED vars
  BY <1>1 DEF vars, TwinOK, Holds
<1>2. ASSUME NEW c \in CallId, Unreachable(c) \/
             (\E accepted \in BOOLEAN : Arrive(c, accepted)) \/
             (\E reply \in {"empty", "list", "page", "html", "error"} : Hear(c, reply))
      PROVE  TwinOK'
  <2>1. UNCHANGED twin /\ call[c].phase # "idle" /\ call \in [CallId -> Request]
    BY <1>2 DEF Unreachable, Hear, Arrive, Idle, IInv, CallsOK
  <2>2. /\ call'[c].op = call[c].op /\ call'[c].phase # "idle"
        /\ \A d \in CallId \ {c} : call'[d] = call[d]
    BY <1>2, <2>1 DEF Unreachable, Hear, Arrive, Request
  <2> QED
    BY <2>1, <2>2 DEF TwinOK, Holds
<1> QED
  BY <1>1, <1>2, IssueTwin DEF Next

\* Of two stored saves of a session that both succeeded the earlier was stored first.
LEMMA InOrder ==
  ASSUME IInv, NEW i \in DOMAIN stored, NEW j \in DOMAIN stored, i < j,
         stored[i][1] = stored[j][1], call[stored[j]].answer = "ok"
  PROVE  stored[i][2] < stored[j][2]
<1>1. stored[i] \in CallId /\ stored[j] \in CallId
  BY DEF IInv, StoredOK
<1>2. stored[i] # stored[j]
  BY DEF IInv, StoredOK
<1>3. ~(stored[j][2] < stored[i][2])
  BY DEF IInv, LateOK, OnlyLostComesLate
<1> QED
  BY <1>1, <1>2, <1>3, CallIds

\* InMemoryAiquaaAdapter: while nothing fails it holds the saves that the server holds,
\* each session's in the same order.
THEOREM SameTheorem == Spec => []SameAsInMemory
<1>1. Init => TwinOK
  BY DEF Init, TwinOK, Holds, Fresh
<1>2. ASSUME IInv, TwinOK, \A c \in CallId : call[c].phase = "idle" \/ call[c].answer = "ok",
             NEW c \in CallId, NEW d \in CallId
      PROVE  /\ Holds(stored, c) <=> Holds(twin, c)
             /\ c[1] = d[1] => (Before(stored, c, d) <=> Before(twin, c, d))
  <2>0. \A e \in CallId : call[e].answer = "ok" => call[e].accepted
    BY <1>2 DEF IInv, CallsOK, Good, AnswerOK
  <2>1. \A e \in CallId : Holds(stored, e) <=> Holds(twin, e)
    BY <1>2, <2>0 DEF IInv, StoredOK, TwinOK, Holds
  <2>2. \A e \in CallId : Holds(stored, e) => call[e].answer = "ok"
    BY <1>2 DEF IInv, StoredOK, CallsOK, Good, AnswerOK, Holds
  <2>3. c[2] \in Nat /\ d[2] \in Nat
    BY CallIds
  <2>4. /\ \A i, j \in DOMAIN stored : i \in Nat /\ j \in Nat
        /\ \A i, j \in DOMAIN twin : i \in Nat /\ j \in Nat
    BY <1>2 DEF IInv, StoredOK, TwinOK
  <2>5. ASSUME c[1] = d[1], Before(stored, c, d)
        PROVE  Before(twin, c, d)
    <3>1. PICK i, j \in DOMAIN stored : i < j /\ stored[i] = c /\ stored[j] = d
      BY <2>5 DEF Before
    <3>2. c[2] < d[2]
      BY <1>2, <2>2, <2>5, <3>1, InOrder DEF Holds
    <3>3. PICK k, l \in DOMAIN twin : twin[k] = c /\ twin[l] = d
      BY <2>1, <3>1 DEF Holds
    <3>4. k # l /\ ~(l < k)
      BY <1>2, <2>3, <2>5, <3>2, <3>3 DEF TwinOK
    <3> QED
      BY <2>4, <3>3, <3>4 DEF Before
  <2>6. ASSUME c[1] = d[1], Before(twin, c, d)
        PROVE  Before(stored, c, d)
    <3>1. PICK k, l \in DOMAIN twin : k < l /\ twin[k] = c /\ twin[l] = d
      BY <2>6 DEF Before
    <3>2. c[2] < d[2]
      BY <1>2, <2>6, <3>1 DEF TwinOK
    <3>3. PICK i, j \in DOMAIN stored : stored[i] = c /\ stored[j] = d
      BY <2>1, <3>1 DEF Holds
    <3>4. i # j
      BY <2>3, <3>2, <3>3
    <3>5. ASSUME j < i PROVE FALSE
      <4>1. d[2] < c[2]
        BY <1>2, <2>2, <2>6, <3>3, <3>5, InOrder DEF Holds
      <4> QED
        BY <2>3, <3>2, <4>1
    <3> QED
      BY <2>4, <3>3, <3>4, <3>5 DEF Before
  <2> QED
    BY <2>1, <2>5, <2>6
<1>3. IInv /\ TwinOK => SameAsInMemory
  BY <1>2 DEF SameAsInMemory, Idle, Ok
<1> QED
  BY <1>1, <1>3, NextTwin, Invariance, PTL DEF Spec

-----------------------------------------------------------------------------
(* Graphs merged *)

LinkRecord ==
  [from : EntityType \X Id, to : EntityType \X Id, relation : Relation,
   sourceReferences : SUBSET Note]

Keys(g) == {Key(l) : l \in Links(g)}
NoKeyTwice(g) == \A j, k \in DOMAIN g : Key(g[j]) = Key(g[k]) => j = k

\* n links have been looked at.
MergedUpTo(v, all, links, n) ==
  /\ links \in Seq(LinkRecord) /\ NoKeyTwice(links)
  /\ \A x : x \in Keys(links) <=> \E j \in 1..n : x = Key(all[j])
  /\ n <= Len(v) => Len(links) = n
  /\ \A i \in 1..Len(v) : i <= n => i <= Len(links) /\ links[i] = v[i]

LEMMA MergeOne ==
  ASSUME NEW v \in Seq(LinkRecord), NEW all \in Seq(LinkRecord), NoKeyTwice(v),
         \A i \in 1..Len(v) : i <= Len(all) /\ all[i] = v[i],
         NEW n \in Nat, n + 1 \in 1..Len(all), NEW links, MergedUpTo(v, all, links, n)
  PROVE  MergedUpTo(v, all,
                    IF \E k \in DOMAIN links : Key(links[k]) = Key(all[n + 1])
                    THEN links ELSE Append(links, all[n + 1]), n + 1)
<1> DEFINE l == all[n + 1]
           next == Append(links, l)
<1>1. links \in Seq(LinkRecord) /\ l \in LinkRecord /\ Len(links) \in Nat
      /\ DOMAIN links = 1..Len(links) /\ 1..(n + 1) = (1..n) \cup {n + 1}
  BY DEF MergedUpTo
<1>2. \A x : x \in Keys(links) <=> \E k \in DOMAIN links : x = Key(links[k])
  BY DEF Keys, Links, ToSet
<1>3. CASE \E k \in DOMAIN links : Key(links[k]) = Key(l)
  <2>1. \A x : x \in Keys(links) <=> \E j \in 1..(n + 1) : x = Key(all[j])
    BY <1>1, <1>2, <1>3 DEF MergedUpTo
  <2>2. ASSUME n + 1 <= Len(v) PROVE FALSE
    <3>1. PICK k \in 1..n : Key(all[k]) = Key(l)
      BY <1>2, <1>3 DEF MergedUpTo
    <3>2. all[k] = v[k] /\ l = v[n + 1] /\ k \in DOMAIN v /\ n + 1 \in DOMAIN v /\ k # n + 1
      BY <2>2
    <3> QED
      BY <3>1, <3>2 DEF NoKeyTwice
  <2>3. \A i \in 1..Len(v) : i <= n + 1 => i <= n
    BY <2>2
  <2> HIDE DEF l
  <2> QED
    BY <1>3, <2>1, <2>2, <2>3 DEF MergedUpTo, l
<1>4. CASE \A k \in DOMAIN links : Key(links[k]) # Key(l)
  <2>1. /\ next \in Seq(LinkRecord) /\ Len(next) = Len(links) + 1
        /\ DOMAIN next = (DOMAIN links) \cup {Len(links) + 1} /\ Len(links) + 1 \notin DOMAIN links
        /\ next[Len(links) + 1] = l
        /\ \A k \in DOMAIN links : next[k] = links[k]
    BY <1>1
  <2> HIDE DEF next, l
  <2>2. NoKeyTwice(next)
    BY <1>4, <2>1 DEF MergedUpTo, NoKeyTwice
  <2>3. \A x : x \in Keys(next) <=> x \in Keys(links) \/ x = Key(l)
    BY <1>2, <2>1 DEF Keys, Links, ToSet
  <2>4. \A x : x \in Keys(next) <=> \E j \in 1..(n + 1) : x = Key(all[j])
    BY <1>1, <2>3 DEF MergedUpTo, l
  <2>5. n + 1 <= Len(v) => Len(next) = n + 1
    BY <2>1 DEF MergedUpTo
  <2>6. ASSUME NEW i \in 1..Len(v), i <= n + 1
        PROVE  i <= Len(next) /\ next[i] = v[i]
    <3>1. CASE i <= n
      <4>1. i <= Len(links) /\ links[i] = v[i]
        BY <3>1 DEF MergedUpTo
      <4>2. i \in DOMAIN links /\ i <= Len(links) + 1
        BY <1>1, <4>1
      <4> QED
        BY <2>1, <4>1, <4>2
    <3>2. CASE i = n + 1
      <4>1. Len(links) = n /\ l = v[i]
        BY <3>2 DEF MergedUpTo, l
      <4> QED
        BY <2>1, <3>2, <4>1
    <3> QED
      BY <2>6, <3>1, <3>2
  <2>7. MergedUpTo(v, all, next, n + 1)
    BY <2>1, <2>2, <2>4, <2>5, <2>6 DEF MergedUpTo
  <2> QED
    BY <1>4, <2>7 DEF next, l
<1> HIDE DEF l, next
<1> QED
  BY <1>3, <1>4 DEF l
\* A link that a viewer has stays where it is, and of the rest the first of each key
\* comes after it.
LEMMA Merged ==
  ASSUME NEW v \in Seq(LinkRecord), NEW g \in Seq(LinkRecord), NoKeyTwice(v)
  PROVE  /\ Merge(<<v, g>>) \in Seq(LinkRecord) /\ NoKeyTwice(Merge(<<v, g>>))
         /\ Keys(Merge(<<v, g>>)) = Keys(v) \cup Keys(g)
         /\ IsPrefix(v, Merge(<<v, g>>))
<1> DEFINE all == FlattenSeq(<<v, g>>)
           One(links, l) == IF \E k \in DOMAIN links : Key(links[k]) = Key(l)
                            THEN links ELSE Append(links, l)
           Body(f) == [n \in 0..Len(all) |-> IF n = 0 THEN <<>> ELSE One(f[n - 1], all[n])]
           G == [x \in Nat \X Seq(LinkRecord) |->
                   IF x[1] + 1 \in 1..Len(all) THEN One(x[2], all[x[1] + 1]) ELSE x[2]]
           kept == CHOOSE f : f = Body(f)
<1>1. all = v \o g
  BY JoinedPair
<1>2. /\ all \in Seq(LinkRecord) /\ Len(all) \in Nat /\ Len(all) = Len(v) + Len(g)
      /\ Len(v) \in Nat /\ Len(g) \in Nat /\ ToSet(all) = ToSet(v) \cup ToSet(g)
  <2> HIDE DEF all
  <2> QED
    BY <1>1, JoinedElements
<1>3. \A i \in 1..Len(v) : i <= Len(all) /\ all[i] = v[i]
  <2> HIDE DEF all
  <2> QED
    BY <1>1, <1>2
<1> HIDE DEF all
<1>4. Merge(<<v, g>>) = kept[Len(all)]
  BY DEF Merge, all
<1>5. kept = Body(kept)
  <2>1. G \in [Nat \X Seq(LinkRecord) -> Seq(LinkRecord)]
    BY <1>2
  <2> HIDE DEF G
  <2>2. <<>> \in Seq(LinkRecord)
    OBVIOUS
  <2>3. PICK h : h \in Recursion(Seq(LinkRecord), <<>>, G)
    BY <2>1, <2>2, NatRecursion
  <2>4. h \in [Nat -> Seq(LinkRecord)] /\ h[0] = <<>> /\ \A n \in Nat : h[n + 1] = G[<<n, h[n]>>]
    BY <2>3 DEF Recursion
  <2> DEFINE f == [n \in 0..Len(all) |-> h[n]]
  <2>5. ASSUME NEW n \in 0..Len(all), n # 0 PROVE h[n] = One(h[n - 1], all[n])
    <3>1. n - 1 \in Nat /\ (n - 1) + 1 = n /\ n \in 1..Len(all) /\ h[n - 1] \in Seq(LinkRecord)
      BY <1>2, <2>4, <2>5
    <3>2. h[n] = G[<<n - 1, h[n - 1]>>]
      BY <2>4, <3>1
    <3>3. G[<<n - 1, h[n - 1]>>] = One(h[n - 1], all[n])
      <4> HIDE DEF One
      <4> QED
        BY <3>1 DEF G
    <3> QED
      BY <3>2, <3>3
  <2> HIDE DEF One
  <2>6. f = Body(f)
    <3>1. \A n \in 0..Len(all) : n # 0 => n - 1 \in 0..Len(all)
      BY <1>2
    <3> QED
      BY <2>4, <2>5, <3>1
  <2> HIDE DEF f, Body
  <2> QED
    BY <2>6
<1> HIDE DEF kept
<1>6. kept[0] = <<>> /\ \A n \in 1..Len(all) : kept[n] = One(kept[n - 1], all[n])
  <2> HIDE DEF One
  <2> QED
    BY <1>2, <1>5
<1> DEFINE H == {n \in Nat : n <= Len(all) => MergedUpTo(v, all, kept[n], n)}
<1>7. 0 \in H
  <2>1. <<>> \in Seq(LinkRecord) /\ DOMAIN <<>> = {} /\ Len(<<>>) = 0 /\ 1..0 = {}
    OBVIOUS
  <2>2. NoKeyTwice(<<>>) /\ Keys(<<>>) = {}
    BY <2>1 DEF NoKeyTwice, Keys, Links, ToSet
  <2>3. 0 <= Len(v) /\ \A i \in 1..Len(v) : ~(i <= 0)
    BY <1>2
  <2>4. MergedUpTo(v, all, <<>>, 0)
    BY <2>1, <2>2, <2>3 DEF MergedUpTo
  <2>5. kept[0] = <<>>
    BY <1>6
  <2> QED
    BY <2>4, <2>5
<1>8. ASSUME NEW n \in Nat, n \in H PROVE n + 1 \in H
  <2>1. SUFFICES ASSUME n + 1 <= Len(all) PROVE MergedUpTo(v, all, kept[n + 1], n + 1)
    OBVIOUS
  <2>2. n + 1 \in 1..Len(all) /\ (n + 1) - 1 = n /\ n <= Len(all)
    BY <1>2, <2>1
  <2>3. MergedUpTo(v, all, kept[n], n)
    BY <1>8, <2>2
  <2>4. kept[n + 1] = One(kept[n], all[n + 1])
    <3> HIDE DEF One
    <3> QED
      BY <1>6, <2>2
  <2>5. MergedUpTo(v, all, One(kept[n], all[n + 1]), n + 1)
    BY <1>2, <1>3, <2>2, <2>3, MergeOne
  <2> HIDE DEF One
  <2> QED
    BY <2>4, <2>5
<1> HIDE DEF H
<1>9. Nat \subseteq H
  BY <1>7, <1>8, Everywhere
<1> DEFINE merged == kept[Len(all)]
<1>10. MergedUpTo(v, all, merged, Len(all))
  BY <1>2, <1>9 DEF H
<1> HIDE DEF merged
<1>11. Keys(merged) = Keys(v) \cup Keys(g)
  <2>1. \A x : x \in Keys(merged) <=> \E l \in ToSet(all) : x = Key(l)
    <3>1. \A x : x \in Keys(merged) <=> \E j \in 1..Len(all) : x = Key(all[j])
      BY <1>10 DEF MergedUpTo
    <3>2. DOMAIN all = 1..Len(all)
      BY <1>2
    <3> QED
      BY <3>1, <3>2 DEF ToSet
  <2> QED
    BY <1>2, <2>1 DEF Keys, Links
<1>12. IsPrefix(v, merged)
  <2>1. merged \in Seq(LinkRecord) /\ Len(merged) \in Nat
    BY <1>10 DEF MergedUpTo
  <2>2. \A i \in 1..Len(v) : i <= Len(merged) /\ merged[i] = v[i]
    BY <1>2, <1>10 DEF MergedUpTo
  <2>3. Len(v) <= Len(merged)
    BY <1>2, <2>1, <2>2
  <2>4. SubSeq(v, 1, Len(v)) = SubSeq(merged, 1, Len(v))
    BY <1>2, <2>1, <2>2, <2>3
  <2> QED
    BY <2>3, <2>4 DEF IsPrefix
<1> QED
  BY <1>4, <1>10, <1>11, <1>12 DEF MergedUpTo, merged
-----------------------------------------------------------------------------
(* Graphs built: which links an entity draws *)

RequirementRecord == [id : Id, acceptanceCriteria : Seq(Id), businessRuleIds : Seq(Id)]
ScenarioRecord ==
  [id : Id, requirementIds : Seq(Id), acceptanceCriterionIds : Seq(Id), businessRuleIds : Seq(Id)]
ArtifactRecord == [id : Id, scenarioIds : Seq(Id)]
ExecutionRecord == [id : Id, scenarioId : Id, artifactId : Id \cup {Unset}]
EvidenceRecord == [id : Id, relatedEntityType : EntityType, relatedEntityId : Id]

RequirementDraws(q, x) ==
  \/ \E c \in ToSet(q.acceptanceCriteria) :
       x = << <<"acceptance_criterion", c>>, "derived_from", <<"requirement", q.id>> >>
  \/ \E b \in ToSet(q.businessRuleIds) :
       x = << <<"requirement", q.id>>, "depends_on", <<"business_rule", b>> >>

ScenarioDraws(s, x) ==
  \/ \E q \in ToSet(s.requirementIds) :
       x = << <<"test_scenario", s.id>>, "verifies", <<"requirement", q>> >>
  \/ \E c \in ToSet(s.acceptanceCriterionIds) :
       x = << <<"test_scenario", s.id>>, "verifies", <<"acceptance_criterion", c>> >>
  \/ \E b \in ToSet(s.businessRuleIds) :
       x = << <<"test_scenario", s.id>>, "covers", <<"business_rule", b>> >>

ArtifactDraws(a, x) ==
  \E s \in ToSet(a.scenarioIds) :
    x = << <<"automation_artifact", a.id>>, "implements", <<"test_scenario", s>> >>

ExecutionDraws(e, x) ==
  \/ x = << <<"execution_result", e.id>>, "verifies", <<"test_scenario", e.scenarioId>> >>
  \/ /\ e.artifactId # Unset
     /\ x = << <<"execution_result", e.id>>, "executed_by",
               <<"automation_artifact", e.artifactId>> >>

EvidenceDraws(v, x) ==
  /\ v.relatedEntityType = "execution_result"
  /\ x = << <<"execution_result", v.relatedEntityId>>, "produced", <<"evidence", v.id>> >>

Draws(input, x) ==
  \/ \E q \in ToSet(input.requirements) : RequirementDraws(q, x)
  \/ \E s \in ToSet(input.scenarios) : ScenarioDraws(s, x)
  \/ \E a \in ToSet(input.artifacts) : ArtifactDraws(a, x)
  \/ \E e \in ToSet(input.executionResults) : ExecutionDraws(e, x)
  \/ \E v \in ToSet(input.evidence) : EvidenceDraws(v, x)

LEMMA KeysJoined ==
  ASSUME NEW g \in Seq(LinkRecord), NEW h \in Seq(LinkRecord)
  PROVE  g \o h \in Seq(LinkRecord) /\ Keys(g \o h) = Keys(g) \cup Keys(h)
<1>1. g \o h \in Seq(LinkRecord) /\ ToSet(g \o h) = ToSet(g) \cup ToSet(h)
  BY JoinedElements
<1> QED
  BY <1>1 DEF Keys, Links

LEMMA LinkTyped ==
  ASSUME NEW from \in EntityType \X Id, NEW to \in EntityType \X Id, NEW relation \in Relation
  PROVE  Link(from, to, relation) \in LinkRecord
         /\ Key(Link(from, to, relation)) = <<from, relation, to>>
BY DEF Link, LinkRecord, Key

FanDraws(from, type, ids, relation) == {<<from, relation, <<type, i>> >> : i \in ToSet(ids)}

LEMMA FanKeys ==
  ASSUME NEW from \in EntityType \X Id, NEW type \in EntityType, NEW ids \in Seq(Id),
         NEW relation \in Relation
  PROVE  /\ Fan(from, type, ids, relation) \in Seq(LinkRecord)
         /\ Keys(Fan(from, type, ids, relation)) = FanDraws(from, type, ids, relation)
<1> DEFINE fan == [k \in DOMAIN ids |-> Link(from, <<type, ids[k]>>, relation)]
<1>1. \A k \in DOMAIN ids : /\ Link(from, <<type, ids[k]>>, relation) \in LinkRecord
                            /\ Key(fan[k]) = <<from, relation, <<type, ids[k]>> >>
  BY LinkTyped
<1>2. fan \in [DOMAIN ids -> LinkRecord] /\ DOMAIN ids = 1..Len(ids) /\ Len(ids) \in Nat
  BY <1>1
<1>3. Fan(from, type, ids, relation) = fan
  BY DEF Fan
<1> HIDE DEF fan
<1>4. fan \in Seq(LinkRecord)
  BY <1>2
<1>5. \A x : x \in Keys(fan) <=> \E k \in DOMAIN ids : x = <<from, relation, <<type, ids[k]>> >>
  BY <1>1, <1>2 DEF Keys, Links, ToSet
<1> QED
  BY <1>3, <1>4, <1>5 DEF ToSet, FanDraws

\* A list of lists has the keys of each of them.
LEMMA KeysFlattened ==
  ASSUME NEW n \in Nat, NEW graphs \in [1..n -> Seq(LinkRecord)]
  PROVE  /\ FlattenSeq(graphs) \in Seq(LinkRecord)
         /\ \A x : x \in Keys(FlattenSeq(graphs)) <=> \E k \in 1..n : x \in Keys(graphs[k])
<1>1. /\ FlattenSeq(graphs) \in Seq(LinkRecord)
      /\ \A l : l \in ToSet(FlattenSeq(graphs)) <=> \E k \in 1..n : l \in ToSet(graphs[k])
  BY FlattenedElements
<1> QED
  BY <1>1 DEF Keys, Links

LEMMA KeysOfEach ==
  ASSUME NEW S, NEW list \in Seq(S), NEW f \in [S -> Seq(LinkRecord)],
         NEW graphs \in [DOMAIN list -> Seq(LinkRecord)],
         \A k \in DOMAIN list : graphs[k] = f[list[k]]
  PROVE  /\ FlattenSeq(graphs) \in Seq(LinkRecord)
         /\ \A x : x \in Keys(FlattenSeq(graphs)) <=> \E e \in ToSet(list) : x \in Keys(f[e])
<1> PICK n \in Nat : n = Len(list) /\ DOMAIN list = 1..n
  OBVIOUS
<1>1. /\ FlattenSeq(graphs) \in Seq(LinkRecord)
      /\ \A x : x \in Keys(FlattenSeq(graphs)) <=> \E k \in 1..n : x \in Keys(graphs[k])
  <2>1. graphs \in [1..n -> Seq(LinkRecord)]
    OBVIOUS
  <2> QED
    BY <2>1, KeysFlattened
<1>2. ToSet(list) = {list[k] : k \in 1..n}
  BY DEF ToSet
<1>3. \A k \in 1..n : graphs[k] = f[list[k]]
  OBVIOUS
<1>4. ASSUME NEW x PROVE (\E k \in 1..n : x \in Keys(graphs[k])) <=> \E e \in ToSet(list) : x \in Keys(f[e])
  <2> HIDE DEF Keys
  <2>1. (\E k \in 1..n : x \in Keys(graphs[k])) <=> \E k \in 1..n : x \in Keys(f[list[k]])
    BY <1>3
  <2>2. (\E k \in 1..n : x \in Keys(f[list[k]])) <=> \E e \in ToSet(list) : x \in Keys(f[e])
    BY <1>2
  <2> QED
    BY <2>1, <2>2
<1> QED
  BY <1>1, <1>4

LEMMA RequirementKeys ==
  ASSUME NEW q \in RequirementRecord
  PROVE  /\ RequirementLinks(q) \in Seq(LinkRecord)
         /\ \A x : x \in Keys(RequirementLinks(q)) <=> RequirementDraws(q, x)
<1> PICK ids \in Seq(Id), rules \in Seq(Id) : ids = q.acceptanceCriteria /\ rules = q.businessRuleIds
  BY DEF RequirementRecord
<1> DEFINE end == <<"requirement", q.id>>
           up == [k \in DOMAIN ids |-> Link(<<"acceptance_criterion", ids[k]>>, end, "derived_from")]
           down == Fan(end, "business_rule", rules, "depends_on")
<1>0. /\ end \in EntityType \X Id /\ "depends_on" \in Relation /\ "derived_from" \in Relation
      /\ "business_rule" \in EntityType /\ "acceptance_criterion" \in EntityType
  BY DEF EntityType, Relation, RequirementRecord
<1> HIDE DEF end
<1>1. \A k \in DOMAIN ids :
        /\ up[k] \in LinkRecord
        /\ Key(up[k]) = << <<"acceptance_criterion", ids[k]>>, "derived_from", end>>
  <2> TAKE k \in DOMAIN ids
  <2>1. <<"acceptance_criterion", ids[k]>> \in EntityType \X Id
    BY <1>0
  <2> QED
    BY <1>0, <2>1, LinkTyped
<1>2. DOMAIN ids = 1..Len(ids) /\ Len(ids) \in Nat /\ up = [k \in DOMAIN ids |-> up[k]]
  OBVIOUS
<1>3. down \in Seq(LinkRecord) /\ Keys(down) = FanDraws(end, "business_rule", rules, "depends_on")
  BY <1>0, FanKeys
<1>4. RequirementLinks(q) = up \o down
  BY DEF RequirementLinks, end
<1> HIDE DEF up, down
<1>5. up \in [1..Len(ids) -> LinkRecord]
  BY <1>1, <1>2
<1>6. up \in Seq(LinkRecord) /\ DOMAIN up = DOMAIN ids
  BY <1>2, <1>5
<1>7. \A x : x \in Keys(up)
              <=> \E c \in ToSet(ids) : x = << <<"acceptance_criterion", c>>, "derived_from", end>>
  BY <1>1, <1>6 DEF Keys, Links, ToSet
<1>8. Keys(up \o down) = Keys(up) \cup Keys(down) /\ up \o down \in Seq(LinkRecord)
  BY <1>3, <1>6, KeysJoined
<1> QED
  BY <1>3, <1>4, <1>7, <1>8 DEF RequirementDraws, FanDraws, end

LEMMA ScenarioKeys ==
  ASSUME NEW s \in ScenarioRecord
  PROVE  /\ ScenarioLinks(s) \in Seq(LinkRecord)
         /\ \A x : x \in Keys(ScenarioLinks(s)) <=> ScenarioDraws(s, x)
<1> DEFINE end == <<"test_scenario", s.id>>
           qs == Fan(end, "requirement", s.requirementIds, "verifies")
           cs == Fan(end, "acceptance_criterion", s.acceptanceCriterionIds, "verifies")
           bs == Fan(end, "business_rule", s.businessRuleIds, "covers")
<1>0. /\ end \in EntityType \X Id /\ "verifies" \in Relation /\ "covers" \in Relation
      /\ "requirement" \in EntityType /\ "acceptance_criterion" \in EntityType
      /\ "business_rule" \in EntityType /\ s.requirementIds \in Seq(Id)
      /\ s.acceptanceCriterionIds \in Seq(Id) /\ s.businessRuleIds \in Seq(Id)
  BY DEF EntityType, Relation, ScenarioRecord
<1>1. ScenarioLinks(s) = qs \o cs \o bs
  BY DEF ScenarioLinks
<1> HIDE DEF end
<1>2. qs \in Seq(LinkRecord) /\ Keys(qs) = FanDraws(end, "requirement", s.requirementIds, "verifies")
  BY <1>0, FanKeys
<1>3. cs \in Seq(LinkRecord) /\ Keys(cs) = FanDraws(end, "acceptance_criterion", s.acceptanceCriterionIds, "verifies")
  BY <1>0, FanKeys
<1>4. bs \in Seq(LinkRecord) /\ Keys(bs) = FanDraws(end, "business_rule", s.businessRuleIds, "covers")
  BY <1>0, FanKeys
<1> HIDE DEF qs, cs, bs
<1>5. qs \o cs \in Seq(LinkRecord) /\ Keys(qs \o cs) = Keys(qs) \cup Keys(cs)
  BY <1>2, <1>3, KeysJoined
<1>6. /\ qs \o cs \o bs \in Seq(LinkRecord)
      /\ Keys(qs \o cs \o bs) = Keys(qs) \cup Keys(cs) \cup Keys(bs)
  BY <1>4, <1>5, KeysJoined
<1> QED
  BY <1>1, <1>2, <1>3, <1>4, <1>6 DEF ScenarioDraws, FanDraws, end

LEMMA ArtifactKeys ==
  ASSUME NEW a \in ArtifactRecord
  PROVE  /\ ArtifactLinks(a) \in Seq(LinkRecord)
         /\ \A x : x \in Keys(ArtifactLinks(a)) <=> ArtifactDraws(a, x)
<1> PICK end : end = <<"automation_artifact", a.id>>
  OBVIOUS
<1>1. /\ end \in EntityType \X Id /\ "implements" \in Relation /\ "test_scenario" \in EntityType
      /\ a.scenarioIds \in Seq(Id)
  BY DEF EntityType, Relation, ArtifactRecord
<1>2. ArtifactLinks(a) = Fan(end, "test_scenario", a.scenarioIds, "implements")
  BY DEF ArtifactLinks
<1> QED
  BY <1>1, <1>2, FanKeys DEF ArtifactDraws, FanDraws

LEMMA ExecutionKeys ==
  ASSUME NEW e \in ExecutionRecord
  PROVE  /\ ExecutionLinks(e) \in Seq(LinkRecord)
         /\ \A x : x \in Keys(ExecutionLinks(e)) <=> ExecutionDraws(e, x)
<1>1. PICK of \in Seq(Id) : of = <<e.scenarioId>> /\ ToSet(of) = {e.scenarioId}
  <2>1. <<e.scenarioId>> \in Seq(Id) /\ ToSet(<<e.scenarioId>>) = {e.scenarioId}
    BY DEF ExecutionRecord, ToSet
  <2> QED
    BY <2>1
<1>2. PICK by \in Seq(Id) : /\ by = IF e.artifactId = Unset THEN <<>> ELSE <<e.artifactId>>
                          /\ ToSet(by) = {e.artifactId} \ {Unset}
  <2>1. CASE e.artifactId = Unset
    <3>1. <<>> \in Seq(Id) /\ ToSet(<<>>) = {}
      BY DEF ToSet
    <3> QED
      BY <2>1, <3>1
  <2>2. CASE e.artifactId # Unset
    <3>1. <<e.artifactId>> \in Seq(Id) /\ ToSet(<<e.artifactId>>) = {e.artifactId}
      BY <2>2 DEF ExecutionRecord, ToSet
    <3> QED
      BY <2>2, <3>1
  <2> QED
    BY <2>1, <2>2
<1>3. PICK end : end = <<"execution_result", e.id>>
  OBVIOUS
<1>4. /\ end \in EntityType \X Id /\ "verifies" \in Relation /\ "executed_by" \in Relation
      /\ "test_scenario" \in EntityType /\ "automation_artifact" \in EntityType
      /\ of \in Seq(Id) /\ by \in Seq(Id)
  BY <1>1, <1>2, <1>3 DEF EntityType, Relation, ExecutionRecord
<1> DEFINE ran == Fan(end, "test_scenario", of, "verifies")
           used == Fan(end, "automation_artifact", by, "executed_by")
<1>5. ExecutionLinks(e) = ran \o used
  BY <1>1, <1>2, <1>3 DEF ExecutionLinks
<1>6. ran \in Seq(LinkRecord) /\ Keys(ran) = FanDraws(end, "test_scenario", of, "verifies")
  BY <1>4, FanKeys
<1>7. used \in Seq(LinkRecord) /\ Keys(used) = FanDraws(end, "automation_artifact", by, "executed_by")
  BY <1>4, FanKeys
<1> HIDE DEF ran, used
<1>8. ran \o used \in Seq(LinkRecord) /\ Keys(ran \o used) = Keys(ran) \cup Keys(used)
  BY <1>6, <1>7, KeysJoined
<1>9. /\ Keys(ran) = { <<end, "verifies", <<"test_scenario", e.scenarioId>> >> }
      /\ \A x : x \in Keys(used) <=> /\ e.artifactId # Unset
                                     /\ x = <<end, "executed_by", <<"automation_artifact", e.artifactId>> >>
  <2>1. ToSet(of) = {e.scenarioId} /\ ToSet(by) = {e.artifactId} \ {Unset}
    BY <1>1, <1>2
  <2>2. Keys(ran) = { <<end, "verifies", <<"test_scenario", i>> >> : i \in {e.scenarioId}}
    BY <1>6, <2>1 DEF FanDraws
  <2>3. Keys(used) = { <<end, "executed_by", <<"automation_artifact", i>> >> : i \in {e.artifactId} \ {Unset}}
    BY <1>7, <2>1 DEF FanDraws
  <2> QED
    BY <2>2, <2>3
<1> QED
  BY <1>5, <1>8, <1>9, <1>3 DEF ExecutionDraws

LEMMA EvidenceKeys ==
  ASSUME NEW v \in EvidenceRecord
  PROVE  /\ EvidenceLinks(v) \in Seq(LinkRecord)
         /\ \A x : x \in Keys(EvidenceLinks(v)) <=> EvidenceDraws(v, x)
<1>1. CASE v.relatedEntityType = "execution_result"
  <2>1. PICK end : end = <<"execution_result", v.relatedEntityId>>
    OBVIOUS
  <2>2. PICK of \in Seq(Id) : of = <<v.id>> /\ ToSet(of) = {v.id}
    <3>1. <<v.id>> \in Seq(Id) /\ ToSet(<<v.id>>) = {v.id}
      BY DEF EvidenceRecord, ToSet
    <3> QED
      BY <3>1
  <2>3. end \in EntityType \X Id /\ "produced" \in Relation /\ "evidence" \in EntityType
        /\ of \in Seq(Id)
    BY <2>1, <2>2 DEF EntityType, Relation, EvidenceRecord
  <2>4. EvidenceLinks(v) = Fan(end, "evidence", of, "produced")
    BY <1>1, <2>1, <2>2 DEF EvidenceLinks
  <2>5. /\ EvidenceLinks(v) \in Seq(LinkRecord)
        /\ Keys(EvidenceLinks(v)) = FanDraws(end, "evidence", of, "produced")
    BY <2>3, <2>4, FanKeys
  <2> QED
    BY <1>1, <2>5, <2>1, <2>2 DEF EvidenceDraws, FanDraws
<1>2. CASE v.relatedEntityType # "execution_result"
  <2>1. EvidenceLinks(v) = <<>> /\ <<>> \in Seq(LinkRecord)
    BY <1>2 DEF EvidenceLinks
  <2>2. Keys(<<>>) = {}
    BY DEF Keys, Links, ToSet
  <2> QED
    BY <1>2, <2>1, <2>2 DEF EvidenceDraws
<1> QED
  BY <1>1, <1>2
LEMMA EachRequirement ==
  ASSUME NEW list \in Seq(RequirementRecord)
  PROVE  /\ Each(list, RequirementLinks) \in Seq(LinkRecord)
         /\ \A x : x \in Keys(Each(list, RequirementLinks)) <=> \E q \in ToSet(list) : RequirementDraws(q, x)
<1> PICK f \in [RequirementRecord -> Seq(LinkRecord)] :
      \A q \in RequirementRecord : f[q] = RequirementLinks(q)
  <2>1. [q \in RequirementRecord |-> RequirementLinks(q)] \in [RequirementRecord -> Seq(LinkRecord)]
    BY RequirementKeys
  <2> QED
    BY <2>1
<1>2. PICK graphs : graphs = [k \in DOMAIN list |-> f[list[k]]]
  OBVIOUS
<1>1. \A k \in DOMAIN list : list[k] \in RequirementRecord /\ f[list[k]] = RequirementLinks(list[k])
  OBVIOUS
<1>3. graphs = [k \in DOMAIN list |-> RequirementLinks(list[k])]
  BY <1>1, <1>2
<1>4. Each(list, RequirementLinks) = FlattenSeq(graphs)
  BY <1>3 DEF Each
<1>5. graphs \in [DOMAIN list -> Seq(LinkRecord)] /\ \A k \in DOMAIN list : graphs[k] = f[list[k]]
  BY <1>1, <1>2
<1>6. /\ FlattenSeq(graphs) \in Seq(LinkRecord)
      /\ \A x : x \in Keys(FlattenSeq(graphs)) <=> \E e \in ToSet(list) : x \in Keys(f[e])
  BY <1>5, KeysOfEach
<1>7. \A e \in ToSet(list) : \A x : x \in Keys(f[e]) <=> RequirementDraws(e, x)
  BY <1>1, RequirementKeys DEF ToSet
<1> QED
  BY <1>4, <1>6, <1>7

LEMMA EachScenario ==
  ASSUME NEW list \in Seq(ScenarioRecord)
  PROVE  /\ Each(list, ScenarioLinks) \in Seq(LinkRecord)
         /\ \A x : x \in Keys(Each(list, ScenarioLinks)) <=> \E s \in ToSet(list) : ScenarioDraws(s, x)
<1> PICK f \in [ScenarioRecord -> Seq(LinkRecord)] :
      \A s \in ScenarioRecord : f[s] = ScenarioLinks(s)
  <2>1. [s \in ScenarioRecord |-> ScenarioLinks(s)] \in [ScenarioRecord -> Seq(LinkRecord)]
    BY ScenarioKeys
  <2> QED
    BY <2>1
<1>2. PICK graphs : graphs = [k \in DOMAIN list |-> f[list[k]]]
  OBVIOUS
<1>1. \A k \in DOMAIN list : list[k] \in ScenarioRecord /\ f[list[k]] = ScenarioLinks(list[k])
  OBVIOUS
<1>3. graphs = [k \in DOMAIN list |-> ScenarioLinks(list[k])]
  BY <1>1, <1>2
<1>4. Each(list, ScenarioLinks) = FlattenSeq(graphs)
  BY <1>3 DEF Each
<1>5. graphs \in [DOMAIN list -> Seq(LinkRecord)] /\ \A k \in DOMAIN list : graphs[k] = f[list[k]]
  BY <1>1, <1>2
<1>6. /\ FlattenSeq(graphs) \in Seq(LinkRecord)
      /\ \A x : x \in Keys(FlattenSeq(graphs)) <=> \E e \in ToSet(list) : x \in Keys(f[e])
  BY <1>5, KeysOfEach
<1>7. \A e \in ToSet(list) : \A x : x \in Keys(f[e]) <=> ScenarioDraws(e, x)
  BY <1>1, ScenarioKeys DEF ToSet
<1> QED
  BY <1>4, <1>6, <1>7

LEMMA EachArtifact ==
  ASSUME NEW list \in Seq(ArtifactRecord)
  PROVE  /\ Each(list, ArtifactLinks) \in Seq(LinkRecord)
         /\ \A x : x \in Keys(Each(list, ArtifactLinks)) <=> \E a \in ToSet(list) : ArtifactDraws(a, x)
<1> PICK f \in [ArtifactRecord -> Seq(LinkRecord)] :
      \A a \in ArtifactRecord : f[a] = ArtifactLinks(a)
  <2>1. [a \in ArtifactRecord |-> ArtifactLinks(a)] \in [ArtifactRecord -> Seq(LinkRecord)]
    BY ArtifactKeys
  <2> QED
    BY <2>1
<1>2. PICK graphs : graphs = [k \in DOMAIN list |-> f[list[k]]]
  OBVIOUS
<1>1. \A k \in DOMAIN list : list[k] \in ArtifactRecord /\ f[list[k]] = ArtifactLinks(list[k])
  OBVIOUS
<1>3. graphs = [k \in DOMAIN list |-> ArtifactLinks(list[k])]
  BY <1>1, <1>2
<1>4. Each(list, ArtifactLinks) = FlattenSeq(graphs)
  BY <1>3 DEF Each
<1>5. graphs \in [DOMAIN list -> Seq(LinkRecord)] /\ \A k \in DOMAIN list : graphs[k] = f[list[k]]
  BY <1>1, <1>2
<1>6. /\ FlattenSeq(graphs) \in Seq(LinkRecord)
      /\ \A x : x \in Keys(FlattenSeq(graphs)) <=> \E e \in ToSet(list) : x \in Keys(f[e])
  BY <1>5, KeysOfEach
<1>7. \A e \in ToSet(list) : \A x : x \in Keys(f[e]) <=> ArtifactDraws(e, x)
  BY <1>1, ArtifactKeys DEF ToSet
<1> QED
  BY <1>4, <1>6, <1>7

LEMMA EachExecution ==
  ASSUME NEW list \in Seq(ExecutionRecord)
  PROVE  /\ Each(list, ExecutionLinks) \in Seq(LinkRecord)
         /\ \A x : x \in Keys(Each(list, ExecutionLinks)) <=> \E e \in ToSet(list) : ExecutionDraws(e, x)
<1> PICK f \in [ExecutionRecord -> Seq(LinkRecord)] :
      \A e \in ExecutionRecord : f[e] = ExecutionLinks(e)
  <2>1. [e \in ExecutionRecord |-> ExecutionLinks(e)] \in [ExecutionRecord -> Seq(LinkRecord)]
    BY ExecutionKeys
  <2> QED
    BY <2>1
<1>2. PICK graphs : graphs = [k \in DOMAIN list |-> f[list[k]]]
  OBVIOUS
<1>1. \A k \in DOMAIN list : list[k] \in ExecutionRecord /\ f[list[k]] = ExecutionLinks(list[k])
  OBVIOUS
<1>3. graphs = [k \in DOMAIN list |-> ExecutionLinks(list[k])]
  BY <1>1, <1>2
<1>4. Each(list, ExecutionLinks) = FlattenSeq(graphs)
  BY <1>3 DEF Each
<1>5. graphs \in [DOMAIN list -> Seq(LinkRecord)] /\ \A k \in DOMAIN list : graphs[k] = f[list[k]]
  BY <1>1, <1>2
<1>6. /\ FlattenSeq(graphs) \in Seq(LinkRecord)
      /\ \A x : x \in Keys(FlattenSeq(graphs)) <=> \E e \in ToSet(list) : x \in Keys(f[e])
  BY <1>5, KeysOfEach
<1>7. \A e \in ToSet(list) : \A x : x \in Keys(f[e]) <=> ExecutionDraws(e, x)
  BY <1>1, ExecutionKeys DEF ToSet
<1> QED
  BY <1>4, <1>6, <1>7

LEMMA EachEvidence ==
  ASSUME NEW list \in Seq(EvidenceRecord)
  PROVE  /\ Each(list, EvidenceLinks) \in Seq(LinkRecord)
         /\ \A x : x \in Keys(Each(list, EvidenceLinks)) <=> \E v \in ToSet(list) : EvidenceDraws(v, x)
<1> PICK f \in [EvidenceRecord -> Seq(LinkRecord)] :
      \A v \in EvidenceRecord : f[v] = EvidenceLinks(v)
  <2>1. [v \in EvidenceRecord |-> EvidenceLinks(v)] \in [EvidenceRecord -> Seq(LinkRecord)]
    BY EvidenceKeys
  <2> QED
    BY <2>1
<1>2. PICK graphs : graphs = [k \in DOMAIN list |-> f[list[k]]]
  OBVIOUS
<1>1. \A k \in DOMAIN list : list[k] \in EvidenceRecord /\ f[list[k]] = EvidenceLinks(list[k])
  OBVIOUS
<1>3. graphs = [k \in DOMAIN list |-> EvidenceLinks(list[k])]
  BY <1>1, <1>2
<1>4. Each(list, EvidenceLinks) = FlattenSeq(graphs)
  BY <1>3 DEF Each
<1>5. graphs \in [DOMAIN list -> Seq(LinkRecord)] /\ \A k \in DOMAIN list : graphs[k] = f[list[k]]
  BY <1>1, <1>2
<1>6. /\ FlattenSeq(graphs) \in Seq(LinkRecord)
      /\ \A x : x \in Keys(FlattenSeq(graphs)) <=> \E e \in ToSet(list) : x \in Keys(f[e])
  BY <1>5, KeysOfEach
<1>7. \A e \in ToSet(list) : \A x : x \in Keys(f[e]) <=> EvidenceDraws(e, x)
  BY <1>1, EvidenceKeys DEF ToSet
<1> QED
  BY <1>4, <1>6, <1>7

\* The links of a graph are those that the entities of its input draw.
LEMMA Built ==
  ASSUME NEW input \in GraphInput
  PROVE  /\ Build(input) \in Seq(LinkRecord)
         /\ \A x : x \in Keys(Build(input)) <=> Draws(input, x)
<1> DEFINE qs == Each(input.requirements, RequirementLinks)
           ss == Each(input.scenarios, ScenarioLinks)
           as == Each(input.artifacts, ArtifactLinks)
           es == Each(input.executionResults, ExecutionLinks)
           vs == Each(input.evidence, EvidenceLinks)
<1>1. /\ input.requirements \in Seq(RequirementRecord) /\ input.scenarios \in Seq(ScenarioRecord)
      /\ input.artifacts \in Seq(ArtifactRecord) /\ input.executionResults \in Seq(ExecutionRecord)
      /\ input.evidence \in Seq(EvidenceRecord)
  BY DEF GraphInput, RequirementRecord, ScenarioRecord, ArtifactRecord, ExecutionRecord,
         EvidenceRecord
<1>2. /\ qs \in Seq(LinkRecord)
      /\ \A x : x \in Keys(qs) <=> \E q \in ToSet(input.requirements) : RequirementDraws(q, x)
  BY <1>1, EachRequirement
<1>3. /\ ss \in Seq(LinkRecord)
      /\ \A x : x \in Keys(ss) <=> \E s \in ToSet(input.scenarios) : ScenarioDraws(s, x)
  BY <1>1, EachScenario
<1>4. /\ as \in Seq(LinkRecord)
      /\ \A x : x \in Keys(as) <=> \E a \in ToSet(input.artifacts) : ArtifactDraws(a, x)
  BY <1>1, EachArtifact
<1>5. /\ es \in Seq(LinkRecord)
      /\ \A x : x \in Keys(es) <=> \E e \in ToSet(input.executionResults) : ExecutionDraws(e, x)
  BY <1>1, EachExecution
<1>6. /\ vs \in Seq(LinkRecord)
      /\ \A x : x \in Keys(vs) <=> \E v \in ToSet(input.evidence) : EvidenceDraws(v, x)
  BY <1>1, EachEvidence
<1>7. Build(input) = qs \o ss \o as \o es \o vs
  BY DEF Build
<1> HIDE DEF qs, ss, as, es, vs
<1>8. /\ qs \o ss \in Seq(LinkRecord) /\ Keys(qs \o ss) = Keys(qs) \cup Keys(ss)
  BY <1>2, <1>3, KeysJoined
<1>9. /\ qs \o ss \o as \in Seq(LinkRecord)
      /\ Keys(qs \o ss \o as) = Keys(qs \o ss) \cup Keys(as)
  BY <1>4, <1>8, KeysJoined
<1>10. /\ qs \o ss \o as \o es \in Seq(LinkRecord)
       /\ Keys(qs \o ss \o as \o es) = Keys(qs \o ss \o as) \cup Keys(es)
  BY <1>5, <1>9, KeysJoined
<1>11. /\ qs \o ss \o as \o es \o vs \in Seq(LinkRecord)
       /\ Keys(qs \o ss \o as \o es \o vs) = Keys(qs \o ss \o as \o es) \cup Keys(vs)
  BY <1>6, <1>10, KeysJoined
<1> QED
  BY <1>2, <1>3, <1>4, <1>5, <1>6, <1>7, <1>8, <1>9, <1>10, <1>11 DEF Draws

LEMMA AnnotatedKeys ==
  ASSUME NEW g \in Seq(LinkRecord), NEW note \in Note \cup {Unset}
  PROVE  Annotated(g, note) \in Seq(LinkRecord) /\ Keys(Annotated(g, note)) = Keys(g)
<1>1. CASE note = Unset
  BY <1>1 DEF Annotated
<1>2. CASE note # Unset
  <2> DEFINE h == [k \in DOMAIN g |-> [g[k] EXCEPT !.sourceReferences = {note}]]
  <2>1. \A l \in LinkRecord : LET m == [l EXCEPT !.sourceReferences = {note}]
                             IN m \in LinkRecord /\ Key(m) = Key(l)
    BY <1>2 DEF LinkRecord, Key
  <2>2. DOMAIN g = 1..Len(g) /\ Len(g) \in Nat /\ \A k \in DOMAIN g : g[k] \in LinkRecord
    OBVIOUS
  <2>3. \A k \in DOMAIN g : h[k] \in LinkRecord /\ Key(h[k]) = Key(g[k])
    BY <2>1, <2>2
  <2>4. DOMAIN h = DOMAIN g /\ h = [k \in DOMAIN g |-> h[k]]
    OBVIOUS
  <2>5. Annotated(g, note) = h
    BY <1>2 DEF Annotated
  <2> HIDE DEF h
  <2>6. h \in [1..Len(g) -> LinkRecord]
    BY <2>2, <2>3, <2>4
  <2>7. h \in Seq(LinkRecord)
    BY <2>2, <2>6
  <2>8. Keys(h) = Keys(g)
    BY <2>3, <2>4 DEF Keys, Links, ToSet
  <2> QED
    BY <2>5, <2>7, <2>8
<1> QED
  BY <1>1, <1>2
-----------------------------------------------------------------------------
(* What a viewer has *)

\* A viewer has the links that the entities it has received draw, each once.
TraceInv ==
  /\ \A p \in published : /\ p.input \in GraphInput /\ p.graph \in Seq(LinkRecord)
                          /\ \A x : x \in Keys(p.graph) <=> Draws(p.input, x)
  /\ received \in [Viewer -> SUBSET published]
  /\ view \in [Viewer -> Seq(LinkRecord)]
  /\ \A r \in Viewer :
       /\ NoKeyTwice(view[r])
       /\ \A x : x \in Keys(view[r]) <=> \E p \in received[r] : Draws(p.input, x)

LEMMA PublishKeeps ==
  ASSUME TraceInv, NEW input \in Input, NEW note \in Note \cup {Unset}, Publish(input, note)
  PROVE  TraceInv'
<1> DEFINE p == [input |-> input, graph |-> Annotated(Build(input), note)]
<1>1. /\ input \in GraphInput /\ p.graph \in Seq(LinkRecord)
      /\ \A x : x \in Keys(p.graph) <=> Draws(input, x)
  BY Built, AnnotatedKeys, TraceabilityAssumption
<1>2. published' = published \cup {p} /\ UNCHANGED <<received, view>> /\ p.input = input
  BY DEF Publish
<1> HIDE DEF p
<1>3. \A q \in published' : /\ q.input \in GraphInput /\ q.graph \in Seq(LinkRecord)
                            /\ \A x : x \in Keys(q.graph) <=> Draws(q.input, x)
  BY <1>1, <1>2 DEF TraceInv
<1> QED
  BY <1>2, <1>3 DEF TraceInv

\* What a viewer has grows at its end by what it lacked of the graph it receives.
LEMMA ReceiveKeeps ==
  ASSUME TraceInv, NEW r \in Viewer, NEW p \in published, Receive(r, p)
  PROVE  TraceInv' /\ IsPrefix(view[r], view'[r])
<1> PICK had \in Seq(LinkRecord), got \in Seq(LinkRecord) : had = view[r] /\ got = p.graph
  BY DEF TraceInv
<1> DEFINE has == Merge(<<had, got>>)
<1>1. /\ NoKeyTwice(had)
      /\ \A x : x \in Keys(had) <=> \E q \in received[r] : Draws(q.input, x)
      /\ \A x : x \in Keys(got) <=> Draws(p.input, x)
  BY DEF TraceInv
<1>2. has \in Seq(LinkRecord) /\ NoKeyTwice(has) /\ Keys(has) = Keys(had) \cup Keys(got)
      /\ IsPrefix(had, has)
  BY <1>1, Merged
<1>3. /\ received' = [received EXCEPT ![r] = @ \cup {p}] /\ view' = [view EXCEPT ![r] = has]
      /\ published' = published
  BY DEF Receive
<1> HIDE DEF has
<1>4. /\ received' \in [Viewer -> SUBSET published] /\ received'[r] = received[r] \cup {p}
      /\ view' \in [Viewer -> Seq(LinkRecord)] /\ view'[r] = has
      /\ \A q \in Viewer : q # r => view'[q] = view[q] /\ received'[q] = received[q]
  BY <1>2, <1>3 DEF TraceInv
<1>5. \A x : x \in Keys(has) <=> \E q \in received'[r] : Draws(q.input, x)
  BY <1>1, <1>2, <1>4
<1>6. \A q \in Viewer : NoKeyTwice(view'[q])
  BY <1>2, <1>4 DEF TraceInv
<1>7. \A q \in Viewer : \A x : x \in Keys(view'[q]) <=> \E o \in received'[q] : Draws(o.input, x)
  BY <1>4, <1>5 DEF TraceInv
<1>8. TraceInv'
  BY <1>3, <1>4, <1>6, <1>7 DEF TraceInv
<1> QED
  BY <1>2, <1>4, <1>8

LEMMA TraceStep == TraceInv /\ [TraceNext]_traceVars => TraceInv'
<1> SUFFICES ASSUME TraceInv, [TraceNext]_traceVars PROVE TraceInv'
  OBVIOUS
<1>1. ASSUME NEW input \in Input, NEW note \in Note \cup {Unset}, Publish(input, note)
      PROVE  TraceInv'
  BY <1>1, PublishKeeps
<1>2. ASSUME NEW r \in Viewer, NEW p \in published, Receive(r, p) PROVE TraceInv'
  BY <1>2, ReceiveKeeps
<1>3. CASE UNCHANGED traceVars
  BY <1>3 DEF traceVars, TraceInv
<1> QED
  BY <1>1, <1>2, <1>3 DEF TraceNext

LEMMA TraceInvHolds == TraceSpec => []TraceInv
<1>1. TraceInit => TraceInv
  <2>1. <<>> \in Seq(LinkRecord) /\ DOMAIN <<>> = {}
    OBVIOUS
  <2>2. Keys(<<>>) = {} /\ NoKeyTwice(<<>>)
    BY <2>1 DEF Keys, Links, ToSet, NoKeyTwice
  <2> QED
    BY <2>1, <2>2 DEF TraceInit, TraceInv
<1> QED
  BY <1>1, TraceStep, PTL DEF TraceSpec

\* In every step a viewer keeps the links it has, where they are and with their
\* source references: of two links with one key the first to come stands, whatever
\* the graphs and however often they are merged.
THEOREM FirstLinkTheorem == TraceSpec => FirstLinkStands
<1> DEFINE Stands == \A r \in Viewer : IsPrefix(view[r], view'[r])
<1>1. ASSUME TraceInv, [TraceNext]_traceVars PROVE [Stands]_traceVars
  <2>0. ASSUME NEW r \in Viewer, view'[r] = view[r] PROVE IsPrefix(view[r], view'[r])
    <3>1. Len(view[r]) \in Nat
      BY <1>1 DEF TraceInv
    <3> QED
      BY <2>0, <3>1 DEF IsPrefix
  <2>1. ASSUME NEW input \in Input, NEW note \in Note \cup {Unset}, Publish(input, note)
        PROVE  Stands
    BY <2>0, <2>1 DEF Publish
  <2>2. ASSUME NEW r \in Viewer, NEW p \in published, Receive(r, p) PROVE Stands
    <3>1. IsPrefix(view[r], view'[r])
      BY <1>1, <2>2, ReceiveKeeps
    <3>2. \A q \in Viewer : q # r => view'[q] = view[q]
      BY <1>1, <2>2 DEF Receive, TraceInv
    <3> QED
      BY <2>0, <3>1, <3>2
  <2> QED
    BY <1>1, <2>1, <2>2 DEF TraceNext
<1>2. TraceSpec => [][Stands]_traceVars
  BY <1>1, TraceInvHolds, PTL DEF TraceSpec
<1> QED
  BY <1>2 DEF FirstLinkStands
-----------------------------------------------------------------------------
(* Queries *)

\* What the entities that a viewer has received draw, relation by relation: an end of
\* a link is told by its type, so a relation of two types has one source.
LEMMA Drawn ==
  ASSUME TraceInv, NEW r \in Viewer
  PROVE  \A x : x \in Keys(view[r]) <=>
           \/ \E q \in Had(r, "requirements") : RequirementDraws(q, x)
           \/ \E s \in Had(r, "scenarios") : ScenarioDraws(s, x)
           \/ \E a \in Had(r, "artifacts") : ArtifactDraws(a, x)
           \/ \E e \in Had(r, "executionResults") : ExecutionDraws(e, x)
           \/ \E v \in Had(r, "evidence") : EvidenceDraws(v, x)
<1>1. \A x : x \in Keys(view[r]) <=> \E p \in received[r] : Draws(p.input, x)
  BY DEF TraceInv
<1>2. ASSUME NEW y
      PROVE /\ y \in Had(r, "requirements") <=> \E p \in received[r] : y \in ToSet(p.input.requirements)
            /\ y \in Had(r, "scenarios") <=> \E p \in received[r] : y \in ToSet(p.input.scenarios)
            /\ y \in Had(r, "artifacts") <=> \E p \in received[r] : y \in ToSet(p.input.artifacts)
            /\ y \in Had(r, "executionResults")
                 <=> \E p \in received[r] : y \in ToSet(p.input.executionResults)
            /\ y \in Had(r, "evidence") <=> \E p \in received[r] : y \in ToSet(p.input.evidence)
  BY DEF Had
<1> QED
  BY <1>1, <1>2 DEF Draws
\* A view has the links that what was received draws, by their ends and relation.
LEMMA Ends ==
  ASSUME TraceInv, NEW r \in Viewer
  PROVE  /\ \A l \in Links(view[r]) : <<l.from, l.relation, l.to>> \in Keys(view[r])
         /\ \A from, relation, to : <<from, relation, to>> \in Keys(view[r])
              => \E l \in Links(view[r]) : l.from = from /\ l.relation = relation /\ l.to = to
         /\ \A l, m \in Links(view[r]) :
              l.from = m.from /\ l.relation = m.relation /\ l.to = m.to => l = m
<1>1. \A l : Key(l) = <<l.from, l.relation, l.to>>
  BY DEF Key
<1>2. NoKeyTwice(view[r])
  BY DEF TraceInv
<1>3. \A l, m \in Links(view[r]) : Key(l) = Key(m) => l = m
  BY <1>2 DEF NoKeyTwice, Links, ToSet
<1> QED
  BY <1>1, <1>3 DEF Keys

Shows(r, from, relation, to) ==
  \E l \in Links(view[r]) : l.from = from /\ l.relation = relation /\ l.to = to

\* Every link is drawn by an entity received.
LEMMA Why ==
  ASSUME TraceInv, NEW r \in Viewer, NEW l \in Links(view[r])
  PROVE  \/ \E q \in Had(r, "requirements") :
              \/ \E c \in ToSet(q.acceptanceCriteria) :
                   /\ l.from = <<"acceptance_criterion", c>> /\ l.relation = "derived_from"
                   /\ l.to = <<"requirement", q.id>>
              \/ \E b \in ToSet(q.businessRuleIds) :
                   /\ l.from = <<"requirement", q.id>> /\ l.relation = "depends_on"
                   /\ l.to = <<"business_rule", b>>
         \/ \E s \in Had(r, "scenarios") :
              /\ l.from = <<"test_scenario", s.id>>
              /\ \/ /\ l.relation = "verifies"
                    /\ \/ \E q \in ToSet(s.requirementIds) : l.to = <<"requirement", q>>
                       \/ \E c \in ToSet(s.acceptanceCriterionIds) : l.to = <<"acceptance_criterion", c>>
                 \/ /\ l.relation = "covers"
                    /\ \E b \in ToSet(s.businessRuleIds) : l.to = <<"business_rule", b>>
         \/ \E a \in Had(r, "artifacts") : \E s \in ToSet(a.scenarioIds) :
              /\ l.from = <<"automation_artifact", a.id>> /\ l.relation = "implements"
              /\ l.to = <<"test_scenario", s>>
         \/ \E e \in Had(r, "executionResults") :
              /\ l.from = <<"execution_result", e.id>>
              /\ \/ l.relation = "verifies" /\ l.to = <<"test_scenario", e.scenarioId>>
                 \/ /\ l.relation = "executed_by" /\ l.to = <<"automation_artifact", e.artifactId>>
                    /\ e.artifactId # Unset
         \/ \E v \in Had(r, "evidence") :
              /\ v.relatedEntityType = "execution_result"
              /\ l.from = <<"execution_result", v.relatedEntityId>>
              /\ l.relation = "produced" /\ l.to = <<"evidence", v.id>>
<1> DEFINE x == <<l.from, l.relation, l.to>>
<1>1. x \in Keys(view[r])
  BY Ends
<1>2. \/ \E q \in Had(r, "requirements") : RequirementDraws(q, x)
      \/ \E s \in Had(r, "scenarios") : ScenarioDraws(s, x)
      \/ \E a \in Had(r, "artifacts") : ArtifactDraws(a, x)
      \/ \E e \in Had(r, "executionResults") : ExecutionDraws(e, x)
      \/ \E v \in Had(r, "evidence") : EvidenceDraws(v, x)
  <2> HIDE DEF x
  <2> QED
    BY <1>1, Drawn
<1> QED
  BY <1>2 DEF RequirementDraws, ScenarioDraws, ArtifactDraws, ExecutionDraws, EvidenceDraws

\* Every entity received shows the links it draws.
LEMMA Drawing ==
  ASSUME TraceInv, NEW r \in Viewer
  PROVE  /\ \A q \in Had(r, "requirements") : \A c \in ToSet(q.acceptanceCriteria) :
              Shows(r, <<"acceptance_criterion", c>>, "derived_from", <<"requirement", q.id>>)
         /\ \A s \in Had(r, "scenarios") :
              /\ \A q \in ToSet(s.requirementIds) :
                   Shows(r, <<"test_scenario", s.id>>, "verifies", <<"requirement", q>>)
              /\ \A c \in ToSet(s.acceptanceCriterionIds) :
                   Shows(r, <<"test_scenario", s.id>>, "verifies", <<"acceptance_criterion", c>>)
              /\ \A b \in ToSet(s.businessRuleIds) :
                   Shows(r, <<"test_scenario", s.id>>, "covers", <<"business_rule", b>>)
         /\ \A a \in Had(r, "artifacts") : \A s \in ToSet(a.scenarioIds) :
              Shows(r, <<"automation_artifact", a.id>>, "implements", <<"test_scenario", s>>)
         /\ \A e \in Had(r, "executionResults") :
              /\ Shows(r, <<"execution_result", e.id>>, "verifies", <<"test_scenario", e.scenarioId>>)
              /\ e.artifactId # Unset
                   => Shows(r, <<"execution_result", e.id>>, "executed_by",
                            <<"automation_artifact", e.artifactId>>)
         /\ \A v \in Had(r, "evidence") : v.relatedEntityType = "execution_result"
              => Shows(r, <<"execution_result", v.relatedEntityId>>, "produced", <<"evidence", v.id>>)
<1>1. \A from, relation, to : <<from, relation, to>> \in Keys(view[r]) => Shows(r, from, relation, to)
  BY Ends DEF Shows
<1>2. \A q \in Had(r, "requirements") : \A x : RequirementDraws(q, x) => x \in Keys(view[r])
  BY Drawn
<1>3. \A s \in Had(r, "scenarios") : \A x : ScenarioDraws(s, x) => x \in Keys(view[r])
  BY Drawn
<1>4. \A a \in Had(r, "artifacts") : \A x : ArtifactDraws(a, x) => x \in Keys(view[r])
  BY Drawn
<1>5. \A e \in Had(r, "executionResults") : \A x : ExecutionDraws(e, x) => x \in Keys(view[r])
  BY Drawn
<1>6. \A v \in Had(r, "evidence") : \A x : EvidenceDraws(v, x) => x \in Keys(view[r])
  BY Drawn
<1>7. \A q \in Had(r, "requirements") : \A c \in ToSet(q.acceptanceCriteria) :
        Shows(r, <<"acceptance_criterion", c>>, "derived_from", <<"requirement", q.id>>)
  BY <1>1, <1>2 DEF RequirementDraws
<1>8. \A s \in Had(r, "scenarios") :
        /\ \A q \in ToSet(s.requirementIds) :
             Shows(r, <<"test_scenario", s.id>>, "verifies", <<"requirement", q>>)
        /\ \A c \in ToSet(s.acceptanceCriterionIds) :
             Shows(r, <<"test_scenario", s.id>>, "verifies", <<"acceptance_criterion", c>>)
        /\ \A b \in ToSet(s.businessRuleIds) :
             Shows(r, <<"test_scenario", s.id>>, "covers", <<"business_rule", b>>)
  BY <1>1, <1>3 DEF ScenarioDraws
<1>9. \A a \in Had(r, "artifacts") : \A s \in ToSet(a.scenarioIds) :
        Shows(r, <<"automation_artifact", a.id>>, "implements", <<"test_scenario", s>>)
  BY <1>1, <1>4 DEF ArtifactDraws
<1>10. \A e \in Had(r, "executionResults") :
         /\ Shows(r, <<"execution_result", e.id>>, "verifies", <<"test_scenario", e.scenarioId>>)
         /\ e.artifactId # Unset
              => Shows(r, <<"execution_result", e.id>>, "executed_by",
                       <<"automation_artifact", e.artifactId>>)
  BY <1>1, <1>5 DEF ExecutionDraws
<1>11. \A v \in Had(r, "evidence") : v.relatedEntityType = "execution_result"
         => Shows(r, <<"execution_result", v.relatedEntityId>>, "produced", <<"evidence", v.id>>)
  BY <1>1, <1>6 DEF EvidenceDraws
<1> QED
  BY <1>7, <1>8, <1>9, <1>10, <1>11
LEMMA Uncovered ==
  ASSUME TraceInv, NEW r \in Viewer, NEW C
  PROVE  FindUncoveredCriteria(view[r], C)
           = {c \in C : \A s \in Had(r, "scenarios") : c \notin ToSet(s.acceptanceCriterionIds)}
<1> DEFINE covered == {l.to[2] : l \in {x \in Links(view[r]) : x.to[1] = "acceptance_criterion"
                                                               /\ x.relation = "verifies"}}
<1>1. ASSUME NEW c \in covered
      PROVE  \E s \in Had(r, "scenarios") : c \in ToSet(s.acceptanceCriterionIds)
  <2>1. PICK l \in Links(view[r]) : /\ l.to[1] = "acceptance_criterion" /\ l.relation = "verifies"
                                    /\ c = l.to[2]
    OBVIOUS
  <2> QED
    BY <2>1, Why
<1>2. ASSUME NEW s \in Had(r, "scenarios"), NEW c \in ToSet(s.acceptanceCriterionIds)
      PROVE  c \in covered
  <2>1. PICK l \in Links(view[r]) : l.relation = "verifies" /\ l.to = <<"acceptance_criterion", c>>
    <3>1. Shows(r, <<"test_scenario", s.id>>, "verifies", <<"acceptance_criterion", c>>)
      BY Drawing
    <3> QED
      BY <3>1 DEF Shows
  <2> QED
    BY <2>1
<1>3. FindUncoveredCriteria(view[r], C) = C \ covered
  BY DEF FindUncoveredCriteria
<1> HIDE DEF covered
<1> QED
  BY <1>1, <1>2, <1>3

\* The criteria of a requirement are those that any version of it listed.
LEMMA CriteriaFound ==
  ASSUME TraceInv, NEW r \in Viewer, NEW q
  PROVE  {l.from[2] : l \in {x \in Links(view[r]) : x.to = <<"requirement", q>>
                                                    /\ x.relation = "derived_from"}}
           = CriteriaOf({x \in Had(r, "requirements") : x.id = q})
<1> DEFINE found == {l.from[2] : l \in {x \in Links(view[r]) : x.to = <<"requirement", q>>
                                                               /\ x.relation = "derived_from"}}
           listed == CriteriaOf({x \in Had(r, "requirements") : x.id = q})
<1>1. \A c : c \in listed
        <=> \E x \in Had(r, "requirements") : x.id = q /\ c \in ToSet(x.acceptanceCriteria)
  BY DEF CriteriaOf
<1> HIDE DEF listed
<1>2. ASSUME NEW c \in found PROVE c \in listed
  <2>1. PICK l \in Links(view[r]) : /\ l.to = <<"requirement", q>> /\ l.relation = "derived_from"
                                    /\ c = l.from[2]
    OBVIOUS
  <2>2. PICK x \in Had(r, "requirements") : /\ x.id = q
                                            /\ \E d \in ToSet(x.acceptanceCriteria) :
                                                 l.from = <<"acceptance_criterion", d>>
    BY <2>1, Why
  <2> QED
    BY <1>1, <2>1, <2>2
<1>3. ASSUME NEW c \in listed PROVE c \in found
  <2>1. PICK x \in Had(r, "requirements") : x.id = q /\ c \in ToSet(x.acceptanceCriteria)
    BY <1>1
  <2>2. PICK l \in Links(view[r]) : /\ l.from = <<"acceptance_criterion", c>>
                                    /\ l.relation = "derived_from" /\ l.to = <<"requirement", q>>
    <3>1. Shows(r, <<"acceptance_criterion", c>>, "derived_from", <<"requirement", q>>)
      BY <2>1, Drawing
    <3> QED
      BY <3>1 DEF Shows
  <2> QED
    BY <2>2
<1> HIDE DEF found
<1>4. found = listed
  BY <1>2, <1>3
<1> QED
  BY <1>4 DEF found, listed

LEMMA Coverage ==
  ASSUME TraceInv
  PROVE  CoverageAcrossGraphs
<1> SUFFICES ASSUME NEW r \in Viewer, NEW q \in IdsOf(Had(r, "requirements"))
             PROVE  LET scenarios == Had(r, "scenarios")
                        requirements == Had(r, "requirements")
                        criteria == CriteriaOf({x \in requirements : x.id = q})
                        end(type, id) == <<type, id>>
                        bearing ==
                          {<<end("acceptance_criterion", c), end("requirement", q)>> : c \in criteria}
                          \cup {<<end("test_scenario", s.id), end("requirement", q)>> :
                                  s \in {x \in scenarios : q \in ToSet(x.requirementIds)}}
                          \cup {<<end("test_scenario", x[1].id), end("acceptance_criterion", x[2])>> :
                                  x \in {y \in scenarios \X criteria :
                                          y[2] \in ToSet(y[1].acceptanceCriterionIds)}}
                        coverage == FindCoverageForRequirement(view[r], q)
                    IN /\ {<<l.from, l.to>> : l \in coverage} = bearing
                       /\ \A l, m \in coverage : l.from = m.from /\ l.to = m.to => l = m
  BY Uncovered DEF CoverageAcrossGraphs
<1> DEFINE scenarios == Had(r, "scenarios")
           requirements == Had(r, "requirements")
           criteria == CriteriaOf({x \in requirements : x.id = q})
           up == {<< <<"acceptance_criterion", c>>, <<"requirement", q>> >> : c \in criteria}
           whole == {<< <<"test_scenario", s.id>>, <<"requirement", q>> >> :
                       s \in {x \in scenarios : q \in ToSet(x.requirementIds)}}
           parts == {<< <<"test_scenario", x[1].id>>, <<"acceptance_criterion", x[2]>> >> :
                       x \in {y \in scenarios \X criteria :
                                y[2] \in ToSet(y[1].acceptanceCriterionIds)}}
           coverage == FindCoverageForRequirement(view[r], q)
<1>1. \A l : l \in coverage <=> /\ l \in Links(view[r])
                                /\ \/ l.to = <<"requirement", q>>
                                   \/ l.to[1] = "acceptance_criterion" /\ l.to[2] \in criteria
  BY CriteriaFound DEF FindCoverageForRequirement
<1>2. \A c : c \in criteria
        <=> \E x \in requirements : x.id = q /\ c \in ToSet(x.acceptanceCriteria)
  BY DEF CriteriaOf
<1> HIDE DEF coverage, criteria
\* Each link listed bears on the requirement, and its relation is told by its ends.
<1>3. ASSUME NEW l \in coverage
      PROVE  /\ <<l.from, l.to>> \in up \cup whole \cup parts
             /\ l.relation = IF l.from[1] = "acceptance_criterion" THEN "derived_from" ELSE "verifies"
  <2>1. l \in Links(view[r])
    BY <1>1
  <2>2. CASE l.to = <<"requirement", q>>
    <3>1. \/ \E x \in requirements : \E c \in ToSet(x.acceptanceCriteria) :
               l.from = <<"acceptance_criterion", c>> /\ l.relation = "derived_from" /\ x.id = q
          \/ \E s \in scenarios : /\ l.from = <<"test_scenario", s.id>> /\ l.relation = "verifies"
                                  /\ q \in ToSet(s.requirementIds)
      BY <2>1, <2>2, Why
    <3> QED
      BY <1>2, <2>2, <3>1
  <2>3. CASE l.to[1] = "acceptance_criterion" /\ l.to[2] \in criteria
    <3>1. \E s \in scenarios : \E c \in ToSet(s.acceptanceCriterionIds) :
            /\ l.from = <<"test_scenario", s.id>> /\ l.relation = "verifies"
            /\ l.to = <<"acceptance_criterion", c>>
      BY <2>1, <2>3, Why
    <3>2. PICK s, c :
            /\ s \in scenarios /\ c \in ToSet(s.acceptanceCriterionIds)
            /\ l.from = <<"test_scenario", s.id>> /\ l.relation = "verifies"
            /\ l.to = <<"acceptance_criterion", c>>
      BY <3>1
    <3>3. c \in criteria
      BY <2>3, <3>2
    <3>4. PICK y \in scenarios \X criteria : y[1] = s /\ y[2] = c
      <4>1. <<s, c>> \in scenarios \X criteria /\ <<s, c>>[1] = s /\ <<s, c>>[2] = c
        BY <3>2, <3>3
      <4> QED
        BY <4>1
    <3>5. << <<"test_scenario", s.id>>, <<"acceptance_criterion", c>> >> \in parts
      BY <3>2, <3>4
    <3> QED
      BY <3>2, <3>5
  <2> QED
    BY <1>1, <2>2, <2>3
<1>4. ASSUME NEW x \in up PROVE \E l \in coverage : x = <<l.from, l.to>>
  <2>1. PICK c \in criteria : x = << <<"acceptance_criterion", c>>, <<"requirement", q>> >>
    OBVIOUS
  <2>2. PICK l \in Links(view[r]) : l.from = <<"acceptance_criterion", c>> /\ l.to = <<"requirement", q>>
    <3>1. Shows(r, <<"acceptance_criterion", c>>, "derived_from", <<"requirement", q>>)
      BY <1>2, Drawing
    <3> QED
      BY <3>1 DEF Shows
  <2> QED
    BY <1>1, <2>1, <2>2
<1>5. ASSUME NEW x \in whole PROVE \E l \in coverage : x = <<l.from, l.to>>
  <2>1. PICK s \in scenarios : /\ q \in ToSet(s.requirementIds)
                               /\ x = << <<"test_scenario", s.id>>, <<"requirement", q>> >>
    OBVIOUS
  <2>2. PICK l \in Links(view[r]) : l.from = <<"test_scenario", s.id>> /\ l.to = <<"requirement", q>>
    <3>1. Shows(r, <<"test_scenario", s.id>>, "verifies", <<"requirement", q>>)
      BY <2>1, Drawing
    <3> QED
      BY <3>1 DEF Shows
  <2> QED
    BY <1>1, <2>1, <2>2
<1>6. ASSUME NEW x \in parts PROVE \E l \in coverage : x = <<l.from, l.to>>
  <2>1. PICK s \in scenarios, c \in criteria :
          /\ c \in ToSet(s.acceptanceCriterionIds)
          /\ x = << <<"test_scenario", s.id>>, <<"acceptance_criterion", c>> >>
    OBVIOUS
  <2>2. PICK l \in Links(view[r]) : /\ l.from = <<"test_scenario", s.id>>
                                    /\ l.to = <<"acceptance_criterion", c>>
    <3>1. Shows(r, <<"test_scenario", s.id>>, "verifies", <<"acceptance_criterion", c>>)
      BY <2>1, Drawing
    <3> QED
      BY <3>1 DEF Shows
  <2>3. l.to[1] = "acceptance_criterion" /\ l.to[2] \in criteria
    BY <2>2
  <2> QED
    BY <1>1, <2>1, <2>2, <2>3
<1> HIDE DEF up, whole, parts
<1>7. {<<l.from, l.to>> : l \in coverage} = up \cup whole \cup parts
  BY <1>3, <1>4, <1>5, <1>6
<1>8. \A l, m \in coverage : l.from = m.from /\ l.to = m.to => l = m
  <2>1. \A l, m \in coverage : l.from = m.from => l.relation = m.relation
    BY <1>3
  <2> QED
    BY <1>1, <2>1, Ends
<1> QED
  BY <1>7, <1>8 DEF coverage, criteria, up, whole, parts
LEMMA Automation ==
  ASSUME TraceInv
  PROVE  AutomationAcrossGraphs
<1> SUFFICES ASSUME NEW r \in Viewer
             PROVE  LET scenarios == Had(r, "scenarios")
                        artifacts == Had(r, "artifacts")
                    IN /\ \A rule \in UNION {ToSet(s.businessRuleIds) : s \in scenarios} :
                            FindArtifactsForRule(view[r], rule)
                              = {a.id : a \in {x \in artifacts : \E s \in scenarios :
                                                 /\ rule \in ToSet(s.businessRuleIds)
                                                 /\ s.id \in ToSet(x.scenarioIds)}}
                       /\ FindOrphanArtifacts(view[r], IdsOf(artifacts))
                            = {i \in IdsOf(artifacts) :
                                 \A a \in artifacts : a.id = i => a.scenarioIds = <<>>}
  BY DEF AutomationAcrossGraphs
<1> DEFINE scenarios == Had(r, "scenarios")
           artifacts == Had(r, "artifacts")
\* Artifacts point at scenarios, and scenarios at rules.
<1>1. ASSUME NEW l \in Links(view[r])
      PROVE  /\ l.from[1] = "automation_artifact"
                  => \E a \in artifacts : \E s \in ToSet(a.scenarioIds) :
                       l.from = <<"automation_artifact", a.id>> /\ l.to = <<"test_scenario", s>>
             /\ \A rule : l.from[1] = "test_scenario" /\ l.to = <<"business_rule", rule>>
                  => \E s \in scenarios : l.from = <<"test_scenario", s.id>>
                                          /\ rule \in ToSet(s.businessRuleIds)
  BY Why
<1>2. ASSUME NEW a \in artifacts, NEW s \in ToSet(a.scenarioIds)
      PROVE  \E l \in Links(view[r]) : /\ l.from = <<"automation_artifact", a.id>>
                                       /\ l.to = <<"test_scenario", s>>
  <2>1. Shows(r, <<"automation_artifact", a.id>>, "implements", <<"test_scenario", s>>)
    BY Drawing
  <2> QED
    BY <2>1 DEF Shows
<1>3. ASSUME NEW s \in scenarios, NEW rule \in ToSet(s.businessRuleIds)
      PROVE  \E l \in Links(view[r]) : /\ l.from = <<"test_scenario", s.id>>
                                       /\ l.to = <<"business_rule", rule>>
  <2>1. Shows(r, <<"test_scenario", s.id>>, "covers", <<"business_rule", rule>>)
    BY Drawing
  <2> QED
    BY <2>1 DEF Shows
<1> HIDE DEF scenarios, artifacts
<1>4. ASSUME NEW rule
      PROVE  FindArtifactsForRule(view[r], rule)
               = {a.id : a \in {x \in artifacts : \E s \in scenarios :
                                  rule \in ToSet(s.businessRuleIds) /\ s.id \in ToSet(x.scenarioIds)}}
  <2> DEFINE through == {l.from[2] : l \in {x \in Links(view[r]) :
                           x.from[1] = "test_scenario" /\ x.to \in {<<"business_rule", rule>>}}}
             ends == {<<"test_scenario", s>> : s \in through}
             found == {l.from[2] : l \in {x \in Links(view[r]) :
                         x.from[1] = "automation_artifact" /\ x.to \in ends}}
             due == {a.id : a \in {x \in artifacts : \E s \in scenarios :
                              rule \in ToSet(s.businessRuleIds) /\ s.id \in ToSet(x.scenarioIds)}}
  <2>1. FindArtifactsForRule(view[r], rule) = found
    BY DEF FindArtifactsForRule
  <2>2. \A i : i \in through <=> \E s \in scenarios : i = s.id /\ rule \in ToSet(s.businessRuleIds)
    <3>1. ASSUME NEW i \in through
          PROVE  \E s \in scenarios : i = s.id /\ rule \in ToSet(s.businessRuleIds)
      BY <1>1
    <3>2. ASSUME NEW s \in scenarios, rule \in ToSet(s.businessRuleIds) PROVE s.id \in through
      <4>1. PICK l \in Links(view[r]) : /\ l.from = <<"test_scenario", s.id>>
                                        /\ l.to = <<"business_rule", rule>>
        BY <1>3, <3>2
      <4>2. l.from[1] = "test_scenario" /\ l.from[2] = s.id /\ l.to \in {<<"business_rule", rule>>}
        BY <4>1
      <4> QED
        BY <4>2
    <3> HIDE DEF through
    <3> QED
      BY <3>1, <3>2
  <2>3. \A e : e \in ends <=> \E s \in scenarios : /\ e = <<"test_scenario", s.id>>
                                                   /\ rule \in ToSet(s.businessRuleIds)
    <3> HIDE DEF through
    <3> QED
      BY <2>2
  <2> HIDE DEF through, ends
  <2>4. ASSUME NEW i \in found PROVE i \in due
    <3>1. PICK l \in Links(view[r]) : l.from[1] = "automation_artifact" /\ l.to \in ends /\ i = l.from[2]
      OBVIOUS
    <3>2. PICK a \in artifacts : \E s \in ToSet(a.scenarioIds) :
            l.from = <<"automation_artifact", a.id>> /\ l.to = <<"test_scenario", s>>
      BY <1>1, <3>1
    <3>3. PICK s \in ToSet(a.scenarioIds) :
            l.from = <<"automation_artifact", a.id>> /\ l.to = <<"test_scenario", s>>
      BY <3>2
    <3>4. PICK u \in scenarios : l.to = <<"test_scenario", u.id>> /\ rule \in ToSet(u.businessRuleIds)
      BY <2>3, <3>1
    <3>5. i = a.id /\ s = u.id
      BY <3>1, <3>3, <3>4
    <3> QED
      BY <3>4, <3>5
  <2>5. ASSUME NEW i \in due PROVE i \in found
    <3>1. PICK a \in artifacts, s \in scenarios :
            i = a.id /\ rule \in ToSet(s.businessRuleIds) /\ s.id \in ToSet(a.scenarioIds)
      OBVIOUS
    <3>2. PICK l \in Links(view[r]) : /\ l.from = <<"automation_artifact", a.id>>
                                      /\ l.to = <<"test_scenario", s.id>>
      BY <1>2, <3>1
    <3>3. l.from[1] = "automation_artifact" /\ l.from[2] = i /\ l.to \in ends
      BY <2>3, <3>1, <3>2
    <3> QED
      BY <3>3
  <2> HIDE DEF found, due
  <2>6. found = due
    BY <2>4, <2>5
  <2> QED
    BY <2>1, <2>6 DEF due
<1>5. FindOrphanArtifacts(view[r], IdsOf(artifacts))
        = {i \in IdsOf(artifacts) : \A a \in artifacts : a.id = i => a.scenarioIds = <<>>}
  <2> DEFINE linked == {l.from[2] : l \in {x \in Links(view[r]) : x.from[1] = "automation_artifact"}}
  <2>1. \A a \in artifacts : a.scenarioIds # <<>> <=> ToSet(a.scenarioIds) # {}
    <3>1. ASSUME NEW a \in artifacts PROVE a.scenarioIds \in Seq(Id)
      <4>1. PICK p \in received[r] : a \in ToSet(p.input.artifacts)
        BY DEF artifacts, Had
      <4>2. p.input.artifacts \in Seq(ArtifactRecord)
        BY DEF TraceInv, GraphInput, ArtifactRecord
      <4>3. a \in ArtifactRecord
        BY <4>1, <4>2 DEF ToSet
      <4> QED
        BY <4>3 DEF ArtifactRecord
    <3>2. ASSUME NEW ids \in Seq(Id) PROVE ids # <<>> <=> ToSet(ids) # {}
      <4>1. CASE ids = <<>>
        BY <4>1 DEF ToSet
      <4>2. CASE ids # <<>>
        <5>1. 1 \in DOMAIN ids
          BY <4>2
        <5>2. ids[1] \in ToSet(ids)
          BY <5>1 DEF ToSet
        <5> QED
          BY <4>2, <5>2
      <4> QED
        BY <4>1, <4>2
    <3> QED
      BY <3>1, <3>2
  <2>2. ASSUME NEW i \in linked PROVE \E a \in artifacts : a.id = i /\ ToSet(a.scenarioIds) # {}
    <3>1. PICK l \in Links(view[r]) : l.from[1] = "automation_artifact" /\ i = l.from[2]
      OBVIOUS
    <3> QED
      BY <1>1, <3>1
  <2>3. ASSUME NEW a \in artifacts, ToSet(a.scenarioIds) # {} PROVE a.id \in linked
    <3>1. PICK s \in ToSet(a.scenarioIds) : TRUE
      BY <2>3
    <3>2. PICK l \in Links(view[r]) : l.from = <<"automation_artifact", a.id>>
      BY <1>2
    <3>3. l.from[1] = "automation_artifact" /\ l.from[2] = a.id
      BY <3>2
    <3> QED
      BY <3>3
  <2>4. FindOrphanArtifacts(view[r], IdsOf(artifacts)) = IdsOf(artifacts) \ linked
    BY DEF FindOrphanArtifacts
  <2> HIDE DEF linked
  <2>5. \A i : i \in linked <=> \E a \in artifacts : a.id = i /\ a.scenarioIds # <<>>
    BY <2>1, <2>2, <2>3
  <2> QED
    BY <2>4, <2>5
<1> QED
  BY <1>4, <1>5 DEF scenarios, artifacts
LEMMA Breaking ==
  ASSUME TraceInv
  PROVE  BrokenWhileMissing
<1> SUFFICES ASSUME NEW r \in Viewer
             PROVE  FindBrokenLinks(view[r], KnownTo(r)) = {}
               <=> /\ \A s \in Had(r, "scenarios") :
                        /\ ToSet(s.requirementIds) \subseteq KnownTo(r)["requirement"]
                        /\ ToSet(s.acceptanceCriterionIds)
                             \subseteq KnownTo(r)["acceptance_criterion"]
                   /\ \A a \in Had(r, "artifacts") :
                        ToSet(a.scenarioIds) \subseteq KnownTo(r)["test_scenario"]
                   /\ \A e \in Had(r, "executionResults") :
                        /\ e.scenarioId \in KnownTo(r)["test_scenario"]
                        /\ e.artifactId \in KnownTo(r)["automation_artifact"] \cup {Unset}
                   /\ \A v \in Had(r, "evidence") :
                        v.relatedEntityType = "execution_result"
                          => v.relatedEntityId \in KnownTo(r)["execution_result"]
  BY DEF BrokenWhileMissing
<1> DEFINE qs == KnownTo(r)["requirement"]
           cs == KnownTo(r)["acceptance_criterion"]
           ss == KnownTo(r)["test_scenario"]
           as == KnownTo(r)["automation_artifact"]
           es == KnownTo(r)["execution_result"]
           All == /\ \A s \in Had(r, "scenarios") : ToSet(s.requirementIds) \subseteq qs
                                                    /\ ToSet(s.acceptanceCriterionIds) \subseteq cs
                  /\ \A a \in Had(r, "artifacts") : ToSet(a.scenarioIds) \subseteq ss
                  /\ \A e \in Had(r, "executionResults") : e.scenarioId \in ss
                                                           /\ e.artifactId \in as \cup {Unset}
                  /\ \A v \in Had(r, "evidence") :
                       v.relatedEntityType = "execution_result" => v.relatedEntityId \in es
\* What the viewer keeps lists of, and what it certainly knows.
<1>1. /\ \A i : Unknown(<<"requirement", i>>, KnownTo(r)) <=> i \notin qs
      /\ \A i : Unknown(<<"acceptance_criterion", i>>, KnownTo(r)) <=> i \notin cs
      /\ \A i : Unknown(<<"test_scenario", i>>, KnownTo(r)) <=> i \notin ss
      /\ \A i : Unknown(<<"automation_artifact", i>>, KnownTo(r)) <=> i \notin as
      /\ \A i : Unknown(<<"execution_result", i>>, KnownTo(r)) <=> i \notin es
      /\ \A i : ~Unknown(<<"business_rule", i>>, KnownTo(r)) /\ ~Unknown(<<"evidence", i>>, KnownTo(r))
  <2>1. DOMAIN KnownTo(r) = {"requirement", "acceptance_criterion", "test_scenario",
                             "automation_artifact", "execution_result"}
    BY DEF KnownTo
  <2> QED
    BY <2>1 DEF Unknown
<1>2. /\ \A q \in Had(r, "requirements") : q.id \in qs /\ ToSet(q.acceptanceCriteria) \subseteq cs
      /\ \A s \in Had(r, "scenarios") : s.id \in ss
      /\ \A a \in Had(r, "artifacts") : a.id \in as
      /\ \A e \in Had(r, "executionResults") : e.id \in es
  BY DEF KnownTo, IdsOf, CriteriaOf
<1> HIDE DEF qs, cs, ss, as, es
<1>3. ASSUME All, NEW l \in Links(view[r]) PROVE ~Broken(l, KnownTo(r))
  <2>1. \/ \E q \in qs : l.from = <<"requirement", q>>
        \/ \E c \in cs : l.from = <<"acceptance_criterion", c>>
        \/ \E s \in ss : l.from = <<"test_scenario", s>>
        \/ \E a \in as : l.from = <<"automation_artifact", a>>
        \/ \E e \in es : l.from = <<"execution_result", e>>
    BY <1>2, <1>3, Why
  <2>2. \/ \E q \in qs : l.to = <<"requirement", q>>
        \/ \E c \in cs : l.to = <<"acceptance_criterion", c>>
        \/ \E s \in ss : l.to = <<"test_scenario", s>>
        \/ \E a \in as : l.to = <<"automation_artifact", a>>
        \/ \E i : l.to = <<"business_rule", i>> \/ l.to = <<"evidence", i>>
    BY <1>2, <1>3, Why
  <2>3. ~Unknown(l.from, KnownTo(r))
    BY <1>1, <2>1
  <2>4. ~Unknown(l.to, KnownTo(r))
    BY <1>1, <2>2
  <2> QED
    BY <2>3, <2>4 DEF Broken
<1>4. ASSUME NEW from, NEW relation, NEW to, Shows(r, from, relation, to),
             FindBrokenLinks(view[r], KnownTo(r)) = {}
      PROVE  ~Unknown(from, KnownTo(r)) /\ ~Unknown(to, KnownTo(r))
  BY <1>4 DEF Shows, FindBrokenLinks, Broken
<1>5. ASSUME FindBrokenLinks(view[r], KnownTo(r)) = {} PROVE All
  <2>1. \A from, relation, to :
          Shows(r, from, relation, to) => ~Unknown(from, KnownTo(r)) /\ ~Unknown(to, KnownTo(r))
    BY <1>4, <1>5
  <2>2. ASSUME NEW s \in Had(r, "scenarios")
        PROVE  ToSet(s.requirementIds) \subseteq qs /\ ToSet(s.acceptanceCriterionIds) \subseteq cs
    <3>1. \A q \in ToSet(s.requirementIds) :
            Shows(r, <<"test_scenario", s.id>>, "verifies", <<"requirement", q>>)
      BY Drawing
    <3>2. \A c \in ToSet(s.acceptanceCriterionIds) :
            Shows(r, <<"test_scenario", s.id>>, "verifies", <<"acceptance_criterion", c>>)
      BY Drawing
    <3> QED
      BY <1>1, <2>1, <3>1, <3>2
  <2>3. ASSUME NEW a \in Had(r, "artifacts") PROVE ToSet(a.scenarioIds) \subseteq ss
    <3>1. \A s \in ToSet(a.scenarioIds) :
            Shows(r, <<"automation_artifact", a.id>>, "implements", <<"test_scenario", s>>)
      BY Drawing
    <3> QED
      BY <1>1, <2>1, <3>1
  <2>4. ASSUME NEW e \in Had(r, "executionResults")
        PROVE  e.scenarioId \in ss /\ e.artifactId \in as \cup {Unset}
    <3>1. Shows(r, <<"execution_result", e.id>>, "verifies", <<"test_scenario", e.scenarioId>>)
      BY Drawing
    <3>2. e.artifactId # Unset
            => Shows(r, <<"execution_result", e.id>>, "executed_by",
                     <<"automation_artifact", e.artifactId>>)
      BY Drawing
    <3> QED
      BY <1>1, <2>1, <3>1, <3>2
  <2>5. ASSUME NEW v \in Had(r, "evidence"), v.relatedEntityType = "execution_result"
        PROVE  v.relatedEntityId \in es
    <3>1. Shows(r, <<"execution_result", v.relatedEntityId>>, "produced", <<"evidence", v.id>>)
      BY <2>5, Drawing
    <3> QED
      BY <1>1, <2>1, <3>1
  <2> QED
    BY <2>2, <2>3, <2>4, <2>5
<1>6. FindBrokenLinks(view[r], KnownTo(r)) = {} <=> All
  <2> HIDE DEF All
  <2> QED
    BY <1>3, <1>5 DEF FindBrokenLinks
<1> QED
  BY <1>6 DEF qs, cs, ss, as, es

LEMMA TraceTyped ==
  ASSUME TraceInv
  PROVE  TraceTypeOK
<1> SUFFICES ASSUME NEW r \in Viewer
             PROVE  /\ received[r] \subseteq published
                    /\ \A j, k \in DOMAIN view[r] : Key(view[r][j]) = Key(view[r][k]) => j = k
                    /\ \A k \in DOMAIN view[r] : view[r][k].sourceReferences \subseteq Note
  BY DEF TraceTypeOK
<1>1. received[r] \subseteq published /\ NoKeyTwice(view[r]) /\ view[r] \in Seq(LinkRecord)
  BY DEF TraceInv
<1>2. \A k \in DOMAIN view[r] : view[r][k] \in LinkRecord
  BY <1>1
<1> QED
  BY <1>1, <1>2 DEF NoKeyTwice, LinkRecord

\* In every reachable state the queries answer on a viewer's merged graph as if all
\* the entities it has received had been known at once, whatever the inputs and in
\* whatever order, versions and repetitions their graphs arrived.
THEOREM QueriesTheorem == TraceSpec => []QueriesAcrossGraphs
<1>1. TraceInv => QueriesAcrossGraphs
  BY TraceTyped, Coverage, Automation, Breaking DEF QueriesAcrossGraphs
<1> QED
  BY <1>1, TraceInvHolds, PTL

-----------------------------------------------------------------------------
(* Ids: what normalization makes is a source again, and is a function of    *)
(* what the source says of itself. *)

\* Every pair is a source and what some run made of it.
IdsInv ==
  /\ runs \in 0..MaxRuns
  /\ \A x \in pairs : /\ x.raw \in RawRequirement
                      /\ \E n \in Nat : x.made = NormalizeRequirement(x.raw, n)

\* What an id keeps of a text is a text.
LEMMA NormalizedIsText ==
  ASSUME NEW words \in Seq(Word)
  PROVE  Normalized(words) \in Seq(Part)
<1> DEFINE pieces == [k \in DOMAIN words |-> IF k = 1 THEN Slug[words[1]] ELSE <<Hyphen>> \o Slug[words[k]]]
           n == Len(words)
           text == Hyphened(words)
           kept == IF Len(text) > MaxSlug THEN MaxSlug ELSE Len(text)
<1>1. n \in Nat /\ DOMAIN words = 1..n /\ \A k \in 1..n : words[k] \in Word
  OBVIOUS
<1>2. \A k \in 1..n : Slug[words[k]] \in Seq(Part) /\ <<Hyphen>> \o Slug[words[k]] \in Seq(Part)
  <2>1. <<Hyphen>> \in Seq(Part) /\ \A w \in Word : Slug[w] \in Seq(Part)
    BY IdsAssumption
  <2>2. \A s, t \in Seq(Part) : s \o t \in Seq(Part)
    OBVIOUS
  <2> QED
    BY <1>1, <2>1, <2>2
<1>3. pieces \in [1..n -> Seq(Part)]
  BY <1>1, <1>2
<1> HIDE DEF pieces
<1>4. FlattenSeq(pieces) \in Seq(Part)
  BY <1>1, <1>3, FlattenedElements
<1>5. text \in Seq(Part)
  BY <1>4 DEF Hyphened, pieces
<1> HIDE DEF text
<1>6. MaxSlug \in Nat /\ Len(text) \in Nat /\ kept \in 0..Len(text)
  BY <1>5, IdsAssumption
<1> HIDE DEF kept
<1>7. \A k \in 1..kept : text[k] \in Part
  BY <1>5, <1>6
<1>8. SubSeq(text, 1, kept) \in Seq(Part)
  BY <1>6, <1>7, SubSeqProperties
<1> QED
  BY <1>8 DEF Normalized, Cut, text, kept

\* Nothing is lost of a tidy word.
LEMMA TidyKept ==
  ASSUME NEW w \in Tidy
  PROVE  Normalized(<<w>>) = Slug[w] /\ Slug[w] # <<>>
<1>1. Slug[w] \in Seq(Part) /\ Len(Slug[w]) \in 1..MaxSlug /\ MaxSlug \in Nat
  BY IdsAssumption
<1> DEFINE words == <<w>>
           pieces == [k \in DOMAIN words |-> IF k = 1 THEN Slug[words[1]] ELSE <<Hyphen>> \o Slug[words[k]]]
<1> PICK n : n = 1
  OBVIOUS
<1>2. DOMAIN words = 1..n /\ 1..n = {1}
  OBVIOUS
<1>3. n \in Nat /\ n # 0 /\ pieces \in [1..n -> Seq(Part)] /\ pieces[1] = Slug[w]
  BY <1>1, <1>2
<1> HIDE DEF pieces
<1>4. PICK f : f \in Joinings(Part, n, pieces)
  BY <1>3, FlattenedUpTo
<1>5. FlattenSeq(pieces) = Slug[w]
  BY <1>3, <1>4 DEF Joinings
<1>6. Hyphened(words) = Slug[w]
  BY <1>5 DEF Hyphened, pieces
<1>7. SubSeq(Slug[w], 1, Len(Slug[w])) = Slug[w]
  BY <1>1, SubSeqFull
<1>8. ~(Len(Slug[w]) > MaxSlug) /\ Slug[w] # <<>>
  BY <1>1
<1>9. Normalized(words) = SubSeq(Slug[w], 1, Len(Slug[w]))
  BY <1>6, <1>8 DEF Normalized, Cut
<1> QED
  BY <1>7, <1>8, <1>9

LEMMA RequirementIdMade ==
  ASSUME NEW raw \in RawRequirement, NEW n \in Nat
  PROVE  RequirementId(raw, n) \in Given \cup RequirementIdsMade
<1> DEFINE words == raw.externalId.words
           seed == Join(raw.title, raw.description)
<1>1. seed \in Seed
  BY DEF RawRequirement, Text, Join, Seed, Blank
<1>2. ASSUME raw.externalId # Omitted
      PROVE  SlugId("req", words) \in RequirementIdsMade
  <2>1. words \in Seq(Word)
    BY <1>2 DEF RawRequirement, Text
  <2>2. Normalized(words) \in Seq(Part)
    BY <2>1, NormalizedIsText
  <2>3. [words |-> words, inner |-> FALSE] \in Seed
    BY <2>1 DEF Seed
  <2> QED
    BY <2>2, <2>3 DEF SlugId, HashId, RequirementIdsMade
<1>3. HashId("req", seed) \in RequirementIdsMade /\ RandomId("req", n) \in RequirementIdsMade
  BY <1>1 DEF HashId, RandomId, RequirementIdsMade
<1>4. raw.id \in Given \cup RequirementIdsMade \cup {Omitted}
  BY DEF RawRequirement
<1> HIDE DEF words, seed
<1> QED
  BY <1>2, <1>3, <1>4 DEF RequirementId, words, seed

LEMMA CriterionIdMade ==
  ASSUME NEW c \in RawCriterion, NEW id \in Given \cup RequirementIdsMade
  PROVE  CriterionId(c, id) \in Given \cup CriterionIdsMade
<1> DEFINE seed == Join([words |-> <<"id">>, padded |-> FALSE], c.description)
<1>1. seed \in Seed
  BY DEF RawCriterion, Text, Join, Seed, Blank
<1>2. HashId("ac", <<id, seed>>) \in CriterionIdsMade
  BY <1>1 DEF HashId, CriterionIdsMade
<1>3. c.id \in Given \cup CriterionIdsMade \cup {Omitted}
  BY DEF RawCriterion
<1> HIDE DEF seed
<1> QED
  BY <1>2, <1>3 DEF CriterionId, seed

\* Normalization returns a requirement that may be normalized again.
LEMMA NormalizedIsRaw ==
  ASSUME NEW raw \in RawRequirement, NEW n \in Nat
  PROVE  NormalizeRequirement(raw, n) \in RawRequirement
<1> PICK id \in Given \cup RequirementIdsMade : id = RequirementId(raw, n)
  BY RequirementIdMade
<1>1. \A t \in Text : Trim(t) \in Text
  BY DEF Text, Trim
<1>2. \A c \in RawCriterion : NormalizeCriterion(c, id) \in RawCriterion
  <2> TAKE c \in RawCriterion
  <2>1. CriterionId(c, id) \in Given \cup CriterionIdsMade /\ Trim(c.description) \in Text
    BY <1>1, CriterionIdMade DEF RawCriterion
  <2> QED
    BY <2>1 DEF NormalizeCriterion, RawCriterion
<1> DEFINE list == [k \in DOMAIN raw.acceptanceCriteria |->
                      NormalizeCriterion(raw.acceptanceCriteria[k], id)]
<1>3. list \in Seq(RawCriterion)
  <2>1. raw.acceptanceCriteria \in Seq(RawCriterion)
    BY DEF RawRequirement
  <2>2. \A k \in DOMAIN raw.acceptanceCriteria : raw.acceptanceCriteria[k] \in RawCriterion
    BY <2>1
  <2>3. list \in [DOMAIN raw.acceptanceCriteria -> RawCriterion]
    BY <1>2, <2>2
  <2> HIDE DEF list
  <2>4. DOMAIN raw.acceptanceCriteria = 1..Len(raw.acceptanceCriteria)
    BY <2>1
  <2>5. Len(raw.acceptanceCriteria) \in Nat
    BY <2>1
  <2> QED
    BY <2>3, <2>4, <2>5
<1>4. /\ KeptExternalId(raw) \in Text \cup {Omitted}
      /\ Trim(raw.title) \in Text /\ Trim(raw.description) \in Text
  BY <1>1 DEF RawRequirement, KeptExternalId
<1> HIDE DEF list
<1> QED
  BY <1>3, <1>4 DEF NormalizeRequirement, RawRequirement, list

LEMMA IdsInvHolds == IdsSpec => []IdsInv
<1>1. IdsInit => IdsInv
  BY IdsAssumption DEF IdsInit, IdsInv
<1>2. ASSUME IdsInv, NEW raw \in RawRequirement, Normalize(raw)
      PROVE  IdsInv'
  <2> DEFINE x == [raw |-> raw, made |-> NormalizeRequirement(raw, runs)]
  <2>1. runs \in Nat /\ runs' \in 0..MaxRuns /\ pairs' = pairs \cup {x}
    BY <1>2, IdsAssumption DEF IdsInv, Normalize
  <2>2. x.raw = raw /\ x.made = NormalizeRequirement(raw, runs)
    OBVIOUS
  <2> HIDE DEF x
  <2> QED
    BY <1>2, <2>1, <2>2 DEF IdsInv
<1>3. IdsInv /\ [IdsNext]_idVars => IdsInv'
  <2> SUFFICES ASSUME IdsInv, [IdsNext]_idVars PROVE IdsInv'
    OBVIOUS
  <2>1. ASSUME NEW raw \in Raw, Normalize(raw) PROVE IdsInv'
    BY <1>2, <2>1, IdsAssumption
  <2>2. ASSUME NEW x \in pairs, Again(x) PROVE IdsInv'
    <3>1. x.made \in RawRequirement /\ Normalize(x.made)
      BY <2>2, NormalizedIsRaw DEF Again, IdsInv
    <3> QED
      BY <1>2, <3>1
  <2>3. CASE UNCHANGED idVars
    BY <2>3 DEF idVars, IdsInv
  <2> QED
    BY <2>1, <2>2, <2>3 DEF IdsNext
<1> QED
  BY <1>1, <1>3, PTL DEF IdsSpec
LEMMA IdsTyped == IdsInv => IdsTypeOK
<1> SUFFICES ASSUME IdsInv, NEW x \in pairs
             PROVE  /\ ~x.made.title.padded /\ ~x.made.description.padded
                    /\ Len(x.made.acceptanceCriteria) = Len(x.raw.acceptanceCriteria)
  BY DEF IdsInv, IdsTypeOK
<1>1. PICK n \in Nat : x.made = NormalizeRequirement(x.raw, n)
  BY DEF IdsInv
<1>2. /\ x.raw.title \in Text /\ x.raw.description \in Text
      /\ x.raw.acceptanceCriteria \in Seq(RawCriterion)
  BY DEF IdsInv, RawRequirement
<1>3. \A t \in Text : ~Trim(t).padded
  BY DEF Text, Trim
<1>4. DOMAIN x.made.acceptanceCriteria = 1..Len(x.raw.acceptanceCriteria)
      /\ Len(x.raw.acceptanceCriteria) \in Nat
  BY <1>1, <1>2 DEF NormalizeRequirement
<1>5. Len(x.made.acceptanceCriteria) = Len(x.raw.acceptanceCriteria)
  BY <1>4
<1> QED
  BY <1>1, <1>2, <1>3, <1>5 DEF NormalizeRequirement

\* The id of a requirement that says something of itself is not a random one.
LEMMA SameIdAgain ==
  ASSUME NEW raw \in RawRequirement, Identified(raw), NEW m \in Nat, NEW n \in Nat
  PROVE  RequirementId(raw, m) = RequirementId(raw, n)
<1>1. Identified(raw) /\ raw.id = Omitted /\ ~Named(raw)
        => Join(raw.title, raw.description).words # <<>>
  BY DEF Identified, Named, Join, Blank, RawRequirement, Text
<1> QED
  BY <1>1 DEF RequirementId, Named

\* A criterion that was normalized is left as it is.
LEMMA CriterionAgain ==
  ASSUME NEW c \in RawCriterion, NEW id \in Given \cup RequirementIdsMade, NEW other
  PROVE  NormalizeCriterion(NormalizeCriterion(c, id), other) = NormalizeCriterion(c, id)
<1> DEFINE d == NormalizeCriterion(c, id)
<1>1. d.id # Omitted /\ d.id = CriterionId(c, id) /\ d.description = Trim(c.description)
  BY CriterionIdMade, IdsAssumption DEF NormalizeCriterion
<1>2. Trim(Trim(c.description)) = Trim(c.description)
  BY DEF RawCriterion, Text, Trim
<1>3. CriterionId(d, other) = d.id
  BY <1>1 DEF CriterionId
<1>4. d = [id |-> CriterionId(c, id), description |-> Trim(c.description)]
  BY DEF NormalizeCriterion
<1> HIDE DEF d
<1> QED
  BY <1>1, <1>2, <1>3, <1>4 DEF NormalizeCriterion, d

\* A requirement that was normalized is left as it is.
LEMMA RequirementAgain ==
  ASSUME NEW raw \in RawRequirement, NEW m \in Nat, NEW n \in Nat
  PROVE  NormalizeRequirement(NormalizeRequirement(raw, m), n) = NormalizeRequirement(raw, m)
<1> PICK id \in Given \cup RequirementIdsMade : id = RequirementId(raw, m)
  BY RequirementIdMade
<1> DEFINE list == [k \in DOMAIN raw.acceptanceCriteria |->
                      NormalizeCriterion(raw.acceptanceCriteria[k], id)]
           made == [id |-> id, externalId |-> KeptExternalId(raw),
                    title |-> Trim(raw.title), description |-> Trim(raw.description),
                    acceptanceCriteria |-> list]
<1>1. made = NormalizeRequirement(raw, m)
  BY DEF NormalizeRequirement
<1>2. id # Omitted /\ RequirementId(made, n) = id
  BY IdsAssumption DEF RequirementId
<1>3. Trim(Trim(raw.title)) = Trim(raw.title) /\ Trim(Trim(raw.description)) = Trim(raw.description)
  BY DEF RawRequirement, Text, Trim
<1>4. [k \in DOMAIN list |-> NormalizeCriterion(list[k], id)] = list
  <2>1. \A k \in DOMAIN raw.acceptanceCriteria : raw.acceptanceCriteria[k] \in RawCriterion
    BY DEF RawRequirement
  <2>2. \A k \in DOMAIN list : NormalizeCriterion(list[k], id) = list[k]
    BY <2>1, CriterionAgain
  <2>3. list = [k \in DOMAIN list |-> list[k]]
    OBVIOUS
  <2> HIDE DEF list
  <2> QED
    BY <2>2, <2>3
<1>5. /\ made.externalId = KeptExternalId(raw) /\ made.title = Trim(raw.title)
      /\ made.description = Trim(raw.description) /\ made.acceptanceCriteria = list
  OBVIOUS
<1>6. KeptExternalId(made) = KeptExternalId(raw)
  <2> HIDE DEF made
  <2> QED
    BY <1>5 DEF KeptExternalId
<1> HIDE DEF list
<1>7. NormalizeRequirement(made, n)
        = [id |-> id, externalId |-> KeptExternalId(raw),
           title |-> Trim(raw.title), description |-> Trim(raw.description),
           acceptanceCriteria |-> list]
  <2> HIDE DEF made
  <2> QED
    BY <1>2, <1>3, <1>4, <1>5, <1>6 DEF NormalizeRequirement
<1> QED
  BY <1>1, <1>7

LEMMA NoDrift == IdsInv => IdsDoNotDrift
<1> SUFFICES ASSUME IdsInv, NEW x \in pairs, NEW y \in pairs
             PROVE  /\ x.raw = y.raw /\ Identified(x.raw) => x.made = y.made
                    /\ y.raw = x.made => y.made = x.made
  BY DEF IdsDoNotDrift
<1>1. PICK m \in Nat : x.made = NormalizeRequirement(x.raw, m)
  BY DEF IdsInv
<1>2. PICK n \in Nat : y.made = NormalizeRequirement(y.raw, n)
  BY DEF IdsInv
<1>3. x.raw \in RawRequirement
  BY DEF IdsInv
<1>4. ASSUME x.raw = y.raw, Identified(x.raw) PROVE x.made = y.made
  <2>1. RequirementId(x.raw, m) = RequirementId(x.raw, n)
    BY <1>3, <1>4, SameIdAgain
  <2> QED
    BY <1>1, <1>2, <1>4, <2>1 DEF NormalizeRequirement
<1>5. ASSUME y.raw = x.made PROVE y.made = x.made
  BY <1>1, <1>2, <1>3, <1>5, RequirementAgain
<1> QED
  BY <1>4, <1>5

\* The ids that normalization makes, by kind, and what they are made of.
LEMMA MadeOf ==
  ASSUME NEW raw \in RawRequirement, raw.id = Omitted, NEW n \in Nat
  PROVE  LET id == RequirementId(raw, n)
             words == raw.externalId.words
         IN \/ /\ Named(raw) /\ Normalized(words) # <<>>
               /\ id = <<"req", "slug", Normalized(words)>>
            \/ id[2] = "hash" /\ id[3].words = Says(raw)
            \/ id[2] = "random" /\ Says(raw) = <<>>
<1>1. CASE Named(raw)
  BY <1>1 DEF Named, RequirementId, SlugId, HashId, Says
<1>2. CASE ~Named(raw)
  BY <1>2 DEF Named, RequirementId, HashId, RandomId, Says, Join
<1> QED
  BY <1>1, <1>2

\* The id of a pair is the one that its run made.
LEMMA PairMade ==
  ASSUME IdsInv, NEW x \in pairs
  PROVE  /\ x.raw \in RawRequirement
         /\ \E n \in Nat : /\ x.made = NormalizeRequirement(x.raw, n)
                         /\ Made(x) = RequirementId(x.raw, n)
<1>1. PICK n \in Nat : x.made = NormalizeRequirement(x.raw, n)
  BY DEF IdsInv
<1>2. Made(x) = RequirementId(x.raw, n)
  BY <1>1 DEF Made, NormalizeRequirement
<1> QED
  BY <1>1, <1>2 DEF IdsInv

\* What the ids of two sources have in common when they are one.
LEMMA SharedId ==
  ASSUME IdsInv, NEW x \in pairs, NEW y \in pairs,
         x.raw.id = Omitted, y.raw.id = Omitted, Made(x) = Made(y)
  PROVE  /\ \/ /\ Named(x.raw) /\ Named(y.raw)
               /\ SameSlug(x.raw.externalId.words, y.raw.externalId.words)
            \/ Says(x.raw) = Says(y.raw)
         /\ x.raw \in RawRequirement /\ y.raw \in RawRequirement
<1> DEFINE v == x.raw.externalId.words
           w == y.raw.externalId.words
<1>1. PICK id : Made(x) = id /\ Made(y) = id
  OBVIOUS
<1>2. /\ x.raw \in RawRequirement /\ y.raw \in RawRequirement
      /\ \E m \in Nat : id = RequirementId(x.raw, m)
      /\ \E n \in Nat : id = RequirementId(y.raw, n)
  <2>1. PICK m \in Nat : Made(x) = RequirementId(x.raw, m)
    BY PairMade
  <2>2. PICK n \in Nat : Made(y) = RequirementId(y.raw, n)
    BY PairMade
  <2> QED
    BY <1>1, <2>1, <2>2, PairMade
<1>3. /\ \/ Named(x.raw) /\ Normalized(v) # <<>> /\ id = <<"req", "slug", Normalized(v)>>
         \/ id[2] = "hash" /\ id[3].words = Says(x.raw)
         \/ id[2] = "random" /\ Says(x.raw) = <<>>
      /\ \/ Named(y.raw) /\ Normalized(w) # <<>> /\ id = <<"req", "slug", Normalized(w)>>
         \/ id[2] = "hash" /\ id[3].words = Says(y.raw)
         \/ id[2] = "random" /\ Says(y.raw) = <<>>
  <2>1. ASSUME NEW raw \in RawRequirement, raw.id = Omitted, \E n \in Nat : id = RequirementId(raw, n)
        PROVE  LET words == raw.externalId.words
               IN \/ Named(raw) /\ Normalized(words) # <<>> /\ id = <<"req", "slug", Normalized(words)>>
                  \/ id[2] = "hash" /\ id[3].words = Says(raw)
                  \/ id[2] = "random" /\ Says(raw) = <<>>
    BY <2>1, MadeOf
  <2> QED
    BY <1>2, <2>1
<1> HIDE DEF v, w
<1>4. ASSUME id = <<"req", "slug", Normalized(v)>> PROVE id[2] = "slug" /\ id[3] = Normalized(v)
  BY <1>4
<1>5. ASSUME id = <<"req", "slug", Normalized(w)>> PROVE id[2] = "slug" /\ id[3] = Normalized(w)
  BY <1>5
<1> QED
  BY <1>2, <1>3, <1>4, <1>5 DEF SameSlug, v, w

LEMMA TellApart == IdsInv => RequirementIdsTellApart
<1> SUFFICES ASSUME IdsInv, NEW x \in pairs, NEW y \in pairs,
                    x.raw.id = Omitted, y.raw.id = Omitted, Made(x) = Made(y)
             PROVE  /\ \/ /\ Named(x.raw) /\ Named(y.raw)
                          /\ SameSlug(x.raw.externalId.words, y.raw.externalId.words)
                       \/ Says(x.raw) = Says(y.raw)
                    /\ (Reused(x.raw) /\ Reused(y.raw)) =>
                         x.raw.externalId.words = y.raw.externalId.words
  BY DEF RequirementIdsTellApart
<1>1. \/ /\ Named(x.raw) /\ Named(y.raw)
         /\ SameSlug(x.raw.externalId.words, y.raw.externalId.words)
      \/ Says(x.raw) = Says(y.raw)
  BY SharedId
<1>2. ASSUME Reused(x.raw), Reused(y.raw)
      PROVE  x.raw.externalId.words = y.raw.externalId.words
  <2>1. PICK v \in Tidy : x.raw.externalId.words = <<v>>
    BY <1>2 DEF Reused
  <2>2. PICK w \in Tidy : y.raw.externalId.words = <<w>>
    BY <1>2 DEF Reused
  <2>3. CASE Says(x.raw) = Says(y.raw)
    BY <1>2, <2>3 DEF Says, Reused
  <2>4. CASE SameSlug(x.raw.externalId.words, y.raw.externalId.words)
    <3>1. Normalized(<<v>>) = Normalized(<<w>>)
      BY <2>1, <2>2, <2>4 DEF SameSlug
    <3>2. Slug[v] = Slug[w]
      BY <3>1, TidyKept
    <3>3. v = w
      BY <3>2, IdsAssumption
    <3> QED
      BY <2>1, <2>2, <3>3
  <2> QED
    BY <1>1, <2>3, <2>4
<1> QED
  BY <1>1, <1>2

\* The id made of a criterion is told by its requirement's id and its description.
LEMMA CriterionMadeOf ==
  ASSUME NEW c \in RawCriterion, NEW d \in RawCriterion, NEW i, NEW j,
         c.id = Omitted, d.id = Omitted
  PROVE  /\ CriterionId(c, i) = CriterionId(d, j)
              => i = j /\ c.description.words = d.description.words
         /\ i = j /\ c.description = d.description => CriterionId(c, i) = CriterionId(d, j)
<1> DEFINE lead == [words |-> <<"id">>, padded |-> FALSE]
           one == Join(lead, c.description)
           two == Join(lead, d.description)
<1>1. CriterionId(c, i) = <<"ac", "hash", <<i, one>>>> /\ CriterionId(d, j) = <<"ac", "hash", <<j, two>>>>
  BY DEF CriterionId, HashId
<1>2. one = two => c.description.words = d.description.words
  <2>1. one.words = <<"id">> \o c.description.words /\ two.words = <<"id">> \o d.description.words
    BY DEF Join
  <2>2. c.description.words \in Seq(Word) /\ d.description.words \in Seq(Word)
    BY DEF RawCriterion, Text
  <2>3. \A v, w \in Seq(Word) : <<"id">> \o v = <<"id">> \o w => v = w
    <3> TAKE v, w \in Seq(Word)
    <3> HAVE <<"id">> \o v = <<"id">> \o w
    <3>1. Len(<<"id">> \o v) = 1 + Len(v) /\ Len(<<"id">> \o w) = 1 + Len(w)
      OBVIOUS
    <3>2. Len(v) = Len(w)
      BY <3>1
    <3>3. \A k \in 1..Len(v) : v[k] = (<<"id">> \o v)[k + 1]
      OBVIOUS
    <3>4. \A k \in 1..Len(w) : w[k] = (<<"id">> \o w)[k + 1]
      OBVIOUS
    <3>5. \A k \in 1..Len(v) : v[k] = w[k]
      BY <3>2, <3>3, <3>4
    <3> QED
      BY <3>2, <3>5
  <2> HIDE DEF one, two
  <2> QED
    BY <2>1, <2>2, <2>3
<1>3. c.description = d.description => one = two
  OBVIOUS
<1> HIDE DEF one, two
<1> QED
  BY <1>1, <1>2, <1>3

LEMMA CriteriaTellApart == IdsInv => CriterionIdsTellApart
<1> SUFFICES ASSUME IdsInv, NEW x \in pairs, NEW y \in pairs,
                    NEW j \in DOMAIN x.raw.acceptanceCriteria,
                    NEW k \in DOMAIN y.raw.acceptanceCriteria,
                    x.raw.acceptanceCriteria[j].id = Omitted,
                    y.raw.acceptanceCriteria[k].id = Omitted
             PROVE  LET c == x.raw.acceptanceCriteria[j]
                        d == y.raw.acceptanceCriteria[k]
                        same == CriterionIds(x)[j] = CriterionIds(y)[k]
                    IN /\ same => Made(x) = Made(y) /\ c.description.words = d.description.words
                       /\ Made(x) = Made(y) /\ c.description = d.description => same
  BY DEF CriterionIdsTellApart
<1>1. ASSUME NEW z \in pairs, NEW i \in DOMAIN z.raw.acceptanceCriteria
      PROVE  /\ z.raw.acceptanceCriteria[i] \in RawCriterion
             /\ CriterionIds(z)[i] = CriterionId(z.raw.acceptanceCriteria[i], Made(z))
  <2>1. PICK n \in Nat : z.made = NormalizeRequirement(z.raw, n) /\ Made(z) = RequirementId(z.raw, n)
    BY PairMade
  <2> DEFINE list == [m \in DOMAIN z.raw.acceptanceCriteria |->
                        NormalizeCriterion(z.raw.acceptanceCriteria[m], Made(z))]
  <2>2. z.made.acceptanceCriteria = list
    BY <2>1 DEF NormalizeRequirement
  <2>3. list[i].id = CriterionId(z.raw.acceptanceCriteria[i], Made(z))
    BY DEF NormalizeCriterion
  <2>4. CriterionIds(z)[i] = list[i].id
    BY <2>2 DEF CriterionIds
  <2>5. z.raw.acceptanceCriteria[i] \in RawCriterion
    BY PairMade DEF RawRequirement
  <2> HIDE DEF list
  <2> QED
    BY <2>3, <2>4, <2>5
<1> QED
  BY <1>1, CriterionMadeOf

\* In every reachable state the ids and texts that normalizeRequirement and buildId
\* made identify their sources: the same source has the same ids whatever run it is
\* in, a normalized requirement is left as it is, and sources or criteria share a
\* made id only if their texts, or the normalized beginnings of their external ids, do.
THEOREM IdsTheorem == IdsSpec => []IdsIdentify
<1>1. IdsInv => IdsIdentify
  BY IdsTyped, NoDrift, TellApart, CriteriaTellApart DEF IdsIdentify
<1> QED
  BY <1>1, IdsInvHolds, PTL

=============================================================================
