------------------------- MODULE WorkspaceFilesProofs -------------------------
(***************************************************************************)
(* Theorems about WorkspaceFiles, PathPolicy and FileSystemTwins, for any  *)
(* number of clients, any workspace, any roots, paths and contents.        *)
(***************************************************************************)
EXTENDS FileSystemTwins, FiniteSetTheorems, SequenceLemmas

-----------------------------------------------------------------------------
(* Naturals and paths *)

\* Min finds an element.
LEMMA MinFound ==
  ASSUME NEW T \in SUBSET Nat, T # {}
  PROVE  Min(T) \in T
BY Least DEF Min

\* The elements of two sequences put together.
LEMMA ConcatElements ==
  ASSUME NEW S, NEW s \in Seq(S), NEW t \in Seq(S)
  PROVE  /\ s \o t \in Seq(S) /\ Len(s \o t) = Len(s) + Len(t)
         /\ \A n \in 1..Len(s) : (s \o t)[n] = s[n]
         /\ \A n \in (Len(s) + 1)..Len(s \o t) : (s \o t)[n] = t[n - Len(s)]
<1>1. Len(s) \in Nat /\ Len(t) \in Nat
  BY LenProperties
<1> QED BY <1>1, ConcatProperties

\* A prefix agrees element by element.
LEMMA PrefixElements ==
  ASSUME NEW S, NEW s \in Seq(S), NEW t \in Seq(S)
  PROVE  IsPrefix(s, t) <=> Len(s) <= Len(t) /\ \A n \in 1..Len(s) : s[n] = t[n]
<1>1. SubSeq(s, 1, Len(s)) = s
  OBVIOUS
<1>2. CASE Len(s) <= Len(t)
  <2>1. /\ SubSeq(t, 1, Len(s)) \in Seq(S) /\ Len(SubSeq(t, 1, Len(s))) = Len(s)
        /\ \A n \in 1..Len(s) : SubSeq(t, 1, Len(s))[n] = t[n]
    BY <1>2, LenProperties
  <2> QED BY <1>1, <1>2, <2>1, SeqEqual DEF IsPrefix
<1> QED BY <1>2, LenProperties DEF IsPrefix

\* The ancestors of a path are its prefixes other than itself and the empty one.
LEMMA AncestorElements ==
  ASSUME NEW S, NEW p \in Seq(S), NEW a
  PROVE  a \in Ancestors(p)
           <=> a \in Seq(S) /\ Len(a) \in 1..(Len(p) - 1) /\ \A n \in 1..Len(a) : a[n] = p[n]
<1>1. \A m \in 1..(Len(p) - 1) :
        /\ SubSeq(p, 1, m) \in Seq(S) /\ Len(SubSeq(p, 1, m)) = m
        /\ \A n \in 1..m : SubSeq(p, 1, m)[n] = p[n]
  BY LenProperties
<1>2. ASSUME a \in Seq(S), Len(a) \in 1..(Len(p) - 1), \A n \in 1..Len(a) : a[n] = p[n]
      PROVE  a = SubSeq(p, 1, Len(a))
  BY <1>1, <1>2, SeqEqual
<1> QED BY <1>1, <1>2 DEF Ancestors

\* The ancestors of an ancestor are ancestors.
LEMMA AncestorsNest ==
  ASSUME NEW S, NEW p \in Seq(S), NEW a \in Ancestors(p)
  PROVE  a \in Seq(S) /\ a # p /\ Ancestors(a) \subseteq Ancestors(p)
<1>1. /\ a \in Seq(S) /\ Len(a) \in 1..(Len(p) - 1)
      /\ \A n \in 1..Len(a) : a[n] = p[n]
  BY AncestorElements
<1>2. ASSUME NEW o \in Ancestors(a)
      PROVE  o \in Ancestors(p)
  <2>1. /\ o \in Seq(S) /\ Len(o) \in 1..(Len(a) - 1)
        /\ \A n \in 1..Len(o) : o[n] = a[n]
    BY <1>1, AncestorElements
  <2>2. Len(o) \in 1..(Len(p) - 1) /\ \A n \in 1..Len(o) : o[n] = p[n]
    BY <1>1, <2>1, LenProperties
  <2> QED BY <2>1, <2>2, AncestorElements
<1>3. a # p
  BY <1>1, LenProperties
<1> QED BY <1>1, <1>2, <1>3

\* Of two prefixes of a path one is a prefix of the other.
LEMMA PrefixesCompare ==
  ASSUME NEW S, NEW p \in Seq(S), NEW r \in Seq(S), NEW a \in Seq(S),
         IsPrefix(r, p), IsPrefix(a, p)
  PROVE  /\ IsPrefix(r, a) \/ IsPrefix(a, r)
         /\ IsPrefix(a, r) => a = r \/ a = <<>> \/ a \in Ancestors(r)
<1>1. /\ Len(r) <= Len(p) /\ \A n \in 1..Len(r) : r[n] = p[n]
      /\ Len(a) <= Len(p) /\ \A n \in 1..Len(a) : a[n] = p[n]
  BY PrefixElements
<1>2. Len(r) \in Nat /\ Len(a) \in Nat
  BY LenProperties
<1>3. IsPrefix(r, a) \/ IsPrefix(a, r)
  BY <1>1, <1>2, PrefixElements
<1>4. ASSUME IsPrefix(a, r), a # r, a # <<>>
      PROVE  a \in Ancestors(r)
  <2>1. Len(a) <= Len(r) /\ \A n \in 1..Len(a) : a[n] = r[n]
    BY <1>4, PrefixElements
  <2>2. Len(a) # Len(r)
    BY <1>4, <2>1, SeqEqual
  <2>3. Len(a) # 0
    BY <1>4, EmptySeq
  <2> QED BY <1>2, <2>1, <2>2, <2>3, AncestorElements
<1> QED BY <1>3, <1>4

\* The directory a path lies in is its nearest ancestor.
LEMMA ParentAncestor ==
  ASSUME NEW S, NEW p \in Seq(S), Len(p) \in Nat \ {0, 1}
  PROVE  Parent(p) \in Ancestors(p) /\ Ancestors(p) = Ancestors(Parent(p)) \cup {Parent(p)}
<1>1. PICK m \in Nat : Len(p) = m + 1 /\ m # 0
  <2>1. \A n \in Nat \ {0, 1} : n - 1 \in Nat /\ n = (n - 1) + 1 /\ n - 1 # 0
    OBVIOUS
  <2> QED BY <2>1
<1> DEFINE f == SubSeq(p, 1, m)
<1>2. f \in Seq(S) /\ Len(f) = m /\ \A n \in 1..m : f[n] = p[n]
  <2>1. m <= Len(p)
    BY <1>1
  <2> QED BY <2>1, LenProperties
<1>3. Parent(p) = f
  <2>1. Front(p) = f
    BY <1>1 DEF Front
  <2> HIDE DEF f
  <2> QED BY <1>1, <2>1 DEF Parent
<1> HIDE DEF f
<1>4. f \in Ancestors(p)
  BY <1>1, <1>2, AncestorElements
<1>5. Ancestors(f) \subseteq Ancestors(p)
  BY <1>4, AncestorsNest
<1>6. ASSUME NEW a \in Ancestors(p), a # f
      PROVE  a \in Ancestors(f)
  <2>1. /\ a \in Seq(S) /\ Len(a) \in 1..(Len(p) - 1)
        /\ \A n \in 1..Len(a) : a[n] = p[n]
    BY AncestorElements
  <2>2. Len(a) # Len(f)
    BY <1>2, <1>6, <2>1, SeqEqual
  <2>3. Len(a) \in 1..(Len(f) - 1) /\ \A n \in 1..Len(a) : a[n] = f[n]
    BY <1>1, <1>2, <2>1, <2>2
  <2> QED BY <1>2, <2>1, <2>3, AncestorElements
<1> QED BY <1>3, <1>4, <1>5, <1>6

\* On the way from a directory to a path below it comes an entry of the directory.
LEMMA NextBelow ==
  ASSUME NEW S, NEW q \in Seq(S), NEW p \in Seq(S), IsPrefix(p, q), p # q
  PROVE  \E r \in Seq(S) :
           /\ r = q \/ r \in Ancestors(q)
           /\ Len(r) = Len(p) + 1 /\ Front(r) = p /\ r = Append(p, Last(r)) /\ Last(r) \in S
<1> DEFINE r == SubSeq(q, 1, Len(p) + 1)
<1>1. Len(p) \in Nat /\ Len(q) \in Nat
  BY LenProperties
<1>2. Len(p) <= Len(q) /\ \A n \in 1..Len(p) : p[n] = q[n]
  BY PrefixElements
<1>3. Len(p) < Len(q)
  BY <1>1, <1>2, SeqEqual
<1>4. r \in Seq(S) /\ Len(r) = Len(p) + 1 /\ \A n \in 1..(Len(p) + 1) : r[n] = q[n]
  BY <1>1, <1>3
<1> HIDE DEF r
<1>5. r = q \/ r \in Ancestors(q)
  <2>1. CASE Len(q) = Len(p) + 1
    BY <1>4, <2>1, SeqEqual
  <2>2. CASE Len(q) # Len(p) + 1
    <3>1. Len(r) \in 1..(Len(q) - 1) /\ \A n \in 1..Len(r) : r[n] = q[n]
      BY <1>1, <1>3, <1>4, <2>2
    <3> QED BY <1>4, <3>1, AncestorElements
  <2> QED BY <2>1, <2>2
<1>6. Front(r) = p
  <2>1. /\ SubSeq(r, 1, Len(p)) \in Seq(S) /\ Len(SubSeq(r, 1, Len(p))) = Len(p)
        /\ \A n \in 1..Len(p) : SubSeq(r, 1, Len(p))[n] = r[n]
    BY <1>1, <1>4
  <2>2. SubSeq(r, 1, Len(p)) = p
    BY <1>1, <1>2, <1>4, <2>1, SeqEqual
  <2> QED BY <1>1, <1>4, <2>2 DEF Front
<1>7. Last(r) \in S /\ Last(r) = r[Len(p) + 1]
  BY <1>1, <1>4 DEF Last
<1>8. r = Append(p, Last(r))
  <2> DEFINE w == Append(p, Last(r))
  <2>1. w \in Seq(S) /\ Len(w) = Len(p) + 1 /\ \A n \in 1..Len(p) : w[n] = p[n]
    BY <1>1, <1>7
  <2>2. w[Len(p) + 1] = Last(r)
    BY <1>1, <1>7
  <2> HIDE DEF w
  <2>3. \A n \in 1..Len(r) : r[n] = w[n]
    BY <1>1, <1>2, <1>4, <1>7, <2>1, <2>2
  <2>4. r = w
    BY <1>4, <2>1, <2>3, SeqEqual
  <2> QED BY <2>4 DEF w
<1> QED BY <1>4, <1>5, <1>6, <1>7, <1>8

-----------------------------------------------------------------------------
(* The inductive invariant *)

Path == [absolute : BOOLEAN, segments : Seq(Segment)]
Entry == {Absent, Dir} \cup Seq(Chunk)
Reply == {<<>>, <<"ok">>, <<"unsafe">>, <<"notFound">>, <<"raw">>}
          \cup ({"content"} \X Seq(Chunk)) \cup ({"exists"} \X BOOLEAN)
Phase == {"read", "parents", "open", "fill", "access", "readdir", "mkdir", "stat", "unlink", "done"}

CallRecord ==
  [op : Operation \cup {"none"}, at : Seq(Segment), content : Seq(Chunk), phase : Phase,
   linked : BOOLEAN, todo : Seq(Path), found : SUBSET Node, answer : Reply,
   disturbed : BOOLEAN, always : SUBSET Node, ever : SUBSET Node]

\* The workspace is a tree, and the roots are directories of it.
IsTree(d) == \A p \in Node : d[p] # Absent => \A a \in Ancestors(p) : d[a] = Dir
HasRoots(d) == \A k \in DOMAIN Root : d[Root[k]] = Dir

DiskOK ==
  /\ disk \in [Node -> Entry] /\ IsTree(disk) /\ HasRoots(disk)
  /\ calls \in 0..MaxCalls /\ faults \in 0..MaxFaults /\ spoilt \subseteq Node
  /\ call \in [Client -> CallRecord]

Below(at, p) == IsPrefix(at, p) /\ p # at
Inside(at) ==
  \E k \in DOMAIN Root :
    /\ IsPrefix(Root[k], at)
    /\ \A n \in (Len(Root[k]) + 1)..Len(at) : at[n] \notin Blocked

\* The operation a call under way belongs to.
Belongs(op, phase) ==
  \/ op = "readFile" /\ phase = "read"
  \/ op = "writeFile" /\ phase \in {"parents", "open", "fill"}
  \/ op = "exists" /\ phase = "access"
  \/ op = "listFiles" /\ phase = "readdir"
  \/ op = "createDirectory" /\ phase = "mkdir"
  \/ op = "deleteFile" /\ phase \in {"stat", "unlink"}

\* A call under way is at a node that its client may touch.
PlaceOK(c) ==
  ~In(c, "done") =>
    /\ At(c) \in Node /\ Inside(At(c))
    /\ Belongs(call[c].op, call[c].phase) /\ call[c].answer = <<>>
    /\ call[c].op = "writeFile" => call[c].content \in Content
    /\ call[c].op = "listFiles" => call[c].todo # <<>>

\* An open file that only one client writes is empty until it is filled.
WriterOK(c) ==
  In(c, "fill") /\ call[c].linked =>
    /\ IsFile(disk[At(c)])
    /\ At(c) \notin spoilt => disk[At(c)] = <<>> /\ Writers(At(c)) = {c}

WholeOK == \A p \in Files : disk[p] \in Content \/ Writers(p) # {} \/ p \in spoilt

\* What an undisturbed call found out still holds.
SteadyOK(c) ==
  ~call[c].disturbed =>
    /\ In(c, "fill") => call[c].linked /\ disk[At(c)] = <<>>
    /\ In(c, "unlink") => IsFile(disk[At(c)])

\* A file below the directory that was there all the time has been found, or is
\* below a directory still to be listed, or the listing is going to fail.
Awaited(todo, p) == \E j \in DOMAIN todo : IsSafe(todo[j]) => Below(AssertSafe(todo[j]), p)

Listing(k) ==
  /\ k.always \subseteq Files /\ Files \subseteq k.ever
  /\ \A p \in k.found : p \in k.ever /\ Below(k.at, p)
  /\ \A j \in DOMAIN k.todo : IsSafe(k.todo[j]) =>
       AssertSafe(k.todo[j]) \in Seq(Segment) /\ IsPrefix(k.at, AssertSafe(k.todo[j]))
  /\ \A p \in k.always : Below(k.at, p) => p \in k.found \/ Awaited(k.todo, p)

ListingOK(c) == In(c, "readdir") => Listing(call[c])

-----------------------------------------------------------------------------
(* What assertSafe returns *)

\* A safe path lies below a root, the first that holds it, and not in a blocked
\* directory of it.
LEMMA SafeInside ==
  ASSUME NEW path \in Path, IsSafe(path)
  PROVE  AssertSafe(path) \in Seq(Segment) /\ Inside(AssertSafe(path))
<1> DEFINE k == Min(RootsOf(path))
           at == Root[k] \o path.segments
<1>1. Root \in Seq(Seq(Segment)) /\ path.segments \in Seq(Segment)
  BY FilesAssumption DEF PathAssumption, Path
<1>2. RootsOf(path) \in SUBSET Nat
  BY <1>1, LenProperties DEF RootsOf
<1>3. k \in RootsOf(path)
  BY <1>2, MinFound DEF IsSafe
<1> HIDE DEF k
<1>4. k \in DOMAIN Root /\ Root[k] \in Seq(Segment)
  BY <1>1, <1>3, ElementOfSeq, LenProperties DEF RootsOf
<1>5. /\ at \in Seq(Segment) /\ Len(at) = Len(Root[k]) + Len(path.segments)
      /\ \A n \in 1..Len(Root[k]) : at[n] = Root[k][n]
      /\ \A n \in (Len(Root[k]) + 1)..Len(at) : at[n] = path.segments[n - Len(Root[k])]
  BY <1>1, <1>4, ConcatElements
<1>6. Len(Root[k]) \in Nat /\ Len(path.segments) \in Nat /\ DOMAIN path.segments = 1..Len(path.segments)
  BY <1>1, <1>4, LenProperties
<1>7. AssertSafe(path) = at
  BY DEF AssertSafe, Resolve, k
<1> HIDE DEF at
<1>8. IsPrefix(Root[k], at)
  BY <1>4, <1>5, <1>6, PrefixElements
<1>9. ASSUME NEW n \in (Len(Root[k]) + 1)..Len(at)
      PROVE  at[n] \notin Blocked
  <2>1. n - Len(Root[k]) \in DOMAIN path.segments
    <3>1. \A i, j \in Nat : \A x \in (i + 1)..(i + j) : x - i \in 1..j
      OBVIOUS
    <3> QED BY <1>5, <1>6, <3>1
  <2>2. path.segments[n - Len(Root[k])] \notin Blocked
    BY <2>1 DEF IsSafe, SegmentsAllowed
  <2> QED BY <1>5, <2>2
<1> QED BY <1>4, <1>5, <1>7, <1>8, <1>9 DEF Inside

\* No root lies in another.
RootsApart == \A j, k \in DOMAIN Root : IsPrefix(Root[j], Root[k]) => j = k

\* An entry of a directory that a client named is named by the name of the directory
\* and its own, if assertSafe lets both pass and no root lies in another.
LEMMA SafeUnder ==
  ASSUME RootsApart, NEW path \in Path, NEW name \in Segment,
         IsSafe(path), IsSafe(Under(path, name))
  PROVE  AssertSafe(Under(path, name)) = Append(AssertSafe(path), name)
<1> DEFINE next == Under(path, name)
           segs == path.segments
           more == Append(path.segments, name)
<1>1. Root \in Seq(Seq(Segment)) /\ segs \in Seq(Segment) /\ path.absolute \in BOOLEAN
  BY FilesAssumption DEF PathAssumption, Path
<1>2. next.absolute = path.absolute /\ next.segments = more
  BY DEF Under
<1>3. \A k \in DOMAIN Root : Root[k] \in Seq(Segment)
  BY <1>1, ElementOfSeq, LenProperties
<1>4. /\ more \in Seq(Segment) /\ Len(more) = Len(segs) + 1 /\ Len(segs) \in Nat
      /\ \A n \in 1..Len(segs) : more[n] = segs[n]
  BY <1>1, AppendProperties, LenProperties
<1>5. RootsOf(path) \in SUBSET Nat /\ RootsOf(path) # {} /\ RootsOf(next) # {}
  BY <1>1, LenProperties DEF RootsOf, IsSafe
<1> HIDE DEF next, segs, more
<1>6. RootsOf(next) = RootsOf(path)
  <2>1. CASE path.absolute
    <3>1. \A k \in RootsOf(path) : k \in DOMAIN Root /\ IsPrefix(Root[k], segs)
      <4>1. <<>> \o segs = segs
        BY <1>1
      <4> QED BY <2>1, <4>1 DEF RootsOf, IsWithinRoot, Resolve, segs
    <3>2. \A k \in RootsOf(next) : k \in DOMAIN Root /\ IsPrefix(Root[k], more)
      <4>1. <<>> \o more = more
        BY <1>4
      <4> QED BY <1>2, <2>1, <4>1 DEF RootsOf, IsWithinRoot, Resolve
    <3>3. \A k \in RootsOf(path) : IsPrefix(Root[k], more)
      <4> TAKE k \in RootsOf(path)
      <4>1. Root[k] \in Seq(Segment) /\ Len(Root[k]) \in Nat
        BY <1>3, <3>1, LenProperties
      <4>2. Len(Root[k]) <= Len(segs) /\ \A n \in 1..Len(Root[k]) : Root[k][n] = segs[n]
        BY <1>1, <3>1, <4>1, PrefixElements
      <4>3. Len(Root[k]) <= Len(more) /\ \A n \in 1..Len(Root[k]) : Root[k][n] = more[n]
        BY <1>4, <4>1, <4>2
      <4> QED BY <1>4, <4>1, <4>3, PrefixElements
    <3>4. \A j \in RootsOf(next), k \in RootsOf(path) \cup RootsOf(next) : j = k
      <4> TAKE j \in RootsOf(next), k \in RootsOf(path) \cup RootsOf(next)
      <4>1. IsPrefix(Root[j], Root[k]) \/ IsPrefix(Root[k], Root[j])
        BY <1>3, <1>4, <3>1, <3>2, <3>3, PrefixesCompare
      <4> QED BY <3>1, <3>2, <4>1 DEF RootsApart
    <3> QED BY <1>5, <3>4
  <2>2. CASE ~path.absolute
    <3>1. ASSUME NEW w \in Path, ~w.absolute, RootsOf(w) # {}
          PROVE  RootsOf(w) = DOMAIN Root
      <4> DEFINE far(k) == Resolve(Root[k], w.segments)
      <4>1. ASSUME NEW k \in DOMAIN Root
            PROVE  k \in RootsOf(w) <=> (w.segments # <<>> => w.segments[1] \notin Dotted)
        <5>1. w.segments \in Seq(Segment) /\ Root[k] \in Seq(Segment)
          BY <1>3 DEF Path
        <5>2. Len(w.segments) \in Nat /\ Len(Root[k]) \in Nat
              /\ (w.segments = <<>> <=> Len(w.segments) = 0)
          BY <5>1, LenProperties, EmptySeq
        <5>3. /\ far(k) \in Seq(Segment) /\ Len(far(k)) = Len(Root[k]) + Len(w.segments)
              /\ \A n \in 1..Len(Root[k]) : far(k)[n] = Root[k][n]
              /\ \A n \in (Len(Root[k]) + 1)..Len(far(k)) : far(k)[n] = w.segments[n - Len(Root[k])]
          BY <5>1, ConcatElements DEF Resolve
        <5>4. k \in RootsOf(w) <=> /\ IsPrefix(Root[k], far(k))
                                   /\ Len(far(k)) > Len(Root[k]) => far(k)[Len(Root[k]) + 1] \notin Dotted
          BY <3>1 DEF RootsOf, IsWithinRoot
        <5> HIDE DEF far
        <5>5. IsPrefix(Root[k], far(k))
          BY <5>1, <5>2, <5>3, PrefixElements
        <5>6. Len(far(k)) > Len(Root[k]) <=> w.segments # <<>>
          BY <5>2, <5>3
        <5>7. w.segments # <<>> => far(k)[Len(Root[k]) + 1] = w.segments[1]
          <6>1. Len(w.segments) # 0 => Len(Root[k]) + 1 \in (Len(Root[k]) + 1)..Len(far(k))
                                       /\ (Len(Root[k]) + 1) - Len(Root[k]) = 1
            BY <5>2, <5>3
          <6> QED BY <5>2, <5>3, <6>1
        <5> QED BY <5>4, <5>5, <5>6, <5>7
      <4> QED BY <3>1, <4>1 DEF RootsOf
    <3>2. next \in Path
      BY <1>1, <1>4 DEF Path, Under, next, more
    <3> QED BY <1>2, <1>5, <2>2, <3>1, <3>2
  <2> QED BY <1>1, <2>1, <2>2
<1>7. Min(RootsOf(path)) \in DOMAIN Root
  BY <1>5, MinFound DEF RootsOf
<1> DEFINE r == Root[Min(RootsOf(path))]
<1>8. r \in Seq(Segment)
  BY <1>3, <1>7
<1>9. AssertSafe(next) = r \o more /\ AssertSafe(path) = r \o segs
  BY <1>2, <1>6 DEF AssertSafe, Resolve, segs
<1> HIDE DEF r
<1>10. r \o Append(segs, name) = Append(r \o segs, name)
  BY <1>1, <1>8
<1> QED BY <1>9, <1>10 DEF more, next, segs

-----------------------------------------------------------------------------
(* What a step is to the clients that do not take it *)

FilesOf(d) == {p \in Node : IsFile(d[p])}

Kept(e) ==
  LET k == call[e]
      n == call'[e]
  IN IF In(e, "done") THEN n = NoCall
     ELSE /\ n.op = k.op /\ n.at = k.at /\ n.content = k.content /\ n.phase = k.phase
          /\ n.todo = k.todo /\ n.found = k.found /\ n.answer = k.answer
          /\ n.linked => k.linked
          /\ ~n.disturbed => ~k.disturbed /\ n.linked = k.linked /\ disk'[k.at] = disk[k.at]
          /\ k.op = "listFiles" => n.always = k.always \cap FilesOf(disk') /\ n.ever = k.ever \cup FilesOf(disk')

LEMMA NoCallRecord == NoCall \in CallRecord
BY EmptySeq DEF NoCall, CallRecord, Operation, Phase, Reply

LEMMA WatchedRecord ==
  ASSUME NEW k \in CallRecord, NEW d
  PROVE  LET w == Watched(d, k)
         IN /\ w \in CallRecord
            /\ k.phase = "done" => w = NoCall
            /\ k.phase # "done" =>
                 /\ w.op = k.op /\ w.at = k.at /\ w.content = k.content /\ w.phase = k.phase
                 /\ w.todo = k.todo /\ w.found = k.found /\ w.answer = k.answer /\ w.linked = k.linked
                 /\ ~w.disturbed => ~k.disturbed /\ d[k.at] = disk[k.at]
                 /\ k.op = "listFiles" => w.always = k.always \cap FilesOf(d) /\ w.ever = k.ever \cup FilesOf(d)
<1>1. CASE k.phase = "done"
  BY <1>1, NoCallRecord DEF Watched
<1>2. CASE k.phase # "done"
  <2> DEFINE files == IF k.op = "listFiles" THEN {p \in Node : IsFile(d[p])} ELSE {}
             moved == \E p \in {k.at} \cup Ancestors(k.at) : d[p] # disk[p]
             w == [k EXCEPT !.always = @ \cap files, !.ever = @ \cup files, !.disturbed = @ \/ moved]
  <2>1. Watched(d, k) = w
    BY <1>2 DEF Watched
  <2>2. files \in SUBSET Node /\ (k.op = "listFiles" => files = FilesOf(d))
    BY DEF FilesOf
  <2>3. ~moved => d[k.at] = disk[k.at]
    OBVIOUS
  <2> HIDE DEF files, moved
  <2>4. (k.disturbed \/ moved) \in BOOLEAN
    OBVIOUS
  <2>5. w \in CallRecord
    BY <2>2, <2>4 DEF CallRecord
  <2>6. /\ w.op = k.op /\ w.at = k.at /\ w.content = k.content /\ w.phase = k.phase
        /\ w.todo = k.todo /\ w.found = k.found /\ w.answer = k.answer /\ w.linked = k.linked
        /\ w.always = k.always \cap files /\ w.ever = k.ever \cup files
    BY DEF CallRecord
  <2>7. w.disturbed = (k.disturbed \/ moved)
    BY DEF CallRecord
  <2> HIDE DEF w
  <2> QED BY <1>2, <2>1, <2>2, <2>3, <2>5, <2>6, <2>7
<1> QED BY <1>1, <1>2

LEMMA OthersKept ==
  ASSUME call \in [Client -> CallRecord], NEW c \in Client, NEW n, NEW d, Step(c, n, d)
  PROVE  disk' = d /\ call'[c] = n /\ \A e \in Client \ {c} : Kept(e)
<1>1. disk' = d /\ call' = [e \in Client |-> IF e = c THEN n ELSE Watched(d, call[e])]
  BY DEF Step
<1>2. ASSUME NEW e \in Client \ {c}
      PROVE  Kept(e)
  <2>1. call'[e] = Watched(d, call[e]) /\ call[e] \in CallRecord
    BY <1>1
  <2> QED BY <1>1, <2>1, WatchedRecord DEF Kept, In
<1> QED BY <1>1, <1>2

LEMMA StepKeeps ==
  ASSUME call \in [Client -> CallRecord], NEW c \in Client, NEW n \in CallRecord, NEW d,
         Step(c, n, d)
  PROVE  /\ disk' = d /\ call' \in [Client -> CallRecord] /\ call'[c] = n
         /\ \A e \in Client \ {c} : Kept(e)
         /\ \A p : Writers(p)' \ {c} = Writers(p) \ {c}
<1>1. disk' = d /\ call' = [e \in Client |-> IF e = c THEN n ELSE Watched(d, call[e])]
  BY DEF Step
<1>2. \A e \in Client : Watched(d, call[e]) \in CallRecord
  BY WatchedRecord
<1>3. \A e \in Client \ {c} : Kept(e)
  BY OthersKept
<1>4. ASSUME NEW e \in Client \ {c}
      PROVE  /\ call'[e].phase = "fill" <=> call[e].phase = "fill"
             /\ call[e].phase = "fill" => call'[e].linked = call[e].linked /\ call'[e].at = call[e].at
  <2>1. call'[e] = Watched(d, call[e]) /\ call[e] \in CallRecord
    BY <1>1
  <2>2. NoCall.phase = "done"
    BY DEF NoCall
  <2> QED BY <2>1, <2>2, WatchedRecord
<1>5. \A p : Writers(p)' \ {c} = Writers(p) \ {c}
  BY <1>4 DEF Writers, At
<1> QED BY <1>1, <1>2, <1>3, <1>5

LEMMA AnswerWords ==
  /\ <<"ok">> \in Reply /\ <<"unsafe">> \in Reply /\ <<"notFound">> \in Reply /\ <<"raw">> \in Reply
  /\ \A x \in Seq(Chunk) : <<"content", x>> \in Reply
  /\ \A b \in BOOLEAN : <<"exists", b>> \in Reply
BY DEF Reply

LEMMA AnswersRecord ==
  ASSUME call \in [Client -> CallRecord], NEW c \in Client, NEW a \in Reply
  PROVE  LET n == Answers(c, a)
             k == call[c]
         IN /\ n \in CallRecord
            /\ n.phase = "done" /\ n.answer = a
            /\ n.op = k.op /\ n.at = k.at /\ n.content = k.content /\ n.linked = k.linked
            /\ n.todo = k.todo /\ n.found = k.found /\ n.disturbed = k.disturbed
            /\ n.always = k.always /\ n.ever = k.ever
<1>1. call[c] \in CallRecord
  OBVIOUS
<1>2. "done" \in Phase
  BY DEF Phase
<1> QED BY <1>1, <1>2 DEF Answers, CallRecord

LEMMA GoesRecord ==
  ASSUME call \in [Client -> CallRecord], NEW c \in Client, NEW ph \in Phase
  PROVE  LET n == Goes(c, ph)
             k == call[c]
         IN /\ n \in CallRecord
            /\ n.phase = ph /\ n.answer = k.answer
            /\ n.op = k.op /\ n.at = k.at /\ n.content = k.content /\ n.linked = k.linked
            /\ n.todo = k.todo /\ n.found = k.found /\ n.disturbed = k.disturbed
            /\ n.always = k.always /\ n.ever = k.ever
<1>1. call[c] \in CallRecord
  OBVIOUS
<1> QED BY <1>1 DEF Goes, CallRecord

LEMMA UnlinkKeeps ==
  ASSUME DiskOK, NEW c \in Client, Unlink(c), IsFile(disk[At(c)]), At(c) \in Node
  PROVE  /\ disk' = Put(At(c), Absent) /\ call' \in [Client -> CallRecord]
         /\ call'[c] = Answers(c, <<"ok">>)
         /\ \A e \in Client \ {c} : Kept(e)
         /\ \A p : Writers(p)' \ {c} = IF p = At(c) THEN {} ELSE Writers(p) \ {c}
<1> USE DEF DiskOK
<1> DEFINE w(e) == Watched(disk', call[e])
           n(e) == [w(e) EXCEPT !.linked = @ /\ At(e) # At(c)]
<1>1. /\ disk' = Put(At(c), Absent)
      /\ call' = [e \in Client |-> IF e = c THEN Answers(c, <<"ok">>) ELSE n(e)]
  BY DEF Unlink
<1>2. disk'[At(c)] # disk[At(c)]
  BY <1>1 DEF Put, IsFile
<1>3. Answers(c, <<"ok">>) \in CallRecord
  BY AnswersRecord, AnswerWords
<1>4. ASSUME NEW e \in Client
      PROVE  /\ w(e) \in CallRecord
             /\ n(e) \in CallRecord
             /\ \A f \in DOMAIN w(e) \ {"linked"} : n(e)[f] = w(e)[f]
             /\ n(e).linked = (w(e).linked /\ At(e) # At(c))
  <2>1. call[e] \in CallRecord /\ w(e) \in CallRecord
    BY WatchedRecord
  <2> HIDE DEF w
  <2>2. w(e).linked \in BOOLEAN
    BY <2>1 DEF CallRecord
  <2> QED BY <2>1, <2>2 DEF CallRecord
<1>5. ASSUME NEW e \in Client
      PROVE  /\ n(e).op = w(e).op /\ n(e).at = w(e).at /\ n(e).content = w(e).content
             /\ n(e).phase = w(e).phase /\ n(e).todo = w(e).todo /\ n(e).found = w(e).found
             /\ n(e).answer = w(e).answer /\ n(e).disturbed = w(e).disturbed
             /\ n(e).always = w(e).always /\ n(e).ever = w(e).ever
  BY <1>4 DEF CallRecord
<1>6. ASSUME NEW e \in Client \ {c}
      PROVE  call'[e] = n(e)
  BY <1>1
<1>7. ASSUME NEW e \in Client \ {c}
      PROVE  Kept(e)
  <2>1. CASE In(e, "done")
    <3>1. w(e) = NoCall
      BY <2>1, WatchedRecord DEF In
    <3>2. NoCall.linked = FALSE /\ NoCall \in CallRecord
      BY NoCallRecord DEF NoCall
    <3>3. n(e) = NoCall
      BY <3>1, <3>2 DEF CallRecord
    <3> QED BY <1>6, <2>1, <3>3 DEF Kept
  <2>2. CASE ~In(e, "done")
    <3>1. /\ w(e).op = call[e].op /\ w(e).at = call[e].at /\ w(e).content = call[e].content
          /\ w(e).phase = call[e].phase /\ w(e).todo = call[e].todo /\ w(e).found = call[e].found
          /\ w(e).answer = call[e].answer /\ w(e).linked = call[e].linked
          /\ ~w(e).disturbed => ~call[e].disturbed /\ disk'[call[e].at] = disk[call[e].at]
          /\ call[e].op = "listFiles" => /\ w(e).always = call[e].always \cap FilesOf(disk')
                                         /\ w(e).ever = call[e].ever \cup FilesOf(disk')
      BY <2>2, WatchedRecord DEF In
    <3> HIDE DEF w, n
    <3>2. ~n(e).disturbed => At(e) # At(c)
      BY <1>2, <1>5, <3>1 DEF At
    <3>3. n(e).linked => call[e].linked
      BY <1>4, <3>1
    <3>4. ~n(e).disturbed => n(e).linked = call[e].linked
      <4>1. call[e].linked \in BOOLEAN
        BY DEF CallRecord
      <4> QED BY <1>4, <3>1, <3>2, <4>1
    <3> QED BY <1>5, <1>6, <2>2, <3>1, <3>3, <3>4 DEF Kept
  <2> QED BY <2>1, <2>2
<1>8. ASSUME NEW e \in Client \ {c}
      PROVE  /\ call'[e].phase = "fill" <=> call[e].phase = "fill"
             /\ call[e].phase = "fill" => /\ call'[e].at = call[e].at
                                          /\ call'[e].linked = (call[e].linked /\ call[e].at # At(c))
  <2>1. NoCall.phase = "done"
    BY DEF NoCall
  <2>2. call[e].phase = "done" => w(e) = NoCall
    BY WatchedRecord
  <2>3. call[e].phase # "done" =>
          w(e).phase = call[e].phase /\ w(e).at = call[e].at /\ w(e).linked = call[e].linked
    BY WatchedRecord
  <2> HIDE DEF w, n
  <2> QED BY <1>4, <1>5, <1>6, <2>1, <2>2, <2>3 DEF At
<1>9. \A p : Writers(p)' \ {c} = IF p = At(c) THEN {} ELSE Writers(p) \ {c}
  BY <1>8 DEF Writers, At
<1>10. call' \in [Client -> CallRecord] /\ call'[c] = Answers(c, <<"ok">>)
  BY <1>1, <1>3, <1>4
<1> QED BY <1>1, <1>7, <1>9, <1>10

\* A step of another program.
LEMMA RemoveKeeps ==
  ASSUME call \in [Client -> CallRecord], NEW p \in Node, RemoveDirectory(p)
  PROVE  /\ disk' = Put(p, Absent) /\ call' \in [Client -> CallRecord]
         /\ \A e \in Client : Kept(e)
         /\ \A q : Writers(q)' = Writers(q)
<1>1. disk' = Put(p, Absent) /\ call' = [e \in Client |-> Watched(disk', call[e])]
  BY DEF RemoveDirectory
<1>2. \A e \in Client : Watched(disk', call[e]) \in CallRecord
  BY WatchedRecord
<1>3. ASSUME NEW e \in Client
      PROVE  Kept(e)
  <2>1. call'[e] = Watched(disk', call[e]) /\ call[e] \in CallRecord
    BY <1>1
  <2> QED BY <2>1, WatchedRecord DEF Kept, In
<1>4. ASSUME NEW e \in Client
      PROVE  /\ call'[e].phase = "fill" <=> call[e].phase = "fill"
             /\ call[e].phase = "fill" => call'[e].linked = call[e].linked /\ call'[e].at = call[e].at
  <2>1. call'[e] = Watched(disk', call[e]) /\ call[e] \in CallRecord
    BY <1>1
  <2>2. NoCall.phase = "done"
    BY DEF NoCall
  <2> QED BY <2>1, <2>2, WatchedRecord
<1>5. \A q : Writers(q)' = Writers(q)
  BY <1>4 DEF Writers, At
<1> QED BY <1>1, <1>2, <1>3, <1>5

-----------------------------------------------------------------------------
(* The properties, client by client *)

TellsOf(k, d) ==
  LET there == d[k.at]
  IN (k.phase = "done" /\ ~k.disturbed) =>
       CASE k.op = "readFile" -> k.answer = IF IsFile(there) THEN <<"content", there>> ELSE <<"notFound">>
         [] k.op = "exists" -> k.answer = <<"exists", there # Absent>>
         [] k.op = "writeFile" -> k.answer = <<"ok">> => there = k.content
         [] k.op = "createDirectory" -> k.answer = <<"ok">> => there = Dir
         [] k.op = "deleteFile" ->
              /\ k.answer \in {<<"ok">>, <<"notFound">>} <=> there = Absent
              /\ k.answer = <<"unsafe">> <=> there = Dir
         [] OTHER -> TRUE

Tells(c) == TellsOf(call[c], disk)

Lists(c) ==
  LET k == call[c]
      below(files) == {p \in files : IsPrefix(k.at, p) /\ p # k.at}
  IN (k.op = "listFiles" /\ k.answer = <<"ok">>) =>
       /\ below(k.always) \subseteq k.found
       /\ k.found \subseteq below(k.ever)

\* What others do leaves the parts of the invariant about a client as they are.
LEMMA KeptOK ==
  ASSUME NEW e \in Client, Kept(e), PlaceOK(e), SteadyOK(e)
  PROVE  PlaceOK(e)' /\ SteadyOK(e)' /\ Tells(e)'
<1>1. NoCall.phase = "done" /\ NoCall.disturbed
  BY DEF NoCall
<1>2. CASE In(e, "done")
  BY <1>1, <1>2 DEF Kept, In, PlaceOK, SteadyOK, Tells, TellsOf
<1>3. CASE ~In(e, "done")
  <2>1. /\ call'[e].op = call[e].op /\ call'[e].at = call[e].at /\ call'[e].content = call[e].content
        /\ call'[e].phase = call[e].phase /\ call'[e].answer = call[e].answer
        /\ call'[e].todo = call[e].todo
        /\ ~call'[e].disturbed => /\ ~call[e].disturbed /\ call'[e].linked = call[e].linked
                                  /\ disk'[call[e].at] = disk[call[e].at]
    BY <1>3 DEF Kept
  <2>2. PlaceOK(e)'
    BY <1>3, <2>1 DEF PlaceOK, In, At
  <2>3. SteadyOK(e)'
    BY <1>3, <2>1 DEF SteadyOK, In, At
  <2>4. Tells(e)'
    BY <1>3, <2>1 DEF Tells, TellsOf, In
  <2> QED BY <2>2, <2>3, <2>4
<1> QED BY <1>2, <1>3

LEMMA KeptListing ==
  ASSUME NEW e \in Client, Kept(e), PlaceOK(e), ListingOK(e)
  PROVE  ListingOK(e)' /\ Lists(e)'
<1>1. NoCall.phase = "done" /\ NoCall.op = "none"
  BY DEF NoCall
<1>2. CASE In(e, "done")
  BY <1>1, <1>2 DEF Kept, In, ListingOK, Lists
<1>3. CASE ~In(e, "done")
  <2>1. /\ call'[e].op = call[e].op /\ call'[e].at = call[e].at /\ call'[e].phase = call[e].phase
        /\ call'[e].todo = call[e].todo /\ call'[e].found = call[e].found /\ call'[e].answer = call[e].answer
        /\ call[e].op = "listFiles" => /\ call'[e].always = call[e].always \cap FilesOf(disk')
                                       /\ call'[e].ever = call[e].ever \cup FilesOf(disk')
    BY <1>3 DEF Kept
  <2>2. call'[e].answer # <<"ok">>
    <3>1. call[e].answer = <<>>
      BY <1>3 DEF PlaceOK
    <3>2. <<>> # <<"ok">>
      OBVIOUS
    <3> QED BY <2>1, <3>1, <3>2
  <2>3. In(e, "readdir") => call[e].op = "listFiles"
    BY <1>3 DEF PlaceOK, Belongs, In
  <2>4. Files' = FilesOf(disk')
    BY DEF Files, FilesOf
  <2>5. ListingOK(e)'
    BY <2>1, <2>3, <2>4 DEF ListingOK, Listing, In
  <2> QED BY <2>2, <2>5 DEF Lists
<1> QED BY <1>2, <1>3

\* What leaves the files and their writers alone leaves whole what is whole.
LEMMA FilesUntouched ==
  ASSUME WholeOK, \A e \in Client : WriterOK(e), spoilt' = spoilt,
         \A p \in Node : IsFile(disk[p]) \/ IsFile(disk'[p]) => disk'[p] = disk[p],
         \A p : Writers(p)' = Writers(p),
         \A e \in Client : ~In(e, "done") => At(e) \in Node
  PROVE  WholeOK' /\ \A e \in Client : WriterOK(e)'
<1>1. WholeOK'
  BY DEF WholeOK, Files
<1>2. ASSUME NEW e \in Client
      PROVE  WriterOK(e)'
  <2>1. SUFFICES ASSUME In(e, "fill")', call'[e].linked
                 PROVE  /\ IsFile(disk[At(e)])'
                        /\ At(e)' \notin spoilt' => disk'[At(e)'] = <<>> /\ Writers(At(e))' = {e}
    BY DEF WriterOK
  <2>2. PICK p : p = call'[e].at
    OBVIOUS
  <2>3. e \in Writers(p)'
    BY <2>1, <2>2 DEF Writers, In, At
  <2>4. e \in Writers(p)
    BY <2>3
  <2>5. In(e, "fill") /\ call[e].linked /\ At(e) = p /\ p \in Node
    BY <2>4 DEF Writers, In
  <2>6. IsFile(disk[p]) /\ (p \notin spoilt => disk[p] = <<>> /\ Writers(p) = {e})
    BY <2>5 DEF WriterOK
  <2>7. disk'[p] = disk[p]
    BY <2>5, <2>6
  <2>8. Writers(p)' = Writers(p)
    OBVIOUS
  <2>9. p \notin spoilt' => Writers(p)' = {e}
    BY <2>6, <2>8
  <2>10. Writers(At(e))' = Writers(p)'
    BY <2>2 DEF Writers, At
  <2> QED BY <2>2, <2>6, <2>7, <2>9, <2>10 DEF At, IsFile
<1> QED BY <1>1, <1>2

Inv ==
  /\ DiskOK /\ WholeOK
  /\ \A c \in Client : PlaceOK(c) /\ WriterOK(c) /\ SteadyOK(c) /\ Tells(c)

\* The record n of a call, when the disk is d, has all that the invariant asks.
Sound(n, d) ==
  /\ n.phase # "done" =>
       /\ n.at \in Node /\ Inside(n.at)
       /\ Belongs(n.op, n.phase) /\ n.answer = <<>>
       /\ n.op = "writeFile" => n.content \in Content
       /\ n.op = "listFiles" => n.todo # <<>>
  /\ ~n.disturbed =>
       /\ n.phase = "fill" => n.linked /\ d[n.at] = <<>>
       /\ n.phase = "unlink" => IsFile(d[n.at])
  /\ TellsOf(n, d)

LEMMA SoundOK ==
  ASSUME NEW c, NEW n, call'[c] = n, Sound(n, disk')
  PROVE  PlaceOK(c)' /\ SteadyOK(c)' /\ Tells(c)'
BY DEF Sound, PlaceOK, SteadyOK, Tells, In, At

LEMMA InvNodes ==
  ASSUME Inv
  PROVE  /\ \A e \in Client : ~In(e, "done") => At(e) \in Node
         /\ call \in [Client -> CallRecord]
BY DEF Inv, DiskOK, PlaceOK

\* A step of c that leaves the files alone and neither opens nor closes one.
LEMMA QuietStep ==
  ASSUME Inv, NEW c \in Client, NEW n \in CallRecord, NEW d \in [Node -> Entry],
         Step(c, n, d), IsTree(d), HasRoots(d),
         \A p \in Node : IsFile(disk[p]) \/ IsFile(d[p]) => d[p] = disk[p],
         ~In(c, "fill"), n.phase # "fill", Sound(n, d),
         calls' \in 0..MaxCalls, faults' \in 0..MaxFaults, spoilt' = spoilt
  PROVE  Inv' /\ call'[c] = n /\ disk' = d
<1>1. /\ disk' = d /\ call' \in [Client -> CallRecord] /\ call'[c] = n
      /\ \A e \in Client \ {c} : Kept(e)
      /\ \A p : Writers(p)' \ {c} = Writers(p) \ {c}
  BY InvNodes, StepKeeps
<1>2. \A p : Writers(p)' = Writers(p)
  <2>1. \A p : c \notin Writers(p) /\ c \notin Writers(p)'
    BY <1>1 DEF Writers, In
  <2> QED BY <1>1, <2>1
<1>3. WholeOK' /\ \A e \in Client : WriterOK(e)'
  <2>1. \A p \in Node : IsFile(disk[p]) \/ IsFile(disk'[p]) => disk'[p] = disk[p]
    BY <1>1
  <2>2. WholeOK /\ \A e \in Client : WriterOK(e)
    BY DEF Inv
  <2> QED BY <1>2, <2>1, <2>2, FilesUntouched, InvNodes
<1>4. \A e \in Client : PlaceOK(e)' /\ SteadyOK(e)' /\ Tells(e)'
  <2>1. \A e \in Client \ {c} : PlaceOK(e)' /\ SteadyOK(e)' /\ Tells(e)'
    BY <1>1, KeptOK DEF Inv
  <2>2. PlaceOK(c)' /\ SteadyOK(c)' /\ Tells(c)'
    BY <1>1, SoundOK
  <2> QED BY <2>1, <2>2
<1>5. DiskOK'
  BY <1>1 DEF Inv, DiskOK, IsTree, HasRoots
<1> QED BY <1>1, <1>3, <1>4, <1>5 DEF Inv

\* The same for a step that leaves all of the disk alone.
LEMMA IdleStep ==
  ASSUME Inv, NEW c \in Client, NEW n \in CallRecord, Step(c, n, disk),
         ~In(c, "fill"), n.phase # "fill", Sound(n, disk),
         calls' \in 0..MaxCalls, faults' = faults, spoilt' = spoilt
  PROVE  Inv' /\ call'[c] = n /\ disk' = disk
<1>1. disk \in [Node -> Entry] /\ IsTree(disk) /\ HasRoots(disk) /\ faults' \in 0..MaxFaults
  BY DEF Inv, DiskOK
<1> QED BY <1>1, QuietStep

-----------------------------------------------------------------------------
(* One step per action *)

LEMMA InitInv == FilesInit => Inv
<1> SUFFICES ASSUME FilesInit PROVE Inv
  OBVIOUS
<1>1. call \in [Client -> CallRecord] /\ \A c \in Client : call[c] = NoCall
  BY NoCallRecord DEF FilesInit
<1>2. 0 \in 0..MaxCalls /\ 0 \in 0..MaxFaults
  BY FilesAssumption
<1>3. DiskOK
  BY <1>1, <1>2, FilesAssumption DEF DiskOK, FilesInit, IsTree, HasRoots, Entry
<1>4. WholeOK
  BY DEF FilesInit, WholeOK, Files, IsFile
<1>5. \A c \in Client : PlaceOK(c) /\ WriterOK(c) /\ SteadyOK(c) /\ Tells(c)
  BY <1>1 DEF NoCall, PlaceOK, WriterOK, SteadyOK, Tells, TellsOf, In
<1> QED BY <1>3, <1>4, <1>5 DEF Inv

LEMMA ReadInv ==
  ASSUME Inv, NEW c \in Client, Read(c)
  PROVE  Inv'
<1> DEFINE a == IF IsFile(disk[At(c)]) THEN <<"content", disk[At(c)]>> ELSE <<"notFound">>
           n == Answers(c, a)
<1>1. In(c, "read") /\ Step(c, n, disk) /\ UNCHANGED <<calls, faults, spoilt>>
  BY DEF Read
<1>2. At(c) \in Node /\ call[c].op = "readFile" /\ disk \in [Node -> Entry] /\ call \in [Client -> CallRecord]
  BY <1>1 DEF Inv, DiskOK, PlaceOK, Belongs, In
<1>3. a \in Reply
  BY <1>2, AnswerWords DEF IsFile, Entry
<1>4. /\ n \in CallRecord /\ n.phase = "done" /\ n.answer = a
      /\ n.op = call[c].op /\ n.at = call[c].at
  BY <1>2, <1>3, AnswersRecord
<1>5. Sound(n, disk)
  BY <1>2, <1>4 DEF Sound, TellsOf, At
<1>6. calls' \in 0..MaxCalls /\ ~In(c, "fill")
  BY <1>1 DEF Inv, DiskOK, In
<1> HIDE DEF n
<1> QED BY <1>1, <1>4, <1>5, <1>6, IdleStep

LEMMA AccessInv ==
  ASSUME Inv, NEW c \in Client, Access(c)
  PROVE  Inv'
<1> DEFINE a == <<"exists", disk[At(c)] # Absent>>
           n == Answers(c, a)
<1>1. In(c, "access") /\ Step(c, n, disk) /\ UNCHANGED <<calls, faults, spoilt>>
  BY DEF Access
<1>2. At(c) \in Node /\ call[c].op = "exists" /\ call \in [Client -> CallRecord]
  BY <1>1 DEF Inv, DiskOK, PlaceOK, Belongs, In
<1>3. a \in Reply
  BY AnswerWords
<1>4. /\ n \in CallRecord /\ n.phase = "done" /\ n.answer = a
      /\ n.op = call[c].op /\ n.at = call[c].at
  BY <1>2, <1>3, AnswersRecord
<1>5. Sound(n, disk)
  BY <1>2, <1>4 DEF Sound, TellsOf, At
<1>6. calls' \in 0..MaxCalls /\ ~In(c, "fill")
  BY <1>1 DEF Inv, DiskOK, In
<1> HIDE DEF n
<1> QED BY <1>1, <1>4, <1>5, <1>6, IdleStep

\* The record a call begins with.
Begins(n, op, path, content) ==
  /\ n.op = op /\ n.content = content /\ n.found = {} /\ n.phase # "fill"
  /\ op = "listFiles" => n.always = Files /\ n.ever = Files
  /\ \/ /\ IsSafe(path) /\ n.at = AssertSafe(path) /\ n.at \in Node /\ Inside(n.at)
        /\ Belongs(op, n.phase) /\ n.phase # "unlink" /\ n.answer = <<>>
        /\ op = "listFiles" => n.todo = <<path>>
     \/ n.phase = "done" /\ n.disturbed /\ n.answer # <<"ok">>

LEMMA CallRecordBegins ==
  ASSUME NEW c \in Client, NEW op \in Operation, NEW path \in Candidate, NEW content \in Seq(Chunk),
         op = "writeFile" => content \in Content,
         Call(c, op, path, content)
  PROVE  \E n \in CallRecord : Step(c, n, disk) /\ Begins(n, op, path, content)
<1> DEFINE safe == IsSafe(path)
           at == IF safe THEN AssertSafe(path) ELSE <<>>
           todo == IF op = "listFiles" THEN <<path>> ELSE <<>>
           files == IF op = "listFiles" THEN Files ELSE {}
           reply == IF safe THEN <<>> ELSE IF op = "exists" THEN <<"exists", FALSE>> ELSE <<"unsafe">>
           phase == IF safe THEN FirstPhase(op) ELSE "done"
           n == [op |-> op, at |-> at, content |-> content, phase |-> phase, linked |-> FALSE,
                 todo |-> todo, found |-> {}, answer |-> reply, disturbed |-> ~safe,
                 always |-> files, ever |-> files]
<1>1. Step(c, n, disk) /\ (safe => AssertSafe(path) \in Node)
  BY DEF Call
<1>4. /\ FirstPhase(op) \in Phase \ {"done", "fill", "unlink"} /\ Belongs(op, FirstPhase(op))
  BY DEF FirstPhase, Phase, Belongs, Operation
<1>5. path \in Path
  BY FilesAssumption DEF Path
<1>6. safe => AssertSafe(path) \in Seq(Segment) /\ Inside(AssertSafe(path))
  BY <1>5, SafeInside
<1>7. /\ at \in Seq(Segment) /\ todo \in Seq(Path) /\ files \in SUBSET Node /\ phase \in Phase
      /\ reply \in Reply /\ (reply = <<>> <=> safe) /\ reply # <<"ok">>
  <2>1. <<>> \in Seq(Segment) /\ <<>> \in Seq(Path) /\ <<path>> \in Seq(Path)
    BY <1>5
  <2>2. reply \in Reply
    BY AnswerWords DEF Reply
  <2>3. (reply = <<>> <=> safe) /\ reply # <<"ok">>
    <3>1. /\ <<"exists", FALSE>> # <<>> /\ <<"unsafe">> # <<>> /\ <<"exists", FALSE>> # <<"ok">>
          /\ <<"unsafe">> # <<"ok">> /\ <<>> # <<"ok">>
      OBVIOUS
    <3> QED BY <3>1
  <2>4. phase \in Phase
    BY <1>4 DEF Phase
  <2>5. files \in SUBSET Node
    BY DEF Files
  <2> QED BY <1>6, <2>1, <2>2, <2>3, <2>4, <2>5
<1>8. n \in CallRecord
  <2> HIDE DEF at, todo, files, phase, reply, safe
  <2>1. (~safe) \in BOOLEAN
    OBVIOUS
  <2> QED BY <1>7, <2>1 DEF CallRecord
<1>9. safe => n.at \in Node /\ n.at = AssertSafe(path) /\ n.phase = FirstPhase(op)
  BY <1>1
<1>10. ~safe => n.phase = "done" /\ n.disturbed
  OBVIOUS
<1>11. /\ n.op = op /\ n.content = content /\ n.found = {} /\ n.answer = reply
       /\ op = "listFiles" => n.always = Files /\ n.ever = Files /\ n.todo = <<path>>
  OBVIOUS
<1>12. n.phase # "fill"
  BY <1>4
<1>13. reply # <<"ok">> /\ (safe => reply = <<>>)
  BY <1>7
<1> HIDE DEF n, at, todo, files, phase, reply
<1>14. Begins(n, op, path, content)
  BY <1>1, <1>4, <1>6, <1>9, <1>10, <1>11, <1>12, <1>13 DEF Begins
<1> QED BY <1>1, <1>8, <1>14

LEMMA CallInv ==
  ASSUME Inv, NEW c \in Client, NEW op \in Operation, NEW path \in Candidate, NEW content \in Seq(Chunk),
         op = "writeFile" => content \in Content,
         Call(c, op, path, content)
  PROVE  Inv'
<1>1. PICK n \in CallRecord : Step(c, n, disk) /\ Begins(n, op, path, content)
  BY CallRecordBegins
<1>2. Sound(n, disk)
  <2>1. <<path>> # <<>>
    OBVIOUS
  <2> QED BY <1>1, <2>1 DEF Sound, TellsOf, Belongs, Begins
<1>3. /\ calls' \in 0..MaxCalls /\ UNCHANGED <<faults, spoilt>> /\ ~In(c, "fill")
  BY FilesAssumption DEF Call, Inv, DiskOK, In
<1>4. n.phase # "fill"
  BY <1>1 DEF Begins
<1> QED BY <1>1, <1>2, <1>3, <1>4, IdleStep

\* Where a client is, its ancestors are nodes, and their ancestors too.
LEMMA NodeAncestors ==
  ASSUME NEW p \in Node
  PROVE  /\ p \in Seq(Segment) /\ p # <<>> /\ Ancestors(p) \subseteq Node
         /\ \A a \in Ancestors(p) : Ancestors(a) \subseteq Ancestors(p) /\ a # p
<1>1. p \in Seq(Segment) /\ p # <<>> /\ Ancestors(p) \subseteq Node
  BY FilesAssumption
<1> QED BY <1>1, AncestorsNest

LEMMA RootsAreNodes == \A k \in DOMAIN Root : Root[k] \in Node
<1>1. Root \in Seq(Seq(Segment)) /\ ToSet(Root) \subseteq Node
  BY FilesAssumption DEF PathAssumption
<1> QED BY <1>1 DEF ToSet

\* Directories made with all that is above them leave a tree.
LEMMA MadeKeeps ==
  ASSUME Inv, NEW dirs \in SUBSET Node, \A p \in dirs : ~IsFile(disk[p]) /\ Ancestors(p) \subseteq dirs
  PROVE  /\ Made(dirs) \in [Node -> Entry] /\ IsTree(Made(dirs)) /\ HasRoots(Made(dirs))
         /\ \A p \in Node : IsFile(disk[p]) \/ IsFile(Made(dirs)[p]) => Made(dirs)[p] = disk[p]
<1>1. \A p \in Node : Made(dirs)[p] = IF p \in dirs THEN Dir ELSE disk[p]
  BY DEF Made
<1>2. disk \in [Node -> Entry] /\ IsTree(disk) /\ HasRoots(disk)
  BY DEF Inv, DiskOK
<1>3. Made(dirs) \in [Node -> Entry]
  BY <1>2 DEF Made, Entry
<1>4. IsTree(Made(dirs))
  <2> SUFFICES ASSUME NEW p \in Node, Made(dirs)[p] # Absent, NEW a \in Ancestors(p)
               PROVE  Made(dirs)[a] = Dir
    BY DEF IsTree
  <2>1. a \in Node
    BY NodeAncestors
  <2>2. p \in dirs => a \in dirs
    OBVIOUS
  <2>3. p \notin dirs => disk[a] = Dir
    BY <1>1, <1>2 DEF IsTree
  <2> QED BY <1>1, <2>1, <2>2, <2>3
<1>5. HasRoots(Made(dirs))
  BY <1>1, <1>2, RootsAreNodes DEF HasRoots
<1>6. \A p \in Node : IsFile(disk[p]) \/ IsFile(Made(dirs)[p]) => Made(dirs)[p] = disk[p]
  BY <1>1 DEF IsFile
<1> QED BY <1>3, <1>4, <1>5, <1>6

LEMMA MakeDirectoriesInv ==
  ASSUME Inv, NEW c \in Client, MakeDirectories(c)
  PROVE  Inv'
<1> DEFINE dirs == Ancestors(At(c)) \cup (IF In(c, "mkdir") THEN {At(c)} ELSE {})
<1>1. call[c].phase \in {"parents", "mkdir"} /\ UNCHANGED <<calls, faults, spoilt>>
  BY DEF MakeDirectories
<1>2. At(c) \in Node /\ Inside(At(c)) /\ call[c].answer = <<>> /\ call \in [Client -> CallRecord]
      /\ Belongs(call[c].op, call[c].phase) /\ (call[c].op = "writeFile" => call[c].content \in Content)
  BY <1>1 DEF Inv, DiskOK, PlaceOK, In
<1>3. ~In(c, "fill") /\ calls' \in 0..MaxCalls /\ faults' \in 0..MaxFaults /\ spoilt' = spoilt
  BY <1>1 DEF In, Inv, DiskOK
<1>4. dirs \in SUBSET Node /\ \A p \in dirs : Ancestors(p) \subseteq dirs
  BY <1>2, NodeAncestors
<1>5. call[c].op = IF In(c, "mkdir") THEN "createDirectory" ELSE "writeFile"
  BY <1>1, <1>2 DEF Belongs, In
<1>6. CASE Step(c, Answers(c, <<"raw">>), disk)
  <2> DEFINE n == Answers(c, <<"raw">>)
  <2>1. n \in CallRecord /\ n.phase = "done" /\ n.answer = <<"raw">> /\ n.op = call[c].op
    BY <1>2, AnswersRecord, AnswerWords
  <2>2. <<"raw">> # <<"ok">>
    OBVIOUS
  <2> HIDE DEF n
  <2>3. Sound(n, disk)
    BY <1>5, <2>1, <2>2 DEF Sound, TellsOf
  <2> QED BY <1>1, <1>3, <1>6, <2>1, <2>3, IdleStep DEF n
<1>7. CASE /\ \A p \in dirs : ~IsFile(disk[p])
           /\ Step(c, IF In(c, "mkdir") THEN Answers(c, <<"ok">>) ELSE Goes(c, "open"), Made(dirs))
  <2> DEFINE n == IF In(c, "mkdir") THEN Answers(c, <<"ok">>) ELSE Goes(c, "open")
  <2>1. n \in CallRecord /\ n.phase # "fill" /\ n.op = call[c].op /\ n.at = At(c) /\ n.content = call[c].content
        /\ (In(c, "mkdir") => n.phase = "done")
        /\ (~In(c, "mkdir") => n.phase = "open" /\ n.answer = <<>>)
    <3>1. "open" \in Phase
      BY DEF Phase
    <3> QED BY <1>2, <3>1, AnswersRecord, AnswerWords, GoesRecord DEF At
  <2>2. /\ Made(dirs) \in [Node -> Entry] /\ IsTree(Made(dirs)) /\ HasRoots(Made(dirs))
        /\ \A p \in Node : IsFile(disk[p]) \/ IsFile(Made(dirs)[p]) => Made(dirs)[p] = disk[p]
    BY <1>4, <1>7, MadeKeeps
  <2>3. In(c, "mkdir") => Made(dirs)[At(c)] = Dir
    BY <1>2 DEF Made
  <2>4. Step(c, n, Made(dirs))
    BY <1>7
  <2> HIDE DEF n, dirs
  <2>5. Sound(n, Made(dirs))
    BY <1>2, <1>5, <2>1, <2>3 DEF Sound, TellsOf, Belongs
  <2> QED BY <1>3, <2>1, <2>2, <2>4, <2>5, QuietStep
<1> QED BY <1>6, <1>7 DEF MakeDirectories

\* What the invariant asks of one path: the content of a file is whole, open or spoilt,
\* and one that is open is a file, still empty if only one client writes it.
PathOK(p) ==
  /\ IsFile(disk[p]) => disk[p] \in Content \/ Writers(p) # {} \/ p \in spoilt
  /\ Writers(p) # {} => /\ IsFile(disk[p])
                        /\ p \notin spoilt => disk[p] = <<>> /\ \E e \in Client : Writers(p) = {e}

LEMMA PathsBefore ==
  ASSUME Inv, NEW p \in Node
  PROVE  PathOK(p)
<1>1. IsFile(disk[p]) => disk[p] \in Content \/ Writers(p) # {} \/ p \in spoilt
  BY DEF Inv, WholeOK, Files
<1>2. \A e \in Writers(p) : e \in Client /\ WriterOK(e) /\ In(e, "fill") /\ call[e].linked /\ At(e) = p
  BY DEF Inv, Writers, In
<1>3. \A e \in Writers(p) : IsFile(disk[p]) /\ (p \notin spoilt => disk[p] = <<>> /\ Writers(p) = {e})
  BY <1>2 DEF WriterOK
<1> QED BY <1>1, <1>2, <1>3 DEF PathOK

LEMMA PathsAfter ==
  ASSUME \A p \in Node : PathOK(p)', \A e \in Client : PlaceOK(e)'
  PROVE  WholeOK' /\ \A e \in Client : WriterOK(e)'
<1>1. WholeOK'
  BY DEF WholeOK, Files, PathOK
<1>2. ASSUME NEW e \in Client, In(e, "fill")', call'[e].linked
      PROVE  /\ IsFile(disk[At(e)])'
             /\ At(e)' \notin spoilt' => disk'[At(e)'] = <<>> /\ Writers(At(e))' = {e}
  <2>1. PICK p : p = call'[e].at
    OBVIOUS
  <2>2. e \in Writers(p)' /\ p \in Node
    BY <1>2, <2>1 DEF Writers, In, At, PlaceOK
  <2>3. PathOK(p)'
    BY <2>2
  <2>4. IsFile(disk[p])' /\ (p \notin spoilt' => disk'[p] = <<>> /\ Writers(p)' = {e})
    BY <2>2, <2>3 DEF PathOK
  <2>5. Writers(At(e))' = Writers(p)'
    BY <2>1 DEF Writers, At
  <2> QED BY <2>1, <2>4, <2>5 DEF At, IsFile
<1> QED BY <1>1, <1>2 DEF WriterOK

\* A path that a step leaves alone.
LEMMA PathLeft ==
  ASSUME Inv, NEW p \in Node, disk'[p] = disk[p], Writers(p)' = Writers(p),
         p \in spoilt' <=> p \in spoilt
  PROVE  PathOK(p)'
BY PathsBefore DEF PathOK, IsFile

\* A step of c that changes the file at which c is, and no other.
LEMMA FileStep ==
  ASSUME Inv, NEW c \in Client, NEW n \in CallRecord, NEW d \in [Node -> Entry],
         NEW at \in Node, at = At(c), Step(c, n, d), IsTree(d), HasRoots(d),
         \A p \in Node \ {at} : /\ d[p] = disk[p] /\ (p \in spoilt' <=> p \in spoilt)
                                /\ n.phase = "fill" => n.at # p,
         PathOK(at)', Sound(n, d),
         calls' \in 0..MaxCalls, faults' \in 0..MaxFaults, spoilt' \subseteq Node
  PROVE  Inv'
<1>1. /\ disk' = d /\ call' \in [Client -> CallRecord] /\ call'[c] = n
      /\ \A e \in Client \ {c} : Kept(e)
      /\ \A p : Writers(p)' \ {c} = Writers(p) \ {c}
  BY InvNodes, StepKeeps
<1>2. \A e \in Client : PlaceOK(e)' /\ SteadyOK(e)' /\ Tells(e)'
  <2>1. \A e \in Client \ {c} : PlaceOK(e)' /\ SteadyOK(e)' /\ Tells(e)'
    BY <1>1, KeptOK DEF Inv
  <2>2. PlaceOK(c)' /\ SteadyOK(c)' /\ Tells(c)'
    BY <1>1, SoundOK
  <2> QED BY <2>1, <2>2
<1>3. \A p \in Node : PathOK(p)'
  <2> SUFFICES ASSUME NEW p \in Node, p # at PROVE PathOK(p)'
    BY Zenon
  <2>1. /\ d[p] = disk[p] /\ (p \in spoilt' <=> p \in spoilt)
        /\ n.phase = "fill" => n.at # p
    OBVIOUS
  <2>2. c \notin Writers(p)
    BY DEF Writers
  <2>3. c \notin Writers(p)'
    BY <1>1, <2>1 DEF Writers, In, At
  <2>4. Writers(p)' = Writers(p)
    BY <1>1, <2>2, <2>3
  <2> QED BY <1>1, <2>1, <2>4, PathLeft
<1>4. DiskOK'
  BY <1>1 DEF DiskOK, IsTree, HasRoots
<1> QED BY <1>2, <1>3, <1>4, PathsAfter DEF Inv

\* Above a path whose directory is there, every directory is.
LEMMA DirectoriesAbove ==
  ASSUME Inv, NEW at \in Node, disk[at] # Dir, disk[Parent(at)] = Dir
  PROVE  \A a \in Ancestors(at) : disk[a] = Dir
<1>1. at \in Seq(Segment) /\ at # <<>>
  BY NodeAncestors
<1>2. Len(at) # 1
  BY DEF Parent
<1>3. Len(at) \in Nat \ {0, 1}
  BY <1>1, <1>2, LenProperties, EmptySeq
<1>4. Parent(at) \in Ancestors(at) /\ Ancestors(at) = Ancestors(Parent(at)) \cup {Parent(at)}
  BY <1>1, <1>3, ParentAncestor
<1>5. Parent(at) \in Node /\ disk[Parent(at)] # Absent
  BY <1>4, NodeAncestors, FilesAssumption
<1> QED BY <1>4, <1>5 DEF IsTree, Inv, DiskOK

\* A file put where a file can be leaves a tree.
LEMMA PutKeeps ==
  ASSUME Inv, NEW at \in Node, disk[at] # Dir, \A a \in Ancestors(at) : disk[a] = Dir, NEW x \in Seq(Chunk)
  PROVE  /\ Put(at, x) \in [Node -> Entry] /\ IsTree(Put(at, x)) /\ HasRoots(Put(at, x))
         /\ Put(at, x)[at] = x /\ IsFile(x) /\ \A p \in Node \ {at} : Put(at, x)[p] = disk[p]
<1>1. disk \in [Node -> Entry] /\ IsTree(disk) /\ HasRoots(disk)
  BY DEF Inv, DiskOK
<1>2. IsFile(x)
  BY FilesAssumption DEF IsFile
<1>3. /\ Put(at, x) \in [Node -> Entry] /\ Put(at, x)[at] = x
      /\ \A p \in Node \ {at} : Put(at, x)[p] = disk[p]
  BY <1>1 DEF Put, Entry
<1>4. IsTree(Put(at, x))
  <2> SUFFICES ASSUME NEW p \in Node, Put(at, x)[p] # Absent, NEW a \in Ancestors(p)
               PROVE  Put(at, x)[a] = Dir
    BY DEF IsTree
  <2>1. disk[a] = Dir
    BY <1>1, <1>3 DEF IsTree
  <2> QED BY <1>3, <2>1, NodeAncestors
<1>5. HasRoots(Put(at, x))
  BY <1>1, <1>3, RootsAreNodes DEF HasRoots
<1> QED BY <1>2, <1>3, <1>4, <1>5

LEMMA OpenFileInv ==
  ASSUME Inv, NEW c \in Client, OpenFile(c)
  PROVE  Inv'
<1>1. In(c, "open") /\ UNCHANGED <<calls, faults>>
  BY DEF OpenFile
<1>2. PICK at : at = At(c)
  OBVIOUS
<1>3. /\ at \in Node /\ Inside(at) /\ call[c].answer = <<>> /\ call \in [Client -> CallRecord]
      /\ call[c].op = "writeFile" /\ call[c].content \in Content /\ call[c].at = at
  BY <1>1, <1>2 DEF Inv, DiskOK, PlaceOK, Belongs, In, At
<1>4. calls' \in 0..MaxCalls /\ faults' \in 0..MaxFaults
  BY <1>1 DEF Inv, DiskOK
<1>5. CASE Step(c, Answers(c, <<"raw">>), disk) /\ spoilt' = spoilt
  <2> DEFINE n == Answers(c, <<"raw">>)
  <2>1. n \in CallRecord /\ n.phase = "done" /\ n.answer = <<"raw">> /\ n.op = "writeFile"
    BY <1>3, AnswersRecord, AnswerWords
  <2>2. <<"raw">> # <<"ok">> /\ ~In(c, "fill")
    BY <1>1 DEF In
  <2> HIDE DEF n
  <2>3. Sound(n, disk)
    BY <2>1, <2>2 DEF Sound, TellsOf
  <2> QED BY <1>1, <1>4, <1>5, <2>1, <2>2, <2>3, IdleStep DEF n
<1>6. CASE /\ disk[at] # Dir /\ disk[Parent(at)] = Dir
           /\ Step(c, [Goes(c, "fill") EXCEPT !.linked = TRUE], Put(at, Truncated(disk[at])))
           /\ spoilt' = IF Writers(at) # {} THEN spoilt \cup {at} ELSE spoilt \ {at}
  <2> DEFINE n == [Goes(c, "fill") EXCEPT !.linked = TRUE]
             d == Put(at, <<>>)
  <2>1. /\ n \in CallRecord /\ n.phase = "fill" /\ n.op = "writeFile" /\ n.at = at /\ n.linked
        /\ n.answer = <<>> /\ n.content \in Content
    <3>1. "fill" \in Phase
      BY DEF Phase
    <3>2. /\ Goes(c, "fill") \in CallRecord /\ Goes(c, "fill").phase = "fill" /\ Goes(c, "fill").op = "writeFile"
          /\ Goes(c, "fill").at = at /\ Goes(c, "fill").answer = <<>> /\ Goes(c, "fill").content \in Content
      BY <1>3, <3>1, GoesRecord
    <3> QED BY <3>2 DEF CallRecord
  <2>2. \A a \in Ancestors(at) : disk[a] = Dir
    BY <1>3, <1>6, DirectoriesAbove
  <2>3. /\ d \in [Node -> Entry] /\ IsTree(d) /\ HasRoots(d)
        /\ d[at] = <<>> /\ IsFile(<<>>) /\ \A p \in Node \ {at} : d[p] = disk[p]
    <3>1. <<>> \in Seq(Chunk)
      BY EmptySeq
    <3> QED BY <1>3, <1>6, <2>2, <3>1, PutKeeps
  <2>4. Step(c, n, d)
    BY <1>6 DEF Truncated
  <2> HIDE DEF n, d
  <2>5. Sound(n, d)
    BY <1>3, <2>1, <2>3 DEF Sound, TellsOf, Belongs
  <2>6. /\ disk' = d /\ call'[c] = n
        /\ \A p : Writers(p)' \ {c} = Writers(p) \ {c}
    BY <1>3, <2>1, <2>4, StepKeeps
  <2>7. c \in Writers(at)' /\ c \notin Writers(at)
    BY <1>1, <2>1, <2>6 DEF Writers, At, In
  <2>8. Writers(at)' = Writers(at) \cup {c}
    BY <2>6, <2>7
  <2>9. PathOK(at)'
    <3>1. at \notin spoilt' => Writers(at) = {}
      BY <1>6
    <3>2. disk'[at] = <<>>
      BY <2>3, <2>6
    <3>3. IsFile(disk[at])'
      BY <2>3, <3>2 DEF IsFile
    <3> QED BY <2>8, <3>1, <3>2, <3>3 DEF PathOK
  <2>10. \A p \in Node \ {at} : /\ d[p] = disk[p] /\ (p \in spoilt' <=> p \in spoilt)
                                /\ n.phase = "fill" => n.at # p
    BY <1>6, <2>1, <2>3
  <2>11. spoilt' \subseteq Node
    BY <1>3, <1>6 DEF Inv, DiskOK
  <2> QED BY <1>2, <1>3, <1>4, <2>1, <2>3, <2>4, <2>5, <2>9, <2>10, <2>11, FileStep
<1> QED BY <1>2, <1>5, <1>6 DEF OpenFile

\* What is written over an empty file is the content.
LEMMA OverlaidContent ==
  ASSUME NEW old \in Seq(Chunk), NEW new \in Seq(Chunk)
  PROVE  /\ Overlaid(old, new) \in Seq(Chunk)
         /\ old = <<>> => Overlaid(old, new) = new
<1>1. Len(new) \in Nat /\ Len(old) \in Nat
  BY LenProperties
<1>2. SubSeq(old, Len(new) + 1, Len(old)) \in Seq(Chunk)
  BY <1>1
<1>3. ASSUME old = <<>>
      PROVE  SubSeq(old, Len(new) + 1, Len(old)) = <<>>
  BY <1>1, <1>3
<1>4. new \o <<>> = new
  OBVIOUS
<1> QED BY <1>2, <1>3, <1>4 DEF Overlaid

LEMMA FillInv ==
  ASSUME Inv, NEW c \in Client, Fill(c)
  PROVE  Inv'
<1> DEFINE n == Answers(c, <<"ok">>)
<1>1. In(c, "fill") /\ UNCHANGED <<calls, faults, spoilt>>
  BY DEF Fill
<1>2. PICK at : at = At(c)
  OBVIOUS
<1>3. /\ at \in Node /\ call \in [Client -> CallRecord] /\ disk \in [Node -> Entry] /\ call[c].at = at
      /\ call[c].op = "writeFile" /\ call[c].content \in Content /\ call[c].content \in Seq(Chunk)
  BY <1>1, <1>2, FilesAssumption DEF Inv, DiskOK, PlaceOK, Belongs, In, At
<1>4. calls' \in 0..MaxCalls /\ faults' \in 0..MaxFaults /\ spoilt' \subseteq Node
  BY <1>1 DEF Inv, DiskOK
<1>5. /\ n \in CallRecord /\ n.phase = "done" /\ n.op = "writeFile" /\ n.at = at
      /\ n.content = call[c].content /\ n.disturbed = call[c].disturbed
  BY <1>3, AnswersRecord, AnswerWords
<1>6. WriterOK(c) /\ SteadyOK(c) /\ PathOK(at)
  BY <1>3, PathsBefore DEF Inv
<1>7. CASE call[c].linked
  <2> DEFINE x == Overlaid(disk[at], call[c].content)
             d == Put(at, x)
  <2>1. IsFile(disk[at]) /\ disk[at] \in Seq(Chunk)
    BY <1>1, <1>2, <1>3, <1>6, <1>7 DEF WriterOK, Entry, IsFile
  <2>2. x \in Seq(Chunk) /\ (disk[at] = <<>> => x = call[c].content)
    BY <1>3, <2>1, OverlaidContent
  <2>3. Step(c, n, d)
    BY <1>2, <1>7 DEF Fill
  <2> HIDE DEF x
  <2>4. /\ d \in [Node -> Entry] /\ IsTree(d) /\ HasRoots(d)
        /\ d[at] = x /\ IsFile(x) /\ \A p \in Node \ {at} : d[p] = disk[p]
    <3>1. disk[at] # Dir /\ \A a \in Ancestors(at) : disk[a] = Dir
      BY <1>3, <2>1 DEF Inv, DiskOK, IsTree, IsFile
    <3> QED BY <1>3, <2>2, <3>1, PutKeeps
  <2> HIDE DEF n, d
  <2>5. Sound(n, d)
    BY <1>1, <1>2, <1>5, <1>6, <2>2, <2>4 DEF Sound, TellsOf, SteadyOK
  <2>6. /\ disk' = d /\ call'[c] = n
        /\ \A p : Writers(p)' \ {c} = Writers(p) \ {c}
    BY <1>3, <1>5, <2>3, StepKeeps
  <2>7. c \notin Writers(at)' /\ c \in Writers(at)
    BY <1>1, <1>2, <1>5, <1>7, <2>6 DEF Writers, At, In
  <2>8. PathOK(at)'
    <3>1. IsFile(disk[at])' /\ disk'[at] = x
      BY <2>4, <2>6 DEF IsFile
    <3>2. Writers(at)' = Writers(at) \ {c}
      BY <2>6, <2>7
    <3>3. at \notin spoilt => Writers(at) = {c} /\ disk[at] = <<>>
      BY <1>1, <1>2, <1>6, <1>7 DEF WriterOK
    <3> QED BY <1>1, <1>3, <2>2, <3>1, <3>2, <3>3 DEF PathOK
  <2>9. \A p \in Node \ {at} : /\ d[p] = disk[p] /\ (p \in spoilt' <=> p \in spoilt)
                               /\ n.phase = "fill" => n.at # p
    BY <1>1, <1>5, <2>4
  <2> QED BY <1>2, <1>3, <1>4, <1>5, <2>3, <2>4, <2>5, <2>8, <2>9, FileStep
<1>8. CASE ~call[c].linked
  <2>1. Step(c, n, disk)
    BY <1>8 DEF Fill
  <2> HIDE DEF n
  <2>2. call[c].disturbed
    BY <1>1, <1>6, <1>8 DEF SteadyOK
  <2>3. Sound(n, disk)
    BY <1>5, <2>2 DEF Sound, TellsOf
  <2>4. /\ disk' = disk /\ call'[c] = n
        /\ \A p : Writers(p)' \ {c} = Writers(p) \ {c}
    BY <1>3, <1>5, <2>1, StepKeeps
  <2>5. c \notin Writers(at)' /\ c \notin Writers(at)
    BY <1>5, <1>8, <2>4 DEF Writers, In
  <2>6. PathOK(at)'
    <3>1. Writers(at)' = Writers(at)
      BY <2>4, <2>5
    <3> QED BY <1>1, <1>3, <2>4, <3>1, PathLeft
  <2>7. IsTree(disk) /\ HasRoots(disk)
    BY DEF Inv, DiskOK
  <2>8. \A p \in Node \ {at} : /\ disk[p] = disk[p] /\ (p \in spoilt' <=> p \in spoilt)
                               /\ n.phase = "fill" => n.at # p
    BY <1>1, <1>5
  <2> QED BY <1>2, <1>3, <1>4, <1>5, <2>1, <2>3, <2>6, <2>7, <2>8, FileStep
<1> QED BY <1>7, <1>8

LEMMA StatInv ==
  ASSUME Inv, NEW c \in Client, Stat(c)
  PROVE  Inv'
<1>1. In(c, "stat") /\ UNCHANGED <<calls, faults, spoilt>>
  BY DEF Stat
<1>2. /\ At(c) \in Node /\ Inside(At(c)) /\ call[c].op = "deleteFile" /\ call[c].answer = <<>>
      /\ disk \in [Node -> Entry] /\ call \in [Client -> CallRecord]
  BY <1>1 DEF Inv, DiskOK, PlaceOK, Belongs, In
<1>3. ~In(c, "fill") /\ calls' \in 0..MaxCalls
  BY <1>1 DEF Inv, DiskOK, In
<1>4. /\ Absent # Dir /\ <<"notFound">> # <<"unsafe">> /\ <<"ok">> # <<"unsafe">>
  BY FilesAssumption
<1>5. CASE disk[At(c)] = Absent /\ Step(c, Answers(c, <<"notFound">>), disk)
  <2> DEFINE n == Answers(c, <<"notFound">>)
  <2>1. n \in CallRecord /\ n.phase = "done" /\ n.answer = <<"notFound">> /\ n.op = "deleteFile" /\ n.at = At(c)
    BY <1>2, AnswersRecord, AnswerWords DEF At
  <2> HIDE DEF n
  <2>2. Sound(n, disk)
    BY <1>4, <1>5, <2>1 DEF Sound, TellsOf
  <2> QED BY <1>1, <1>3, <1>5, <2>1, <2>2, IdleStep DEF n
<1>6. CASE disk[At(c)] = Dir /\ Step(c, Answers(c, <<"unsafe">>), disk)
  <2> DEFINE n == Answers(c, <<"unsafe">>)
  <2>1. n \in CallRecord /\ n.phase = "done" /\ n.answer = <<"unsafe">> /\ n.op = "deleteFile" /\ n.at = At(c)
    BY <1>2, AnswersRecord, AnswerWords DEF At
  <2> HIDE DEF n
  <2>2. Sound(n, disk)
    BY <1>4, <1>6, <2>1 DEF Sound, TellsOf
  <2> QED BY <1>1, <1>3, <1>6, <2>1, <2>2, IdleStep DEF n
<1>7. CASE IsFile(disk[At(c)]) /\ Step(c, Goes(c, "unlink"), disk)
  <2> DEFINE n == Goes(c, "unlink")
  <2>1. /\ n \in CallRecord /\ n.phase = "unlink" /\ n.answer = <<>> /\ n.op = "deleteFile" /\ n.at = At(c)
    <3>1. "unlink" \in Phase
      BY DEF Phase
    <3> QED BY <1>2, <3>1, GoesRecord DEF At
  <2> HIDE DEF n
  <2>2. Sound(n, disk)
    BY <1>2, <1>7, <2>1 DEF Sound, TellsOf, Belongs
  <2> QED BY <1>1, <1>3, <1>7, <2>1, <2>2, IdleStep DEF n
<1> QED BY <1>4, <1>5, <1>6, <1>7 DEF Stat, IsFile

LEMMA UnlinkInv ==
  ASSUME Inv, NEW c \in Client, Unlink(c)
  PROVE  Inv'
<1>1. In(c, "unlink") /\ UNCHANGED <<calls, faults, spoilt>>
  BY DEF Unlink
<1>2. PICK at : at = At(c)
  OBVIOUS
<1>3. /\ at \in Node /\ call[c].op = "deleteFile" /\ call[c].at = at
      /\ disk \in [Node -> Entry] /\ call \in [Client -> CallRecord] /\ SteadyOK(c)
  BY <1>1, <1>2 DEF Inv, DiskOK, PlaceOK, Belongs, In, At
<1>4. ~In(c, "fill") /\ calls' \in 0..MaxCalls /\ faults' \in 0..MaxFaults /\ spoilt' \subseteq Node
  BY <1>1 DEF Inv, DiskOK, In
<1>5. CASE ~IsFile(disk[at]) /\ Step(c, Answers(c, <<"raw">>), disk)
  <2> DEFINE n == Answers(c, <<"raw">>)
  <2>1. n \in CallRecord /\ n.phase = "done" /\ n.disturbed = call[c].disturbed
    BY <1>3, AnswersRecord, AnswerWords
  <2> HIDE DEF n
  <2>2. call[c].disturbed
    BY <1>1, <1>2, <1>3, <1>5 DEF SteadyOK
  <2>3. Sound(n, disk)
    BY <2>1, <2>2 DEF Sound, TellsOf
  <2> QED BY <1>1, <1>4, <1>5, <2>1, <2>3, IdleStep DEF n
<1>6. CASE IsFile(disk[at])
  <2> DEFINE n == Answers(c, <<"ok">>)
  <2>1. n \in CallRecord /\ n.phase = "done" /\ n.answer = <<"ok">> /\ n.op = "deleteFile" /\ n.at = at
    BY <1>3, AnswersRecord, AnswerWords
  <2> HIDE DEF n
  <2>2. /\ disk' = Put(at, Absent) /\ call' \in [Client -> CallRecord] /\ call'[c] = n
        /\ \A e \in Client \ {c} : Kept(e)
        /\ \A p : Writers(p)' \ {c} = IF p = at THEN {} ELSE Writers(p) \ {c}
    BY <1>2, <1>3, <1>6, UnlinkKeeps DEF Inv, n
  <2>3. disk' \in [Node -> Entry] /\ disk'[at] = Absent /\ \A p \in Node \ {at} : disk'[p] = disk[p]
    BY <1>3, <2>2 DEF Put, Entry
  <2>4. /\ Absent # Dir /\ <<"ok">> # <<"unsafe">>
    BY FilesAssumption
  <2>5. Sound(n, disk')
    BY <2>1, <2>3, <2>4 DEF Sound, TellsOf
  <2>6. \A e \in Client : PlaceOK(e)' /\ SteadyOK(e)' /\ Tells(e)'
    <3>1. \A e \in Client \ {c} : PlaceOK(e)' /\ SteadyOK(e)' /\ Tells(e)'
      BY <2>2, KeptOK DEF Inv
    <3>2. PlaceOK(c)' /\ SteadyOK(c)' /\ Tells(c)'
      BY <2>2, <2>5, SoundOK
    <3> QED BY <3>1, <3>2
  <2>7. \A p \in Node : c \notin Writers(p) /\ c \notin Writers(p)'
    BY <1>4, <2>1, <2>2 DEF Writers, In
  <2>8. ASSUME NEW p \in Node
        PROVE  PathOK(p)'
    <3>1. CASE p = at
      <4>1. Writers(p)' = {}
        BY <2>2, <2>7, <3>1
      <4>2. ~IsFile(disk[p])'
        BY <2>3, <3>1 DEF IsFile
      <4> QED BY <4>1, <4>2 DEF PathOK
    <3>2. CASE p # at
      <4>1. Writers(p)' = Writers(p)
        BY <2>2, <2>7, <3>2
      <4>2. disk'[p] = disk[p]
        BY <2>3, <3>2
      <4> QED BY <1>1, <4>1, <4>2, PathLeft
    <3> QED BY <3>1, <3>2
  <2>9. IsTree(disk') /\ HasRoots(disk')
    <3>1. IsTree(disk) /\ HasRoots(disk) /\ disk[at] # Dir
      BY <1>6 DEF Inv, DiskOK, IsFile
    <3>2. HasRoots(disk')
      BY <2>3, <3>1, RootsAreNodes DEF HasRoots
    <3>3. ASSUME NEW p \in Node, disk'[p] # Absent, NEW a \in Ancestors(p)
          PROVE  disk'[a] = Dir
      <4>1. disk[a] = Dir /\ a \in Node
        BY <2>3, <3>1, <3>3, NodeAncestors DEF IsTree
      <4> QED BY <2>3, <3>1, <4>1
    <3> QED BY <3>2, <3>3 DEF IsTree
  <2>10. DiskOK'
    BY <1>4, <2>2, <2>3, <2>9 DEF DiskOK, IsTree, HasRoots
  <2> QED BY <2>6, <2>8, <2>10, PathsAfter DEF Inv
<1> QED BY <1>2, <1>5, <1>6 DEF Unlink

\* An order of a set of nodes is a sequence that names each of them.
LEMMA Orders ==
  ASSUME NEW S \in SUBSET Node, NEW order \in SetToSeqs(S)
  PROVE  /\ order \in Seq(S) /\ order \in Seq(Node) /\ DOMAIN order = 1..Len(order)
         /\ \A p \in S : \E k \in DOMAIN order : order[k] = p
<1> DEFINE D == 1..Cardinality(S)
<1>1. IsFiniteSet(S) /\ Cardinality(S) \in Nat
  BY FilesAssumption, FS_Subset, FS_CardinalityType
<1>2. order \in [D -> S] /\ \A i, j \in D : i # j => order[i] # order[j]
  BY DEF SetToSeqs
<1>3. IsFiniteSet(D) /\ Cardinality(D) = Cardinality(S)
  BY <1>1, FS_Interval
<1> HIDE DEF D
<1>4. order \in Injection(D, S)
  BY <1>2 DEF Injection, IsInjective
<1>5. order \in Surjection(D, S)
  BY <1>1, <1>3, <1>4, FS_Injection
<1>6. \A p \in S : \E k \in D : order[k] = p
  BY <1>5 DEF Surjection
<1>7. order \in Seq(S) /\ DOMAIN order = D
  BY <1>1, <1>2 DEF D
<1> QED BY <1>6, <1>7

\* What is left to list after the first path: the directories found there, each named
\* by that path and its own name, and what was left before.
Continues(rest, todo, dirs) ==
  /\ \A j \in DOMAIN rest : \/ \E k \in DOMAIN dirs : rest[j] = Under(todo[1], Last(dirs[k]))
                            \/ \E i \in DOMAIN todo : rest[j] = todo[i]
  /\ \A k \in DOMAIN dirs : \E j \in DOMAIN rest : rest[j] = Under(todo[1], Last(dirs[k]))
  /\ \A i \in DOMAIN todo \ {1} : \E j \in DOMAIN rest : rest[j] = todo[i]

LEMMA RestPaths ==
  ASSUME NEW todo \in Seq(Path), todo # <<>>, NEW dirs \in Seq(Node)
  PROVE  LET rest == Rest(Named(todo[1], dirs), todo)
         IN rest \in Seq(Path) /\ Continues(rest, todo, dirs)
<1> DEFINE rest == Rest(Named(todo[1], dirs), todo)
<1> DEFINE named == Named(todo[1], dirs)
<1>1. todo[1] \in Path
  BY EmptySeq, LenProperties
<1>2. \A p \in Node : Last(p) \in Segment
  BY FilesAssumption DEF Last
<1>3. \A k \in DOMAIN dirs : Under(todo[1], Last(dirs[k])) \in Path
  <2> SUFFICES ASSUME NEW k \in DOMAIN dirs PROVE Under(todo[1], Last(dirs[k])) \in Path
    OBVIOUS
  <2>1. dirs[k] \in Node
    OBVIOUS
  <2>2. PICK s : s = Last(dirs[k]) /\ s \in Segment
    BY <1>2, <2>1
  <2>3. Append(todo[1].segments, s) \in Seq(Segment)
    BY <1>1, <2>2 DEF Path
  <2> QED BY <1>1, <2>2, <2>3 DEF Under, Path
<1>4. DOMAIN dirs = 1..Len(dirs) /\ Len(dirs) \in Nat /\ DOMAIN todo = 1..Len(todo)
  BY LenProperties
<1>5. named \in Seq(Path) /\ Len(named) = Len(dirs)
  BY <1>3, <1>4 DEF Named
<1>6. \A k \in DOMAIN dirs : named[k] = Under(todo[1], Last(dirs[k]))
  BY DEF Named
<1>7. rest = named \o Tail(todo)
  BY DEF Rest
<1> HIDE DEF named, rest
<1>8. PICK tail : /\ tail = Tail(todo) /\ tail \in Seq(Path) /\ Len(todo) = Len(tail) + 1 /\ Len(tail) \in Nat
                  /\ \A i \in 1..Len(tail) : tail[i] = todo[i + 1]
  <2>1. Tail(todo) \in Seq(Path) /\ Len(Tail(todo)) = Len(todo) - 1
        /\ \A i \in 1..Len(Tail(todo)) : Tail(todo)[i] = todo[i + 1]
    BY HeadTailProperties
  <2>2. Len(todo) \in Nat /\ Len(Tail(todo)) \in Nat
    BY <2>1, LenProperties
  <2>3. Len(todo) = Len(Tail(todo)) + 1
    BY <2>1, <2>2
  <2> QED BY <2>1, <2>2, <2>3
<1>9. /\ rest \in Seq(Path) /\ DOMAIN rest = 1..(Len(dirs) + Len(tail))
      /\ \A j \in 1..Len(dirs) : rest[j] = named[j]
      /\ \A j \in (Len(dirs) + 1)..(Len(dirs) + Len(tail)) : rest[j] = tail[j - Len(dirs)]
  <2>1. rest = named \o tail
    BY <1>7, <1>8
  <2>2. /\ rest \in Seq(Path) /\ Len(rest) = Len(named) + Len(tail)
        /\ \A j \in 1..Len(named) : rest[j] = named[j]
        /\ \A j \in (Len(named) + 1)..Len(rest) : rest[j] = tail[j - Len(named)]
    <3>1. named \in Seq(Path) /\ tail \in Seq(Path)
      BY <1>5, <1>8
    <3>2. /\ named \o tail \in Seq(Path) /\ Len(named \o tail) = Len(named) + Len(tail)
          /\ \A n \in 1..Len(named) : (named \o tail)[n] = named[n]
          /\ \A n \in (Len(named) + 1)..Len(named \o tail) : (named \o tail)[n] = tail[n - Len(named)]
      BY <3>1, ConcatElements, Zenon
    <3> QED BY <2>1, <3>2, Zenon
  <2>3. DOMAIN rest = 1..Len(rest)
    BY <2>2, LenProperties
  <2> QED BY <1>5, <2>2, <2>3
<1>10. ASSUME NEW j \in DOMAIN rest
       PROVE  \/ \E k \in DOMAIN dirs : rest[j] = Under(todo[1], Last(dirs[k]))
              \/ \E i \in DOMAIN todo : rest[j] = todo[i]
  <2>1. \A l, m \in Nat : \A i \in 1..(l + m) :
          i \in 1..l \/ (i \in (l + 1)..(l + m) /\ i - l \in 1..m /\ (i - l) + 1 \in 1..(m + 1))
    OBVIOUS
  <2>2. CASE j \in 1..Len(dirs)
    BY <1>4, <1>6, <1>9, <2>2
  <2>3. CASE /\ j \in (Len(dirs) + 1)..(Len(dirs) + Len(tail)) /\ j - Len(dirs) \in 1..Len(tail)
             /\ (j - Len(dirs)) + 1 \in 1..(Len(tail) + 1)
    <3>1. PICK i : i = (j - Len(dirs)) + 1
      OBVIOUS
    <3>2. rest[j] = tail[j - Len(dirs)]
      BY <1>9, <2>3
    <3>3. tail[j - Len(dirs)] = todo[i]
      BY <1>8, <2>3, <3>1
    <3>4. i \in DOMAIN todo
      BY <1>4, <1>8, <2>3, <3>1
    <3> QED BY <3>2, <3>3, <3>4
  <2> QED BY <1>4, <1>8, <1>9, <2>1, <2>2, <2>3
<1>11. ASSUME NEW k \in DOMAIN dirs
       PROVE  \E j \in DOMAIN rest : rest[j] = Under(todo[1], Last(dirs[k]))
  <2>1. k \in DOMAIN rest /\ k \in 1..Len(dirs)
    BY <1>4, <1>8, <1>9
  <2> QED BY <1>6, <1>9, <2>1
<1>12. ASSUME NEW i \in DOMAIN todo \ {1}
       PROVE  \E j \in DOMAIN rest : rest[j] = todo[i]
  <2>1. \A l, m \in Nat : \A k \in 1..(m + 1) : k # 1 =>
          /\ k - 1 \in 1..m /\ (k - 1) + 1 = k
          /\ l + (k - 1) \in (l + 1)..(l + m) /\ l + (k - 1) \in 1..(l + m)
          /\ (l + (k - 1)) - l = k - 1
    OBVIOUS
  <2>2. PICK m : m = i - 1
    OBVIOUS
  <2>3. i \in 1..(Len(tail) + 1) /\ i # 1
    BY <1>4, <1>8
  <2>4. /\ m \in 1..Len(tail) /\ m + 1 = i /\ Len(dirs) + m \in (Len(dirs) + 1)..(Len(dirs) + Len(tail))
        /\ Len(dirs) + m \in DOMAIN rest /\ (Len(dirs) + m) - Len(dirs) = m
    BY <1>4, <1>8, <1>9, <2>1, <2>2, <2>3
  <2>5. tail[m] = todo[i]
    BY <1>8, <2>4
  <2>6. rest[Len(dirs) + m] = tail[m]
    BY <1>9, <2>4
  <2> QED BY <2>4, <2>5, <2>6
<1>13. rest \in Seq(Path) /\ Continues(rest, todo, dirs)
  BY <1>9, <1>10, <1>11, <1>12 DEF Continues
<1> QED BY <1>13 DEF rest

LEMMA ReadDirInv ==
  ASSUME Inv, NEW c \in Client, ReadDir(c)
  PROVE  Inv'
<1>1. In(c, "readdir") /\ UNCHANGED <<calls, faults, spoilt>>
  BY DEF ReadDir
<1>2. /\ At(c) \in Node /\ Inside(At(c)) /\ call[c].op = "listFiles" /\ call[c].answer = <<>>
      /\ call[c].todo # <<>> /\ call[c].todo \in Seq(Path)
      /\ call \in [Client -> CallRecord] /\ call[c] \in CallRecord
  BY <1>1 DEF Inv, DiskOK, PlaceOK, Belongs, In, CallRecord
<1>3. ~In(c, "fill") /\ calls' \in 0..MaxCalls
  BY <1>1 DEF Inv, DiskOK, In
<1>4. ASSUME NEW n \in CallRecord, n.op = "listFiles", n.at = At(c), n.answer = <<>> \/ n.phase = "done",
             n.phase \in {"readdir", "done"}, n.phase = "readdir" => n.todo # <<>>, Step(c, n, disk)
      PROVE  Inv'
  <2>1. Sound(n, disk)
    BY <1>2, <1>4 DEF Sound, TellsOf, Belongs
  <2>2. n.phase # "fill"
    BY <1>4
  <2> QED BY <1>1, <1>3, <1>4, <2>1, <2>2, IdleStep
<1>5. ASSUME NEW answer \in Reply, Step(c, Answers(c, answer), disk)
      PROVE  Inv'
  <2> DEFINE n == Answers(c, answer)
  <2>1. n \in CallRecord /\ n.op = "listFiles" /\ n.at = At(c) /\ n.phase = "done"
    BY <1>2, AnswersRecord DEF At
  <2> HIDE DEF n
  <2> QED BY <1>4, <1>5, <2>1 DEF n
<1> DEFINE todo == call[c].todo
           below == Entries(AssertSafe(todo[1]))
           found == call[c].found \cup {p \in below : IsFile(disk[p])}
<1>6. ASSUME NEW order \in SetToSeqs({p \in below : disk[p] = Dir}), NEW rest, rest = Rest(Named(todo[1], order), todo),
             Step(c, IF rest = <<>> THEN [Answers(c, <<"ok">>) EXCEPT !.found = found, !.todo = rest]
                     ELSE [call[c] EXCEPT !.found = found, !.todo = rest], disk)
      PROVE  Inv'
  <2>1. order \in Seq(Node)
    <3>1. {p \in below : disk[p] = Dir} \subseteq Node
      BY DEF Entries
    <3> QED BY <3>1, Orders
  <2>2. rest \in Seq(Path)
    BY <1>2, <1>6, <2>1, RestPaths
  <2>3. found \in SUBSET Node
    BY <1>2 DEF Entries, CallRecord
  <2> HIDE DEF found
  <2>4. CASE rest = <<>>
    <3> DEFINE n == [Answers(c, <<"ok">>) EXCEPT !.found = found, !.todo = rest]
    <3>1. /\ Answers(c, <<"ok">>) \in CallRecord /\ Answers(c, <<"ok">>).op = "listFiles"
          /\ Answers(c, <<"ok">>).at = At(c) /\ Answers(c, <<"ok">>).phase = "done"
      BY <1>2, AnswersRecord, AnswerWords DEF At
    <3>2. n \in CallRecord /\ n.op = "listFiles" /\ n.at = At(c) /\ n.phase = "done"
      BY <2>2, <2>3, <3>1 DEF CallRecord
    <3>3. Step(c, n, disk)
      BY <1>6, <2>4
    <3> HIDE DEF n
    <3> QED BY <1>4, <3>2, <3>3
  <2>5. CASE rest # <<>>
    <3> DEFINE n == [call[c] EXCEPT !.found = found, !.todo = rest]
    <3>1. /\ n \in CallRecord /\ n.op = "listFiles" /\ n.at = At(c) /\ n.phase = "readdir"
          /\ n.answer = <<>> /\ n.todo = rest
      BY <1>1, <1>2, <2>2, <2>3 DEF CallRecord, At, In
    <3>2. Step(c, n, disk)
      BY <1>6, <2>5
    <3> HIDE DEF n
    <3> QED BY <1>4, <2>5, <3>1, <3>2
  <2> QED BY <2>4, <2>5
<1>7. \/ Step(c, Answers(c, <<"unsafe">>), disk)
      \/ Step(c, Answers(c, <<"raw">>), disk)
      \/ \E order \in SetToSeqs({p \in below : disk[p] = Dir}) :
           \E rest : /\ rest = Rest(Named(todo[1], order), todo)
                     /\ Step(c, IF rest = <<>> THEN [Answers(c, <<"ok">>) EXCEPT !.found = found, !.todo = rest]
                                ELSE [call[c] EXCEPT !.found = found, !.todo = rest], disk)
  BY DEF ReadDir
<1> QED BY <1>5, <1>6, <1>7, AnswerWords

LEMMA CrashInv ==
  ASSUME Inv, NEW c \in Client, Crash(c)
  PROVE  Inv'
<1>1. /\ ~In(c, "done") /\ faults' = faults + 1 /\ faults < MaxFaults /\ calls' = calls /\ Step(c, NoCall, disk)
      /\ spoilt' = IF In(c, "fill") /\ call[c].linked THEN spoilt \cup {At(c)} ELSE spoilt
  BY DEF Crash
<1>2. PICK at : at = At(c)
  OBVIOUS
<1>3. /\ at \in Node /\ call \in [Client -> CallRecord] /\ disk \in [Node -> Entry]
      /\ IsTree(disk) /\ HasRoots(disk)
      /\ calls' \in 0..MaxCalls /\ faults' \in 0..MaxFaults /\ spoilt' \subseteq Node
  <2>1. faults \in 0..MaxFaults /\ MaxFaults \in Nat
    BY FilesAssumption DEF Inv, DiskOK
  <2>2. faults' \in 0..MaxFaults
    BY <1>1, <2>1
  <2> QED BY <1>1, <1>2, <2>2 DEF Inv, DiskOK, PlaceOK
<1>4. NoCall.phase = "done" /\ NoCall.disturbed /\ NoCall \in CallRecord
  BY NoCallRecord DEF NoCall
<1>5. Sound(NoCall, disk)
  BY <1>4 DEF Sound, TellsOf
<1>6. /\ disk' = disk /\ call'[c] = NoCall
      /\ \A p : Writers(p)' \ {c} = Writers(p) \ {c}
  BY <1>1, <1>3, <1>4, StepKeeps
<1>7. c \notin Writers(at)'
  BY <1>4, <1>6 DEF Writers, In
<1>8. PathOK(at)'
  <2>1. CASE In(c, "fill") /\ call[c].linked
    <3>1. c \in Writers(at) /\ at \in spoilt'
      BY <1>1, <1>2, <2>1 DEF Writers, In
    <3>2. IsFile(disk[at])
      BY <1>3, <3>1, PathsBefore DEF PathOK
    <3> QED BY <1>6, <3>1, <3>2 DEF PathOK, IsFile
  <2>2. CASE ~(In(c, "fill") /\ call[c].linked)
    <3>1. c \notin Writers(at)
      BY <2>2 DEF Writers, In
    <3>2. Writers(at)' = Writers(at)
      BY <1>6, <1>7, <3>1
    <3> QED BY <1>1, <1>3, <1>6, <2>2, <3>2, PathLeft
  <2> QED BY <2>1, <2>2
<1>9. \A p \in Node \ {at} : /\ disk[p] = disk[p] /\ (p \in spoilt' <=> p \in spoilt)
                             /\ NoCall.phase = "fill" => NoCall.at # p
  BY <1>1, <1>2, <1>4
<1> QED BY <1>1, <1>2, <1>3, <1>4, <1>5, <1>8, <1>9, FileStep

\* Nothing lies below a directory without entries.
LEMMA NothingBelow ==
  ASSUME Inv, NEW p \in Node, Entries(p) = {}, NEW q \in Node, disk[q] # Absent
  PROVE  p \notin Ancestors(q)
<1> SUFFICES ASSUME p \in Ancestors(q) PROVE FALSE
  OBVIOUS
<1>1. /\ q \in Seq(Segment) /\ p \in Seq(Segment) /\ p # q /\ Ancestors(q) \subseteq Node
      /\ Len(p) \in 1..(Len(q) - 1) /\ \A n \in 1..Len(p) : p[n] = q[n]
  <2>1. q \in Seq(Segment) /\ p \in Seq(Segment) /\ p # q /\ Ancestors(q) \subseteq Node
    BY NodeAncestors
  <2> QED BY <2>1, AncestorElements
<1>2. Len(p) <= Len(q)
  <2>1. Len(p) \in Nat /\ Len(q) \in Nat
    BY <1>1, LenProperties
  <2> QED BY <1>1, <2>1
<1>3. IsPrefix(p, q)
  BY <1>1, <1>2, PrefixElements
<1>4. PICK r \in Seq(Segment) : (r = q \/ r \in Ancestors(q)) /\ Len(r) = Len(p) + 1 /\ Front(r) = p
  BY <1>1, <1>3, NextBelow
<1>5. disk[r] # Absent /\ r \in Node
  <2>1. \A a \in Ancestors(q) : disk[a] = Dir
    BY DEF Inv, DiskOK, IsTree
  <2> QED BY <1>1, <1>4, <2>1, FilesAssumption
<1> QED BY <1>4, <1>5 DEF Entries

LEMMA RemoveDirectoryInv ==
  ASSUME Inv, NEW p \in Node, RemoveDirectory(p)
  PROVE  Inv'
<1>1. /\ disk[p] = Dir /\ Entries(p) = {} /\ p \notin ToSet(Root)
      /\ faults < MaxFaults /\ faults' = faults + 1 /\ UNCHANGED <<calls, spoilt>>
  BY DEF RemoveDirectory
<1>2. /\ call \in [Client -> CallRecord] /\ disk \in [Node -> Entry]
      /\ IsTree(disk) /\ HasRoots(disk)
  BY DEF Inv, DiskOK
<1>3. calls' \in 0..MaxCalls /\ faults' \in 0..MaxFaults /\ spoilt' \subseteq Node
  <2>1. faults \in 0..MaxFaults /\ MaxFaults \in Nat
    BY FilesAssumption DEF Inv, DiskOK
  <2>2. faults' \in 0..MaxFaults
    BY <1>1, <2>1
  <2> QED BY <1>1, <2>2 DEF Inv, DiskOK
<1>4. /\ disk' = Put(p, Absent) /\ call' \in [Client -> CallRecord]
      /\ \A e \in Client : Kept(e)
      /\ \A q : Writers(q)' = Writers(q)
  BY <1>2, RemoveKeeps
<1>5. disk' \in [Node -> Entry] /\ disk'[p] = Absent /\ \A q \in Node \ {p} : disk'[q] = disk[q]
  BY <1>2, <1>4 DEF Put, Entry
<1>6. \A e \in Client : PlaceOK(e)' /\ SteadyOK(e)' /\ Tells(e)'
  BY <1>4, KeptOK DEF Inv
<1>7. ASSUME NEW q \in Node
      PROVE  PathOK(q)'
  <2>1. CASE q = p
    <3>1. Writers(p)' = {}
      <4>1. ~IsFile(disk[p])
        BY <1>1 DEF IsFile
      <4>2. Writers(p) = {}
        BY <4>1, PathsBefore DEF PathOK
      <4> QED BY <1>4, <4>2
    <3>2. ~IsFile(disk[p])'
      BY <1>5 DEF IsFile
    <3> QED BY <2>1, <3>1, <3>2 DEF PathOK
  <2>2. CASE q # p
    BY <1>1, <1>4, <1>5, <2>2, PathLeft
  <2> QED BY <2>1, <2>2
<1>8. HasRoots(disk')
  <2> SUFFICES ASSUME NEW k \in DOMAIN Root PROVE disk'[Root[k]] = Dir
    BY DEF HasRoots
  <2>1. Root[k] \in Node /\ Root[k] # p
    BY <1>1, RootsAreNodes DEF ToSet
  <2> QED BY <1>2, <1>5, <2>1 DEF HasRoots
<1>9. IsTree(disk')
  <2> SUFFICES ASSUME NEW q \in Node, disk'[q] # Absent, NEW a \in Ancestors(q)
               PROVE  disk'[a] = Dir
    BY DEF IsTree
  <2>1. disk[q] # Absent /\ a \in Node /\ disk[a] = Dir
    BY <1>2, <1>5, NodeAncestors DEF IsTree
  <2>2. a # p
    BY <1>1, <2>1, NothingBelow
  <2> QED BY <1>5, <2>1, <2>2
<1>10. DiskOK'
  BY <1>3, <1>4, <1>5, <1>8, <1>9 DEF DiskOK, IsTree, HasRoots
<1> QED BY <1>6, <1>7, <1>10, PathsAfter DEF Inv

LEMMA NextInv == Inv /\ [FilesNext]_filesVars => Inv'
<1> SUFFICES ASSUME Inv, [FilesNext]_filesVars PROVE Inv'
  OBVIOUS
<1>1. ASSUME NEW c \in Client, NEW path \in Candidate, Invoke(c, path)
      PROVE  Inv'
  <2>1. <<>> \in Seq(Chunk) /\ Content \subseteq Seq(Chunk)
    BY FilesAssumption, EmptySeq
  <2>2. ASSUME NEW op \in Operation \ {"writeFile"}, Call(c, op, path, <<>>)
        PROVE  Inv'
    BY <2>1, <2>2, CallInv
  <2>3. ASSUME NEW x \in Content, Call(c, "writeFile", path, x)
        PROVE  Inv'
    <3>1. "writeFile" \in Operation
      BY DEF Operation
    <3> QED BY <2>1, <2>3, <3>1, CallInv
  <2> QED BY <1>1, <2>2, <2>3 DEF Invoke
<1>2. ASSUME NEW c \in Client, Serve(c)
      PROVE  Inv'
  BY <1>2, ReadInv, AccessInv, MakeDirectoriesInv, OpenFileInv, FillInv, StatInv, UnlinkInv, ReadDirInv DEF Serve
<1>3. ASSUME UNCHANGED filesVars
      PROVE  Inv'
  BY <1>3 DEF filesVars, Inv, DiskOK, IsTree, HasRoots, WholeOK, Files, Writers, PlaceOK, WriterOK,
              SteadyOK, Tells, TellsOf, In, At
<1> QED BY <1>1, <1>2, <1>3, CrashInv, RemoveDirectoryInv DEF FilesNext

-----------------------------------------------------------------------------
(* What clients change *)

\* A node on the way to where a client is, or there, that is not a directory yet lies
\* below a root and not in a blocked directory.
LEMMA ChangeInside ==
  ASSUME Inv, NEW at \in Node, Inside(at), NEW p \in Node, p = at \/ p \in Ancestors(at), disk[p] # Dir
  PROVE  \E k \in DOMAIN Root :
           /\ IsPrefix(Root[k], p) /\ p # Root[k]
           /\ \A n \in (Len(Root[k]) + 1)..Len(p) : p[n] \notin Blocked
<1>1. PICK k \in DOMAIN Root : /\ IsPrefix(Root[k], at)
                               /\ \A n \in (Len(Root[k]) + 1)..Len(at) : at[n] \notin Blocked
  BY DEF Inside
<1>2. PICK r : r = Root[k] /\ r \in Node
  BY RootsAreNodes
<1>3. /\ at \in Seq(Segment) /\ p \in Seq(Segment) /\ r \in Seq(Segment)
      /\ p # <<>> /\ disk[r] = Dir /\ IsTree(disk)
  BY <1>2, NodeAncestors DEF Inv, DiskOK, HasRoots
<1>4. Len(at) \in Nat /\ Len(p) \in Nat /\ Len(r) \in Nat
  BY <1>3, LenProperties
<1>5. Len(p) <= Len(at) /\ \A n \in 1..Len(p) : p[n] = at[n]
  <2>1. CASE p = at
    BY <1>4, <2>1
  <2>2. CASE p \in Ancestors(at)
    <3>1. Len(p) \in 1..(Len(at) - 1) /\ \A n \in 1..Len(p) : p[n] = at[n]
      BY <1>3, <2>2, AncestorElements
    <3> QED BY <1>4, <3>1
  <2> QED BY <2>1, <2>2
<1>6. IsPrefix(p, at)
  BY <1>3, <1>5, PrefixElements
<1>7. p # r /\ p \notin Ancestors(r)
  BY <1>2, <1>3, FilesAssumption DEF IsTree
<1>8. IsPrefix(r, p)
  BY <1>1, <1>2, <1>3, <1>6, <1>7, PrefixesCompare
<1>9. \A n \in (Len(r) + 1)..Len(p) : p[n] \notin Blocked
  <2> TAKE n \in (Len(r) + 1)..Len(p)
  <2>1. n \in (Len(r) + 1)..Len(at) /\ n \in 1..Len(p)
    BY <1>4, <1>5
  <2> QED BY <1>1, <1>2, <1>5, <2>1
<1> QED BY <1>2, <1>7, <1>8, <1>9

LEMMA ServeChanges ==
  ASSUME Inv, NEW c \in Client, Serve(c), NEW p \in Node, disk'[p] # disk[p]
  PROVE  ~In(c, "done") /\ (p = At(c) \/ p \in Ancestors(At(c))) /\ disk[p] # Dir
<1>1. disk \in [Node -> Entry]
  BY DEF Inv, DiskOK
<1>2. ~Read(c) /\ ~Access(c) /\ ~Stat(c) /\ ~ReadDir(c)
  BY DEF Read, Access, Stat, ReadDir, Step
<1>3. CASE MakeDirectories(c)
  <2> DEFINE dirs == Ancestors(At(c)) \cup (IF In(c, "mkdir") THEN {At(c)} ELSE {})
  <2>1. disk' = disk \/ disk' = Made(dirs)
    BY <1>3 DEF MakeDirectories, Step
  <2>2. p \in dirs /\ disk[p] # Dir
    BY <2>1 DEF Made
  <2>3. ~In(c, "done")
    BY <1>3 DEF MakeDirectories, In
  <2> QED BY <2>2, <2>3
<1>4. CASE OpenFile(c)
  <2>1. disk' = disk \/ (disk' = Put(At(c), Truncated(disk[At(c)])) /\ disk[At(c)] # Dir)
    BY <1>4 DEF OpenFile, Step
  <2>2. p = At(c) /\ disk[p] # Dir
    BY <1>1, <2>1 DEF Put
  <2> QED BY <1>4, <2>2 DEF OpenFile, In
<1>5. CASE Fill(c)
  <2>1. In(c, "fill")
    BY <1>5 DEF Fill
  <2>2. disk' = disk \/ (call[c].linked /\ disk' = Put(At(c), Overlaid(disk[At(c)], call[c].content)))
    BY <1>5 DEF Fill, Step
  <2>3. p = At(c) /\ call[c].linked
    BY <1>1, <2>2 DEF Put
  <2>4. IsFile(disk[At(c)])
    BY <2>1, <2>3 DEF Inv, WriterOK
  <2> QED BY <2>1, <2>3, <2>4 DEF In, IsFile
<1>6. CASE Unlink(c)
  <2>1. disk' = disk \/ (IsFile(disk[At(c)]) /\ disk' = Put(At(c), Absent))
    BY <1>6 DEF Unlink, Step
  <2>2. p = At(c) /\ IsFile(disk[p])
    BY <1>1, <2>1 DEF Put
  <2> QED BY <1>6, <2>2 DEF Unlink, In, IsFile
<1> QED BY <1>2, <1>3, <1>4, <1>5, <1>6 DEF Serve

LEMMA NextInside == Inv /\ [FilesNext]_filesVars => [StepStaysInside]_filesVars
<1> SUFFICES ASSUME Inv, FilesNext, NEW p \in Node, disk'[p] # disk[p], faults' = faults
             PROVE  /\ \E k \in DOMAIN Root :
                         /\ IsPrefix(Root[k], p) /\ p # Root[k]
                         /\ \A n \in (Len(Root[k]) + 1)..Len(p) : p[n] \notin Blocked
                    /\ disk[p] # Dir
  BY DEF StepStaysInside
<1>1. faults \in Int
  BY DEF Inv, DiskOK
<1>2. \A q \in Node : ~RemoveDirectory(q)
  BY <1>1 DEF RemoveDirectory
<1>3. \A c \in Client : ~Crash(c) /\ \A path \in Candidate : ~Invoke(c, path)
  BY DEF Crash, Invoke, Call, Step
<1>4. PICK c \in Client : Serve(c)
  BY <1>2, <1>3 DEF FilesNext
<1>5. ~In(c, "done") /\ (p = At(c) \/ p \in Ancestors(At(c))) /\ disk[p] # Dir
  BY <1>4, ServeChanges
<1>6. At(c) \in Node /\ Inside(At(c))
  BY <1>5 DEF Inv, PlaceOK
<1> QED BY <1>5, <1>6, ChangeInside

-----------------------------------------------------------------------------
(* What a listing names *)

\* An entry of a directory below a path is a path below it too.
LEMMA EntryBelow ==
  ASSUME NEW at \in Seq(Segment), NEW dir \in Seq(Segment), IsPrefix(at, dir),
         NEW p \in Seq(Segment), Len(p) = Len(dir) + 1, Front(p) = dir
  PROVE  IsPrefix(at, p) /\ p # at /\ IsPrefix(dir, p) /\ p # dir /\ p = Append(dir, Last(p)) /\ Last(p) \in Segment
<1>1. PICK m \in Nat : Len(dir) = m /\ Len(p) = m + 1
  BY LenProperties
<1>2. Front(p) = SubSeq(p, 1, m)
  BY <1>1 DEF Front
<1>3. \A n \in 1..m : SubSeq(p, 1, m)[n] = p[n]
  BY <1>1
<1>4. \A n \in 1..m : dir[n] = p[n]
  BY <1>2, <1>3
<1>5. m <= m + 1 /\ m + 1 # m
  BY <1>1
<1>6. IsPrefix(dir, p) /\ p # dir
  BY <1>1, <1>4, <1>5, PrefixElements
<1>7. Len(at) \in Nat /\ Len(at) <= m /\ \A n \in 1..Len(at) : at[n] = dir[n]
  BY <1>1, PrefixElements, LenProperties
<1>8. IsPrefix(at, p)
  <2>1. Len(at) <= Len(p) /\ \A n \in 1..Len(at) : at[n] = p[n]
    BY <1>1, <1>4, <1>7
  <2> QED BY <2>1, PrefixElements
<1>9. p # at
  BY <1>1, <1>7
<1>10. Last(p) \in Segment /\ Last(p) = p[m + 1]
  BY <1>1 DEF Last
<1>11. p = Append(dir, Last(p))
  <2> DEFINE w == Append(dir, Last(p))
  <2>1. w \in Seq(Segment) /\ Len(w) = m + 1 /\ \A n \in 1..m : w[n] = dir[n]
    BY <1>1, <1>10
  <2>2. w[m + 1] = Last(p)
    BY <1>1, <1>10
  <2> HIDE DEF w
  <2>3. \A n \in 1..(m + 1) : n \in 1..m \/ n = m + 1
    BY <1>1
  <2>4. \A n \in 1..Len(p) : p[n] = w[n]
    BY <1>1, <1>4, <1>10, <2>1, <2>2, <2>3
  <2>5. p = w
    BY <1>1, <2>1, <2>4, SeqEqual
  <2> QED BY <2>5 DEF w
<1> QED BY <1>6, <1>8, <1>9, <1>10, <1>11

\* A call of readdir that lists the first of the paths to list.
LEMMA ReadDirLists ==
  ASSUME RootsApart, Inv, NEW k \in CallRecord, Listing(k), k.todo # <<>>, k.at \in Seq(Segment),
         NEW dir, dir = AssertSafe(k.todo[1]), IsSafe(k.todo[1]),
         NEW order \in SetToSeqs({p \in Entries(dir) : disk[p] = Dir}),
         NEW n \in CallRecord, n.at = k.at, n.always = k.always, n.ever = k.ever,
         n.found = k.found \cup {p \in Entries(dir) : IsFile(disk[p])},
         n.todo = Rest(Named(k.todo[1], order), k.todo)
  PROVE  Listing(n)
<1>1. PICK todo : todo = k.todo /\ todo \in Seq(Path) /\ todo # <<>>
  BY DEF CallRecord
<1>2. PICK rest : rest = n.todo
  OBVIOUS
<1>3. 1 \in DOMAIN todo /\ todo[1] \in Path
  BY <1>1, EmptySeq, LenProperties
<1>4. dir \in Seq(Segment) /\ IsPrefix(k.at, dir)
  BY <1>1, <1>3 DEF Listing
<1>5. Entries(dir) \subseteq Node /\ \A p \in Node : p \in Seq(Segment)
  BY NodeAncestors DEF Entries
<1> DEFINE dirs == {p \in Entries(dir) : disk[p] = Dir}
<1>6. /\ order \in Seq(Node)
      /\ \A p \in dirs : \E j \in DOMAIN order : order[j] = p
      /\ \A j \in DOMAIN order : order[j] \in dirs
  <2>1. dirs \in SUBSET Node
    BY <1>5
  <2>2. order \in Seq(dirs) /\ order \in Seq(Node) /\ DOMAIN order = 1..Len(order)
        /\ \A p \in dirs : \E j \in DOMAIN order : order[j] = p
    BY <2>1, Orders
  <2> QED BY <2>2, ElementOfSeq
<1>7. Continues(rest, todo, order)
  <2>1. rest = Rest(Named(todo[1], order), todo)
    BY <1>1, <1>2
  <2> QED BY <1>1, <1>6, <2>1, RestPaths
<1>8. ASSUME NEW p \in Entries(dir)
      PROVE  /\ p \in Node /\ IsPrefix(k.at, p) /\ p # k.at /\ p = Append(dir, Last(p)) /\ Last(p) \in Segment
             /\ IsSafe(Under(todo[1], Last(p))) => AssertSafe(Under(todo[1], Last(p))) = p
  <2>1. Len(p) = Len(dir) + 1 /\ Front(p) = dir /\ p \in Seq(Segment) /\ p \in Node
    BY <1>5 DEF Entries
  <2>2. IsPrefix(k.at, p) /\ p # k.at /\ p = Append(dir, Last(p)) /\ Last(p) \in Segment
    BY <1>4, <2>1, EntryBelow
  <2>3. IsSafe(Under(todo[1], Last(p))) => AssertSafe(Under(todo[1], Last(p))) = Append(dir, Last(p))
    BY <1>1, <1>3, <2>2, SafeUnder
  <2> QED BY <2>1, <2>2, <2>3
<1>9. n.always \subseteq Files /\ Files \subseteq n.ever
  BY DEF Listing
<1>10. ASSUME NEW p \in n.found
       PROVE  p \in n.ever /\ Below(n.at, p)
  <2>1. CASE p \in k.found
    BY <2>1 DEF Listing
  <2>2. CASE p \in Entries(dir) /\ IsFile(disk[p])
    <3>1. p \in Files
      BY <1>8, <2>2 DEF Files
    <3> QED BY <1>8, <1>9, <2>2, <3>1 DEF Below
  <2> QED BY <2>1, <2>2
<1>11. ASSUME NEW j \in DOMAIN rest, IsSafe(rest[j])
       PROVE  AssertSafe(rest[j]) \in Seq(Segment) /\ IsPrefix(k.at, AssertSafe(rest[j]))
  <2>1. CASE \E i \in DOMAIN order : rest[j] = Under(todo[1], Last(order[i]))
    <3>1. PICK i \in DOMAIN order : rest[j] = Under(todo[1], Last(order[i]))
      BY <2>1
    <3>2. order[i] \in Entries(dir)
      BY <1>6
    <3> QED BY <1>5, <1>8, <1>11, <3>1, <3>2
  <2>2. CASE \E i \in DOMAIN todo : rest[j] = todo[i]
    BY <1>1, <1>11, <2>2 DEF Listing
  <2> QED BY <1>7, <2>1, <2>2 DEF Continues
<1>12. ASSUME NEW p \in n.always, Below(n.at, p), p \notin n.found
       PROVE  Awaited(rest, p)
  <2>1. p \in Node /\ IsFile(disk[p]) /\ p \in Seq(Segment)
    BY <1>5, <1>9 DEF Files
  <2>2. PICK i \in DOMAIN todo : IsSafe(todo[i]) => Below(AssertSafe(todo[i]), p)
    BY <1>1, <1>12 DEF Listing, Awaited
  <2>3. CASE i # 1
    <3>1. PICK j \in DOMAIN rest : rest[j] = todo[i]
      BY <1>7, <2>3 DEF Continues
    <3> QED BY <2>2, <3>1 DEF Awaited
  <2>4. CASE i = 1
    <3>1. IsPrefix(dir, p) /\ dir # p
      BY <1>1, <2>2, <2>4 DEF Below
    <3>2. PICK r \in Seq(Segment) : /\ r = p \/ r \in Ancestors(p)
                                    /\ Len(r) = Len(dir) + 1 /\ Front(r) = dir
      BY <1>4, <2>1, <3>1, NextBelow
    <3>3. r \in Node /\ (r # p => disk[r] = Dir)
      <4>1. Ancestors(p) \subseteq Node
        BY <2>1, NodeAncestors
      <4>2. disk[p] # Absent /\ IsTree(disk)
        BY <2>1 DEF Inv, DiskOK, IsFile
      <4> QED BY <2>1, <3>2, <4>1, <4>2 DEF IsTree
    <3>4. r \in Entries(dir)
      BY <2>1, <3>2, <3>3, FilesAssumption DEF Entries, IsFile
    <3>5. r # p
      BY <1>12, <2>1, <3>4
    <3>6. PICK m \in DOMAIN order : order[m] = r
      BY <1>6, <3>3, <3>4, <3>5
    <3>7. PICK j \in DOMAIN rest : rest[j] = Under(todo[1], Last(r))
      BY <1>7, <3>6 DEF Continues
    <3>8. Below(r, p)
      <4>1. r \in Ancestors(p)
        BY <3>2, <3>5
      <4>2. Len(r) \in 1..(Len(p) - 1) /\ \A l \in 1..Len(r) : r[l] = p[l]
        BY <2>1, <4>1, AncestorElements
      <4>3. Len(r) <= Len(p)
        BY <2>1, <4>2, LenProperties
      <4> QED BY <2>1, <3>5, <4>2, <4>3, PrefixElements DEF Below
    <3>9. IsSafe(rest[j]) => Below(AssertSafe(rest[j]), p)
      BY <1>8, <3>4, <3>7, <3>8
    <3> QED BY <3>9 DEF Awaited
  <2> QED BY <2>3, <2>4
<1> QED BY <1>2, <1>9, <1>10, <1>11, <1>12 DEF Listing

LEMMA NotListing ==
  ASSUME NEW c \in Client, Inv', call'[c].op # "listFiles"
  PROVE  ListingOK(c)' /\ Lists(c)'
<1>1. PlaceOK(c)'
  BY DEF Inv
<1>2. ~In(c, "readdir")'
  BY <1>1 DEF PlaceOK, Belongs, In
<1> QED BY <1>2 DEF ListingOK, Lists

\* Clients that do not list go on with an operation that is not a listing.
LEMMA ServeOthers ==
  ASSUME Inv, NEW c \in Client, Serve(c), ~ReadDir(c)
  PROVE  call'[c].op # "listFiles" /\ \A e \in Client \ {c} : Kept(e)
<1> USE InvNodes
<1> DEFINE Phases == {"read", "access", "parents", "mkdir", "open", "fill", "stat", "unlink"}
<1>1. call[c].phase \in Phases
  BY DEF Serve, Read, Access, MakeDirectories, OpenFile, Fill, Stat, Unlink, In
<1>2. call[c].op # "listFiles" /\ At(c) \in Node
  BY <1>1 DEF Inv, PlaceOK, Belongs, In
<1>3. \A ph, a : Goes(c, ph).op = call[c].op /\ Answers(c, a).op = call[c].op
  BY DEF Goes, Answers, CallRecord
<1>4. ASSUME NEW n, NEW d, Step(c, n, d), n.op = call[c].op
      PROVE  call'[c].op # "listFiles" /\ \A e \in Client \ {c} : Kept(e)
  BY <1>2, <1>4, OthersKept
<1> HIDE DEF Phases
<1>5. CASE Read(c)
  BY <1>3, <1>4, <1>5 DEF Read
<1>6. CASE Access(c)
  BY <1>3, <1>4, <1>6 DEF Access
<1>7. CASE MakeDirectories(c)
  <2>1. \E n, d : Step(c, n, d) /\ n.op = call[c].op
    BY <1>3, <1>7 DEF MakeDirectories
  <2> QED BY <1>4, <2>1
<1>8. CASE OpenFile(c)
  <2>1. [Goes(c, "fill") EXCEPT !.linked = TRUE].op = call[c].op
    BY <1>3
  <2>2. \E n, d : Step(c, n, d) /\ n.op = call[c].op
    BY <1>3, <1>8, <2>1 DEF OpenFile
  <2> QED BY <1>4, <2>2
<1>9. CASE Fill(c)
  BY <1>3, <1>4, <1>9 DEF Fill
<1>10. CASE Stat(c)
  <2>1. \E n, d : Step(c, n, d) /\ n.op = call[c].op
    BY <1>3, <1>10, FilesAssumption DEF Stat
  <2> QED BY <1>4, <2>1
<1>11. CASE Unlink(c)
  <2>1. CASE IsFile(disk[At(c)])
    BY <1>2, <1>3, <1>11, <2>1, UnlinkKeeps DEF Inv
  <2>2. CASE ~IsFile(disk[At(c)])
    <3>1. Step(c, Answers(c, <<"raw">>), disk)
      BY <1>11, <2>2 DEF Unlink
    <3> QED BY <1>3, <1>4, <3>1
  <2> QED BY <2>1, <2>2
<1> QED BY <1>5, <1>6, <1>7, <1>8, <1>9, <1>10, <1>11 DEF Serve

\* A listing begins with the directory that was named, and has found nothing.
LEMMA CallListing ==
  ASSUME Inv, Inv', NEW c \in Client, NEW op \in Operation, NEW path \in Candidate, NEW content \in Seq(Chunk),
         op = "writeFile" => content \in Content, Call(c, op, path, content)
  PROVE  ListingOK(c)' /\ Lists(c)' /\ \A e \in Client \ {c} : Kept(e)
<1>1. PICK n \in CallRecord : Step(c, n, disk) /\ Begins(n, op, path, content)
  BY CallRecordBegins
<1>2. disk' = disk /\ call'[c] = n /\ \A e \in Client \ {c} : Kept(e)
  BY <1>1, InvNodes, OthersKept
<1>3. CASE op # "listFiles"
  BY <1>1, <1>2, <1>3, NotListing DEF Begins
<1>4. CASE n.phase = "done" /\ n.answer # <<"ok">>
  BY <1>2, <1>4 DEF ListingOK, Lists, In
<1>5. CASE /\ op = "listFiles" /\ IsSafe(path) /\ n.at = AssertSafe(path) /\ n.at \in Node
           /\ n.answer = <<>> /\ n.todo = <<path>>
  <2>1. n.found = {} /\ n.always = Files /\ n.ever = Files
    BY <1>1, <1>5 DEF Begins
  <2>2. n.at \in Seq(Segment) /\ IsPrefix(n.at, n.at)
    <3>1. n.at \in Seq(Segment)
      BY <1>5, NodeAncestors
    <3>2. Len(n.at) \in Nat
      BY <3>1, LenProperties
    <3> QED BY <3>1, <3>2, PrefixElements
  <2>3. DOMAIN n.todo = {1} /\ n.todo[1] = path
    BY <1>5
  <2>4. Listing(n)
    BY <1>5, <2>1, <2>2, <2>3 DEF Listing, Awaited
  <2>5. Files' = Files
    BY <1>2 DEF Files
  <2>6. ListingOK(c)'
    BY <1>2, <2>4, <2>5 DEF ListingOK, Listing
  <2>7. <<>> # <<"ok">>
    OBVIOUS
  <2> QED BY <1>2, <1>5, <2>6, <2>7 DEF Lists
<1> QED BY <1>1, <1>2, <1>3, <1>4, <1>5 DEF Begins

LEMMA ReadDirListing ==
  ASSUME RootsApart, Inv, Inv', NEW c \in Client, ListingOK(c), ReadDir(c)
  PROVE  ListingOK(c)' /\ Lists(c)' /\ \A e \in Client \ {c} : Kept(e)
<1>1. PICK k \in CallRecord : k = call[c]
  BY InvNodes
<1>2. /\ k.phase = "readdir" /\ k.op = "listFiles" /\ k.todo # <<>> /\ k.at \in Seq(Segment) /\ Listing(k)
      /\ k.answer = <<>>
  <2>1. In(c, "readdir")
    BY DEF ReadDir
  <2>2. PlaceOK(c)
    BY DEF Inv
  <2> QED BY <1>1, <2>1, <2>2, NodeAncestors DEF PlaceOK, Belongs, In, At, ListingOK
<1>3. ASSUME NEW n, Step(c, n, disk)
      PROVE  disk' = disk /\ call'[c] = n /\ Files' = Files /\ \A e \in Client \ {c} : Kept(e)
  BY <1>3, InvNodes, OthersKept DEF Files
<1>4. ASSUME NEW answer \in Reply \ {<<"ok">>}, Step(c, Answers(c, answer), disk)
      PROVE  ListingOK(c)' /\ Lists(c)' /\ \A e \in Client \ {c} : Kept(e)
  <2>1. PICK n : n = Answers(c, answer) /\ n.phase = "done" /\ n.answer = answer
    BY InvNodes, AnswersRecord
  <2>2. call'[c] = n /\ \A e \in Client \ {c} : Kept(e)
    BY <1>3, <1>4, <2>1
  <2> QED BY <1>4, <2>1, <2>2 DEF ListingOK, Lists, In
<1>5. <<"unsafe">> \in Reply \ {<<"ok">>} /\ <<"raw">> \in Reply \ {<<"ok">>}
  BY AnswerWords
<1> DEFINE dir == AssertSafe(k.todo[1])
           found == k.found \cup {p \in Entries(dir) : IsFile(disk[p])}
<1>6. ASSUME IsSafe(k.todo[1]), NEW order \in SetToSeqs({p \in Entries(dir) : disk[p] = Dir}),
             NEW rest, rest = Rest(Named(k.todo[1], order), k.todo),
             Step(c, IF rest = <<>> THEN [Answers(c, <<"ok">>) EXCEPT !.found = found, !.todo = rest]
                     ELSE [k EXCEPT !.found = found, !.todo = rest], disk)
      PROVE  ListingOK(c)' /\ Lists(c)' /\ \A e \in Client \ {c} : Kept(e)
  <2>1. PICK n : /\ n = call'[c] /\ n.at = k.at /\ n.always = k.always /\ n.ever = k.ever
                 /\ n.found = found /\ n.todo = rest
                 /\ IF rest = <<>> THEN n.phase = "done" ELSE n.phase = "readdir" /\ n.answer = <<>>
    <3> DEFINE done == Answers(c, <<"ok">>)
    <3>1. /\ done \in CallRecord /\ done.at = k.at /\ done.always = k.always /\ done.ever = k.ever
          /\ done.phase = "done"
      BY <1>1, InvNodes, AnswersRecord, AnswerWords
    <3> HIDE DEF done, found
    <3>2. CASE rest = <<>>
      <4>1. call'[c] = [done EXCEPT !.found = found, !.todo = rest]
        BY <1>3, <1>6, <3>2 DEF done
      <4>2. PICK n : n = [done EXCEPT !.found = found, !.todo = rest]
        OBVIOUS
      <4>3. /\ n.at = done.at /\ n.always = done.always /\ n.ever = done.ever
            /\ n.found = found /\ n.todo = rest /\ n.phase = done.phase
        BY <3>1, <4>2 DEF CallRecord
      <4> QED BY <3>1, <3>2, <4>1, <4>2, <4>3
    <3>3. CASE rest # <<>>
      <4>1. call'[c] = [k EXCEPT !.found = found, !.todo = rest]
        BY <1>3, <1>6, <3>3
      <4>2. PICK n : n = [k EXCEPT !.found = found, !.todo = rest]
        OBVIOUS
      <4>3. /\ n.at = k.at /\ n.always = k.always /\ n.ever = k.ever /\ n.found = found /\ n.todo = rest
            /\ n.phase = k.phase /\ n.answer = k.answer
        BY <4>2 DEF CallRecord
      <4> QED BY <1>2, <3>3, <4>1, <4>2, <4>3
    <3> QED BY <3>2, <3>3
  <2>2. n \in CallRecord
    BY <2>1 DEF Inv, DiskOK
  <2>3. disk' = disk /\ Files' = Files /\ \A e \in Client \ {c} : Kept(e)
    BY <1>3, <1>6
  <2>4. Listing(n)
    BY <1>2, <1>6, <2>1, <2>2, ReadDirLists
  <2>5. ListingOK(c)'
    BY <2>1, <2>3, <2>4 DEF ListingOK, Listing
  <2>6. Lists(c)'
    <3>1. CASE rest = <<>>
      <4>1. \A p : ~Awaited(n.todo, p)
        BY <2>1, <3>1 DEF Awaited
      <4>2. \A p \in n.always : Below(n.at, p) => p \in n.found
        BY <2>4, <4>1 DEF Listing
      <4>3. \A p \in n.found : p \in n.ever /\ Below(n.at, p)
        BY <2>4 DEF Listing
      <4> QED BY <2>1, <4>2, <4>3 DEF Lists, Below
    <3>2. CASE rest # <<>>
      <4>1. <<>> # <<"ok">>
        OBVIOUS
      <4> QED BY <2>1, <3>2, <4>1 DEF Lists
    <3> QED BY <3>1, <3>2
  <2> QED BY <2>3, <2>5, <2>6
<1>7. \/ Step(c, Answers(c, <<"unsafe">>), disk)
      \/ Step(c, Answers(c, <<"raw">>), disk)
      \/ /\ IsSafe(k.todo[1])
         /\ \E order \in SetToSeqs({p \in Entries(dir) : disk[p] = Dir}) :
              \E rest : /\ rest = Rest(Named(k.todo[1], order), k.todo)
                        /\ Step(c, IF rest = <<>> THEN [Answers(c, <<"ok">>) EXCEPT !.found = found, !.todo = rest]
                                   ELSE [k EXCEPT !.found = found, !.todo = rest], disk)
  BY <1>1 DEF ReadDir
<1> HIDE DEF found
<1> QED BY <1>4, <1>5, <1>6, <1>7

Listings == \A e \in Client : ListingOK(e) /\ Lists(e)

LEMMA NextListings ==
  ASSUME RootsApart, Inv, Inv', Listings, [FilesNext]_filesVars
  PROVE  Listings'
<1>1. ASSUME NEW e \in Client, Kept(e)
      PROVE  ListingOK(e)' /\ Lists(e)'
  BY <1>1, KeptListing DEF Listings, Inv
<1>2. ASSUME NEW c \in Client, ListingOK(c)' /\ Lists(c)', \A e \in Client \ {c} : Kept(e)
      PROVE  Listings'
  BY <1>1, <1>2 DEF Listings
<1>3. ASSUME NEW c \in Client, NEW path \in Candidate, Invoke(c, path)
      PROVE  Listings'
  <2>1. <<>> \in Seq(Chunk) /\ Content \subseteq Seq(Chunk)
    BY FilesAssumption, EmptySeq
  <2>2. \E op \in Operation, content \in Seq(Chunk) :
          (op = "writeFile" => content \in Content) /\ Call(c, op, path, content)
    BY <1>3, <2>1 DEF Invoke, Operation
  <2> QED BY <1>2, <2>2, CallListing
<1>4. ASSUME NEW c \in Client, Serve(c)
      PROVE  Listings'
  <2>1. CASE ReadDir(c)
    BY <1>2, <2>1, ReadDirListing DEF Listings
  <2>2. CASE ~ReadDir(c)
    BY <1>2, <1>4, <2>2, ServeOthers, NotListing
  <2> QED BY <2>1, <2>2
<1>5. ASSUME NEW c \in Client, Crash(c)
      PROVE  Listings'
  <2>1. Step(c, NoCall, disk)
    BY <1>5 DEF Crash
  <2>2. call'[c] = NoCall /\ \A e \in Client \ {c} : Kept(e)
    BY <2>1, InvNodes, OthersKept
  <2>3. NoCall.op # "listFiles"
    BY DEF NoCall
  <2> QED BY <1>2, <2>2, <2>3, NotListing
<1>6. ASSUME NEW p \in Node, RemoveDirectory(p)
      PROVE  Listings'
  <2>1. \A e \in Client : Kept(e)
    BY <1>6, InvNodes, RemoveKeeps
  <2> QED BY <1>1, <2>1 DEF Listings
<1>7. ASSUME UNCHANGED filesVars
      PROVE  Listings'
  BY <1>7 DEF filesVars, Listings, ListingOK, Listing, Lists, Files, In
<1> QED BY <1>3, <1>4, <1>5, <1>6, <1>7 DEF FilesNext

-----------------------------------------------------------------------------
(* The theorems *)

\* Between any two calls of node the workspace is a tree, and every call of the local
\* adapter under way is at a place its path policy allows and knows what still holds.
THEOREM InvTheorem == FilesSpec => []Inv
BY InitInv, NextInv, PTL DEF FilesSpec

\* LocalFileSystemAdapter.writeFile truncates a file before it fills it, and does not
\* lock it: a file is still a content somebody wrote as a whole, unless a write is in
\* the middle of it, a writer crashed there, or two wrote it at the same time.
THEOREM WholeTheorem == FilesSpec => []WholeUnlessWriting
<1>1. Inv => WholeUnlessWriting
  BY DEF Inv, WholeOK, WholeUnlessWriting
<1> QED BY <1>1, InvTheorem, PTL

\* PathPolicy.assertSafe in front of every operation: whatever paths clients name, they
\* change nothing but what lies below a root and not in a blocked directory, and never
\* remove a directory.
THEOREM InsideTheorem == FilesSpec => StaysInside
BY InvTheorem, NextInside, PTL DEF FilesSpec, StaysInside

\* A call of LocalFileSystemAdapter during which nobody else touches its path or the
\* directories above it tells what is there, and does what it says; and the workspace
\* stays a tree.
THEOREM TellsTheorem == FilesSpec => [](FilesTypeOK /\ UndisturbedCallsTell)
<1>1. Inv => FilesTypeOK
  BY DEF Inv, DiskOK, FilesTypeOK, IsTree, CallRecord, Phase
<1>2. Inv => UndisturbedCallsTell
  BY DEF Inv, Tells, TellsOf, UndisturbedCallsTell
<1> QED BY <1>1, <1>2, InvTheorem, PTL

\* The same, and a listing that succeeds names every file below the directory that was
\* there all the time and none that never was, if no allowed root lies in another: from
\* an absolute path LocalFileSystemAdapter.listFiles finds its root anew for every
\* directory on the way.
THEOREM CallsTellTheorem ==
  ASSUME RootsApart
  PROVE  FilesSpec => []CallsTell
<1>1. FilesInit => Listings
  BY DEF FilesInit, Listings, ListingOK, Lists, In, NoCall
<1>2. Inv /\ Inv' /\ Listings /\ [FilesNext]_filesVars => Listings'
  BY NextListings
<1>3. Listings => ListingTrue
  BY DEF Listings, Lists, ListingTrue
<1>4. FilesTypeOK /\ UndisturbedCallsTell /\ ListingTrue => CallsTell
  BY DEF CallsTell
<1> QED BY <1>1, <1>2, <1>3, <1>4, InvTheorem, TellsTheorem, PTL DEF FilesSpec

-----------------------------------------------------------------------------
(* The in-memory adapter beside the local one *)

\* The files of a disk with their contents, as the in-memory adapter holds them.
Mirror(d) == [p \in FilesOf(d) |-> d[p]]

\* The answers are the same; only of a directory nobody created by itself they differ.
AnswersAlike(k) ==
  \/ k.op = "none"
  \/ k.op = "exists" /\ disk[k.at] = Dir
  \/ twin = IF k.op = "listFiles" THEN <<"files", k.found>> ELSE k.answer

\* Between two calls the two hold the same files. In a call of the local adapter the
\* other one still holds those from before it, which differ only at a file cut to nothing.
TwinOK(c) ==
  LET k == call[c]
  IN /\ k.op # "none" => ~k.disturbed
     /\ k.op = "listFiles" => k.always = Files /\ k.ever = Files
     /\ IF k.phase = "fill" THEN Mirror(disk) = [p \in DOMAIN memory \cup {k.at} |-> IF p = k.at THEN <<>> ELSE memory[p]]
        ELSE memory = Mirror(disk)
     /\ directories \subseteq Node /\ \A p \in directories : disk[p] = Dir
     /\ k.phase = "done" => AnswersAlike(k)

\* Nothing is claimed once the local adapter failed in its own way, nor of a client
\* while it is somebody else's turn.
TwinInv == parted \/ \A c \in Client : HasTurn(c) => TwinOK(c)

\* Relative paths in their plain form that assertSafe lets through: the in-memory
\* adapter takes a path as it is written, so it knows no other names of a file.
PlainPaths ==
  \A path \in Candidate :
    ~path.absolute /\ path.segments # <<>> /\ ".." \notin ToSet(path.segments) /\ IsSafe(path)

\* The record n goes on with the call that k is of.
Takes(k, n) ==
  /\ n.op = k.op /\ n.at = k.at /\ n.content = k.content /\ n.disturbed = k.disturbed
  /\ n.always = k.always /\ n.ever = k.ever

\* What a step of node does to the disk and to the record of the call, n after k.
Quiet(k, n) ==
  /\ k.phase # "fill" /\ n.phase # "fill" /\ Mirror(disk') = Mirror(disk)
  /\ n.phase = "done" => \/ n.answer \in {<<"raw">>, <<"unsafe">>}
                         \/ k.op \in {"readFile", "exists"}
                         \/ k.op \in {"listFiles", "createDirectory"} /\ n.answer = <<"ok">>
                         \/ k.op = "deleteFile" /\ n.answer = <<"notFound">>
Opens(k, n) ==
  k.op = "writeFile" /\ k.phase # "fill" /\ n.phase = "fill" /\ disk' = Put(k.at, <<>>)
Fills(k, n) ==
  /\ k.op = "writeFile" /\ k.phase = "fill" /\ n.phase = "done" /\ n.answer = <<"ok">>
  /\ k.linked => disk' = Put(k.at, Overlaid(disk[k.at], k.content))
Unlinks(k, n) ==
  /\ k.op = "deleteFile" /\ k.phase # "fill" /\ n.phase = "done" /\ n.answer = <<"ok">>
  /\ IsFile(disk[k.at]) /\ disk' = Put(k.at, Absent)

\* Every step of node is one of these four, and leaves the rest of the record alone.
LEMMA ServeDoes ==
  ASSUME Inv, NEW c \in Client, Serve(c)
  PROVE  LET k == call[c]
             n == call'[c]
         IN /\ k.phase # "done" /\ Takes(k, n)
            /\ Quiet(k, n) \/ Opens(k, n) \/ Fills(k, n) \/ Unlinks(k, n)
<1> PICK k \in CallRecord : k = call[c]
  BY InvNodes
<1> PICK n : n = call'[c]
  OBVIOUS
<1>1. call \in [Client -> CallRecord] /\ disk \in [Node -> Entry]
  BY DEF Inv, DiskOK
<1>2. ASSUME k.phase # "done"
      PROVE  k.at \in Node /\ Belongs(k.op, k.phase)
  BY <1>2 DEF Inv, PlaceOK, In, At
<1>3. ASSUME NEW r, NEW d, Step(c, r, d)
      PROVE  n = r /\ disk' = d
  BY <1>1, <1>3, OthersKept
<1>4. \A a \in Reply : LET r == Answers(c, a) IN Takes(k, r) /\ r.phase = "done" /\ r.answer = a
  BY <1>1, AnswersRecord DEF Takes
<1>5. \A ph \in Phase : LET r == Goes(c, ph) IN Takes(k, r) /\ r.phase = ph
  BY <1>1, GoesRecord DEF Takes
<1>6. ASSUME disk' = disk
      PROVE  Mirror(disk') = Mirror(disk)
  BY <1>6
<1>7. CASE Read(c)
  <2> DEFINE a == IF IsFile(disk[At(c)]) THEN <<"content", disk[At(c)]>> ELSE <<"notFound">>
  <2>1. k.phase = "read" /\ Step(c, Answers(c, a), disk)
    BY <1>7 DEF Read, In
  <2>2. k.at \in Node /\ k.op = "readFile"
    BY <1>2, <2>1 DEF Belongs
  <2>3. a \in Reply
    BY <1>1, <2>2, AnswerWords DEF IsFile, Entry, At
  <2> HIDE DEF a
  <2>4. n = Answers(c, a) /\ disk' = disk
    BY <1>3, <2>1
  <2>5. Takes(k, n) /\ n.phase = "done"
    BY <1>4, <2>3, <2>4
  <2> QED BY <1>6, <2>1, <2>2, <2>4, <2>5 DEF Quiet
<1>8. CASE Access(c)
  <2> DEFINE a == <<"exists", disk[At(c)] # Absent>>
  <2>1. k.phase = "access" /\ Step(c, Answers(c, a), disk)
    BY <1>8 DEF Access, In
  <2>2. k.op = "exists"
    BY <1>2, <2>1 DEF Belongs
  <2>3. a \in Reply
    BY AnswerWords
  <2> HIDE DEF a
  <2>4. n = Answers(c, a) /\ disk' = disk
    BY <1>3, <2>1
  <2>5. Takes(k, n) /\ n.phase = "done"
    BY <1>4, <2>3, <2>4
  <2> QED BY <1>6, <2>1, <2>2, <2>4, <2>5 DEF Quiet
<1>9. ASSUME Step(c, Answers(c, <<"raw">>), disk), k.phase # "done", k.phase # "fill"
      PROVE  Takes(k, n) /\ Quiet(k, n)
  <2>1. n = Answers(c, <<"raw">>) /\ disk' = disk
    BY <1>3, <1>9
  <2>2. Takes(k, n) /\ n.phase = "done" /\ n.answer = <<"raw">>
    BY <1>4, <2>1, AnswerWords
  <2> QED BY <1>6, <1>9, <2>1, <2>2 DEF Quiet
<1>10. CASE MakeDirectories(c)
  <2> DEFINE dirs == Ancestors(At(c)) \cup (IF In(c, "mkdir") THEN {At(c)} ELSE {})
             r == IF In(c, "mkdir") THEN Answers(c, <<"ok">>) ELSE Goes(c, "open")
  <2>1. k.phase \in {"parents", "mkdir"}
    BY <1>10 DEF MakeDirectories
  <2>2. k.at \in Node /\ k.op = IF k.phase = "mkdir" THEN "createDirectory" ELSE "writeFile"
    BY <1>2, <2>1 DEF Belongs
  <2>3. CASE Step(c, Answers(c, <<"raw">>), disk)
    BY <1>9, <2>1, <2>3
  <2>4. CASE /\ \A p \in dirs : ~IsFile(disk[p])
             /\ Step(c, r, Made(dirs))
    <3>1. dirs \in SUBSET Node /\ \A p \in dirs : Ancestors(p) \subseteq dirs
      BY <2>2, NodeAncestors DEF At
    <3>2. /\ Made(dirs) \in [Node -> Entry]
          /\ \A p \in Node : IsFile(disk[p]) \/ IsFile(Made(dirs)[p]) => Made(dirs)[p] = disk[p]
      BY <2>4, <3>1, MadeKeeps
    <3>3. "open" \in Phase
      BY DEF Phase
    <3>4. /\ Takes(k, r)
          /\ k.phase = "mkdir" => r.phase = "done" /\ r.answer = <<"ok">>
          /\ k.phase # "mkdir" => r.phase = "open"
      BY <1>4, <1>5, <3>3, AnswerWords DEF In
    <3> HIDE DEF r, dirs
    <3>5. n = r /\ disk' = Made(dirs)
      BY <1>3, <2>4
    <3>6. Mirror(disk') = Mirror(disk)
      BY <3>2, <3>5 DEF Mirror, FilesOf
    <3> QED BY <2>1, <2>2, <3>4, <3>5, <3>6 DEF Quiet
  <2> QED BY <1>10, <2>3, <2>4 DEF MakeDirectories
<1>11. CASE OpenFile(c)
  <2>1. k.phase = "open" /\ k.at \in Node /\ k.op = "writeFile"
    BY <1>2, <1>11 DEF OpenFile, In, Belongs
  <2>2. CASE Step(c, Answers(c, <<"raw">>), disk)
    BY <1>9, <2>1, <2>2
  <2>3. CASE Step(c, [Goes(c, "fill") EXCEPT !.linked = TRUE], Put(At(c), Truncated(disk[At(c)])))
    <3>1. "fill" \in Phase
      BY DEF Phase
    <3>2. PICK g \in CallRecord : g = Goes(c, "fill") /\ Takes(k, g) /\ g.phase = "fill"
      BY <1>1, <1>5, <3>1, GoesRecord
    <3>3. n = [g EXCEPT !.linked = TRUE] /\ disk' = Put(k.at, <<>>)
      BY <1>3, <2>3, <3>2 DEF Truncated, At
    <3>4. Takes(k, n) /\ n.phase = "fill"
      BY <3>2, <3>3 DEF Takes, CallRecord
    <3> QED BY <2>1, <3>3, <3>4 DEF Opens
  <2> QED BY <1>11, <2>2, <2>3 DEF OpenFile
<1>12. CASE Fill(c)
  <2>1. k.phase = "fill" /\ k.op = "writeFile"
    BY <1>2, <1>12 DEF Fill, In, Belongs
  <2>2. Step(c, Answers(c, <<"ok">>),
             IF k.linked THEN Put(k.at, Overlaid(disk[k.at], k.content)) ELSE disk)
    BY <1>12 DEF Fill, At
  <2>3. n = Answers(c, <<"ok">>) /\ (k.linked => disk' = Put(k.at, Overlaid(disk[k.at], k.content)))
    BY <1>3, <2>2
  <2>4. Takes(k, n) /\ n.phase = "done" /\ n.answer = <<"ok">>
    BY <1>4, <2>3, AnswerWords
  <2> QED BY <2>1, <2>3, <2>4 DEF Fills
<1>13. CASE Stat(c)
  <2>1. k.phase = "stat" /\ k.op = "deleteFile"
    BY <1>2, <1>13 DEF Stat, In, Belongs
  <2>2. "unlink" \in Phase
    BY DEF Phase
  <2>3. PICK r : /\ Step(c, r, disk)
                 /\ r = Answers(c, <<"notFound">>) \/ r = Answers(c, <<"unsafe">>) \/ r = Goes(c, "unlink")
    BY <1>13 DEF Stat
  <2>4. n = r /\ disk' = disk
    BY <1>3, <2>3
  <2>5. Takes(k, n) /\ (n.phase = "unlink" \/ (n.phase = "done" /\ n.answer \in {<<"notFound">>, <<"unsafe">>}))
    BY <1>4, <1>5, <2>2, <2>3, <2>4, AnswerWords
  <2> QED BY <1>6, <2>1, <2>4, <2>5 DEF Quiet
<1>14. CASE Unlink(c)
  <2>1. k.phase = "unlink" /\ k.at \in Node /\ k.op = "deleteFile"
    BY <1>2, <1>14 DEF Unlink, In, Belongs
  <2>2. CASE Step(c, Answers(c, <<"raw">>), disk)
    BY <1>9, <2>1, <2>2
  <2>3. CASE IsFile(disk[At(c)])
    <3>1. disk' = Put(k.at, Absent) /\ n = Answers(c, <<"ok">>)
      BY <1>14, <2>1, <2>3, UnlinkKeeps DEF Inv, At
    <3>2. Takes(k, n) /\ n.phase = "done" /\ n.answer = <<"ok">>
      BY <1>4, <3>1, AnswerWords
    <3> QED BY <2>1, <2>3, <3>1, <3>2 DEF Unlinks, At
  <2> QED BY <1>14, <2>2, <2>3 DEF Unlink
<1>15. CASE ReadDir(c)
  <2>1. k.phase = "readdir" /\ k.op = "listFiles"
    BY <1>2, <1>15 DEF ReadDir, In, Belongs
  <2>2. CASE Step(c, Answers(c, <<"unsafe">>), disk)
    <3>1. n = Answers(c, <<"unsafe">>) /\ disk' = disk
      BY <1>3, <2>2
    <3>2. Takes(k, n) /\ n.phase = "done" /\ n.answer = <<"unsafe">>
      BY <1>4, <3>1, AnswerWords
    <3> QED BY <1>6, <2>1, <3>1, <3>2 DEF Quiet
  <2>3. CASE Step(c, Answers(c, <<"raw">>), disk)
    BY <1>9, <2>1, <2>3
  <2>4. ASSUME NEW found, NEW rest, Step(c, [Answers(c, <<"ok">>) EXCEPT !.found = found, !.todo = rest], disk)
        PROVE  Takes(k, n) /\ Quiet(k, n)
    <3>1. PICK r \in CallRecord : r = Answers(c, <<"ok">>) /\ Takes(k, r) /\ r.phase = "done" /\ r.answer = <<"ok">>
      BY <1>1, <1>4, AnswersRecord, AnswerWords
    <3>2. n = [r EXCEPT !.found = found, !.todo = rest] /\ disk' = disk
      BY <1>3, <2>4, <3>1
    <3>3. Takes(k, n) /\ n.phase = "done" /\ n.answer = <<"ok">>
      BY <3>1, <3>2 DEF Takes, CallRecord
    <3> QED BY <1>6, <2>1, <3>2, <3>3 DEF Quiet
  <2>5. ASSUME NEW found, NEW rest, Step(c, [k EXCEPT !.found = found, !.todo = rest], disk)
        PROVE  Takes(k, n) /\ Quiet(k, n)
    <3>1. n = [k EXCEPT !.found = found, !.todo = rest] /\ disk' = disk
      BY <1>3, <2>5
    <3>2. Takes(k, n) /\ n.phase = k.phase
      BY <3>1 DEF Takes, CallRecord
    <3> QED BY <1>6, <2>1, <3>1, <3>2 DEF Quiet
  <2>6. \/ Step(c, Answers(c, <<"unsafe">>), disk)
        \/ Step(c, Answers(c, <<"raw">>), disk)
        \/ \E found, rest :
             \/ Step(c, [Answers(c, <<"ok">>) EXCEPT !.found = found, !.todo = rest], disk)
             \/ Step(c, [k EXCEPT !.found = found, !.todo = rest], disk)
    BY <1>15 DEF ReadDir
  <2> QED BY <2>1, <2>2, <2>3, <2>4, <2>5, <2>6
<1>16. k.phase # "done"
  BY DEF Serve, Read, Access, MakeDirectories, OpenFile, Fill, Stat, Unlink, ReadDir, In
<1> QED BY <1>7, <1>8, <1>10, <1>11, <1>12, <1>13, <1>14, <1>15, <1>16 DEF Serve

\* The call of a safe path begins a call under way that nothing has disturbed, and the answer
\* that another client got before has been looked at.
LEMMA CallBegins ==
  ASSUME Inv, NEW c \in Client, NEW op \in Operation, NEW path, NEW content, IsSafe(path), Call(c, op, path, content)
  PROVE  LET n == call'[c]
         IN /\ n.op = op /\ n.phase \notin {"done", "fill"} /\ ~n.disturbed /\ disk' = disk
            /\ op = "listFiles" => n.always = Files /\ n.ever = Files
            /\ \A e \in Client \ {c} : Kept(e)
<1> DEFINE files == IF op = "listFiles" THEN Files ELSE {}
           todo == IF op = "listFiles" THEN <<path>> ELSE <<>>
<1>1. PICK r : /\ r = [op |-> op, content |-> content, linked |-> FALSE, found |-> {},
                       at |-> AssertSafe(path), phase |-> FirstPhase(op), todo |-> todo,
                       answer |-> <<>>, disturbed |-> FALSE, always |-> files, ever |-> files]
               /\ Step(c, r, disk)
  BY DEF Call
<1>2. call'[c] = r /\ disk' = disk /\ \A e \in Client \ {c} : Kept(e)
  BY <1>1, InvNodes, OthersKept
<1>3. FirstPhase(op) \notin {"done", "fill"}
  BY DEF FirstPhase, Operation
<1>4. r.op = op /\ r.phase = FirstPhase(op) /\ r.disturbed = FALSE /\ r.always = files /\ r.ever = files
  BY <1>1
<1> QED BY <1>2, <1>3, <1>4

\* The in-memory adapter answers as the local one told, and holds the same files then.
LEMMA RepeatAlike ==
  ASSUME Inv, Inv', NEW c \in Client, Lists(c)', TwinOK(c), Serve(c), In(c, "done")', Repeat(call'[c]), ~parted'
  PROVE  TwinOK(c)'
<1> PICK k \in CallRecord : k = call[c]
  BY InvNodes
<1> PICK n \in CallRecord : n = call'[c]
  BY DEF Inv, DiskOK
<1>1. k.phase # "done" /\ Takes(k, n) /\ (Quiet(k, n) \/ Opens(k, n) \/ Fills(k, n) \/ Unlinks(k, n))
  BY ServeDoes
<1>2. n.phase = "done" /\ n.answer \notin {<<"raw">>, <<"unsafe">>} /\ ~parted
  BY DEF In, Repeat
<1>3. PICK at : at = k.at /\ at = n.at /\ at \in Node
  BY <1>1 DEF Inv, PlaceOK, In, At, Takes
<1>4. /\ n.op = k.op /\ n.op \in Operation /\ n.content = k.content /\ ~n.disturbed /\ ~k.disturbed
      /\ n.op = "listFiles" => n.always = Files /\ n.ever = Files
  BY <1>1 DEF Takes, TwinOK, Inv, PlaceOK, In, Belongs, Operation
<1>5. disk \in [Node -> Entry] /\ disk' \in [Node -> Entry]
  BY DEF Inv, DiskOK
<1>6. TellsOf(n, disk')
  BY DEF Inv, Tells
<1>7. directories \subseteq Node /\ \A p \in directories : disk[p] = Dir
  BY DEF TwinOK
<1>8. \A p \in directories : disk'[p] = Dir
  BY <1>7, ServeChanges
<1>9. Files = FilesOf(disk) /\ Files' = FilesOf(disk')
  BY DEF Files, FilesOf
<1>10. \A d \in [Node -> Entry] : DOMAIN Mirror(d) = FilesOf(d) /\ \A p \in FilesOf(d) : Mirror(d)[p] = d[p]
  BY DEF Mirror
<1>11. CASE Quiet(k, n)
  <2>1. memory = Mirror(disk) /\ Mirror(disk') = Mirror(disk)
    BY <1>11 DEF Quiet, TwinOK
  <2>2. FilesOf(disk') = FilesOf(disk)
    BY <1>5, <1>10, <2>1
  <2>3. at \in DOMAIN memory <=> IsFile(disk'[at])
    BY <1>3, <1>5, <1>10, <2>1 DEF FilesOf
  <2>4. at \in DOMAIN memory => memory[at] = disk'[at]
    BY <1>5, <1>10, <2>1
  <2>5. n.op \in {"readFile", "exists", "listFiles", "createDirectory", "deleteFile"}
    BY <1>2, <1>4, <1>11 DEF Quiet
  <2>6. n.op = "listFiles" => n.always = Files' /\ n.ever = Files'
    BY <1>4, <1>9, <2>2
  <2>7. memory' = memory
    <3>1. CASE n.op = "deleteFile"
      <4>1. n.answer = <<"notFound">>
        BY <1>2, <1>4, <1>11, <3>1 DEF Quiet
      <4>2. ~IsFile(disk'[at])
        BY <1>2, <1>3, <1>4, <1>6, <3>1, <4>1 DEF TellsOf, IsFile
      <4>3. DOMAIN memory \ {at} = DOMAIN memory
        BY <2>3, <4>2
      <4>4. memory' = [q \in DOMAIN memory |-> memory[q]]
        BY <1>3, <3>1, <4>3 DEF Repeat, Without
      <4> QED BY <2>1, <4>4 DEF Mirror
    <3>2. CASE n.op # "deleteFile"
      BY <2>5, <3>2 DEF Repeat
    <3> QED BY <3>1, <3>2
  <2>8. directories' \subseteq Node /\ \A p \in directories' : disk'[p] = Dir
    <3>1. CASE n.op = "createDirectory"
      <4>1. n.answer = <<"ok">>
        BY <1>2, <1>4, <1>11, <3>1 DEF Quiet
      <4>2. disk'[at] = Dir
        BY <1>2, <1>3, <1>4, <1>6, <3>1, <4>1 DEF TellsOf
      <4>3. directories' = directories \cup {at}
        BY <1>3, <3>1 DEF Repeat
      <4> QED BY <1>3, <1>7, <1>8, <4>2, <4>3
    <3>2. CASE n.op # "createDirectory"
      BY <1>7, <1>8, <3>2 DEF Repeat
    <3> QED BY <3>1, <3>2
  <2>9. AnswersAlike(n)'
    <3>1. twin' = TwinAnswer(n)
      BY DEF Repeat
    <3>2. CASE n.op = "readFile"
      <4>1. n.answer = IF IsFile(disk'[at]) THEN <<"content", disk'[at]>> ELSE <<"notFound">>
        BY <1>2, <1>3, <1>4, <1>6, <3>2 DEF TellsOf
      <4>2. twin' = IF at \in DOMAIN memory THEN <<"content", memory[at]>> ELSE <<"notFound">>
        BY <1>3, <3>1, <3>2 DEF TwinAnswer, HasFile
      <4> QED BY <2>3, <2>4, <3>2, <4>1, <4>2 DEF AnswersAlike
    <3>3. CASE n.op = "exists"
      <4>1. n.answer = <<"exists", disk'[at] # Absent>>
        BY <1>2, <1>3, <1>4, <1>6, <3>3 DEF TellsOf
      <4>2. twin' = <<"exists", at \in DOMAIN memory \/ at \in directories>>
        BY <1>3, <3>1, <3>3 DEF TwinAnswer, HasFile
      <4>3. CASE disk'[at] = Dir
        BY <1>3, <3>3, <4>3 DEF AnswersAlike
      <4>4. CASE disk'[at] # Dir
        <5>1. at \notin directories
          BY <1>8, <4>4
        <5>2. (at \in DOMAIN memory \/ at \in directories) = (disk'[at] # Absent)
          BY <2>3, <4>4, <5>1 DEF IsFile
        <5> QED BY <3>3, <4>1, <4>2, <5>2 DEF AnswersAlike
      <4> QED BY <4>3, <4>4
    <3>4. CASE n.op = "listFiles"
      <4>1. n.answer = <<"ok">>
        BY <1>2, <1>4, <1>11, <3>4 DEF Quiet
      <4>2. n.found = {p \in Files' : IsPrefix(at, p) /\ p # at}
        BY <1>3, <2>6, <3>4, <4>1 DEF Lists
      <4>3. twin' = <<"files", {q \in DOMAIN memory : q # at /\ IsPrefix(at, q)}>>
        BY <1>3, <3>1, <3>4 DEF TwinAnswer
      <4>4. DOMAIN memory = Files'
        BY <1>5, <1>9, <1>10, <2>1, <2>2
      <4>5. {q \in DOMAIN memory : q # at /\ IsPrefix(at, q)} = n.found
        BY <4>2, <4>4
      <4> QED BY <3>4, <4>3, <4>5 DEF AnswersAlike
    <3>5. CASE n.op = "createDirectory"
      <4>1. n.answer = <<"ok">>
        BY <1>2, <1>4, <1>11, <3>5 DEF Quiet
      <4> QED BY <3>1, <3>5, <4>1 DEF TwinAnswer, AnswersAlike
    <3>6. CASE n.op = "deleteFile"
      <4>1. n.answer = <<"notFound">>
        BY <1>2, <1>4, <1>11, <3>6 DEF Quiet
      <4>2. ~IsFile(disk'[at])
        BY <1>2, <1>3, <1>4, <1>6, <3>6, <4>1 DEF TellsOf, IsFile
      <4>3. twin' = <<"notFound">>
        BY <1>3, <2>3, <3>1, <3>6, <4>2 DEF TwinAnswer, HasFile
      <4> QED BY <3>6, <4>1, <4>3 DEF AnswersAlike
    <3> QED BY <2>5, <3>2, <3>3, <3>4, <3>5, <3>6
  <2> QED BY <1>2, <1>4, <2>1, <2>6, <2>7, <2>8, <2>9 DEF TwinOK
<1>12. CASE Fills(k, n)
  <2>1. k.linked /\ disk[at] = <<>> /\ n.answer = <<"ok">> /\ n.op = "writeFile" /\ k.phase = "fill"
    BY <1>3, <1>4, <1>12 DEF Inv, SteadyOK, In, At, Fills
  <2>2. disk' = Put(at, n.content)
    <3>1. k.content \in Seq(Chunk)
      BY DEF CallRecord
    <3>2. Overlaid(<<>>, k.content) = k.content
      BY <3>1, EmptySeq, OverlaidContent
    <3> QED BY <1>3, <1>4, <1>12, <2>1, <3>2 DEF Fills
  <2>3. IsFile(n.content)
    BY FilesAssumption DEF IsFile, CallRecord
  <2>4. Mirror(disk) = [p \in DOMAIN memory \cup {at} |-> IF p = at THEN <<>> ELSE memory[p]]
    BY <1>3, <2>1 DEF TwinOK
  <2>5. memory' = [q \in DOMAIN memory \cup {at} |-> IF q = at THEN n.content ELSE memory[q]]
    BY <1>3, <2>1 DEF Repeat
  <2>6. FilesOf(disk') = DOMAIN memory \cup {at} /\ \A p \in Node \ {at} : disk'[p] = disk[p]
    <3>1. FilesOf(disk) = DOMAIN memory \cup {at}
      BY <1>5, <1>10, <2>4
    <3>2. disk'[at] = n.content /\ \A p \in Node \ {at} : disk'[p] = disk[p]
      BY <1>3, <1>5, <2>2 DEF Put
    <3>3. FilesOf(disk') = FilesOf(disk)
      BY <1>3, <2>3, <3>1, <3>2 DEF FilesOf
    <3> QED BY <3>1, <3>2, <3>3
  <2>7. memory' = Mirror(disk')
    <3>1. ASSUME NEW p \in FilesOf(disk')
          PROVE  disk'[p] = IF p = at THEN n.content ELSE memory[p]
      <4>1. disk'[at] = n.content
        BY <1>3, <1>5, <2>2 DEF Put
      <4>2. p # at => Mirror(disk)[p] = memory[p] /\ p \in FilesOf(disk) /\ p \in Node
        BY <1>5, <1>10, <2>4, <2>6 DEF FilesOf
      <4> QED BY <1>5, <1>10, <2>6, <4>1, <4>2
    <3> QED BY <2>5, <2>6, <3>1 DEF Mirror
  <2>8. directories' = directories
    BY <2>1 DEF Repeat
  <2>9. AnswersAlike(n)'
    BY <2>1 DEF Repeat, TwinAnswer, AnswersAlike
  <2> QED BY <1>2, <1>4, <1>7, <1>8, <2>1, <2>7, <2>8, <2>9 DEF TwinOK
<1>13. CASE Unlinks(k, n)
  <2>1. n.op = "deleteFile" /\ n.answer = <<"ok">> /\ IsFile(disk[at]) /\ disk' = Put(at, Absent) /\ k.phase # "fill"
    BY <1>3, <1>4, <1>13 DEF Unlinks
  <2>2. memory = Mirror(disk)
    BY <2>1 DEF TwinOK
  <2>3. at \in DOMAIN memory
    BY <1>3, <1>5, <1>10, <2>1, <2>2 DEF FilesOf
  <2>4. memory' = [q \in DOMAIN memory \ {at} |-> memory[q]]
    BY <1>3, <2>1 DEF Repeat, Without
  <2>5. disk'[at] = Absent /\ \A p \in Node \ {at} : disk'[p] = disk[p]
    BY <1>3, <1>5, <2>1 DEF Put
  <2>6. FilesOf(disk') = FilesOf(disk) \ {at}
    BY <1>3, <2>5 DEF FilesOf, IsFile
  <2>7. memory' = Mirror(disk')
    <3>1. \A p \in FilesOf(disk') : p \in FilesOf(disk) /\ disk'[p] = memory[p]
      BY <1>5, <1>10, <2>2, <2>5, <2>6 DEF FilesOf
    <3>2. DOMAIN memory \ {at} = FilesOf(disk')
      BY <1>5, <1>10, <2>2, <2>6
    <3> QED BY <2>4, <3>1, <3>2 DEF Mirror
  <2>8. directories' = directories
    BY <2>1 DEF Repeat
  <2>9. AnswersAlike(n)'
    BY <1>3, <2>1, <2>3 DEF Repeat, TwinAnswer, HasFile, AnswersAlike
  <2> QED BY <1>2, <1>4, <1>7, <1>8, <2>1, <2>7, <2>8, <2>9 DEF TwinOK
<1>14. ~Opens(k, n)
  BY <1>2 DEF Opens
<1> QED BY <1>1, <1>11, <1>12, <1>13, <1>14

\* What a step of node on the way to the answer leaves of it.
LEMMA OnTheWay ==
  ASSUME Inv, Inv', NEW c \in Client, TwinOK(c), Serve(c), ~In(c, "done")', UNCHANGED twinVars
  PROVE  TwinOK(c)'
<1> PICK k \in CallRecord : k = call[c]
  BY InvNodes
<1> PICK n \in CallRecord : n = call'[c]
  BY DEF Inv, DiskOK
<1>1. k.phase # "done" /\ Takes(k, n) /\ (Quiet(k, n) \/ Opens(k, n) \/ Fills(k, n) \/ Unlinks(k, n))
  BY ServeDoes
<1>2. n.phase # "done" /\ memory' = memory /\ directories' = directories
  BY DEF In, twinVars
<1>3. PICK at : at = k.at /\ at = n.at /\ at \in Node
  BY <1>1 DEF Inv, PlaceOK, In, At, Takes
<1>4. /\ n.op = k.op /\ ~n.disturbed
      /\ n.op = "listFiles" => n.always = Files /\ n.ever = Files
  BY <1>1 DEF Takes, TwinOK, Inv, PlaceOK, In, Belongs
<1>5. disk \in [Node -> Entry] /\ disk' \in [Node -> Entry]
  BY DEF Inv, DiskOK
<1>6. directories' \subseteq Node /\ \A p \in directories' : disk'[p] = Dir
  BY <1>2, ServeChanges DEF TwinOK
<1>7. Files = FilesOf(disk) /\ Files' = FilesOf(disk')
  BY DEF Files, FilesOf
<1>8. \A d \in [Node -> Entry] : DOMAIN Mirror(d) = FilesOf(d) /\ \A p \in FilesOf(d) : Mirror(d)[p] = d[p]
  BY DEF Mirror
<1>9. CASE Quiet(k, n)
  <2>1. memory' = Mirror(disk') /\ Mirror(disk') = Mirror(disk) /\ n.phase # "fill"
    BY <1>2, <1>9 DEF Quiet, TwinOK
  <2>2. n.op = "listFiles" => n.always = Files' /\ n.ever = Files'
    BY <1>4, <1>5, <1>7, <1>8, <2>1
  <2> QED BY <1>2, <1>4, <1>6, <2>1, <2>2 DEF TwinOK
<1>10. CASE Opens(k, n)
  <2>1. n.op = "writeFile" /\ n.phase = "fill" /\ k.phase # "fill" /\ disk' = Put(at, <<>>)
    BY <1>3, <1>4, <1>10 DEF Opens
  <2>2. memory = Mirror(disk) /\ memory' = memory
    BY <1>2, <2>1 DEF TwinOK
  <2>3. disk'[at] = <<>> /\ \A p \in Node \ {at} : disk'[p] = disk[p]
    BY <1>3, <1>5, <2>1 DEF Put
  <2>4. IsFile(<<>>)
    BY FilesAssumption, EmptySeq DEF IsFile
  <2>5. FilesOf(disk') = FilesOf(disk) \cup {at}
    BY <1>3, <2>3, <2>4 DEF FilesOf
  <2>6. \A p \in FilesOf(disk') : disk'[p] = IF p = at THEN <<>> ELSE memory[p]
    BY <1>5, <1>8, <2>2, <2>3, <2>5 DEF FilesOf
  <2>7. FilesOf(disk') = DOMAIN memory' \cup {at}
    BY <1>5, <1>8, <2>2, <2>5
  <2>8. Mirror(disk') = [p \in DOMAIN memory' \cup {at} |-> IF p = at THEN <<>> ELSE memory'[p]]
    BY <2>2, <2>6, <2>7 DEF Mirror
  <2> QED BY <1>2, <1>3, <1>4, <1>6, <2>1, <2>8 DEF TwinOK
<1> QED BY <1>1, <1>2, <1>9, <1>10 DEF Fills, Unlinks

\* A step of both adapters, the second of which moves only when the first answers.
LEMMA TwinStep ==
  ASSUME RootsApart, PlainPaths, Inv, Inv', Listings, Listings', TwinInv, [TwinNext]_<<filesVars, twinVars>>
  PROVE  TwinInv'
<1>1. CASE UNCHANGED <<filesVars, twinVars>>
  <2>1. disk' = disk /\ call' = call /\ memory' = memory /\ directories' = directories /\ twin' = twin /\ parted' = parted
    BY <1>1 DEF filesVars, twinVars
  <2>2. Files' = Files /\ Mirror(disk') = Mirror(disk)
    BY <2>1 DEF Files
  <2>3. ASSUME NEW c \in Client, HasTurn(c)'
        PROVE  HasTurn(c)
    BY <2>1, <2>3 DEF HasTurn, In
  <2>4. ASSUME NEW c \in Client, TwinOK(c)
        PROVE  TwinOK(c)'
    <3>1. AnswersAlike(call[c]) => AnswersAlike(call[c])'
      BY <2>1 DEF AnswersAlike
    <3> QED BY <2>1, <2>2, <2>4, <3>1 DEF TwinOK
  <2> QED BY <2>1, <2>3, <2>4 DEF TwinInv
<1>2. CASE TwinNext
  <2>1. PICK c \in Client : /\ HasTurn(c)
                            /\ (\E path \in Candidate : Invoke(c, path)) \/ Serve(c)
                            /\ (Answered(c) /\ Repeat(call'[c])) \/ (~Answered(c) /\ UNCHANGED twinVars)
    BY <1>2 DEF TwinNext
  <2>2. parted => parted'
    BY <2>1 DEF Repeat, twinVars
  <2>3. CASE ~parted /\ ~parted'
    <3>1. TwinOK(c)
      BY <2>1, <2>3 DEF TwinInv
    <3>2. ASSUME Serve(c)
          PROVE  TwinOK(c)' /\ \A e \in Client \ {c} : Kept(e)
      <4>1. ~In(c, "done")
        BY <3>2, ServeDoes DEF In
      <4>2. TwinOK(c)'
        <5>1. CASE In(c, "done")'
          <6>1. Repeat(call'[c])
            BY <2>1, <4>1, <5>1 DEF Answered, In
          <6>2. Lists(c)'
            BY DEF Listings
          <6> QED BY <2>3, <3>1, <3>2, <5>1, <6>1, <6>2, RepeatAlike
        <5>2. CASE ~In(c, "done")'
          <6>1. UNCHANGED twinVars
            BY <2>1, <5>2 DEF Answered, In
          <6> QED BY <3>1, <3>2, <5>2, <6>1, OnTheWay
        <5> QED BY <5>1, <5>2
      <4>3. \A e \in Client \ {c} : Kept(e)
        <5>1. ListingOK(c)
          BY DEF Listings
        <5> QED BY <3>2, <5>1, ServeOthers, ReadDirListing
      <4> QED BY <4>2, <4>3
    <3>3. ASSUME \E path \in Candidate : Invoke(c, path)
          PROVE  TwinOK(c)' /\ \A e \in Client \ {c} : Kept(e)
      <4>1. PICK path \in Candidate, op \in Operation, content \in Content \cup {<<>>} : Call(c, op, path, content)
        BY <3>3 DEF Invoke, Operation
      <4>2. IsSafe(path)
        BY DEF PlainPaths
      <4>3. In(c, "done") /\ UNCHANGED twinVars
        BY <2>1, <4>1 DEF Call, Answered
      <4>4. PICK n : n = call'[c]
        OBVIOUS
      <4>5. /\ n.op = op /\ n.phase \notin {"done", "fill"} /\ ~n.disturbed /\ disk' = disk
            /\ op = "listFiles" => n.always = Files /\ n.ever = Files
            /\ \A e \in Client \ {c} : Kept(e)
        BY <4>1, <4>2, <4>4, CallBegins
      <4>6. Files' = Files
        BY <4>5 DEF Files
      <4>7. memory' = memory /\ directories' = directories /\ memory = Mirror(disk)
        BY <3>1, <4>3 DEF twinVars, TwinOK, In
      <4>8. directories \subseteq Node /\ \A p \in directories : disk[p] = Dir
        BY <3>1 DEF TwinOK
      <4>9. TwinOK(c)'
        BY <4>4, <4>5, <4>6, <4>7, <4>8 DEF TwinOK
      <4> QED BY <4>5, <4>9
    <3>4. TwinOK(c)' /\ \A e \in Client \ {c} : call'[e] = NoCall
      BY <2>1, <3>2, <3>3 DEF Kept, HasTurn
    <3>5. ASSUME NEW e \in Client \ {c}, HasTurn(e)'
          PROVE  TwinOK(e)'
      <4>1. call'[c].phase = "done"
        BY <3>5 DEF HasTurn, In
      <4>2. memory' = Mirror(disk') /\ directories' \subseteq Node /\ \A p \in directories' : disk'[p] = Dir
        BY <3>4, <4>1 DEF TwinOK
      <4>3. call'[e] = NoCall /\ NoCall.op = "none" /\ NoCall.phase = "done"
        BY <3>4 DEF NoCall
      <4> QED BY <4>2, <4>3 DEF TwinOK, AnswersAlike
    <3> QED BY <3>4, <3>5 DEF TwinInv
  <2> QED BY <2>2, <2>3 DEF TwinInv
<1> QED BY <1>1, <1>2

\* InMemoryFileSystemAdapter, in the place of the local one: to clients that take turns
\* and name paths in their plain form they answer alike and hold the same files, through any
\* sequence of calls, until the local one meets a failure the other does not know.
THEOREM TwinsTheorem ==
  ASSUME RootsApart, PlainPaths
  PROVE  TwinSpec => []TwinsAgree
<1>1. TwinInit => Inv /\ Listings /\ TwinInv
  <2> SUFFICES ASSUME TwinInit PROVE Inv /\ Listings /\ TwinInv
    OBVIOUS
  <2>1. FilesInit
    BY DEF TwinInit
  <2>2. Listings
    BY <2>1 DEF FilesInit, Listings, ListingOK, Lists, In, NoCall
  <2>3. ASSUME NEW c \in Client
        PROVE  TwinOK(c)
    <3>1. call[c] = NoCall
      BY <2>1 DEF FilesInit
    <3>2. NoCall.op = "none" /\ NoCall.phase = "done"
      BY DEF NoCall
    <3>3. memory = Mirror(disk) /\ directories = {}
      BY DEF TwinInit, Mirror, FilesOf, Files
    <3> QED BY <3>1, <3>2, <3>3 DEF TwinOK, AnswersAlike
  <2> QED BY <2>1, <2>2, <2>3, InitInv DEF TwinInv
<1>2. [TwinNext]_<<filesVars, twinVars>> => [FilesNext]_filesVars
  BY DEF TwinNext, FilesNext
<1>3. Inv /\ Listings /\ [TwinNext]_<<filesVars, twinVars>> => Inv' /\ Listings'
  BY <1>2, NextInv, NextListings
<1>4. Inv /\ Inv' /\ Listings /\ Listings' /\ TwinInv /\ [TwinNext]_<<filesVars, twinVars>> => TwinInv'
  BY TwinStep
<1>5. TwinInv => TwinsAgree
  <2> SUFFICES ASSUME TwinInv, ~parted, \A e \in Client : In(e, "done"), NEW c \in Client
               PROVE  memory = [p \in Files |-> disk[p]] /\ AnswersAlike(call[c])
    BY DEF TwinsAgree, AnswersAlike
  <2>1. TwinOK(c) /\ call[c].phase = "done"
    BY DEF TwinInv, HasTurn, In
  <2> QED BY <2>1 DEF TwinOK, Mirror, FilesOf, Files
<1> QED BY <1>1, <1>3, <1>4, <1>5, PTL DEF TwinSpec

=============================================================================
