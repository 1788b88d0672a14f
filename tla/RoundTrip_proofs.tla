-------------------------- MODULE RoundTrip_proofs --------------------------
(***************************************************************************)
(* What updates and extractions promise, for every archive, every file     *)
(* system they meet and every source.                                      *)
(*                                                                         *)
(* The first part is about the lists UpdatePlan works on: the preview of   *)
(* the graphical shell and the library agree on which updates conflict.    *)
(* Then comes the invariant of an extraction, EInv, with the facts about   *)
(* paths, trees and sequences that its steps need: it ties the staging     *)
(* file to its target, keeps links out of the way until the archive's own  *)
(* are made, and says of each file whose it is.  What the updates do to    *)
(* the list of entries follows, with what the phases of an update know of  *)
(* one another, ReviewSane.  Then comes what a faultless extraction into   *)
(* an empty destination does to an archive `test` has nothing against,     *)
(* CleanInv, and last what any extraction has done with the entries it has *)
(* passed, RestInv.  The theorems are next to what they rest on.           *)
(***************************************************************************)
EXTENDS RoundTrip, NumberSets, SequenceTheorems

Kinds == {"file", "dir", "symlink", "hardlink"}

\* What a scan finds and what a listing says, of these lists nothing else is used.
Listed(list, kinds) ==
  /\ DOMAIN list \in SUBSET Nat /\ IsFiniteSet(DOMAIN list)
  /\ \A i \in DOMAIN list : list[i].kind \in kinds

OnePerPath(list) == \A i, j \in DOMAIN list : list[i].path = list[j].path => i = j

----------------------------------------------------------------------------

\* Where a path is listed once, the first entry of it is the entry.
LEMMA OnlyIsFirst ==
  ASSUME NEW list, DOMAIN list \in SUBSET Nat, OnePerPath(list), NEW i \in DOMAIN list
  PROVE  FirstAt(list, list[i].path) = list[i]
<1>1. {j \in DOMAIN list : list[j].path = list[i].path} = {i}
  BY DEF OnePerPath
<1>2. Min({i}) = i
  BY DEF Min
<1> QED BY <1>1, <1>2 DEF FirstAt, FirstIndex

\* A path counted more than once is one two items share.
LEMMA CountedOnce ==
  ASSUME NEW list, IsFiniteSet(DOMAIN list)
  PROVE  OnePerPath(list) <=>
           \A p \in PathsOf(list) :
             ~(Cardinality({i \in DOMAIN list : list[i].path = p}) > 1)
<1> DEFINE At(p) == {i \in DOMAIN list : list[i].path = p}
<1>1. ASSUME OnePerPath(list), NEW p \in PathsOf(list)
      PROVE  ~(Cardinality(At(p)) > 1)
  <2>1. PICK i \in DOMAIN list : p = list[i].path
    BY <1>1 DEF PathsOf
  <2>2. At(p) = {i}
    BY <1>1, <2>1 DEF OnePerPath
  <2>3. Cardinality(At(p)) = 1
    BY <2>2, FS_Singleton
  <2> HIDE DEF At
  <2> QED BY <2>3
<1>2. ASSUME NEW i \in DOMAIN list, NEW j \in DOMAIN list,
             list[i].path = list[j].path, i # j
      PROVE  list[i].path \in PathsOf(list) /\ Cardinality(At(list[i].path)) > 1
  <2>1. IsFiniteSet(At(list[i].path)) /\ {i, j} \in SUBSET At(list[i].path)
    BY <1>2, FS_Subset
  <2>2. Cardinality(At(list[i].path)) \in Nat
    BY <2>1, FS_CardinalityType
  <2>3. Cardinality(At(list[i].path)) # 0
    BY <2>1, FS_EmptySet
  <2>4. Cardinality(At(list[i].path)) # 1
    <3> SUFFICES ASSUME Cardinality(At(list[i].path)) = 1 PROVE FALSE
      OBVIOUS
    <3>1. PICK x : At(list[i].path) = {x}
      BY <2>1, FS_Singleton
    <3> QED BY <1>2, <2>1, <3>1
  <2> QED BY <2>2, <2>3, <2>4 DEF PathsOf
<1> HIDE DEF At
<1>3. OnePerPath(list) <=> \A p \in PathsOf(list) : ~(Cardinality(At(p)) > 1)
  BY <1>1, <1>2 DEF OnePerPath
<1> QED BY <1>3 DEF At

\* The two notions of a change of kind are one for kinds a scan finds.
LEMMA ClassesAgree ==
  ASSUME NEW stored \in Kinds, NEW incoming \in Kinds \ {"hardlink"}
  PROVE  EntryClass(stored) = EntryClass(incoming) <=> SameClass(stored, incoming)
  BY DEF Kinds, EntryClass, SameClass, FileLike

----------------------------------------------------------------------------

\* build_archive_update_plan reports a conflict exactly when
\* validate_mapped_items throws: the two were written apart, over different
\* indexes, and must refuse the same updates.  It takes an archive that lists
\* no path twice: at a path listed twice the library looks at the first entry
\* and the preview, for what is above and beneath it, at each.
THEOREM PreviewFindsConflicts ==
  ASSUME NEW found, Listed(found, Kinds \ {"hardlink"}),
         NEW entries, Listed(entries, Kinds), OnePerPath(entries)
  PROVE  Conflicts(found, entries) = {} <=> MappedValid(found, entries)
<1> DEFINE Twice(p) == Cardinality({i \in DOMAIN found : found[i].path = p}) > 1
           Changes(p) == /\ p \in PathsOf(entries)
                         /\ EntryClass(FirstAt(entries, p).kind)
                              # EntryClass(FirstAt(found, p).kind)
           Above(p) == /\ FirstAt(found, p).kind # "dir"
                       /\ \E q \in PathsOf(found) : Below(q, p)
           Beneath(p) == \E i \in DOMAIN entries :
                           entries[i].kind # "dir" /\ Below(p, entries[i].path)
           Covers(p) == /\ FirstAt(found, p).kind # "dir"
                        /\ \E i \in DOMAIN entries : Below(entries[i].path, p)
<1>1. Conflicts(found, entries) = {} <=>
        \A p \in PathsOf(found) :
          ~Twice(p) /\ ~Changes(p) /\ ~Above(p) /\ ~Beneath(p) /\ ~Covers(p)
  BY DEF Conflicts
<1>2. OnePerPath(found) <=> \A p \in PathsOf(found) : ~Twice(p)
  BY CountedOnce DEF Listed
<1>3. MappedValid(found, entries) => OnePerPath(found)
  BY DEF MappedValid, IncomingValid, OnePerPath
<1>4. ASSUME OnePerPath(found)
      PROVE  MappedValid(found, entries) <=>
               \A p \in PathsOf(found) :
                 ~Changes(p) /\ ~Above(p) /\ ~Beneath(p) /\ ~Covers(p)
  <2>1. \A i \in DOMAIN found : FirstAt(found, found[i].path) = found[i]
    BY <1>4, OnlyIsFirst DEF Listed
  <2>2. \A i \in DOMAIN entries : FirstAt(entries, entries[i].path) = entries[i]
    BY OnlyIsFirst DEF Listed
  <2>3. (\A p \in PathsOf(found) : ~BeneathNonDirectory(found, p))
          <=> \A p \in PathsOf(found) : ~Above(p)
    BY DEF BeneathNonDirectory
  <2>4. ASSUME NEW i \in DOMAIN found
        PROVE  /\ found[i].path \in PathsOf(entries)
                    => SameClass(FirstAt(entries, found[i].path).kind, found[i].kind)
               /\ ~BeneathNonDirectory(entries, found[i].path)
               /\ found[i].kind # "dir"
                    => \A q \in PathsOf(entries) : ~Below(q, found[i].path)
               <=> /\ ~Changes(found[i].path)
                   /\ ~Beneath(found[i].path)
                   /\ ~Covers(found[i].path)
    <3>1. (found[i].path \in PathsOf(entries)
             => SameClass(FirstAt(entries, found[i].path).kind, found[i].kind))
          <=> ~Changes(found[i].path)
      <4> SUFFICES ASSUME found[i].path \in PathsOf(entries)
                   PROVE  SameClass(FirstAt(entries, found[i].path).kind, found[i].kind)
                            <=> ~Changes(found[i].path)
        OBVIOUS
      <4>1. PICK j \in DOMAIN entries : found[i].path = entries[j].path
        BY DEF PathsOf
      <4>2. FirstAt(entries, found[i].path) = entries[j]
        BY <2>2, <4>1
      <4> QED BY <2>1, <2>4, <4>2, ClassesAgree DEF Listed
    <3>2. BeneathNonDirectory(entries, found[i].path) <=> Beneath(found[i].path)
      BY <2>2 DEF BeneathNonDirectory, PathsOf
    <3>3. (found[i].kind # "dir" => \A q \in PathsOf(entries) : ~Below(q, found[i].path))
            <=> ~Covers(found[i].path)
      BY <2>1, <2>4 DEF PathsOf
    <3> QED BY <3>1, <3>2, <3>3
  <2> HIDE DEF Changes, Above, Beneath, Covers
  <2>5. MappedValid(found, entries) <=>
          /\ \A p \in PathsOf(found) : ~Above(p)
          /\ \A i \in DOMAIN found : /\ ~Changes(found[i].path)
                                     /\ ~Beneath(found[i].path)
                                     /\ ~Covers(found[i].path)
    BY <1>4, <2>3, <2>4 DEF MappedValid, IncomingValid, OnePerPath
  <2> QED BY <2>5 DEF PathsOf
<1> HIDE DEF Twice, Changes, Above, Beneath, Covers
<1> QED BY <1>1, <1>2, <1>3, <1>4

----------------------------------------------------------------------------
(* The elements of a list at some of its places.                           *)

\* The places come in their order, each once.
LEMMA NthIs ==
  ASSUME NEW I, I \subseteq Nat, IsFiniteSet(I)
  PROVE  /\ Cardinality(I) \in Nat
         /\ \A k \in 1..Cardinality(I) : Nth(I, k) \in I
         /\ \A i \in I : \E k \in 1..Cardinality(I) : Nth(I, k) = i
         /\ \A j, k \in 1..Cardinality(I) : j < k <=> Nth(I, j) < Nth(I, k)
<1> DEFINE n == Cardinality(I)
           UpTo(i) == {j \in I : j <= i}
           R == [i \in I |-> Cardinality(UpTo(i))]
<1>1. n \in Nat /\ IsFiniteSet(1..n) /\ Cardinality(1..n) = n
  <2>1. n \in Nat
    BY FS_CardinalityType
  <2> HIDE DEF n
  <2> QED BY <2>1, FS_Interval
<1>2. \A i \in I : IsFiniteSet(UpTo(i)) /\ Cardinality(UpTo(i)) \in 1..n
  <2> SUFFICES ASSUME NEW i \in I
               PROVE IsFiniteSet(UpTo(i)) /\ Cardinality(UpTo(i)) \in 1..n
    OBVIOUS
  <2>1. UpTo(i) \in SUBSET I /\ i \in UpTo(i)
    OBVIOUS
  <2>2. IsFiniteSet(UpTo(i)) /\ Cardinality(UpTo(i)) <= n
    BY <2>1, FS_Subset
  <2>3. Cardinality(UpTo(i)) \in Nat /\ Cardinality(UpTo(i)) # 0
    <3> HIDE DEF UpTo
    <3> QED BY <2>1, <2>2, FS_CardinalityType, FS_EmptySet
  <2> QED BY <1>1, <2>2, <2>3
<1>3. \A i, j \in I : i < j => R[i] < R[j]
  <2> SUFFICES ASSUME NEW i \in I, NEW j \in I, i < j PROVE R[i] < R[j]
    OBVIOUS
  <2>1. UpTo(i) \in SUBSET UpTo(j) /\ UpTo(i) # UpTo(j)
    <3>1. j \in UpTo(j) /\ j \notin UpTo(i)
      OBVIOUS
    <3>2. \A x \in I : x <= i => x <= j
      BY i \in Nat, j \in Nat
    <3> QED BY <3>1, <3>2
  <2> HIDE DEF UpTo
  <2>2. Cardinality(UpTo(i)) <= Cardinality(UpTo(j)) /\ Cardinality(UpTo(i)) # Cardinality(UpTo(j))
    BY <1>2, <2>1, FS_Subset
  <2> QED BY <1>1, <1>2, <2>2
<1>4. R \in [I -> 1..n]
  BY <1>2
<1> HIDE DEF R, UpTo
<1>5. \A i, j \in I : R[i] = R[j] => i = j
  <2> SUFFICES ASSUME NEW i \in I, NEW j \in I, R[i] = R[j], i # j PROVE FALSE
    OBVIOUS
  <2>1. i < j \/ j < i
    OBVIOUS
  <2>2. R[i] \in 1..n /\ R[j] \in 1..n
    BY <1>4
  <2> QED BY <1>1, <1>3, <2>1, <2>2
<1>6. R \in Injection(I, 1..n)
  BY <1>4, <1>5 DEF Injection, IsInjective
<1>7. R \in Surjection(I, 1..n)
  <2> HIDE DEF n
  <2>1. Cardinality(I) = Cardinality(1..n)
    BY <1>1 DEF n
  <2> QED BY <1>1, <1>6, <2>1, FS_Injection
<1>8. \A k \in 1..n : \E i \in I : R[i] = k
  BY <1>7 DEF Surjection
<1>9. \A k : Nth(I, k) = CHOOSE i \in I : R[i] = k
  BY DEF Nth, R, UpTo
<1>10. \A k \in 1..n : Nth(I, k) \in I /\ R[Nth(I, k)] = k
  BY <1>8, <1>9
<1>11. \A i \in I : Nth(I, R[i]) = i
  BY <1>4, <1>5, <1>10
<1>12. \A j, k \in 1..n : j < k <=> Nth(I, j) < Nth(I, k)
  <2> SUFFICES ASSUME NEW j \in 1..n, NEW k \in 1..n PROVE j < k <=> Nth(I, j) < Nth(I, k)
    OBVIOUS
  <2> DEFINE a == Nth(I, j)
             b == Nth(I, k)
  <2>1. a \in I /\ b \in I /\ R[a] = j /\ R[b] = k
    BY <1>10
  <2> HIDE DEF a, b
  <2>2. a \in Nat /\ b \in Nat
    BY <2>1
  <2>3. a < b \/ a = b \/ b < a
    BY <2>2
  <2>4. j < k <=> a < b
    BY <1>1, <1>3, <2>1, <2>2, <2>3
  <2> QED BY <2>4 DEF a, b
<1> QED BY <1>1, <1>4, <1>10, <1>11, <1>12

\* The k-th element picked is the one at the k-th place.
LEMMA PickedIs ==
  ASSUME NEW list, NEW I, I \subseteq Nat, IsFiniteSet(I)
  PROVE  /\ Cardinality(I) \in Nat
         /\ DOMAIN Picked(list, I) = 1..Cardinality(I)
         /\ \A k \in 1..Cardinality(I) : Nth(I, k) \in I /\ Picked(list, I)[k] = list[Nth(I, k)]
         /\ \A i \in I : \E k \in 1..Cardinality(I) : Picked(list, I)[k] = list[i] /\ Nth(I, k) = i
         /\ \A j, k \in 1..Cardinality(I) : j < k <=> Nth(I, j) < Nth(I, k)
<1>1. /\ Cardinality(I) \in Nat
      /\ \A k \in 1..Cardinality(I) : Nth(I, k) \in I
      /\ \A i \in I : \E k \in 1..Cardinality(I) : Nth(I, k) = i
      /\ \A j, k \in 1..Cardinality(I) : j < k <=> Nth(I, j) < Nth(I, k)
  BY NthIs
<1> QED BY <1>1 DEF Picked

\* What is picked is a sequence of some of the elements.
LEMMA PickedSequence ==
  ASSUME NEW list, NEW I, I \subseteq Nat, IsFiniteSet(I),
         NEW S, \A i \in I : list[i] \in S
  PROVE  Picked(list, I) \in Seq(S) /\ Len(Picked(list, I)) = Cardinality(I)
<1>1. /\ Cardinality(I) \in Nat
      /\ \A k \in 1..Cardinality(I) : Nth(I, k) \in I
  BY NthIs
<1>2. Picked(list, I) \in [1..Cardinality(I) -> S]
  BY <1>1 DEF Picked
<1> QED BY <1>1, <1>2

\* Whatever is picked is one of the elements.
LEMMA PickedHas ==
  ASSUME NEW list, NEW I, I \subseteq Nat, IsFiniteSet(I)
  PROVE  /\ Cardinality(I) \in Nat /\ DOMAIN Picked(list, I) = 1..Cardinality(I)
         /\ \A k \in 1..Cardinality(I) : \E i \in I : Picked(list, I)[k] = list[i]
<1>1. /\ Cardinality(I) \in Nat
      /\ \A k \in 1..Cardinality(I) : Nth(I, k) \in I
  BY NthIs
<1> QED BY <1>1 DEF Picked

\* The tree: paths to directories, links and files of which the inode exists; those of
\* the destination's own path are directories.
IsNode(node, n) ==
  \/ node \in [kind : {"dir"}, restored : BOOLEAN]
  \/ node.kind = "link" /\ node.to \in Path
  \/ node.kind = "file" /\ node = File(node.inode) /\ node.inode \in 1..n

IsTree(t, n) ==
  /\ \A p \in DOMAIN t : p \in Path /\ IsNode(t[p], n)
  /\ \A p \in Prefixes(Root) : KindAt(t, p) = "dir"
  /\ \A p \in DOMAIN t : t[p].kind = "dir" /\ ~IsPrefix(Root, p) => t[p] = Dir

TreeSane ==
  /\ IsTree(tree, Len(data))
  /\ IsSequence(data) /\ Len(before.data) <= Len(data)
  /\ copied.inodes \subseteq 1..Len(data)

InputsSane == IsArchive(archive) /\ IsFileSystem(before) /\ options.policy \in Policies

\* Where the extraction is, and the lists it works from.
Reading == {"write", "place"}

ControlSane ==
  /\ pc \in {"idle", "start", "entry", "write", "place", "placed", "dirs", "throw",
             "done", "failed", "killed"}
  /\ pc \in {"idle", "start"} =>
       /\ tree = before.tree /\ data = before.data
       /\ todo = <<>> /\ links = <<>> /\ dirs = <<>>
       /\ staged = 0 /\ written = {} /\ warned = {}
       /\ copied = [paths |-> {}, inodes |-> {}]
  /\ pc \in {"write", "place", "placed"} => todo # <<>>
  /\ pc \in {"dirs", "done"} => todo = <<>>
  /\ pc \in Reading => staged # 0
  /\ pc \notin Reading \cup {"throw", "killed"} => staged = 0
  /\ pc = "place" => data[staged] = Body.content

QueuesSane ==
  /\ todo \in Seq(Chosen) /\ dirs \in Seq(Chosen)
  /\ links \in Seq({i \in Chosen : archive[i].kind = "symlink"})
  /\ written \subseteq Chosen
  /\ \A i \in written : archive[i].kind = "file"
  /\ pc \notin {"idle", "start", "failed"} => Chosen \cap Dangling(archive) = {}
  /\ todo # <<>> => Chosen \cap Dangling(archive) = {}

\* What is staged is a new file, at one path, beside a target that no link leads to.
StagedSane ==
  /\ staged = 0 \/ staged \in (Len(before.data) + 1)..Len(data)
  /\ staged # 0 =>
       /\ todo # <<>> /\ IsBody
       /\ ~ThroughLink(tree, Target)
       /\ KindAt(tree, Front(Target)) = "dir"
       /\ StagingPath(Target) \in DOMAIN tree
       /\ tree[StagingPath(Target)] = File(staged)
       /\ staged \notin copied.inodes
       /\ \A p \in DOMAIN tree : tree[p] = File(staged) => p = StagingPath(Target)
       /\ options.policy # "all" => ~(Target \in DOMAIN tree)
  /\ \A p \in DOMAIN tree :
       p # <<>> /\ Last(p) = StagingName => staged # 0 /\ p = StagingPath(Target)

\* Until the links of the archive are made, every link is one that was there.
LinksSane ==
  todo # <<>> =>
    \A p \in DOMAIN tree :
      tree[p].kind = "link" => p \in DOMAIN before.tree /\ before.tree[p] = tree[p]

\* A file of the destination is the user's or whole, unless a copy wrote to it.
Delivered(p) ==
  \E i \in Chosen : /\ Root \o archive[i].path = p
                   /\ archive[i].kind \in {"file", "hardlink"}
                   /\ HoldsFile(p, ContentsOf(i))

WholeFile(p) == (p \in DOMAIN before.tree /\ before.tree[p] = tree[p]) \/ Delivered(p)

FilesSane ==
  \A p \in DOMAIN tree :
    (/\ tree[p].kind = "file" /\ Below(p, Root) /\ Last(p) # StagingName
     /\ tree[p].inode \notin copied.inodes)
    => WholeFile(p)

\* Where this run has written a file there is no file of the user.
WrittenSane ==
  todo # <<>> =>
    \A i \in written :
      LET p == Root \o archive[i].path
      IN  KindAt(tree, p) = "file" =>
            tree[p].inode > Len(before.data) \/ tree[p].inode \in copied.inodes

InodesUntouched ==
  \A inode \in DOMAIN before.data :
    inode \in copied.inodes \/ data[inode] = before.data[inode]

OutsideUntouched ==
  \A p \in DOMAIN tree \cup DOMAIN before.tree :
    \/ p = <<>> \/ IsPrefix(Root, p) \/ p \in copied.paths
    \/ p \in DOMAIN tree \cap DOMAIN before.tree /\ tree[p] = before.tree[p]

PolicyKept ==
  options.policy # "all" =>
    \A p \in DOMAIN before.tree :
      before.tree[p].kind # "dir" => p \in DOMAIN tree /\ tree[p] = before.tree[p]

NodesInv ==
  /\ TreeSane /\ LinksSane /\ FilesSane /\ WrittenSane
  /\ InodesUntouched /\ OutsideUntouched /\ PolicyKept

EInv == InputsSane /\ ControlSane /\ QueuesSane /\ StagedSane /\ NodesInv

----------------------------------------------------------------------------
(* Paths.                                                                  *)

\* The first n elements of a sequence.
LEMMA FirstNames ==
  ASSUME NEW S, NEW s, NEW n \in Nat, \A i \in 1..n : s[i] \in S
  PROVE  /\ SubSeq(s, 1, n) \in Seq(S) /\ Len(SubSeq(s, 1, n)) = n
         /\ \A i \in 1..n : SubSeq(s, 1, n)[i] = s[i]
<1>1. 1 \in Int /\ n \in Int
  OBVIOUS
<1>2. /\ SubSeq(s, 1, n) \in Seq(S)
      /\ Len(SubSeq(s, 1, n)) = IF 1 <= n THEN n - 1 + 1 ELSE 0
      /\ \A i \in 1..(n - 1 + 1) : SubSeq(s, 1, n)[i] = s[1 + i - 1]
  BY <1>1, SubSeqProperties
<1>3. \A i \in 1..n : i \in 1..(n - 1 + 1) /\ 1 + i - 1 = i
  OBVIOUS
<1>4. \A i \in 1..n : SubSeq(s, 1, n)[i] = s[i]
  BY <1>2, <1>3
<1> QED BY <1>2, <1>4

\* A path is its directory and its name.
LEMMA PathParts ==
  ASSUME NEW p \in Path, p # <<>>
  PROVE  /\ Len(p) \in Nat \ {0} /\ Front(p) \in Path /\ Len(Front(p)) = Len(p) - 1
         /\ Last(p) \in Range(p) /\ Last(p) \in STRING
         /\ \A k \in 1..(Len(p) - 1) : Front(p)[k] = p[k]
<1>1. Len(p) \in Nat \ {0} /\ \A k \in 1..Len(p) : p[k] \in STRING
  BY EmptySeq, LenProperties, ElementOfSeq DEF Path
<1>2. /\ SubSeq(p, 1, Len(p) - 1) \in Seq(STRING)
      /\ Len(SubSeq(p, 1, Len(p) - 1)) = Len(p) - 1
      /\ \A k \in 1..(Len(p) - 1) : SubSeq(p, 1, Len(p) - 1)[k] = p[k]
  <2>1. \A k \in 1..(Len(p) - 1) : p[k] \in STRING
    BY <1>1
  <2> DEFINE n == Len(p) - 1
  <2>2. n \in Nat
    BY <1>1
  <2> HIDE DEF n
  <2>3. /\ SubSeq(p, 1, n) \in Seq(STRING) /\ Len(SubSeq(p, 1, n)) = n
        /\ \A i \in 1..n : SubSeq(p, 1, n)[i] = p[i]
    <3>1. \A k \in 1..n : p[k] \in STRING
      BY <2>1 DEF n
    <3> QED BY <2>2, <3>1, FirstNames
  <2> QED BY <2>3 DEF n
<1>3. Last(p) \in Range(p) /\ Last(p) \in STRING
  BY <1>1, LenProperties DEF Last, Range, Path
<1> QED BY <1>1, <1>2, <1>3 DEF Front, Path

\* A path is known by its directory and its name.
LEMMA SamePath ==
  ASSUME NEW p \in Path, NEW q \in Path, p # <<>>, q # <<>>,
         Front(p) = Front(q), Last(p) = Last(q)
  PROVE  p = q
<1>1. Len(p) \in Nat \ {0} /\ Len(q) \in Nat \ {0} /\ Len(p) = Len(q)
  BY PathParts
<1>2. \A k \in 1..Len(p) : p[k] = q[k]
  <2>1. \A k \in 1..(Len(p) - 1) : p[k] = q[k]
    BY <1>1, PathParts
  <2>2. p[Len(p)] = q[Len(p)]
    BY <1>1 DEF Last
  <2> QED BY <1>1, <2>1, <2>2
<1> QED BY <1>1, <1>2, SeqEqual DEF Path

\* The first names of a path.
LEMMA Initial ==
  ASSUME NEW p \in Path, NEW k \in 0..Len(p)
  PROVE  /\ SubSeq(p, 1, k) \in Path /\ Len(SubSeq(p, 1, k)) = k
         /\ \A i \in 1..k : SubSeq(p, 1, k)[i] = p[i]
         /\ SubSeq(p, 1, k) \in Prefixes(p)
         /\ IsPrefix(SubSeq(p, 1, k), p)
<1>1. Len(p) \in Nat /\ \A i \in 1..Len(p) : p[i] \in STRING
  BY LenProperties, ElementOfSeq DEF Path
<1>2. \A i \in 1..k : p[i] \in STRING
  BY <1>1
<1>3. /\ SubSeq(p, 1, k) \in Seq(STRING) /\ Len(SubSeq(p, 1, k)) = k
      /\ \A i \in 1..k : SubSeq(p, 1, k)[i] = p[i]
  BY <1>1, <1>2, FirstNames
<1>4. SubSeq(SubSeq(p, 1, k), 1, k) = SubSeq(p, 1, k)
  BY <1>3, SubSeqFull
<1> QED BY <1>1, <1>3, <1>4 DEF Path, Prefixes, IsPrefix

\* A prefix of a path is the path cut off.
LEMMA PrefixIs ==
  ASSUME NEW p \in Path, NEW q \in Path
  PROVE  /\ IsPrefix(q, p) <=> Len(q) <= Len(p) /\ \A i \in 1..Len(q) : q[i] = p[i]
         /\ IsPrefix(q, p) => q = SubSeq(p, 1, Len(q))
         /\ q \in Prefixes(p) <=> IsPrefix(q, p)
<1>1. Len(p) \in Nat /\ Len(q) \in Nat /\ SubSeq(q, 1, Len(q)) = q
  BY LenProperties, SubSeqFull DEF Path
<1>2. ASSUME Len(q) <= Len(p)
      PROVE  q = SubSeq(p, 1, Len(q)) <=> \A i \in 1..Len(q) : q[i] = p[i]
  <2>1. /\ SubSeq(p, 1, Len(q)) \in Path /\ Len(SubSeq(p, 1, Len(q))) = Len(q)
        /\ \A i \in 1..Len(q) : SubSeq(p, 1, Len(q))[i] = p[i]
    BY <1>1, <1>2, Initial
  <2> QED BY <1>1, <2>1, SeqEqual DEF Path
<1>3. IsPrefix(q, p) <=> Len(q) <= Len(p) /\ q = SubSeq(p, 1, Len(q))
  BY <1>1 DEF IsPrefix
<1>4. ASSUME q \in Prefixes(p) PROVE IsPrefix(q, p)
  <2>1. PICK k \in 0..Len(p) : q = SubSeq(p, 1, k)
    BY <1>4 DEF Prefixes
  <2> QED BY <2>1, Initial
<1>5. ASSUME IsPrefix(q, p) PROVE q \in Prefixes(p)
  <2>1. Len(q) \in 0..Len(p) /\ q = SubSeq(p, 1, Len(q))
    BY <1>1, <1>3, <1>5
  <2> QED BY <2>1, Initial
<1> QED BY <1>2, <1>3, <1>4, <1>5

\* Initial parts of initial parts.
LEMMA InitialOfInitial ==
  ASSUME NEW p \in Path, NEW n \in 0..Len(p), NEW k \in 0..n
  PROVE  SubSeq(SubSeq(p, 1, n), 1, k) = SubSeq(p, 1, k)
<1>1. Len(p) \in Nat /\ k \in 0..Len(p)
  BY LenProperties DEF Path
<1>2. /\ SubSeq(p, 1, n) \in Path /\ Len(SubSeq(p, 1, n)) = n
      /\ \A i \in 1..n : SubSeq(p, 1, n)[i] = p[i]
  BY Initial
<1>3. /\ SubSeq(p, 1, k) \in Path /\ Len(SubSeq(p, 1, k)) = k
      /\ \A i \in 1..k : SubSeq(p, 1, k)[i] = p[i]
  BY <1>1, Initial
<1>4. /\ SubSeq(SubSeq(p, 1, n), 1, k) \in Path /\ Len(SubSeq(SubSeq(p, 1, n), 1, k)) = k
      /\ \A i \in 1..k : SubSeq(SubSeq(p, 1, n), 1, k)[i] = SubSeq(p, 1, n)[i]
  BY <1>2, Initial
<1>5. \A i \in 1..k : SubSeq(SubSeq(p, 1, n), 1, k)[i] = SubSeq(p, 1, k)[i]
  BY <1>2, <1>3, <1>4
<1> QED BY <1>3, <1>4, <1>5, SeqEqual DEF Path

\* An initial part that is one name longer.
LEMMA InitialGrows ==
  ASSUME NEW p \in Path, NEW k \in 1..Len(p)
  PROVE  /\ SubSeq(p, 1, k) = Append(SubSeq(p, 1, k - 1), p[k])
         /\ SubSeq(p, 1, k) # <<>> /\ Front(SubSeq(p, 1, k)) = SubSeq(p, 1, k - 1)
         /\ Last(SubSeq(p, 1, k)) = p[k] /\ p[k] \in Range(p)
<1>1. Len(p) \in Nat /\ p[k] \in STRING /\ DOMAIN p = 1..Len(p) /\ k - 1 \in 0..Len(p)
  BY LenProperties, ElementOfSeq DEF Path
<1>2. /\ SubSeq(p, 1, k) \in Path /\ Len(SubSeq(p, 1, k)) = k
      /\ \A i \in 1..k : SubSeq(p, 1, k)[i] = p[i]
  BY <1>1, Initial
<1>3. /\ SubSeq(p, 1, k - 1) \in Path /\ Len(SubSeq(p, 1, k - 1)) = k - 1
      /\ \A i \in 1..(k - 1) : SubSeq(p, 1, k - 1)[i] = p[i]
  BY <1>1, Initial
<1>4. /\ Append(SubSeq(p, 1, k - 1), p[k]) \in Path
      /\ Len(Append(SubSeq(p, 1, k - 1), p[k])) = k
      /\ \A i \in 1..(k - 1) : Append(SubSeq(p, 1, k - 1), p[k])[i] = p[i]
      /\ Append(SubSeq(p, 1, k - 1), p[k])[k] = p[k]
  <2>1. k - 1 + 1 = k
    OBVIOUS
  <2> QED BY <1>1, <1>3, <2>1, AppendProperties DEF Path
<1>5. SubSeq(p, 1, k) = Append(SubSeq(p, 1, k - 1), p[k])
  <2>1. \A i \in 1..k : SubSeq(p, 1, k)[i] = Append(SubSeq(p, 1, k - 1), p[k])[i]
    BY <1>2, <1>4
  <2> QED BY <1>2, <1>4, <2>1, SeqEqual DEF Path
<1>6. SubSeq(p, 1, k) # <<>>
  BY <1>2, EmptySeq
<1>7. Front(SubSeq(p, 1, k)) = SubSeq(p, 1, k - 1)
  BY <1>1, <1>2, InitialOfInitial DEF Front
<1> QED BY <1>1, <1>2, <1>5, <1>6, <1>7 DEF Last, Range

\* A name in a directory.
LEMMA Child ==
  ASSUME NEW d \in Path, NEW name \in STRING
  PROVE  /\ Append(d, name) \in Path /\ Append(d, name) # <<>>
         /\ Front(Append(d, name)) = d /\ Last(Append(d, name)) = name
         /\ Len(Append(d, name)) = Len(d) + 1
<1>1. /\ Append(d, name) \in Path /\ Append(d, name) # <<>> /\ Len(d) \in Nat
      /\ Len(Append(d, name)) = Len(d) + 1 /\ Append(d, name)[Len(d) + 1] = name
      /\ \A i \in 1..Len(d) : Append(d, name)[i] = d[i]
  BY AppendProperties, LenProperties DEF Path
<1>2. /\ Front(Append(d, name)) \in Path /\ Len(Front(Append(d, name))) = Len(d)
      /\ \A i \in 1..Len(d) : Front(Append(d, name))[i] = d[i]
  <2> DEFINE s == Append(d, name)
  <2> HIDE DEF s
  <2>1. s \in Path /\ s # <<>> /\ Len(s) - 1 = Len(d)
    <3>1. s \in Path /\ s # <<>> /\ Len(s) = Len(d) + 1 /\ Len(d) \in Nat
      BY <1>1 DEF s
    <3> QED BY <3>1
  <2>2. Front(s) \in Path /\ Len(Front(s)) = Len(d) /\ \A i \in 1..Len(d) : Front(s)[i] = s[i]
    BY <2>1, PathParts
  <2> QED BY <1>1, <2>2 DEF s
<1>3. Front(Append(d, name)) = d
  BY <1>2, SeqEqual DEF Path
<1> QED BY <1>1, <1>3 DEF Last

\* A staging file has a path in the directory of its target.
LEMMA Beside ==
  ASSUME NEW p \in Path, p # <<>>
  PROVE  /\ StagingPath(p) \in Path /\ StagingPath(p) # <<>> /\ Len(StagingPath(p)) = Len(p)
         /\ Front(StagingPath(p)) = Front(p) /\ Last(StagingPath(p)) = StagingName
<1>1. Front(p) \in Path /\ Len(p) \in Nat \ {0} /\ Len(Front(p)) + 1 = Len(p)
  BY PathParts
<1>2. StagingName \in STRING
  BY RootAssumption
<1> QED BY <1>1, <1>2, Child DEF StagingPath

\* The path of an entry in the destination.
LEMMA InDestination ==
  ASSUME NEW x, Named(x)
  PROVE  /\ Root \o x \in Path /\ Root \o x # <<>> /\ Below(Root \o x, Root)
         /\ Len(Root) \in Nat /\ Len(x) \in Nat \ {0} /\ Len(Root \o x) = Len(Root) + Len(x)
         /\ IsPrefix(Root, Front(Root \o x)) /\ Last(Root \o x) = Last(x)
         /\ Last(x) # StagingName
         /\ \A k \in 0..Len(Root) : SubSeq(Root \o x, 1, k) = SubSeq(Root, 1, k)
         /\ \A k \in (Len(Root) + 1)..Len(Root \o x) :
              (Root \o x)[k] \in Range(x) /\ (Root \o x)[k] # StagingName
<1>1. x \in Path /\ x # <<>> /\ Root \in Path /\ Len(Root) \in Nat /\ Len(x) \in Nat \ {0}
  BY RootAssumption, EmptySeq, LenProperties DEF Named, Path
<1> DEFINE t == Root \o x
<1>2. /\ t \in Path /\ Len(t) = Len(Root) + Len(x)
      /\ \A i \in 1..Len(t) : t[i] = IF i <= Len(Root) THEN Root[i] ELSE x[i - Len(Root)]
  BY <1>1, ConcatProperties DEF Path
<1> HIDE DEF t
<1>3. t # <<>>
  BY <1>1, <1>2, EmptySeq
<1>4. IsPrefix(Root, t) /\ Root # t
  BY <1>1, <1>2, PrefixIs
<1>5. Last(t) = Last(x)
  <2>1. t[Len(t)] = x[Len(x)]
    BY <1>1, <1>2
  <2> QED BY <2>1 DEF Last
<1>6. IsPrefix(Root, Front(t))
  <2>0. Len(Root) <= Len(t) - 1 /\ \A k \in 1..Len(Root) : k \in 1..(Len(t) - 1) /\ t[k] = Root[k]
    BY <1>1, <1>2
  <2>1. Front(t) \in Path /\ Len(Front(t)) = Len(t) - 1 /\ \A k \in 1..(Len(t) - 1) : Front(t)[k] = t[k]
    BY <1>2, <1>3, PathParts
  <2> QED BY <1>1, <2>0, <2>1, PrefixIs
<1>7. ASSUME NEW k \in 0..Len(Root) PROVE SubSeq(t, 1, k) = SubSeq(Root, 1, k)
  <2>1. /\ SubSeq(Root, 1, k) \in Path /\ Len(SubSeq(Root, 1, k)) = k
        /\ \A i \in 1..k : SubSeq(Root, 1, k)[i] = Root[i]
    BY <1>1, Initial
  <2>2. /\ SubSeq(t, 1, k) \in Path /\ Len(SubSeq(t, 1, k)) = k
        /\ \A i \in 1..k : SubSeq(t, 1, k)[i] = t[i]
    <3>1. k \in 0..Len(t)
      BY <1>1, <1>2
    <3> QED BY <1>2, <3>1, Initial
  <2>3. \A i \in 1..k : SubSeq(t, 1, k)[i] = SubSeq(Root, 1, k)[i]
    BY <1>1, <1>2, <2>1, <2>2
  <2> QED BY <2>1, <2>2, <2>3, SeqEqual DEF Path
<1>8. ASSUME NEW k \in (Len(Root) + 1)..Len(t)
      PROVE  t[k] \in Range(x) /\ t[k] # StagingName
  <2>1. t[k] = x[k - Len(Root)] /\ k - Len(Root) \in 1..Len(x)
    BY <1>1, <1>2
  <2>2. DOMAIN x = 1..Len(x)
    BY <1>1, LenProperties DEF Path
  <2> QED BY <2>1, <2>2 DEF Range, Named
<1>9. Last(x) # StagingName
  BY <1>1, PathParts DEF Named
<1> QED BY <1>1, <1>2, <1>3, <1>4, <1>5, <1>6, <1>7, <1>8, <1>9 DEF t, Below, IsStrictPrefix

\* Two entries at one path of the destination have one path in the archive.
LEMMA SameInDestination ==
  ASSUME NEW x, NEW y, Named(x), Named(y), Root \o x = Root \o y
  PROVE  x = y
<1>1. x \in Seq(STRING) /\ y \in Seq(STRING) /\ Root \in Seq(STRING)
  BY RootAssumption DEF Named, Path
<1>2. \A S : \A s, t, v \in Seq(S) : s \o t = s \o v => t = v
  BY ConcatSimplifications
<1> QED BY <1>1, <1>2

----------------------------------------------------------------------------
(* The file system.                                                        *)

\* No directory on the way to p is a link.
Clear(t, p) == \A k \in 0..(Len(p) - 1) : KindAt(t, SubSeq(p, 1, k)) # "link"

\* The directories an operation on p passes through.
Parents(t, p) ==
  CHOOSE parent : parent = [k \in 0..(Len(p) - 1) |->
    IF k = 0 THEN <<>> ELSE Follow(t, Append(parent[k - 1], p[k]))]

\* Where a path leads is where its parent leads, and the name.
LEMMA RealByParents ==
  ASSUME NEW t, NEW p
  PROVE  Real(t, p) = Append(Parents(t, p)[Len(p) - 1], Last(p))
  BY DEF Real, Parents

\* Where no link is on the way, a path is where it leads.
LEMMA RealOfClear ==
  ASSUME NEW t, NEW p \in Path, p # <<>>, Clear(t, p)
  PROVE  Real(t, p) = p
<1> DEFINE K == 0..(Len(p) - 1)
           At(g, k) == IF k = 0 THEN <<>> ELSE Follow(t, Append(g[k - 1], p[k]))
           w == [k \in K |-> SubSeq(p, 1, k)]
           g == Parents(t, p)
<1>1. Len(p) \in Nat \ {0}
  BY PathParts
<1>2. \A k \in K : k \in 0..Len(p) /\ (k # 0 => k \in 1..Len(p) /\ k - 1 \in K)
  BY <1>1
<1>3. \A k \in K : k # 0 => Follow(t, Append(SubSeq(p, 1, k - 1), p[k])) = SubSeq(p, 1, k)
  <2> SUFFICES ASSUME NEW k \in K, k # 0
               PROVE  Follow(t, Append(SubSeq(p, 1, k - 1), p[k])) = SubSeq(p, 1, k)
    OBVIOUS
  <2>1. Append(SubSeq(p, 1, k - 1), p[k]) = SubSeq(p, 1, k)
    BY <1>2, InitialGrows
  <2>2. KindAt(t, SubSeq(p, 1, k)) # "link"
    BY DEF Clear
  <2> QED BY <2>1, <2>2 DEF Follow
<1>4. SubSeq(p, 1, 0) = <<>>
  BY SubSeqEmpty
<1>5. \A k \in K : w[k] = At(w, k)
  <2> SUFFICES ASSUME NEW k \in K PROVE SubSeq(p, 1, k) = At(w, k)
    OBVIOUS
  <2>1. CASE k = 0
    BY <1>4, <2>1
  <2>2. CASE k # 0
    <3>1. k - 1 \in K
      BY <1>2, <2>2
    <3>2. w[k - 1] = SubSeq(p, 1, k - 1)
      BY <3>1
    <3> HIDE DEF w, K
    <3> QED BY <1>3, <2>2, <3>2
  <2> QED BY <2>1, <2>2
<1>6. w = [k \in K |-> At(w, k)]
  <2>1. w = [k \in K |-> w[k]]
    OBVIOUS
  <2> HIDE DEF w, At
  <2> QED BY <1>5, <2>1
<1> HIDE DEF w
<1>7. g = [k \in K |-> At(g, k)]
  BY <1>6 DEF Parents
<1> HIDE DEF g
<1>8. \A k \in K : g[k] = SubSeq(p, 1, k)
  <2> DEFINE Wrong == {k \in K : g[k] # SubSeq(p, 1, k)}
  <2> SUFFICES ASSUME Wrong # {} PROVE FALSE
    OBVIOUS
  <2>1. PICK k \in Wrong : \A j \in Wrong : k <= j
    <3>1. Wrong \subseteq Nat
      BY <1>1
    <3> HIDE DEF Wrong
    <3> QED BY <3>1, LeastNumber
  <2>2. k \in K /\ g[k] = At(g, k)
    BY <1>7
  <2>3. CASE k = 0
    BY <1>4, <2>2, <2>3
  <2>4. CASE k # 0
    <3>1. k - 1 \in K /\ k - 1 \notin Wrong
      BY <1>1, <1>2, <2>1, <2>4
    <3>2. g[k - 1] = SubSeq(p, 1, k - 1)
      BY <3>1
    <3> HIDE DEF K
    <3> QED BY <1>3, <2>2, <2>4, <3>2
  <2> QED BY <2>3, <2>4
<1>9. g[Len(p) - 1] = SubSeq(p, 1, Len(p) - 1)
  BY <1>1, <1>8
<1>10. Append(SubSeq(p, 1, Len(p) - 1), p[Len(p)]) = p
  <2>1. SubSeq(p, 1, Len(p)) = p
    BY SubSeqFull DEF Path
  <2> QED BY <1>1, <2>1, InitialGrows
<1> QED BY <1>9, <1>10, RealByParents DEF g, Last

\* The way to an initial part of a path is part of the way.
LEMMA ClearInitial ==
  ASSUME NEW t, NEW p \in Path, Clear(t, p), NEW n \in 1..Len(p)
  PROVE  Clear(t, SubSeq(p, 1, n)) /\ Real(t, SubSeq(p, 1, n)) = SubSeq(p, 1, n)
<1>1. Len(p) \in Nat /\ n \in 0..Len(p)
  BY LenProperties DEF Path
<1>2. SubSeq(p, 1, n) \in Path /\ Len(SubSeq(p, 1, n)) = n
  BY <1>1, Initial
<1>3. Clear(t, SubSeq(p, 1, n))
  <2> SUFFICES ASSUME NEW k \in 0..(n - 1)
               PROVE  KindAt(t, SubSeq(SubSeq(p, 1, n), 1, k)) # "link"
    BY <1>2 DEF Clear
  <2>1. k \in 0..n /\ k \in 0..(Len(p) - 1)
    BY <1>1
  <2>2. SubSeq(SubSeq(p, 1, n), 1, k) = SubSeq(p, 1, k)
    BY <1>1, <2>1, InitialOfInitial
  <2> QED BY <2>1, <2>2 DEF Clear
<1>4. SubSeq(p, 1, n) # <<>>
  BY <1>2, EmptySeq
<1> QED BY <1>2, <1>3, <1>4, RealOfClear

\* The destination is reached without links.
Reached(t) == \A p \in Prefixes(Root) : KindAt(t, p) = "dir"

\* The destination is reached without a link.
LEMMA ReachedInitial ==
  ASSUME NEW t, Reached(t), NEW x, Named(x), NEW k \in 0..Len(Root)
  PROVE  KindAt(t, SubSeq(Root \o x, 1, k)) = "dir"
<1>1. SubSeq(Root \o x, 1, k) = SubSeq(Root, 1, k)
  BY InDestination
<1>2. SubSeq(Root, 1, k) \in Prefixes(Root)
  BY RootAssumption, Initial DEF Named
<1> QED BY <1>1, <1>2 DEF Reached

\* reject_symlinked_ancestor lets pass what is reached without links.
LEMMA NotThroughLink ==
  ASSUME NEW t, Reached(t), NEW x, Named(x)
  PROVE  ~ThroughLink(t, Root \o x) <=> Clear(t, Root \o x)
<1> DEFINE p == Root \o x
<1>1. p \in Path /\ Len(Root) \in Nat /\ Len(p) \in Nat /\ Len(p) > Len(Root)
  BY InDestination
<1>2. \A k \in 0..Len(Root) : KindAt(t, SubSeq(p, 1, k)) = "dir"
  BY ReachedInitial
<1> HIDE DEF p
<1>3. ASSUME Clear(t, p) PROVE ~ThroughLink(t, p)
  <2> SUFFICES ASSUME NEW k \in (Len(Root) + 1)..(Len(p) - 1)
               PROVE  KindAt(t, Real(t, SubSeq(p, 1, k))) # "link"
    BY DEF ThroughLink
  <2>1. k \in 1..Len(p) /\ k \in 0..(Len(p) - 1)
    BY <1>1
  <2>2. Real(t, SubSeq(p, 1, k)) = SubSeq(p, 1, k)
    BY <1>1, <1>3, <2>1, ClearInitial
  <2> QED BY <1>3, <2>1, <2>2 DEF Clear
<1>4. ASSUME ~Clear(t, p) PROVE ThroughLink(t, p)
  <2> DEFINE Wrong == {k \in 0..(Len(p) - 1) : KindAt(t, SubSeq(p, 1, k)) = "link"}
  <2>1. Wrong # {} /\ Wrong \subseteq Nat
    BY <1>1, <1>4 DEF Clear
  <2>2. PICK k \in Wrong : \A j \in Wrong : k <= j
    <3> HIDE DEF Wrong
    <3> QED BY <2>1, LeastNumber
  <2>3. k \in 0..(Len(p) - 1) /\ KindAt(t, SubSeq(p, 1, k)) = "link"
    OBVIOUS
  <2>4. k \in (Len(Root) + 1)..(Len(p) - 1)
    BY <1>1, <1>2, <2>3
  <2>5. SubSeq(p, 1, k) \in Path /\ Len(SubSeq(p, 1, k)) = k /\ SubSeq(p, 1, k) # <<>>
    <3>1. k \in 0..Len(p)
      BY <1>1, <2>3
    <3>2. SubSeq(p, 1, k) \in Path /\ Len(SubSeq(p, 1, k)) = k
      BY <1>1, <3>1, Initial
    <3>3. k # 0
      BY <1>1, <2>4
    <3> QED BY <3>2, <3>3, EmptySeq
  <2>6. Clear(t, SubSeq(p, 1, k))
    <3> SUFFICES ASSUME NEW j \in 0..(k - 1)
                 PROVE  KindAt(t, SubSeq(SubSeq(p, 1, k), 1, j)) # "link"
      BY <2>5 DEF Clear
    <3>1. k \in 0..Len(p) /\ j \in 0..k /\ j \in 0..(Len(p) - 1) /\ j < k
      BY <1>1, <2>3
    <3>2. SubSeq(SubSeq(p, 1, k), 1, j) = SubSeq(p, 1, j)
      BY <1>1, <3>1, InitialOfInitial
    <3>3. j \notin Wrong
      BY <2>2, <2>3, <3>1
    <3> QED BY <3>1, <3>2, <3>3
  <2>7. Real(t, SubSeq(p, 1, k)) = SubSeq(p, 1, k)
    BY <2>5, <2>6, RealOfClear
  <2> QED BY <2>3, <2>4, <2>7 DEF ThroughLink
<1> QED BY <1>3, <1>4 DEF p

\* A node of one tree is the node of the other, but for the time of a directory.
SameAt(t, u, q) ==
  \/ q \notin DOMAIN t /\ q \notin DOMAIN u
  \/ /\ q \in DOMAIN t /\ q \in DOMAIN u
     /\ u[q] = t[q] \/ (t[q].kind = "dir" /\ u[q] = Dir)

SameBut(t, u, S) == \A q : q \notin S => SameAt(t, u, q)

\* What agrees but for S agrees but for more.
LEMMA SameButGrows ==
  ASSUME NEW t, NEW u, NEW S, NEW T, S \subseteq T, SameBut(t, u, S)
  PROVE  SameBut(t, u, T)
  BY DEF SameBut

\* A tree agrees with itself.
LEMMA SameSame ==
  ASSUME NEW t, NEW S
  PROVE  SameBut(t, t, S)
  BY DEF SameBut, SameAt

\* Agreement but for S is transitive.
LEMMA SameTwice ==
  ASSUME NEW t, NEW u, NEW v, NEW S, SameBut(t, u, S), SameBut(u, v, S)
  PROVE  SameBut(t, v, S)
<1> SUFFICES ASSUME NEW q, q \notin S PROVE SameAt(t, v, q)
  BY DEF SameBut
<1>1. SameAt(t, u, q) /\ SameAt(u, v, q)
  BY DEF SameBut
<1>2. Dir.kind = "dir"
  BY DEF Dir
<1> QED BY <1>1, <1>2 DEF SameAt

\* Kinds stay, so links do.
LEMMA SameKind ==
  ASSUME NEW t, NEW u, NEW q, SameAt(t, u, q)
  PROVE  /\ KindAt(u, q) = KindAt(t, q)
         /\ q \in DOMAIN t <=> q \in DOMAIN u
         /\ q \in DOMAIN t /\ t[q].kind # "dir" => u[q] = t[q]
<1>1. Dir.kind = "dir"
  BY DEF Dir
<1> QED BY <1>1 DEF SameAt, KindAt

\* A way is free of links in one tree when it is in the other.
LEMMA SameClear ==
  ASSUME NEW t, NEW u, NEW S, NEW p \in Path, Clear(t, p), SameBut(t, u, S),
         \A q \in S : KindAt(u, q) # "link"
  PROVE  Clear(u, p)
<1> SUFFICES ASSUME NEW k \in 0..(Len(p) - 1) PROVE KindAt(u, SubSeq(p, 1, k)) # "link"
  BY DEF Clear
<1>1. KindAt(t, SubSeq(p, 1, k)) # "link"
  BY DEF Clear
<1>2. CASE SubSeq(p, 1, k) \in S
  BY <1>2
<1>3. CASE SubSeq(p, 1, k) \notin S
  BY <1>1, <1>3, SameKind DEF SameBut
<1> QED BY <1>2, <1>3

----------------------------------------------------------------------------
\* The time of a directory changes.
LEMMA TouchedIs ==
  ASSUME NEW t, NEW d
  PROVE  SameBut(t, Touched(t, d), {}) /\ DOMAIN Touched(t, d) = DOMAIN t
<1>1. CASE KindAt(t, d) = "dir"
  <2>1. d \in DOMAIN t /\ t[d].kind = "dir"
    BY <1>1 DEF KindAt
  <2>2. Touched(t, d) = [t EXCEPT ![d] = Dir]
    BY <1>1 DEF Touched
  <2> QED BY <2>1, <2>2 DEF SameBut, SameAt
<1>2. CASE KindAt(t, d) # "dir"
  BY <1>2, SameSame DEF Touched
<1> QED BY <1>1, <1>2

\* A node is put at a path no link leads away from.
LEMMA WithIs ==
  ASSUME NEW t, NEW p \in Path, p # <<>>, Clear(t, p), NEW node
  PROVE  /\ DOMAIN With(t, p, node) = DOMAIN t \cup {p}
         /\ With(t, p, node)[p] = node
         /\ SameBut(t, With(t, p, node), {p})
<1> DEFINE u == Touched(t, Front(p))
<1>1. SameBut(t, u, {}) /\ DOMAIN u = DOMAIN t
  BY TouchedIs
<1>2. With(t, p, node) = Setting(u, p, node)
  BY RealOfClear DEF With
<1> HIDE DEF u
<1> QED BY <1>1, <1>2 DEF Setting, SameBut, SameAt

\* A node is taken from a path no link leads away from.
LEMMA WithoutIs ==
  ASSUME NEW t, NEW p \in Path, p # <<>>, Clear(t, p)
  PROVE  /\ DOMAIN Without(t, p) = DOMAIN t \ {p}
         /\ SameBut(t, Without(t, p), {p})
<1> DEFINE u == Touched(t, Front(p))
<1>1. SameBut(t, u, {}) /\ DOMAIN u = DOMAIN t
  BY TouchedIs
<1>2. Without(t, p) = Restrict(u, DOMAIN t \ {p})
  BY RealOfClear DEF Without
<1> HIDE DEF u
<1> QED BY <1>1, <1>2 DEF Restrict, SameBut, SameAt

\* The removal of what is in the way takes at most that.
LEMMA RemovalsAre ==
  ASSUME NEW t, NEW p \in Path, p # <<>>, Clear(t, p), NEW u \in Removals(t, p)
  PROVE  /\ SameBut(t, u, {p})
         /\ u = t \/ p \notin DOMAIN u
         /\ p \notin DOMAIN t => u = t
<1>1. Real(t, p) = p
  BY RealOfClear
<1>2. u = t \/ (u = Without(t, p) /\ p \in DOMAIN t)
  BY <1>1 DEF Removals, Exists
<1>3. CASE u = t
  BY <1>3, SameSame
<1>4. CASE u = Without(t, p)
  <2>1. DOMAIN u = DOMAIN t \ {p} /\ SameBut(t, u, {p})
    BY <1>4, WithoutIs
  <2> QED BY <1>2, <2>1
<1> QED BY <1>2, <1>3, <1>4

----------------------------------------------------------------------------
(* create_directories.                                                     *)

Making(u, q) == IF Exists(u, q) \/ ~Writable(u, q) THEN u ELSE With(u, q, Dir)

MakingSteps(t, p, n, made) ==
  made = [k \in Len(Root)..n |->
            IF k = Len(Root) THEN t ELSE Making(made[k - 1], SubSeq(p, 1, k))]

MadeBy(t, p) == CHOOSE made : MakingSteps(t, p, Len(p), made)

\* create_directories makes one directory after the other.
LEMMA DirectoriesByMaking ==
  ASSUME NEW t, NEW p
  PROVE  WithDirectories(t, p) = MadeBy(t, p)[Len(p)]
  BY DEF WithDirectories, MadeBy, MakingSteps, Making

\* The steps can be taken, for all of a path.
LEMMA MakingDefined ==
  ASSUME NEW t, NEW p, NEW n \in Nat, Len(Root) <= n
  PROVE  \E made : MakingSteps(t, p, n, made)
<1> DEFINE Wrong == {m \in Nat : Len(Root) <= m /\ ~ \E made : MakingSteps(t, p, m, made)}
<1> SUFFICES ASSUME Wrong # {} PROVE FALSE
  OBVIOUS
<1>0. Len(Root) \in Nat
  BY RootAssumption, LenProperties DEF Named, Path
<1>1. PICK m \in Wrong : \A j \in Wrong : m <= j
  <2>1. Wrong \subseteq Nat
    OBVIOUS
  <2> HIDE DEF Wrong
  <2> QED BY <2>1, LeastNumber
<1>2. m \in Nat /\ Len(Root) <= m /\ ~ \E made : MakingSteps(t, p, m, made)
  OBVIOUS
<1>3. CASE m = Len(Root)
  <2> DEFINE F == [k \in Len(Root)..m |-> t]
  <2>1. MakingSteps(t, p, m, F)
    BY <1>0, <1>3 DEF MakingSteps
  <2> QED BY <1>2, <2>1
<1>4. CASE m # Len(Root)
  <2>1. m - 1 \in Nat /\ Len(Root) <= m - 1 /\ m - 1 \notin Wrong
    BY <1>0, <1>1, <1>2, <1>4
  <2>2. PICK F : MakingSteps(t, p, m - 1, F)
    BY <2>1
  <2> DEFINE G == [k \in Len(Root)..m |->
                     IF k = Len(Root) THEN t ELSE Making(F[k - 1], SubSeq(p, 1, k))]
  <2>3. \A k \in Len(Root)..(m - 1) : G[k] = F[k]
    <3>1. \A k \in Len(Root)..(m - 1) :
            F[k] = IF k = Len(Root) THEN t ELSE Making(F[k - 1], SubSeq(p, 1, k))
      BY <2>2 DEF MakingSteps
    <3>2. \A k \in Len(Root)..(m - 1) : k \in Len(Root)..m
      BY <1>0, <1>2
    <3> QED BY <3>1, <3>2
  <2>4. \A k \in Len(Root)..m :
          G[k] = IF k = Len(Root) THEN t ELSE Making(G[k - 1], SubSeq(p, 1, k))
    <3> SUFFICES ASSUME NEW k \in Len(Root)..m, k # Len(Root)
                 PROVE  Making(F[k - 1], SubSeq(p, 1, k)) = Making(G[k - 1], SubSeq(p, 1, k))
      OBVIOUS
    <3>1. k - 1 \in Len(Root)..(m - 1)
      BY <1>0, <1>2
    <3> HIDE DEF G
    <3> QED BY <2>3, <3>1
  <2>5. MakingSteps(t, p, m, G)
    <3>1. G = [k \in Len(Root)..m |-> G[k]]
      OBVIOUS
    <3> HIDE DEF G
    <3> QED BY <2>4, <3>1 DEF MakingSteps
  <2> QED BY <1>2, <2>5
<1> QED BY <1>3, <1>4

\* Each directory is made in the tree the last one left.
LEMMA MadeByIs ==
  ASSUME NEW t, NEW p \in Path, Len(Root) <= Len(p)
  PROVE  /\ MadeBy(t, p)[Len(Root)] = t
         /\ \A k \in (Len(Root) + 1)..Len(p) :
              MadeBy(t, p)[k] = Making(MadeBy(t, p)[k - 1], SubSeq(p, 1, k))
<1> DEFINE made == MadeBy(t, p)
<1>1. Len(Root) \in Nat /\ Len(p) \in Nat
  BY RootAssumption, LenProperties DEF Named, Path
<1>2. MakingSteps(t, p, Len(p), made)
  BY <1>1, MakingDefined DEF MadeBy
<1> HIDE DEF made
<1>3. made = [k \in Len(Root)..Len(p) |->
                IF k = Len(Root) THEN t ELSE Making(made[k - 1], SubSeq(p, 1, k))]
  BY <1>2 DEF MakingSteps
<1>4. /\ Len(Root) \in Len(Root)..Len(p)
      /\ \A k \in (Len(Root) + 1)..Len(p) : k \in Len(Root)..Len(p) /\ k # Len(Root)
  BY <1>1
<1>5. made[Len(Root)] = t /\ \A k \in (Len(Root) + 1)..Len(p) :
                               made[k] = Making(made[k - 1], SubSeq(p, 1, k))
  BY <1>3, <1>4
<1> QED BY <1>5 DEF made

\* Only directories on the way to p are made.
MadeFor(t, u, p) ==
  \A q : \/ SameAt(t, u, q)
         \/ /\ q \notin DOMAIN t /\ q \in DOMAIN u /\ u[q] = Dir
            /\ q \in Path /\ IsPrefix(q, p) /\ Len(q) > Len(Root)

\* create_directories makes directories on the way to p and changes nothing else.
LEMMA DirectoriesMade ==
  ASSUME NEW t, NEW p \in Path, Len(Root) <= Len(p), Clear(t, p)
  PROVE  MadeFor(t, WithDirectories(t, p), p)
<1> DEFINE made == MadeBy(t, p)
           Wrong == {k \in Len(Root)..Len(p) : ~MadeFor(t, made[k], p)}
<1>1. Len(Root) \in Nat /\ Len(p) \in Nat
  BY RootAssumption, LenProperties DEF Named, Path
<1>2. /\ made[Len(Root)] = t
      /\ \A k \in (Len(Root) + 1)..Len(p) : made[k] = Making(made[k - 1], SubSeq(p, 1, k))
  BY MadeByIs
<1> HIDE DEF made
<1>3. ASSUME Wrong # {} PROVE FALSE
  <2>1. PICK k \in Wrong : \A j \in Wrong : k <= j
    <3>1. Wrong \subseteq Nat
      BY <1>1
    <3> HIDE DEF Wrong
    <3> QED BY <1>3, <3>1, LeastNumber
  <2>2. k \in Len(Root)..Len(p) /\ ~MadeFor(t, made[k], p)
    OBVIOUS
  <2>3. CASE k = Len(Root)
    <3>1. MadeFor(t, t, p)
      BY SameSame DEF MadeFor, SameBut
    <3> QED BY <1>2, <2>2, <2>3, <3>1
  <2>4. CASE k # Len(Root)
    <3> DEFINE u == made[k - 1]
               q == SubSeq(p, 1, k)
    <3>1. k \in (Len(Root) + 1)..Len(p) /\ k \in 1..Len(p) /\ k - 1 \in Len(Root)..Len(p)
      BY <1>1, <2>2, <2>4
    <3>2. MadeFor(t, u, p)
      <4>1. k - 1 \notin Wrong
        BY <1>1, <2>1, <2>2
      <4> QED BY <3>1, <4>1
    <3>3. made[k] = Making(u, q)
      BY <1>2, <3>1
    <3>4. q \in Path /\ Len(q) = k /\ q # <<>> /\ IsPrefix(q, p)
      <4>1. k \in 0..Len(p)
        BY <1>1, <3>1
      <4> QED BY <4>1, <3>1, Initial, InitialGrows
    <3> HIDE DEF u, q
    <3>5. Clear(u, q)
      <4>1. Clear(t, q)
        BY <3>1, ClearInitial DEF q
      <4>2. \A j \in 0..(Len(q) - 1) : KindAt(u, SubSeq(q, 1, j)) # "link"
        <5> SUFFICES ASSUME NEW j \in 0..(Len(q) - 1) PROVE KindAt(u, SubSeq(q, 1, j)) # "link"
          OBVIOUS
        <5>1. KindAt(t, SubSeq(q, 1, j)) # "link"
          BY <4>1 DEF Clear
        <5>2. CASE SameAt(t, u, SubSeq(q, 1, j))
          BY <5>1, <5>2, SameKind
        <5>3. CASE ~SameAt(t, u, SubSeq(q, 1, j))
          <6>1. KindAt(u, SubSeq(q, 1, j)) = "dir"
            BY <3>2, <5>3 DEF MadeFor, KindAt, Dir
          <6> QED BY <6>1
        <5> QED BY <5>2, <5>3
      <4> QED BY <4>2 DEF Clear
    <3>6. CASE Exists(u, q) \/ ~Writable(u, q)
      BY <2>2, <3>2, <3>3, <3>6 DEF Making
    <3>7. CASE ~(Exists(u, q) \/ ~Writable(u, q))
      <4>1. q \notin DOMAIN u
        BY <3>4, <3>5, <3>7, RealOfClear DEF Exists
      <4>2. made[k] = With(u, q, Dir)
        BY <3>3, <3>7 DEF Making
      <4>3. /\ DOMAIN made[k] = DOMAIN u \cup {q} /\ made[k][q] = Dir
            /\ SameBut(u, made[k], {q})
        <5> DEFINE v == With(u, q, Dir)
        <5>1. DOMAIN v = DOMAIN u \cup {q} /\ v[q] = Dir /\ SameBut(u, v, {q})
          BY <3>4, <3>5, WithIs
        <5> HIDE DEF v
        <5>2. made[k] = v
          BY <4>2 DEF v
        <5> QED BY <5>1, <5>2
      <4>4. \A x : \/ SameAt(t, made[k], x)
                   \/ /\ x \notin DOMAIN t /\ x \in DOMAIN made[k] /\ made[k][x] = Dir
                      /\ x \in Path /\ IsPrefix(x, p) /\ Len(x) > Len(Root)
        <5> SUFFICES ASSUME NEW x
                     PROVE \/ SameAt(t, made[k], x)
                           \/ /\ x \notin DOMAIN t /\ x \in DOMAIN made[k] /\ made[k][x] = Dir
                              /\ x \in Path /\ IsPrefix(x, p) /\ Len(x) > Len(Root)
          OBVIOUS
        <5>1. CASE x = q
          <6>1. q \notin DOMAIN t
            BY <3>2, <4>1 DEF MadeFor, SameAt
          <6>2. Len(q) > Len(Root)
            BY <1>1, <3>1, <3>4
          <6> QED BY <3>4, <4>3, <5>1, <6>1, <6>2
        <5>2. CASE x # q
          <6>1. SameAt(u, made[k], x)
            BY <4>3, <5>2 DEF SameBut
          <6>2. Dir.kind = "dir"
            BY DEF Dir
          <6>3. CASE SameAt(t, u, x)
            BY <6>1, <6>2, <6>3 DEF SameAt
          <6>4. CASE ~SameAt(t, u, x)
            <7>1. /\ x \notin DOMAIN t /\ x \in DOMAIN u /\ u[x] = Dir
                  /\ x \in Path /\ IsPrefix(x, p) /\ Len(x) > Len(Root)
              BY <3>2, <6>4 DEF MadeFor
            <7> QED BY <6>1, <7>1 DEF SameAt
          <6> QED BY <6>3, <6>4
        <5> QED BY <5>1, <5>2
      <4> QED BY <2>2, <4>4 DEF MadeFor
    <3> QED BY <3>6, <3>7
  <2> QED BY <2>3, <2>4
<1>4. MadeFor(t, made[Len(p)], p)
  <2>1. Len(p) \in Len(Root)..Len(p)
    BY <1>1
  <2> QED BY <1>3, <2>1
<1> QED BY <1>4, DirectoriesByMaking DEF made

----------------------------------------------------------------------------
(* Sequences whose elements have no type of their own.                     *)

\* A sequence of a set is one of its own elements.
LEMMA SequenceIs ==
  ASSUME NEW S, NEW s \in Seq(S)
  PROVE  IsSequence(s)
<1>1. s \in [1..Len(s) -> Range(s)] /\ Len(s) \in Nat
  BY LenProperties DEF Range
<1> QED BY <1>1 DEF IsSequence

\* The positions of a sequence.
LEMMA SequenceHas ==
  ASSUME NEW s, IsSequence(s)
  PROVE  Len(s) \in Nat /\ DOMAIN s = 1..Len(s)
  BY LenProperties DEF IsSequence

\* A sequence that grows by one.
LEMMA SequenceAppends ==
  ASSUME NEW s, IsSequence(s), NEW x
  PROVE  /\ IsSequence(Append(s, x)) /\ Len(Append(s, x)) = Len(s) + 1
         /\ Append(s, x)[Len(s) + 1] = x
         /\ \A i \in 1..Len(s) : Append(s, x)[i] = s[i]
<1> DEFINE S == Range(s) \cup {x}
<1>1. s \in Seq(S)
  <2>1. s \in [1..Len(s) -> Range(s)] /\ Len(s) \in Nat
    BY LenProperties DEF IsSequence
  <2> QED BY <2>1
<1>2. /\ Append(s, x) \in Seq(S) /\ Len(Append(s, x)) = Len(s) + 1
      /\ Append(s, x)[Len(s) + 1] = x
      /\ \A i \in 1..Len(s) : Append(s, x)[i] = s[i]
  BY <1>1, AppendProperties
<1> QED BY <1>2, SequenceIs

\* A sequence that changes at one place.
LEMMA SequenceChanges ==
  ASSUME NEW s, IsSequence(s), NEW i, NEW x
  PROVE  /\ IsSequence([s EXCEPT ![i] = x]) /\ Len([s EXCEPT ![i] = x]) = Len(s)
         /\ i \in 1..Len(s) => [s EXCEPT ![i] = x][i] = x
         /\ \A j \in 1..Len(s) : j # i => [s EXCEPT ![i] = x][j] = s[j]
<1> DEFINE S == Range(s) \cup {x}
           t == [s EXCEPT ![i] = x]
<1>1. s \in [1..Len(s) -> Range(s)] /\ Len(s) \in Nat /\ DOMAIN s = 1..Len(s)
  BY LenProperties DEF IsSequence
<1>2. t \in [1..Len(s) -> S]
  BY <1>1
<1>3. t \in Seq(S) /\ Len(t) = Len(s)
  BY <1>1, <1>2
<1> QED BY <1>1, <1>3, SequenceIs

----------------------------------------------------------------------------
(* Entries and their targets.                                              *)

LEMMA ChosenAre == Chosen \subseteq DOMAIN archive
  BY DEF Chosen, Selection, Matches

\* The paths of an entry of the archive in the destination.
LEMMA InPlace ==
  ASSUME NEW x, Named(x)
  PROVE  /\ Root \o x \in Path /\ Root \o x # <<>> /\ Root \o x \notin Prefixes(Root)
         /\ IsPrefix(Root, Root \o x) /\ Last(Root \o x) # StagingName
         /\ StagingPath(Root \o x) \in Path /\ StagingPath(Root \o x) # <<>>
         /\ StagingPath(Root \o x) \notin Prefixes(Root)
         /\ IsPrefix(Root, StagingPath(Root \o x))
         /\ Last(StagingPath(Root \o x)) = StagingName
         /\ Front(StagingPath(Root \o x)) = Front(Root \o x)
<1> DEFINE p == Root \o x
           s == StagingPath(p)
<1>1. /\ p \in Path /\ p # <<>> /\ Below(p, Root) /\ Len(Root) \in Nat /\ Len(p) > Len(Root)
      /\ IsPrefix(Root, Front(p)) /\ Last(p) # StagingName
  BY InDestination
<1> HIDE DEF p
<1>2. Root \in Path
  BY RootAssumption DEF Named
<1>3. /\ s \in Path /\ s # <<>> /\ Len(s) = Len(p) /\ Front(s) = Front(p)
      /\ Last(s) = StagingName
  BY <1>1, Beside
<1> HIDE DEF s
<1>4. \A q \in Path : Len(q) > Len(Root) => q \notin Prefixes(Root)
  <2> SUFFICES ASSUME NEW q \in Path, Len(q) > Len(Root), q \in Prefixes(Root) PROVE FALSE
    OBVIOUS
  <2>1. Len(q) <= Len(Root) /\ Len(q) \in Nat
    <3>1. IsPrefix(q, Root)
      BY <1>2, PrefixIs
    <3> QED BY <1>2, <3>1, PrefixIs, LenProperties DEF Path
  <2> QED BY <1>1, <2>1
<1>5. IsPrefix(Root, s)
  <2>1. Len(Root) <= Len(Front(p)) /\ \A i \in 1..Len(Root) : Root[i] = Front(p)[i]
    BY <1>1, <1>2, PathParts, PrefixIs
  <2>2. /\ Front(s) = Front(p) /\ Len(Front(p)) = Len(s) - 1 /\ Len(s) \in Nat
        /\ \A k \in 1..(Len(s) - 1) : Front(p)[k] = s[k]
    BY <1>3, PathParts
  <2>3. Len(Root) <= Len(s) /\ \A i \in 1..Len(Root) : Root[i] = s[i]
    BY <1>1, <2>1, <2>2
  <2> QED BY <1>2, <1>3, <2>3, PrefixIs
<1>6. IsPrefix(Root, p)
  BY <1>1 DEF Below, IsStrictPrefix
<1> QED BY <1>1, <1>3, <1>4, <1>5, <1>6 DEF p, s

\* The entry at hand was selected, and has a path in the destination.
LEMMA HeadIsChosen ==
  ASSUME InputsSane, QueuesSane, todo # <<>>
  PROVE  /\ Head(todo) \in Chosen /\ Head(todo) \in DOMAIN archive
         /\ Named(E.path) /\ E.kind \in Kinds /\ Tail(todo) \in Seq(Chosen)
<1>1. Head(todo) \in Chosen /\ Tail(todo) \in Seq(Chosen)
  BY HeadTailProperties DEF QueuesSane
<1>2. Head(todo) \in DOMAIN archive
  BY <1>1, ChosenAre
<1> QED BY <1>1, <1>2 DEF InputsSane, IsArchive, E, Kinds

----------------------------------------------------------------------------
(* What a step may do to the tree.                                         *)

MayChange(p) ==
  /\ p \in Path /\ p \notin Prefixes(Root)
  /\ IsPrefix(Root, p) \/ p \in copied'.paths
  /\ options.policy # "all" => p \notin DOMAIN before.tree \/ before.tree[p].kind = "dir"

FreshNode(p) ==
  \/ /\ tree'[p] \in [kind : {"dir"}, restored : BOOLEAN]
     /\ tree'[p] = Dir \/ IsPrefix(Root, p)
  \/ tree'[p].kind = "link" /\ tree'[p].to \in Path /\ todo' = <<>>
  \/ /\ tree'[p] = File(tree'[p].inode) /\ tree'[p].inode \in 1..Len(data')
     /\ tree'[p].inode > Len(before.data) \/ tree'[p].inode \in copied'.inodes
     /\ \/ ~Below(p, Root) \/ Last(p) = StagingName
        \/ tree'[p].inode \in copied'.inodes
        \/ Delivered(p)'

DataGrows ==
  /\ IsSequence(data') /\ Len(data) <= Len(data')
  /\ \A i \in 1..Len(data) : i \in copied'.inodes \/ i = staged \/ data'[i] = data[i]
  /\ copied.paths \subseteq copied'.paths /\ copied.inodes \subseteq copied'.inodes
  /\ copied'.inodes \subseteq 1..Len(data')

\* What a step does to the tree keeps the invariant where the paths it changes may
\* change and hold what a step may put there.
LEMMA ChangeTree ==
  ASSUME InputsSane, QueuesSane, StagedSane, NodesInv,
         UNCHANGED <<before, archive, options>>, DataGrows,
         todo' # <<>> => todo # <<>>,
         NEW S, SameBut(tree, tree', S),
         \A p \in S : MayChange(p),
         \A p \in S \cap DOMAIN tree' : FreshNode(p),
         \A i \in written' \ written : Root \o archive[i].path \in S
  PROVE  NodesInv'
<1>1. /\ Len(data) \in Nat /\ Len(data') \in Nat /\ Len(before.data) \in Nat
      /\ DOMAIN before.data = 1..Len(before.data) /\ Len(before.data) <= Len(data)
      /\ Len(data) <= Len(data')
  BY SequenceHas DEF NodesInv, TreeSane, DataGrows, InputsSane, IsFileSystem
<1>2. Chosen' = Chosen /\ \A i : ContentsOf(i)' = ContentsOf(i)
  BY DEF Chosen, ContentsOf, Chain, HardLinks, Closed
<1>3. ASSUME NEW p \in DOMAIN tree', p \notin S
      PROVE  /\ p \in DOMAIN tree
             /\ tree'[p] = tree[p] \/ (tree[p].kind = "dir" /\ tree'[p] = Dir)
  BY <1>3 DEF SameBut, SameAt
<1>4. Dir.kind = "dir" /\ Dir \in [kind : {"dir"}, restored : BOOLEAN]
  BY DEF Dir
<1>5. \A inode : File(inode).kind = "file" /\ File(inode).inode = inode
  BY DEF File
<1>6. TreeSane'
  <2>1. ASSUME NEW p \in DOMAIN tree' PROVE p \in Path /\ IsNode(tree'[p], Len(data'))
    <3>1. CASE p \in S
      <4>1. p \in Path /\ FreshNode(p)
        BY <3>1 DEF MayChange
      <4> QED BY <1>4, <1>5, <4>1 DEF FreshNode, IsNode
    <3>2. CASE p \notin S
      <4>1. p \in Path /\ IsNode(tree[p], Len(data))
        BY <1>3, <3>2 DEF NodesInv, TreeSane, IsTree
      <4>2. IsNode(tree[p], Len(data'))
        BY <1>1, <4>1 DEF IsNode
      <4> QED BY <1>3, <1>4, <3>2, <4>1, <4>2 DEF IsNode
    <3> QED BY <3>1, <3>2
  <2>2. ASSUME NEW p \in Prefixes(Root) PROVE KindAt(tree', p) = "dir"
    <3>1. p \notin S
      BY DEF MayChange
    <3>2. KindAt(tree, p) = "dir"
      BY DEF NodesInv, TreeSane, IsTree
    <3> QED BY <3>1, <3>2, SameKind DEF SameBut
  <2>3. ASSUME NEW p \in DOMAIN tree', tree'[p].kind = "dir", ~IsPrefix(Root, p)
        PROVE  tree'[p] = Dir
    <3>1. CASE p \in S
      <4>1. FreshNode(p)
        BY <3>1
      <4> QED BY <1>5, <2>3, <4>1 DEF FreshNode
    <3>2. CASE p \notin S
      BY <1>3, <2>3, <3>2 DEF NodesInv, TreeSane, IsTree
    <3> QED BY <3>1, <3>2
  <2> QED BY <1>1, <2>1, <2>2, <2>3 DEF TreeSane, IsTree, DataGrows
<1>7. LinksSane'
  <2> SUFFICES ASSUME todo' # <<>>, NEW p \in DOMAIN tree', tree'[p].kind = "link"
               PROVE  p \in DOMAIN before.tree /\ before.tree[p] = tree'[p]
    BY DEF LinksSane
  <2>1. p \notin S
    <3> SUFFICES ASSUME p \in S PROVE FALSE
      OBVIOUS
    <3>1. FreshNode(p)
      OBVIOUS
    <3> QED BY <1>4, <1>5, <3>1 DEF FreshNode
  <2> QED BY <1>3, <1>4, <2>1 DEF NodesInv, LinksSane
<1>8. ASSUME NEW p \in DOMAIN tree', p \notin S, tree'[p].kind = "file",
             tree'[p].inode \notin copied'.inodes, p # <<>> => Last(p) # StagingName
      PROVE  /\ tree'[p] = tree[p] /\ tree[p].inode \in 1..Len(data)
             /\ data'[tree[p].inode] = data[tree[p].inode]
  <2>1. p \in DOMAIN tree /\ tree'[p] = tree[p]
    BY <1>3, <1>4, <1>8
  <2>2. tree[p] = File(tree[p].inode) /\ tree[p].inode \in 1..Len(data)
    BY <1>8, <2>1 DEF NodesInv, TreeSane, IsTree, IsNode
  <2>3. tree[p].inode # staged
    <3> SUFFICES ASSUME tree[p].inode = staged PROVE FALSE
      OBVIOUS
    <3>1. staged # 0 /\ tree[p] = File(staged)
      BY <1>1, <2>2
    <3>2. p = StagingPath(Target) /\ todo # <<>> /\ p \in DOMAIN tree
      BY <2>1, <3>1 DEF StagedSane
    <3>4. p # <<>> /\ Last(p) = StagingName
      BY <3>2, HeadIsChosen, InPlace DEF Target
    <3> QED BY <1>8, <3>4
  <2> QED BY <1>8, <2>1, <2>2, <2>3 DEF DataGrows
<1>9. FilesSane'
  <2> SUFFICES ASSUME NEW p \in DOMAIN tree', tree'[p].kind = "file", Below(p, Root),
                      Last(p) # StagingName, tree'[p].inode \notin copied'.inodes
               PROVE  WholeFile(p)'
    BY DEF FilesSane
  <2>1. CASE p \in S
    <3>1. FreshNode(p)
      BY <2>1
    <3> QED BY <1>4, <3>1 DEF FreshNode, WholeFile
  <2>2. CASE p \notin S
    <3>1. /\ tree'[p] = tree[p] /\ data'[tree[p].inode] = data[tree[p].inode]
          /\ p \in DOMAIN tree
      BY <1>3, <1>8, <2>2
    <3>2. WholeFile(p)
      BY <3>1 DEF NodesInv, FilesSane, DataGrows
    <3>3. Delivered(p) => Delivered(p)'
      BY <1>2, <3>1 DEF Delivered, HoldsFile, KindAt
    <3> QED BY <3>1, <3>2, <3>3 DEF WholeFile
  <2> QED BY <2>1, <2>2
<1>10. WrittenSane'
  <2> SUFFICES ASSUME todo' # <<>>, NEW i \in written',
                      KindAt(tree', Root \o archive[i].path) = "file"
               PROVE  LET p == Root \o archive[i].path
                      IN  tree'[p].inode > Len(before.data) \/ tree'[p].inode \in copied'.inodes
    BY DEF WrittenSane
  <2> DEFINE p == Root \o archive[i].path
  <2> HIDE DEF p
  <2>0. KindAt(tree', p) = "file" /\ (i \notin written => p \in S)
    BY DEF p
  <2>1. p \in DOMAIN tree' /\ tree'[p].kind = "file"
    BY <2>0 DEF KindAt
  <2>2. CASE p \in S
    <3>1. FreshNode(p)
      BY <2>1, <2>2
    <3> QED BY <1>4, <2>1, <3>1 DEF FreshNode, p
  <2>3. CASE p \notin S
    <3>1. p \in DOMAIN tree /\ tree'[p] = tree[p] /\ i \in written
      BY <1>3, <1>4, <2>0, <2>1, <2>3
    <3>2. tree[p].inode > Len(before.data) \/ tree[p].inode \in copied.inodes
      BY <2>1, <3>1 DEF NodesInv, WrittenSane, KindAt, p
    <3> QED BY <3>1, <3>2 DEF DataGrows, p
  <2> QED BY <2>2, <2>3
<1>11. InodesUntouched'
  <2> SUFFICES ASSUME NEW inode \in DOMAIN before.data, inode \notin copied'.inodes
               PROVE  data'[inode] = before.data[inode]
    BY DEF InodesUntouched
  <2>1. inode \in 1..Len(data) /\ inode # staged
    BY <1>1 DEF StagedSane
  <2>2. data'[inode] = data[inode]
    BY <2>1 DEF DataGrows
  <2> QED BY <2>2 DEF NodesInv, InodesUntouched, DataGrows
<1>12. OutsideUntouched'
  <2> SUFFICES ASSUME NEW p \in DOMAIN tree' \cup DOMAIN before.tree,
                      p # <<>>, ~IsPrefix(Root, p), p \notin copied'.paths
               PROVE  p \in DOMAIN tree' \cap DOMAIN before.tree /\ tree'[p] = before.tree[p]
    BY DEF OutsideUntouched
  <2>1. p \notin S /\ p \notin copied.paths
    BY DEF MayChange, DataGrows
  <2>2. p \in DOMAIN tree \cup DOMAIN before.tree
    BY <1>3, <2>1
  <2>3. p \in DOMAIN tree \cap DOMAIN before.tree /\ tree[p] = before.tree[p]
    BY <2>1, <2>2 DEF NodesInv, OutsideUntouched
  <2>4. p \in DOMAIN tree' /\ (tree'[p] = tree[p] \/ (tree[p].kind = "dir" /\ tree'[p] = Dir))
    BY <2>1, <2>3 DEF SameBut, SameAt
  <2>5. tree[p].kind = "dir" => tree[p] = Dir
    BY <2>3 DEF NodesInv, TreeSane, IsTree
  <2> QED BY <2>3, <2>4, <2>5
<1>13. PolicyKept'
  <2> SUFFICES ASSUME options.policy # "all", NEW p \in DOMAIN before.tree,
                      before.tree[p].kind # "dir"
               PROVE  p \in DOMAIN tree' /\ tree'[p] = before.tree[p]
    BY DEF PolicyKept
  <2>1. p \notin S
    BY DEF MayChange
  <2>2. p \in DOMAIN tree /\ tree[p] = before.tree[p]
    BY DEF NodesInv, PolicyKept
  <2> QED BY <2>1, <2>2 DEF SameBut, SameAt
<1> QED BY <1>6, <1>7, <1>9, <1>10, <1>11, <1>12, <1>13 DEF NodesInv

----------------------------------------------------------------------------
(* Operations on a target.                                                 *)

\* What lies beside a path is reached the same way.
LEMMA ClearBeside ==
  ASSUME NEW t, NEW p \in Path, NEW q \in Path, p # <<>>, q # <<>>,
         Front(p) = Front(q), Clear(t, p)
  PROVE  Clear(t, q)
<1>1. /\ Len(p) \in Nat \ {0} /\ Len(q) \in Nat \ {0} /\ Front(p) \in Path
      /\ Len(Front(p)) = Len(p) - 1 /\ Len(Front(q)) = Len(q) - 1
  BY PathParts
<1>2. Len(p) = Len(q)
  BY <1>1
<1>3. ASSUME NEW r \in Path, r # <<>>, Len(r) = Len(p), NEW k \in 0..(Len(p) - 1)
      PROVE  SubSeq(r, 1, k) = SubSeq(Front(r), 1, k)
  <2>1. Len(p) - 1 \in 0..Len(r) /\ k \in 0..(Len(r) - 1) /\ Front(r) = SubSeq(r, 1, Len(r) - 1)
    BY <1>1, <1>3 DEF Front
  <2>2. SubSeq(SubSeq(r, 1, Len(r) - 1), 1, k) = SubSeq(r, 1, k)
    BY <1>3, <2>1, InitialOfInitial
  <2> QED BY <2>1, <2>2
<1>4. \A k \in 0..(Len(p) - 1) : SubSeq(p, 1, k) = SubSeq(q, 1, k)
  BY <1>2, <1>3
<1> QED BY <1>2, <1>4 DEF Clear

\* The directories made on the way to a path, as far as they are made; all of them, if
\* nothing fails.
LEMMA DirectoriesAre ==
  ASSUME NEW t, NEW p \in Path, IsPrefix(Root, p), NEW u \in Directories(t, p)
  PROVE  \E w \in Path : /\ IsPrefix(w, p) /\ IsPrefix(Root, w) /\ u = WithDirectories(t, w)
                         /\ ~options.faults => w = p
<1>1. IsPrefix(p, p)
  BY PrefixIs, LenProperties DEF Path
<1>2. CASE options.faults
  <2>1. PICK w \in Prefixes(p) : IsPrefix(Root, w) /\ u = WithDirectories(t, w)
    BY <1>2 DEF Directories
  <2>2. w \in Path
    <3>1. PICK n \in 0..Len(p) : w = SubSeq(p, 1, n)
      BY <2>1 DEF Prefixes
    <3> QED BY <3>1, Initial
  <2>3. IsPrefix(w, p)
    BY <2>1, <2>2, PrefixIs
  <2> QED BY <1>2, <2>1, <2>2, <2>3
<1>3. CASE ~options.faults
  BY <1>1, <1>3 DEF Directories
<1> QED BY <1>2, <1>3

\* The directories made for a path of the destination.
LEMMA DirectoriesFor ==
  ASSUME NEW t, NEW x, Named(x), Clear(t, Root \o x),
         NEW p \in {Root \o x, Front(Root \o x)}, NEW u \in Directories(t, p)
  PROVE  LET new == DOMAIN u \ DOMAIN t
         IN  /\ SameBut(t, u, new)
             /\ \A q \in new :
                  /\ u[q] = Dir /\ q \in Path /\ q # <<>> /\ q \notin Prefixes(Root)
                  /\ IsPrefix(Root, q) /\ Last(q) # StagingName /\ IsPrefix(q, p)
<1> DEFINE d == Root \o x
           new == DOMAIN u \ DOMAIN t
<1>1. /\ d \in Path /\ d # <<>> /\ Len(Root) \in Nat /\ Len(d) \in Nat /\ Len(d) > Len(Root)
      /\ IsPrefix(Root, Front(d)) /\ IsPrefix(Root, d)
      /\ \A k \in (Len(Root) + 1)..Len(d) : d[k] # StagingName
  <2>1. Named(x)
    OBVIOUS
  <2>2. /\ d \in Path /\ d # <<>> /\ IsPrefix(Root, Front(d))
        /\ Len(Root) \in Nat /\ Len(x) \in Nat \ {0} /\ Len(d) = Len(Root) + Len(x)
        /\ \A k \in (Len(Root) + 1)..Len(d) : d[k] # StagingName
    BY ONLY <2>1, InDestination
  <2>3. IsPrefix(Root, d)
    BY ONLY <2>1, InPlace
  <2> HIDE DEF d
  <2> QED BY ONLY <2>2, <2>3
<1>2. Root \in Path
  BY RootAssumption DEF Named
<1> HIDE DEF d
<1>3. /\ Front(d) \in Path /\ Len(Front(d)) = Len(d) - 1
      /\ \A k \in 1..(Len(d) - 1) : Front(d)[k] = d[k]
  BY <1>1, PathParts
<1>4. /\ p \in Path /\ Len(p) \in Nat /\ Len(Root) <= Len(p) /\ Len(p) <= Len(d)
      /\ IsPrefix(Root, p) /\ \A k \in 1..Len(p) : p[k] = d[k]
  <2>1. p = d \/ p = Front(d)
    BY DEF d
  <2> QED BY <1>1, <1>3, <2>1
<1>5. PICK w \in Path : IsPrefix(w, p) /\ IsPrefix(Root, w) /\ u = WithDirectories(t, w)
  BY <1>4, DirectoriesAre
<1>6. /\ Len(w) \in Nat /\ Len(Root) <= Len(w) /\ Len(w) <= Len(p)
      /\ \A k \in 1..Len(w) : w[k] = p[k]
  BY <1>2, <1>4, <1>5, PrefixIs, LenProperties DEF Path
<1>9. Clear(t, w)
  <2>1. Len(w) \in 1..Len(d)
    <3>1. Len(Root) # 0
      BY <1>2, RootAssumption, EmptySeq DEF Named, Path
    <3> QED BY <1>1, <1>4, <1>6, <3>1
  <2>2. w = SubSeq(d, 1, Len(w))
    <3>1. Len(w) <= Len(d) /\ \A k \in 1..Len(w) : w[k] = d[k]
      BY <1>1, <1>4, <1>6
    <3> QED BY <1>1, <3>1, PrefixIs
  <2>3. Clear(t, SubSeq(d, 1, Len(w)))
    BY <1>1, <2>1, ClearInitial DEF d
  <2> QED BY <2>2, <2>3
<1>10. MadeFor(t, u, w)
  BY <1>5, <1>6, <1>9, DirectoriesMade
<1>7. SameBut(t, u, new)
  BY <1>10 DEF MadeFor, SameBut, SameAt
<1>8. ASSUME NEW q \in new
      PROVE  /\ u[q] = Dir /\ q \in Path /\ q # <<>> /\ q \notin Prefixes(Root)
             /\ IsPrefix(Root, q) /\ Last(q) # StagingName /\ IsPrefix(q, p)
  <2>8. u[q] = Dir /\ q \in Path /\ IsPrefix(q, w) /\ Len(q) > Len(Root)
    BY <1>10 DEF MadeFor, SameAt
  <2>9. Len(q) \in Nat /\ Len(q) <= Len(w) /\ \A i \in 1..Len(q) : q[i] = w[i]
    BY <2>8, PrefixIs, LenProperties DEF Path
  <2>2. Len(q) \in Nat /\ Len(q) <= Len(p) /\ \A i \in 1..Len(q) : q[i] = p[i]
    BY <1>4, <1>6, <2>9
  <2>1. u[q] = Dir /\ q \in Path /\ IsPrefix(q, p) /\ Len(q) > Len(Root)
    BY <1>4, <2>2, <2>8, PrefixIs
  <2>3. q # <<>>
    BY <1>1, <2>1, EmptySeq
  <2>4. \A i \in 1..Len(Root) : Root[i] = p[i]
    BY <1>2, <1>4, PrefixIs
  <2>5. IsPrefix(Root, q)
    <3>1. Len(Root) <= Len(q) /\ \A i \in 1..Len(Root) : Root[i] = q[i]
      BY <1>1, <2>1, <2>2, <2>4
    <3> QED BY <1>2, <2>1, <3>1, PrefixIs
  <2>6. q \notin Prefixes(Root)
    <3>1. ~IsPrefix(q, Root)
      BY <1>1, <1>2, <2>1, <2>2, PrefixIs
    <3> QED BY <1>2, <2>1, <3>1, PrefixIs
  <2>7. Last(q) # StagingName
    <3>1. Len(q) \in (Len(Root) + 1)..Len(d) /\ q[Len(q)] = d[Len(q)]
      BY <1>1, <1>4, <2>1, <2>2
    <3> QED BY <1>1, <3>1 DEF Last
  <2> QED BY <2>1, <2>3, <2>5, <2>6, <2>7
<1> QED BY <1>7, <1>8

\* What is made has no links.
LEMMA NoLinksMade ==
  ASSUME NEW t, NEW u, SameBut(t, u, DOMAIN u \ DOMAIN t),
         \A q \in DOMAIN u \ DOMAIN t : u[q] = Dir
  PROVE  \A q : KindAt(u, q) = "link" <=> KindAt(t, q) = "link"
<1> SUFFICES ASSUME NEW q PROVE KindAt(u, q) = "link" <=> KindAt(t, q) = "link"
  OBVIOUS
<1>1. CASE q \in DOMAIN u \ DOMAIN t
  BY <1>1 DEF KindAt, Dir
<1>2. CASE q \notin DOMAIN u \ DOMAIN t
  BY <1>2, SameKind DEF SameBut
<1> QED BY <1>1, <1>2

\* The way to the target is prepared and what is there removed, or not.
LEMMA WayPrepared ==
  ASSUME NEW t, NEW x, Named(x), Clear(t, Root \o x),
         NEW u, u \in Directories(t, Front(Root \o x)) \/ u = t,
         NEW v \in Removals(u, Root \o x)
  PROVE  \E S : /\ SameBut(t, v, S)
                /\ \A q \in S : /\ q \in Path /\ q # <<>> /\ q \notin Prefixes(Root)
                                /\ IsPrefix(Root, q) /\ Last(q) # StagingName
                                /\ q = Root \o x \/ q \notin DOMAIN t
                /\ \A q \in S \cap DOMAIN v : v[q] = Dir
                /\ \A q : KindAt(v, q) = "link" => KindAt(t, q) = "link"
                /\ Root \o x \in DOMAIN v => Root \o x \in DOMAIN t
                /\ Root \o x \notin DOMAIN t => v = u
<1> DEFINE d == Root \o x
           new == DOMAIN u \ DOMAIN t
           S == IF v = u THEN new ELSE new \cup {d}
<1>1. d \in Path /\ d # <<>> /\ d \notin Prefixes(Root) /\ IsPrefix(Root, d) /\ Last(d) # StagingName
  BY InPlace
<1> HIDE DEF d
<1>2. /\ SameBut(t, u, new)
      /\ \A q \in new : /\ u[q] = Dir /\ q \in Path /\ q # <<>> /\ q \notin Prefixes(Root)
                        /\ IsPrefix(Root, q) /\ Last(q) # StagingName /\ q # d
  <2>1. CASE u = t
    BY <2>1, SameSame
  <2>2. CASE u \in Directories(t, Front(d))
    <3>1. /\ SameBut(t, u, new)
          /\ \A q \in new : /\ u[q] = Dir /\ q \in Path /\ q # <<>> /\ q \notin Prefixes(Root)
                            /\ IsPrefix(Root, q) /\ Last(q) # StagingName /\ IsPrefix(q, Front(d))
      BY <2>2, DirectoriesFor DEF d
    <3>2. ~IsPrefix(d, Front(d))
      <4>1. Front(d) \in Path /\ Len(Front(d)) = Len(d) - 1 /\ Len(d) \in Nat
        BY <1>1, PathParts
      <4> QED BY <1>1, <4>1, PrefixIs
    <3> QED BY <3>1, <3>2
  <2> QED BY <2>1, <2>2 DEF d
<1>3. \A q : KindAt(u, q) = "link" <=> KindAt(t, q) = "link"
  BY <1>2, NoLinksMade
<1>4. Clear(u, d)
  BY <1>3 DEF Clear, d
<1>5. /\ SameBut(u, v, {d})
      /\ v = u \/ d \notin DOMAIN v
      /\ d \notin DOMAIN u => v = u
  BY <1>1, <1>4, RemovalsAre DEF d
<1>6. d \in DOMAIN u <=> d \in DOMAIN t
  BY <1>2 DEF SameBut, SameAt
<1> HIDE DEF new
<1>7. SameBut(t, v, S)
  <2>1. CASE v = u
    BY <1>2, <2>1
  <2>2. CASE v # u
    <3>1. SameBut(t, u, new \cup {d}) /\ SameBut(u, v, new \cup {d})
      BY <1>2, <1>5, SameButGrows
    <3> QED BY <2>2, <3>1, SameTwice
  <2> QED BY <2>1, <2>2
<1>8. \A q \in S \cap DOMAIN v : v[q] = Dir
  <2>1. CASE v = u
    BY <1>2, <2>1
  <2>2. CASE v # u
    <3> SUFFICES ASSUME NEW q \in new, q \in DOMAIN v PROVE v[q] = Dir
      BY <1>5, <2>2
    <3>1. SameAt(u, v, q) /\ u[q] = Dir
      BY <1>2, <1>5 DEF SameBut
    <3> QED BY <3>1 DEF SameAt
  <2> QED BY <2>1, <2>2
<1>9. ASSUME NEW q, KindAt(v, q) = "link" PROVE KindAt(t, q) = "link"
  <2>1. CASE v = u
    BY <1>3, <1>9, <2>1
  <2>2. CASE v # u
    <3>1. q # d
      BY <1>5, <1>9, <2>2 DEF KindAt
    <3>2. KindAt(u, q) = "link"
      BY <1>5, <1>9, <3>1, SameKind DEF SameBut
    <3> QED BY <1>3, <3>2
  <2> QED BY <2>1, <2>2
<1>10. \A q \in S : /\ q \in Path /\ q # <<>> /\ q \notin Prefixes(Root)
                    /\ IsPrefix(Root, q) /\ Last(q) # StagingName
                    /\ q = d \/ q \notin DOMAIN t
  BY <1>1, <1>2 DEF new
<1>11. d \in DOMAIN v => d \in DOMAIN t
  BY <1>5, <1>6
<1> HIDE DEF S
<1> QED BY <1>5, <1>6, <1>7, <1>8, <1>9, <1>10, <1>11 DEF d

----------------------------------------------------------------------------
(* The steps of an extraction: those that leave the file system alone.     *)

\* Nothing in the file system changes.
LEMMA QuietNodes ==
  ASSUME InputsSane, QueuesSane, StagedSane, NodesInv,
         UNCHANGED <<before, archive, options, tree, data, copied, written>>,
         todo' # <<>> => todo # <<>>
  PROVE  NodesInv'
<1>1. SameBut(tree, tree', {})
  BY SameSame
<1>2. DataGrows
  <2>1. Len(data) \in Nat
    BY SequenceHas DEF NodesInv, TreeSane
  <2> QED BY <2>1 DEF DataGrows, NodesInv, TreeSane
<1>3. written' \ written = {}
  OBVIOUS
<1> QED BY <1>1, <1>2, <1>3, ChangeTree

\* A step that leaves the tree alone leaves the staging file where it is.
LEMMA QuietStaging ==
  ASSUME StagedSane, UNCHANGED <<before, archive, options, tree, copied, staged, written>>,
         Len(data') = Len(data), todo' = todo \/ staged = 0
  PROVE  StagedSane'
<1>1. CASE staged = 0
  BY <1>1 DEF StagedSane
<1>2. CASE todo' = todo
  <2>1. E' = E /\ Target' = Target /\ IsBody' = IsBody
    BY <1>2 DEF E, Target, IsBody, Relinks, Canonical
  <2> QED BY <1>2, <2>1 DEF StagedSane, KindAt
<1> QED BY <1>1, <1>2

\* Nothing but the control changes.
LEMMA QuietInv ==
  ASSUME EInv, UNCHANGED <<before, archive, options, tree, data, copied, staged, written>>,
         todo' = todo \/ staged = 0, todo' # <<>> => todo # <<>>,
         ControlSane', QueuesSane'
  PROVE  EInv'
<1>1. InputsSane'
  BY DEF EInv, InputsSane
<1>2. StagedSane'
  BY QuietStaging DEF EInv
<1>3. NodesInv'
  BY QuietNodes DEF EInv
<1> QED BY <1>1, <1>2, <1>3 DEF EInv

\* Start keeps the invariant.
LEMMA StartKeeps ==
  ASSUME EInv, Start
  PROVE  EInv'
<1>1. /\ todo = <<>> /\ links = <<>> /\ dirs = <<>> /\ staged = 0 /\ written = {}
      /\ tree = before.tree /\ data = before.data
      /\ copied = [paths |-> {}, inodes |-> {}]
  BY DEF EInv, ControlSane, Start
<1>2. UNCHANGED <<before, archive, options, tree, data, copied, staged, written, links, dirs, warned>>
  BY DEF Start, fsVars
<1>3. Chosen' = Chosen /\ Dangling(archive)' = Dangling(archive)
  BY <1>2 DEF Chosen, Dangling
<1>4. \/ pc' = "failed" /\ todo' = <<>>
      \/ /\ pc' = "entry" /\ todo' \in Seq(Chosen) /\ Chosen \cap Dangling(archive) = {}
  <2>1. CASE pc' = "failed" /\ todo' = todo
    BY <1>1, <2>1
  <2>2. CASE /\ pc' = "entry" /\ todo' = Picked([i \in DOMAIN archive |-> i], Chosen)
             /\ Chosen \cap Dangling(archive) = {}
    <3>1. DOMAIN archive = 1..Len(archive) /\ Len(archive) \in Nat
      BY SequenceHas DEF EInv, InputsSane, IsArchive
    <3>2. Chosen \subseteq DOMAIN archive /\ IsFiniteSet(Chosen) /\ Chosen \subseteq Nat
      <4>1. IsFiniteSet(1..Len(archive))
        BY <3>1, FS_Interval
      <4>2. Chosen \in SUBSET (1..Len(archive))
        BY <3>1, ChosenAre
      <4>3. IsFiniteSet(Chosen)
        BY <4>1, <4>2, FS_Subset
      <4> QED BY <3>1, <4>2, <4>3
    <3> DEFINE ids == [i \in DOMAIN archive |-> i]
    <3>3. \A i \in Chosen : ids[i] \in Chosen
      BY <3>2
    <3> HIDE DEF ids
    <3>4. Picked(ids, Chosen) \in Seq(Chosen)
      BY <3>2, <3>3, PickedSequence
    <3> QED BY <2>2, <3>4 DEF ids
  <2> QED BY <2>1, <2>2 DEF Start
<1>5. ControlSane'
  BY <1>1, <1>2, <1>4 DEF ControlSane, Reading
<1>6. QueuesSane'
  <2>1. <<>> \in Seq(Chosen) /\ <<>> \in Seq({i \in Chosen : archive[i].kind = "symlink"})
    OBVIOUS
  <2> QED BY <1>1, <1>2, <1>3, <1>4, <2>1 DEF QueuesSane
<1>7. InputsSane'
  BY <1>2 DEF EInv, InputsSane
<1>8. StagedSane'
  BY <1>1, <1>2, QuietStaging DEF EInv
<1>9. LinksSane' /\ WrittenSane'
  BY <1>1, <1>2 DEF LinksSane, WrittenSane
<1>10. TreeSane' /\ FilesSane' /\ InodesUntouched' /\ OutsideUntouched' /\ PolicyKept'
  <2>1. \A i : ContentsOf(i)' = ContentsOf(i)
    BY <1>2 DEF ContentsOf, Chain, HardLinks, Closed
  <2>2. \A p : WholeFile(p)' <=> WholeFile(p)
    BY <1>2, <1>3, <2>1 DEF WholeFile, Delivered, HoldsFile, KindAt
  <2>3. FilesSane'
    BY <1>2, <2>2 DEF EInv, NodesInv, FilesSane
  <2> QED BY <1>2, <2>3 DEF EInv, NodesInv, TreeSane, InodesUntouched, OutsideUntouched, PolicyKept
<1> QED BY <1>5, <1>6, <1>7, <1>8, <1>9, <1>10 DEF EInv, NodesInv

\* What does not change with the control.
LEMMA ChosenStays ==
  ASSUME UNCHANGED <<archive, options>>
  PROVE  Chosen' = Chosen /\ Dangling(archive)' = Dangling(archive)
  BY DEF Chosen, Dangling

\* Steps that only move the control.
LEMMA ControlKeeps ==
  ASSUME EInv, Refuse \/ Verify \/ RefuseLink \/ Finish \/ Throw \/ Killed
  PROVE  EInv'
<1>1. UNCHANGED <<before, archive, options, tree, data, copied, staged, written, todo, links,
                  dirs, warned>>
  BY DEF Refuse, Verify, RefuseLink, Finish, Throw, Killed, fsVars, queueVars
<1>2. ControlSane'
  <2>1. Body' = Body
    BY <1>1 DEF Body, E, Canonical
  <2> QED BY <1>1, <2>1 DEF EInv, ControlSane, Reading, Refuse, Verify, RefuseLink, Finish,
             Throw, Killed, Entered, LinksLeft
<1>3. QueuesSane'
  <2>1. pc' \notin {"idle", "start", "failed"} => pc \notin {"idle", "start", "failed"}
    BY DEF Refuse, Verify, RefuseLink, Finish, Throw, Killed, Entered, LinksLeft
  <2> QED BY <1>1, <2>1, ChosenStays DEF EInv, QueuesSane
<1> QED BY <1>1, <1>2, <1>3, QuietInv

\* Steps that also take an element from a queue or add one.
LEMMA QueueKeeps ==
  ASSUME EInv, Skip \/ DeferLink \/ SkipLink \/ Metadata
  PROVE  EInv'
<1>1. UNCHANGED <<before, archive, options, tree, data, copied, staged, written, dirs>>
  BY DEF Skip, DeferLink, SkipLink, Metadata, fsVars
<1>2. staged = 0 /\ pc \in {"entry", "placed"} /\ pc' \in {"entry", "throw"}
  BY DEF Skip, DeferLink, SkipLink, Metadata, Entered, LinksLeft, EInv, ControlSane, Reading
<1>3. todo' = todo \/ (todo # <<>> /\ todo' = Tail(todo))
  BY DEF Skip, DeferLink, SkipLink, Metadata, Entered, EntryDone, EInv, ControlSane
<1>4. todo' \in Seq(Chosen) /\ (todo' # <<>> => todo # <<>>)
  <2>1. todo \in Seq(Chosen)
    BY DEF EInv, QueuesSane
  <2>2. todo # <<>> => Tail(todo) \in Seq(Chosen)
    BY <2>1, HeadTailProperties
  <2> QED BY <1>3, <2>1, <2>2
<1>5. links' \in Seq({i \in Chosen : archive[i].kind = "symlink"})
  <2> DEFINE S == {i \in Chosen : archive[i].kind = "symlink"}
  <2> SUFFICES links' \in Seq(S)
    OBVIOUS
  <2>1. links \in Seq(S)
    BY DEF EInv, QueuesSane
  <2>2. CASE links' = links
    BY <2>1, <2>2
  <2>3. CASE DeferLink
    <3>1. Head(todo) \in S
      BY <2>3, HeadIsChosen DEF DeferLink, Entered, EInv, E
    <3>2. links' = Append(links, Head(todo))
      BY <2>3 DEF DeferLink
    <3> HIDE DEF S
    <3> QED BY <2>1, <3>1, <3>2, AppendProperties
  <2>4. CASE SkipLink
    <3>1. links # <<>> /\ links' = Tail(links)
      BY <2>4 DEF SkipLink, LinksLeft
    <3> HIDE DEF S
    <3> QED BY <2>1, <3>1, HeadTailProperties
  <2> QED BY <2>2, <2>3, <2>4 DEF Skip, Metadata
<1>6. QueuesSane'
  <2>1. Chosen \cap Dangling(archive) = {}
    BY <1>2 DEF EInv, QueuesSane
  <2>2. Chosen' = Chosen /\ Dangling(archive)' = Dangling(archive) /\ archive' = archive
    BY <1>1, ChosenStays
  <2>3. dirs \in Seq(Chosen) /\ written \subseteq Chosen /\ \A i \in written : archive[i].kind = "file"
    BY DEF EInv, QueuesSane
  <2> HIDE DEF EInv
  <2> QED BY <1>1, <1>4, <1>5, <2>1, <2>2, <2>3 DEF QueuesSane
<1>7. ControlSane'
  BY <1>1, <1>2 DEF ControlSane, Reading
<1> QED BY <1>1, <1>2, <1>4, <1>6, <1>7, QuietInv

\* A slice goes to the staged inode only.
LEMMA WriteSliceKeeps ==
  ASSUME EInv, WriteSlice
  PROVE  EInv'
<1>1. /\ UNCHANGED <<before, archive, options, pc, tree, copied, staged, written, todo, links,
                     dirs, warned>>
      /\ pc = "write"
      /\ \E slice : data' = [data EXCEPT ![staged] = slice]
  BY DEF WriteSlice, queueVars
<1>2. /\ IsSequence(data') /\ Len(data') = Len(data) /\ Len(data) \in Nat
      /\ \A i \in 1..Len(data) : i # staged => data'[i] = data[i]
  <2>1. IsSequence(data)
    BY DEF EInv, NodesInv, TreeSane
  <2>2. PICK slice : data' = [data EXCEPT ![staged] = slice]
    BY <1>1
  <2> QED BY <2>1, <2>2, SequenceChanges, SequenceHas
<1>3. InputsSane'
  BY <1>1 DEF EInv, InputsSane
<1>4. ControlSane'
  BY <1>1 DEF EInv, ControlSane, Reading
<1>5. QueuesSane'
  BY <1>1, ChosenStays DEF EInv, QueuesSane
<1>6. StagedSane'
  BY <1>1, <1>2, QuietStaging DEF EInv
<1>7. NodesInv'
  <2>1. DataGrows
    BY <1>1, <1>2 DEF DataGrows, EInv, NodesInv, TreeSane
  <2>2. SameBut(tree, tree', {})
    BY <1>1, SameSame
  <2>3. written' \ written = {}
    BY <1>1
  <2> QED BY <1>1, <2>1, <2>2, <2>3, ChangeTree DEF EInv
<1> QED BY <1>3, <1>4, <1>5, <1>6, <1>7 DEF EInv

----------------------------------------------------------------------------
(* The steps of an extraction: those that change the file system.          *)

\* The content of an entry; that of a link is that of what it names.
LEMMA ContentsOfFile ==
  ASSUME NEW i \in DOMAIN archive, archive[i].kind = "file"
  PROVE  archive[i].content \in ContentsOf(i)
  BY DEF ContentsOf

\* A hard link stands for every content its target stands for.
LEMMA ContentsOfLink ==
  ASSUME NEW i \in DOMAIN archive, archive[i].kind = "hardlink",
         NEW j \in DOMAIN archive, archive[j].kind \in {"file", "hardlink"},
         archive[j].path = archive[i].target
  PROVE  ContentsOf(j) \subseteq ContentsOf(i)
<1>1. i \in HardLinks /\ i \in Chain(i)
  BY DEF HardLinks, Chain
<1>2. CASE archive[j].kind = "file"
  <2>1. ContentsOf(j) = {archive[j].content}
    BY <1>2 DEF ContentsOf
  <2>2. archive[j].content \in ContentsOf(i)
    BY <1>1, <1>2 DEF ContentsOf
  <2> QED BY <2>1, <2>2
<1>3. CASE archive[j].kind = "hardlink"
  <2>1. j \in HardLinks
    BY <1>3 DEF HardLinks
  <2>2. Chain(j) \subseteq Chain(i)
    <3> SUFFICES ASSUME NEW k \in Chain(j), NEW S \in SUBSET HardLinks, i \in S, Closed(S)
                 PROVE  k \in S
      BY DEF Chain
    <3>1. j \in S
      BY <2>1 DEF Closed
    <3> QED BY <3>1 DEF Chain
  <2> QED BY <1>3, <2>2 DEF ContentsOf
<1> QED BY <1>2, <1>3

\* The entry a hard link is made to.
LEMMA CanonicalIs ==
  ASSUME EInv, todo # <<>>, E.kind = "hardlink"
  PROVE  /\ Canonical \in DOMAIN archive /\ archive[Canonical].path = E.target
         /\ archive[Canonical].kind = "file" /\ Named(E.target)
<1>1. Head(todo) \in Chosen /\ Head(todo) \in DOMAIN archive
  BY HeadIsChosen DEF EInv
<1>2. Chosen \cap Dangling(archive) = {}
  BY DEF EInv, QueuesSane
<1>3. E.target \in PathsOf(archive) /\ FirstAt(archive, E.target).kind = "file"
  BY <1>1, <1>2 DEF Dangling, E
<1> DEFINE At == {i \in DOMAIN archive : archive[i].path = E.target}
<1>4. At # {} /\ At \subseteq Nat
  <2>1. DOMAIN archive = 1..Len(archive) /\ Len(archive) \in Nat
    BY SequenceHas DEF EInv, InputsSane, IsArchive
  <2> QED BY <1>3, <2>1 DEF PathsOf
<1>5. Canonical \in At
  <2>1. Min(At) \in At
    <3> HIDE DEF At
    <3> QED BY <1>4, MinOfNumbers
  <2> QED BY <2>1 DEF Canonical, FirstIndex
<1>6. Named(archive[Canonical].path)
  BY <1>5 DEF EInv, InputsSane, IsArchive
<1> QED BY <1>3, <1>5, <1>6 DEF FirstAt, Canonical

\* What no link leads through is where its path says.
LEMMA OnTheWay ==
  ASSUME EInv, NEW x, Named(x), ~ThroughLink(tree, Root \o x)
  PROVE  Clear(tree, Root \o x) /\ Real(tree, Root \o x) = Root \o x
<1>1. Reached(tree)
  BY DEF EInv, NodesInv, TreeSane, IsTree, Reached
<1>2. Clear(tree, Root \o x)
  BY <1>1, NotThroughLink
<1> QED BY <1>2, InPlace, RealOfClear

\* The same where there are no more links than before.
LEMMA StillOnTheWay ==
  ASSUME NEW t, NEW v, NEW p \in Path, p # <<>>, Clear(t, p),
         \A q : KindAt(v, q) = "link" => KindAt(t, q) = "link"
  PROVE  Clear(v, p) /\ Real(v, p) = p
<1>1. Clear(v, p)
  BY DEF Clear
<1> QED BY <1>1, RealOfClear

\* A new directory is one a step may put there.
LEMMA DirFresh ==
  ASSUME NEW p, tree'[p] = Dir
  PROVE  FreshNode(p)
<1>1. Dir \in [kind : {"dir"}, restored : BOOLEAN]
  BY DEF Dir
<1> QED BY <1>1 DEF FreshNode

\* A path in the destination where the policy lets something be put.
LEMMA MayChangeNew ==
  ASSUME EInv, NEW q \in Path, q \notin Prefixes(Root), IsPrefix(Root, q) \/ q \in copied'.paths,
         options.policy # "all" => q \notin DOMAIN tree
  PROVE  MayChange(q)
  BY DEF MayChange, EInv, NodesInv, PolicyKept

\* The path of a staging file may change.
LEMMA MayChangeStaging ==
  ASSUME EInv, NEW x, Named(x)
  PROVE  MayChange(StagingPath(Root \o x))
<1>1. StagingPath(Root \o x) \notin DOMAIN before.tree
  BY InPlace DEF EInv, InputsSane, IsFileSystem
<1> QED BY <1>1, InPlace DEF MayChange

\* Where the policy does not allow to replace what is there, nothing is there.
LEMMA TargetFree ==
  ASSUME EInv, Entered, ~Refused, ~Blocked("fail"), ~Blocked("skip")
  PROVE  /\ todo # <<>> /\ staged = 0 /\ Named(E.path)
         /\ Clear(tree, Target) /\ Real(tree, Target) = Target
         /\ options.policy # "all" => Target \notin DOMAIN tree
<1>1. todo # <<>> /\ staged = 0 /\ ~ThroughLink(tree, Target)
  BY DEF Entered, Refused, EInv, ControlSane, Reading
<1>2. Named(E.path)
  BY <1>1, HeadIsChosen DEF EInv
<1>3. Clear(tree, Target) /\ Real(tree, Target) = Target
  BY <1>1, <1>2, OnTheWay DEF Target
<1>4. options.policy \in {"fail", "skip", "all"}
  BY DEF EInv, InputsSane, Policies
<1> QED BY <1>1, <1>2, <1>3, <1>4 DEF Blocked, Exists

\* Without a staging file, none appears.
LEMMA NoStaging ==
  ASSUME StagedSane, staged = 0, staged' = 0, NEW S, SameBut(tree, tree', S),
         \A p \in S \cap DOMAIN tree' : Last(p) # StagingName
  PROVE  StagedSane'
<1>1. \A p \in DOMAIN tree' : p # <<>> => Last(p) # StagingName
  BY DEF StagedSane, SameBut, SameAt
<1> QED BY <1>1 DEF StagedSane

\* MakeDirectory keeps the invariant.
LEMMA MakeDirectoryKeeps ==
  ASSUME EInv, MakeDirectory
  PROVE  EInv'
<1>1. /\ UNCHANGED <<before, archive, options, pc, data, copied, staged, written, links, warned>>
      /\ pc = "entry" /\ todo # <<>> /\ todo' = Tail(todo) /\ staged = 0
      /\ ~ThroughLink(tree, Target) /\ tree' \in Directories(tree, Target)
      /\ dirs' = dirs \/ dirs' = Append(dirs, Head(todo))
  BY DEF MakeDirectory, Entered, EntryDone, Refused, EInv, ControlSane, Reading
<1>2. Head(todo) \in Chosen /\ Named(E.path) /\ Tail(todo) \in Seq(Chosen)
  BY <1>1, HeadIsChosen DEF EInv
<1>3. Clear(tree, Target)
  BY <1>1, <1>2, OnTheWay DEF Target
<1> DEFINE S == DOMAIN tree' \ DOMAIN tree
<1>4. /\ SameBut(tree, tree', S)
      /\ \A q \in S : /\ tree'[q] = Dir /\ q \in Path /\ q # <<>> /\ q \notin Prefixes(Root)
                      /\ IsPrefix(Root, q) /\ Last(q) # StagingName
  BY <1>1, <1>2, <1>3, DirectoriesFor DEF Target
<1>5. NodesInv'
  <2>1. DataGrows
    BY <1>1, SequenceHas DEF DataGrows, EInv, NodesInv, TreeSane
  <2>2. \A q \in S : MayChange(q)
    BY <1>4, MayChangeNew
  <2>3. \A q \in S \cap DOMAIN tree' : FreshNode(q)
    BY <1>4, DirFresh
  <2>4. written' \ written = {}
    BY <1>1
  <2> HIDE DEF S
  <2> QED BY <1>1, <1>4, <2>1, <2>2, <2>3, <2>4, ChangeTree DEF EInv
<1>6. StagedSane'
  BY <1>1, <1>4, NoStaging DEF EInv
<1>7. QueuesSane'
  <2>1. dirs' \in Seq(Chosen)
    <3>1. dirs \in Seq(Chosen)
      BY DEF EInv, QueuesSane
    <3>2. Append(dirs, Head(todo)) \in Seq(Chosen)
      BY <1>2, <3>1, AppendProperties
    <3> QED BY <1>1, <3>1, <3>2
  <2>2. Chosen \cap Dangling(archive) = {}
    BY <1>1 DEF EInv, QueuesSane
  <2> QED BY <1>1, <1>2, <2>1, <2>2, ChosenStays DEF EInv, QueuesSane
<1>8. ControlSane'
  BY <1>1 DEF ControlSane, Reading
<1>9. InputsSane'
  BY <1>1 DEF EInv, InputsSane
<1> QED BY <1>5, <1>6, <1>7, <1>8, <1>9 DEF EInv

\* A queue gets shorter and nothing else changes in the control.
LEMMA TailQueues ==
  ASSUME EInv, UNCHANGED <<archive, options, written, links, dirs>>, todo # <<>>,
         todo' = Tail(todo)
  PROVE  QueuesSane'
<1>1. Tail(todo) \in Seq(Chosen)
  BY HeadIsChosen DEF EInv
<1>2. Chosen \cap Dangling(archive) = {}
  BY DEF EInv, QueuesSane
<1> QED BY <1>1, <1>2, ChosenStays DEF EInv, QueuesSane

\* Stage keeps the invariant.
LEMMA StageKeeps ==
  ASSUME EInv, Stage
  PROVE  EInv'
<1>0. PICK u \in Directories(tree, Front(Target)) :
        \/ /\ Writable(u, Target)
           /\ tree' = With(u, StagingPath(Target), File(Len(data) + 1))
           /\ data' = Append(data, <<>>)
           /\ staged' = Len(data) + 1
           /\ pc' = "write"
        \/ tree' = u /\ pc' = "throw" /\ UNCHANGED <<data, staged>>
  BY DEF Stage
<1> DEFINE s == StagingPath(Target)
           new == DOMAIN u \ DOMAIN tree
<1>1. /\ UNCHANGED <<before, archive, options, todo, links, dirs, written, warned, copied>>
      /\ Entered /\ ~Refused /\ IsBody /\ ~Blocked("fail") /\ ~Blocked("skip")
      /\ pc = "entry"
  BY DEF Stage, queueVars, Entered
<1>2. /\ todo # <<>> /\ staged = 0 /\ Named(E.path)
      /\ Clear(tree, Target) /\ Real(tree, Target) = Target
      /\ options.policy # "all" => Target \notin DOMAIN tree
  BY <1>1, TargetFree
<1>3. /\ Target \in Path /\ Target # <<>> /\ Target \notin Prefixes(Root)
      /\ IsPrefix(Root, Target) /\ Last(Target) # StagingName
      /\ s \in Path /\ s # <<>> /\ s \notin Prefixes(Root) /\ IsPrefix(Root, s)
      /\ Last(s) = StagingName /\ Front(s) = Front(Target)
  BY <1>2, InPlace DEF Target
<1>4. /\ SameBut(tree, u, new)
      /\ \A q \in new : /\ u[q] = Dir /\ q \in Path /\ q # <<>> /\ q \notin Prefixes(Root)
                        /\ IsPrefix(Root, q) /\ Last(q) # StagingName
                        /\ IsPrefix(q, Front(Target))
  BY <1>2, DirectoriesFor DEF Target
<1>5. Clear(u, Target) /\ Real(u, Target) = Target
  BY <1>2, <1>3, <1>4, NoLinksMade, StillOnTheWay
<1> HIDE DEF s
<1>6. Writable(u, Target) <=> KindAt(u, Front(Target)) = "dir"
  BY <1>5 DEF Writable
<1>7. Len(data) \in Nat /\ IsSequence(data) /\ Len(before.data) <= Len(data)
      /\ copied.inodes \subseteq 1..Len(data) /\ Len(before.data) \in Nat
  BY SequenceHas DEF EInv, NodesInv, TreeSane, InputsSane, IsFileSystem
<1>8. \A q \in new : MayChange(q)
  BY <1>4, MayChangeNew
<1>9. InputsSane'
  BY <1>1 DEF EInv, InputsSane
<1>10. written' \ written = {} /\ (todo' # <<>> => todo # <<>>)
  BY <1>1
<1>11. QueuesSane'
  <2>1. Chosen \cap Dangling(archive) = {}
    BY <1>2 DEF EInv, QueuesSane
  <2> QED BY <1>1, <2>1, ChosenStays DEF EInv, QueuesSane
<1>12. CASE /\ Writable(u, Target)
            /\ tree' = With(u, s, File(Len(data) + 1)) /\ data' = Append(data, <<>>)
            /\ staged' = Len(data) + 1 /\ pc' = "write"
  <2>1. /\ tree' = With(u, s, File(Len(data) + 1)) /\ data' = Append(data, <<>>)
        /\ staged' = Len(data) + 1 /\ pc' = "write"
    BY <1>12
  <2>2. Clear(u, s)
    BY <1>3, <1>5, ClearBeside
  <2> DEFINE v == With(u, s, File(Len(data) + 1))
             S == new \cup {s}
  <2>3. DOMAIN v = DOMAIN u \cup {s} /\ v[s] = File(Len(data) + 1) /\ SameBut(u, v, {s})
    BY <1>3, <2>2, WithIs
  <2> HIDE DEF v
  <2>4. tree' = v
    BY <2>1 DEF v
  <2> HIDE DEF new
  <2>5. SameBut(tree, tree', S)
    <3>1. SameBut(tree, u, S) /\ SameBut(u, v, S)
      BY <1>4, <2>3, SameButGrows
    <3> QED BY <2>4, <3>1, SameTwice
  <2>6. IsSequence(data') /\ Len(data') = Len(data) + 1 /\ \A i \in 1..Len(data) : data'[i] = data[i]
    BY <1>7, <2>1, SequenceAppends
  <2>7. DataGrows
    BY <1>1, <1>7, <2>6 DEF DataGrows
  <2>8. \A q \in S : MayChange(q)
    BY <1>2, <1>8, MayChangeStaging DEF Target, s
  <2>9. \A q \in S \cap DOMAIN tree' : FreshNode(q) /\ (q # s => tree'[q] = Dir)
    <3> SUFFICES ASSUME NEW q \in S PROVE FreshNode(q) /\ (q # s => tree'[q] = Dir)
      OBVIOUS
    <3>1. CASE q = s
      <4>1. tree'[q] = File(Len(data) + 1) /\ Last(q) = StagingName
        BY <1>3, <2>3, <2>4, <3>1
      <4> QED BY <1>7, <2>6, <3>1, <4>1 DEF FreshNode, File
    <3>2. CASE q # s
      <4>1. tree'[q] = Dir
        BY <1>4, <2>3, <2>4, <3>2 DEF SameBut, SameAt, new
      <4> QED BY <4>1, <3>2, DirFresh
    <3> QED BY <3>1, <3>2
  <2>10. NodesInv'
    <3> HIDE DEF S
    <3> QED BY <1>1, <1>10, <2>5, <2>7, <2>8, <2>9, ChangeTree DEF EInv
  <2>11. ControlSane'
    BY <1>1, <1>2, <1>7, <2>1 DEF ControlSane, Reading
  <2>12. StagedSane'
    <3>1. E' = E /\ Target' = Target /\ IsBody' = IsBody /\ StagingPath(Target)' = s
      BY <1>1 DEF E, Target, IsBody, Relinks, Canonical, s
    <3>2. staged' \in (Len(before'.data) + 1)..Len(data')
      BY <1>1, <1>7, <2>1, <2>6
    <3>3. \A q : KindAt(tree', q) = "link" => KindAt(tree, q) = "link"
      <4> SUFFICES ASSUME NEW q, KindAt(tree', q) = "link" PROVE KindAt(tree, q) = "link"
        OBVIOUS
      <4>1. q \notin S
        BY <2>3, <2>4, <2>9 DEF KindAt, Dir, File
      <4> QED BY <2>5, <4>1, SameKind DEF SameBut
    <3>4. ~ThroughLink(tree', Target)
      <4>1. Clear(tree', Target)
        BY <1>2, <1>3, <3>3, StillOnTheWay
      <4>2. Reached(tree')
        BY <2>10 DEF NodesInv, TreeSane, IsTree, Reached
      <4> QED BY <1>2, <4>1, <4>2, NotThroughLink DEF Target
    <3>5. KindAt(tree', Front(Target)) = "dir"
      <4>1. Front(Target) # s
        <5>1. Len(Front(s)) = Len(s) - 1 /\ Len(s) \in Nat
          BY <1>3, PathParts
        <5> QED BY <1>3, <5>1
      <4> QED BY <1>6, <1>12, <2>3, <2>4, <4>1, SameKind DEF SameBut
    <3>6. s \in DOMAIN tree' /\ tree'[s] = File(staged')
      BY <2>1, <2>3, <2>4
    <3>7. staged' \notin copied'.inodes
      BY <1>1, <1>7, <2>1
    <3>8. ASSUME NEW p \in DOMAIN tree', tree'[p] = File(staged') PROVE p = s
      <4> SUFFICES ASSUME p # s PROVE FALSE
        OBVIOUS
      <4>1. p \notin S
        BY <2>9, <3>8 DEF Dir, File
      <4>2. p \in DOMAIN tree /\ tree[p] = tree'[p]
        BY <2>5, <3>8, <4>1 DEF SameBut, SameAt, Dir, File
      <4>3. IsNode(File(staged'), Len(data))
        BY <3>8, <4>2 DEF EInv, NodesInv, TreeSane, IsTree
      <4> QED BY <1>7, <2>1, <4>3 DEF IsNode, File
    <3>9. options'.policy # "all" => Target \notin DOMAIN tree'
      <4>1. Target # s /\ Target \notin new
        <5>1. Target # s
          BY <1>3
        <5>2. ~IsPrefix(Target, Front(Target))
          <6>1. Front(Target) \in Path /\ Len(Front(Target)) = Len(Target) - 1 /\ Len(Target) \in Nat
            BY <1>3, PathParts
          <6> QED BY <1>3, <6>1, PrefixIs
        <5> QED BY <1>4, <5>1, <5>2
      <4> QED BY <1>1, <1>2, <2>5, <4>1 DEF SameBut, SameAt
    <3>10. ASSUME NEW p \in DOMAIN tree', p # <<>>, Last(p) = StagingName PROVE p = s
      <4>1. CASE p \in S
        BY <1>4, <3>10, <4>1
      <4>2. CASE p \notin S
        <5>1. p \in DOMAIN tree
          BY <2>5, <4>2 DEF SameBut, SameAt
        <5> QED BY <1>2, <3>10, <5>1 DEF EInv, StagedSane
      <4> QED BY <4>1, <4>2
    <3>11. staged' # 0 /\ todo' # <<>> /\ IsBody'
      BY <1>1, <1>2, <1>7, <2>1, <3>1
    <3> QED BY <3>1, <3>2, <3>4, <3>5, <3>6, <3>7, <3>8, <3>9, <3>10, <3>11 DEF StagedSane
  <2> QED BY <1>9, <1>11, <2>10, <2>11, <2>12 DEF EInv
<1>13. CASE tree' = u /\ pc' = "throw" /\ UNCHANGED <<data, staged>>
  <2>1. tree' = u /\ pc' = "throw" /\ UNCHANGED <<data, staged>>
    BY <1>13
  <2>2. DataGrows
    BY <1>1, <1>7, <2>1 DEF DataGrows
  <2>3. \A q \in new \cap DOMAIN tree' : FreshNode(q)
    BY <1>4, <2>1, DirFresh
  <2>4. NodesInv'
    <3> HIDE DEF new
    <3> QED BY <1>1, <1>4, <1>8, <1>10, <2>1, <2>2, <2>3, ChangeTree DEF EInv
  <2>5. StagedSane'
    BY <1>2, <1>4, <2>1, NoStaging DEF EInv
  <2>6. ControlSane'
    BY <1>1, <1>2, <2>1 DEF ControlSane, Reading
  <2> QED BY <1>9, <1>11, <2>4, <2>5, <2>6 DEF EInv
<1> QED BY <1>0, <1>12, <1>13 DEF s

----------------------------------------------------------------------------
\* The way is prepared, in terms of what a step may do.
LEMMA WayChanges ==
  ASSUME EInv, NEW x, Named(x), Clear(tree, Root \o x),
         options.policy # "all" => Root \o x \notin DOMAIN tree,
         NEW u, u \in Directories(tree, Front(Root \o x)) \/ u = tree,
         NEW v \in Removals(u, Root \o x)
  PROVE  \E S : /\ SameBut(tree, v, S)
                /\ \A q \in S : MayChange(q) /\ q # <<>> /\ Last(q) # StagingName
                /\ \A q \in S \cap DOMAIN v : v[q] = Dir
                /\ \A q : KindAt(v, q) = "link" => KindAt(tree, q) = "link"
                /\ Root \o x \in DOMAIN v => Root \o x \in DOMAIN tree
                /\ \A q \in S : q = Root \o x \/ q \notin DOMAIN tree
                /\ Root \o x \notin DOMAIN tree => v = u
<1>1. PICK S : /\ SameBut(tree, v, S)
               /\ \A q \in S : /\ q \in Path /\ q # <<>> /\ q \notin Prefixes(Root)
                               /\ IsPrefix(Root, q) /\ Last(q) # StagingName
                               /\ q = Root \o x \/ q \notin DOMAIN tree
               /\ \A q \in S \cap DOMAIN v : v[q] = Dir
               /\ \A q : KindAt(v, q) = "link" => KindAt(tree, q) = "link"
               /\ Root \o x \in DOMAIN v => Root \o x \in DOMAIN tree
               /\ Root \o x \notin DOMAIN tree => v = u
  BY WayPrepared
<1>2. \A q \in S : MayChange(q)
  <2> SUFFICES ASSUME NEW q \in S PROVE MayChange(q)
    OBVIOUS
  <2>1. options.policy # "all" => q \notin DOMAIN tree
    BY <1>1
  <2> QED BY <1>1, <2>1, MayChangeNew
<1> QED BY <1>1, <1>2

\* Unwind keeps the invariant: what it removes is the staging file and nothing else.
LEMMA UnwindKeeps ==
  ASSUME EInv, Unwind
  PROVE  EInv'
<1>1. /\ UNCHANGED <<before, archive, options, data, todo, links, dirs, written, warned, copied>>
      /\ pc = "throw" /\ staged' = 0 /\ pc' = "failed"
      /\ tree' = IF staged = 0 THEN tree ELSE Without(tree, StagingPath(Target))
  BY DEF Unwind, queueVars
<1>2. InputsSane'
  BY <1>1 DEF EInv, InputsSane
<1>3. QueuesSane'
  <2>1. todo' # <<>> => Chosen \cap Dangling(archive) = {}
    BY <1>1 DEF EInv, QueuesSane
  <2> QED BY <1>1, <2>1, ChosenStays DEF EInv, QueuesSane
<1>4. ControlSane'
  BY <1>1 DEF ControlSane, Reading
<1>5. Len(data) \in Nat /\ DataGrows
  BY <1>1, SequenceHas DEF DataGrows, EInv, NodesInv, TreeSane
<1>6. written' \ written = {}
  BY <1>1
<1>7. CASE staged = 0
  <2>1. SameBut(tree, tree', {})
    BY <1>1, <1>7, SameSame
  <2>2. NodesInv'
    BY <1>1, <1>5, <1>6, <2>1, ChangeTree DEF EInv
  <2>3. StagedSane'
    BY <1>1, <1>7, <2>1, NoStaging DEF EInv
  <2> QED BY <1>2, <1>3, <1>4, <2>2, <2>3 DEF EInv
<1>8. CASE staged # 0
  <2> DEFINE s == StagingPath(Target)
             v == Without(tree, s)
  <2>1. todo # <<>> /\ ~ThroughLink(tree, Target)
    BY <1>8 DEF EInv, StagedSane
  <2>2. Named(E.path)
    BY <2>1, HeadIsChosen DEF EInv
  <2>3. Clear(tree, Target)
    BY <2>1, <2>2, OnTheWay DEF Target
  <2>4. /\ Target \in Path /\ Target # <<>> /\ s \in Path /\ s # <<>> /\ Front(s) = Front(Target)
        /\ s \notin Prefixes(Root) /\ IsPrefix(Root, s) /\ Last(s) = StagingName
    BY <2>2, InPlace DEF Target
  <2>5. MayChange(s)
    BY <2>2, MayChangeStaging DEF Target
  <2> HIDE DEF s
  <2>6. Clear(tree, s)
    BY <2>3, <2>4, ClearBeside
  <2>7. DOMAIN v = DOMAIN tree \ {s} /\ SameBut(tree, v, {s})
    BY <2>4, <2>6, WithoutIs
  <2> HIDE DEF v
  <2>8. tree' = v
    BY <1>1, <1>8 DEF v, s
  <2>9. NodesInv'
    <3>1. {s} \cap DOMAIN tree' = {}
      BY <2>7, <2>8
    <3> QED BY <1>1, <1>5, <1>6, <2>5, <2>7, <2>8, <3>1, ChangeTree DEF EInv
  <2>10. StagedSane'
    <3>1. ASSUME NEW p \in DOMAIN tree', p # <<>>, Last(p) = StagingName PROVE FALSE
      <4>1. p \in DOMAIN tree /\ p # s
        BY <2>7, <2>8
      <4> QED BY <3>1, <4>1 DEF EInv, StagedSane, s
    <3> QED BY <1>1, <3>1 DEF StagedSane
  <2> QED BY <1>2, <1>3, <1>4, <2>9, <2>10 DEF EInv
<1> QED BY <1>7, <1>8

\* A file is renamed to its target when all of it is there.
LEMMA PlaceKeeps ==
  ASSUME EInv, Place
  PROVE  EInv'
<1> DEFINE s == StagingPath(Target)
<1>1. /\ UNCHANGED <<before, archive, options, data, todo, links, dirs, warned, copied>>
      /\ pc = "place"
      /\ \E v \in {tree} \cup Removals(tree, Target) :
           \/ pc' = "placed" /\ tree' = Renamed(v)
           \/ pc' = "throw" /\ tree' = v
      /\ IF pc' = "placed"
         THEN /\ staged' = 0
              /\ written' = IF E.kind = "file" THEN written \cup {Head(todo)} ELSE written
         ELSE UNCHANGED <<staged, written>>
  BY DEF Place, queueVars
<1>2. /\ staged # 0 /\ todo # <<>> /\ IsBody /\ ~ThroughLink(tree, Target)
      /\ KindAt(tree, Front(Target)) = "dir"
      /\ s \in DOMAIN tree /\ tree[s] = File(staged)
      /\ staged \notin copied.inodes
      /\ \A p \in DOMAIN tree : tree[p] = File(staged) => p = s
      /\ options.policy # "all" => ~(Target \in DOMAIN tree)
      /\ data[staged] = Body.content
      /\ staged \in (Len(before.data) + 1)..Len(data)
      /\ \A p \in DOMAIN tree : p # <<>> /\ Last(p) = StagingName => p = s
  BY <1>1 DEF EInv, StagedSane, ControlSane, Reading
<1>3. Head(todo) \in Chosen /\ Head(todo) \in DOMAIN archive /\ Named(E.path)
  BY <1>2, HeadIsChosen DEF EInv
<1>4. Clear(tree, Target)
  BY <1>2, <1>3, OnTheWay DEF Target
<1>5. /\ Target \in Path /\ Target # <<>> /\ Target \notin Prefixes(Root)
      /\ IsPrefix(Root, Target) /\ Last(Target) # StagingName
      /\ s \in Path /\ s # <<>> /\ s \notin Prefixes(Root) /\ IsPrefix(Root, s)
      /\ Last(s) = StagingName /\ Front(s) = Front(Target)
  BY <1>3, InPlace DEF Target
<1>6. MayChange(s) /\ MayChange(Target)
  <2>1. MayChange(s)
    BY <1>3, MayChangeStaging DEF Target
  <2>2. MayChange(Target)
    BY <1>2, <1>5, MayChangeNew
  <2> QED BY <2>1, <2>2
<1>7. PICK v \in {tree} \cup Removals(tree, Target) :
           \/ pc' = "placed" /\ tree' = Renamed(v)
           \/ pc' = "throw" /\ tree' = v
  BY <1>1
<1>8. PICK S : /\ SameBut(tree, v, S)
               /\ \A q \in S : MayChange(q) /\ q # <<>> /\ Last(q) # StagingName
               /\ \A q \in S \cap DOMAIN v : v[q] = Dir
               /\ \A q : KindAt(v, q) = "link" => KindAt(tree, q) = "link"
               /\ Target \in DOMAIN v => Target \in DOMAIN tree
               /\ \A q \in S : q = Target \/ q \notin DOMAIN tree
  <2>1. CASE v = tree
    <3>1. SameBut(tree, v, {})
      BY <2>1, SameSame
    <3> QED BY <2>1, <3>1
  <2>2. CASE v \in Removals(tree, Target)
    <3>1. /\ Clear(tree, Root \o E.path)
          /\ v \in Removals(tree, Root \o E.path)
          /\ options.policy # "all" => Root \o E.path \notin DOMAIN tree
      BY <1>2, <1>4, <2>2 DEF Target
    <3>2. \E S : /\ SameBut(tree, v, S)
                 /\ \A q \in S : MayChange(q) /\ q # <<>> /\ Last(q) # StagingName
                 /\ \A q \in S \cap DOMAIN v : v[q] = Dir
                 /\ \A q : KindAt(v, q) = "link" => KindAt(tree, q) = "link"
                 /\ Root \o E.path \in DOMAIN v => Root \o E.path \in DOMAIN tree
                 /\ \A q \in S : q = Root \o E.path \/ q \notin DOMAIN tree
                 /\ Root \o E.path \notin DOMAIN tree => v = tree
      BY <1>3, <3>1, WayChanges
    <3> QED BY <3>2 DEF Target
  <2> QED BY <2>1, <2>2
<1>9. Clear(v, Target) /\ Real(v, Target) = Target
  BY <1>4, <1>5, <1>8, StillOnTheWay
<1> HIDE DEF s
<1>10. Len(data) \in Nat /\ Len(before.data) \in Nat /\ DataGrows
  BY <1>1, SequenceHas DEF DataGrows, EInv, NodesInv, TreeSane, InputsSane, IsFileSystem
<1>12. Chosen \cap Dangling(archive) = {}
  BY <1>2 DEF EInv, QueuesSane
<1>13. InputsSane'
  BY <1>1 DEF EInv, InputsSane
<1>14. QueuesSane'
  <2>1. written' \subseteq Chosen /\ \A i \in written' : archive[i].kind = "file"
    BY <1>1, <1>3 DEF EInv, QueuesSane, E
  <2> QED BY <1>1, <1>12, <2>1, ChosenStays DEF EInv, QueuesSane
<1>15. CASE pc' = "placed" /\ tree' = Renamed(v)
  <2> DEFINE w == Without(v, s)
             x == With(w, Target, File(staged))
             T == S \cup {s, Target}
  <2>1. Clear(v, s)
    BY <1>5, <1>9, ClearBeside
  <2>2. DOMAIN w = DOMAIN v \ {s} /\ SameBut(v, w, {s})
    BY <1>5, <2>1, WithoutIs
  <2> HIDE DEF w
  <2>3. \A q : KindAt(w, q) = "link" => KindAt(v, q) = "link"
    BY <2>2, SameKind DEF SameBut, KindAt
  <2>4. Clear(w, Target)
    BY <1>5, <1>9, <2>3, StillOnTheWay
  <2>5. DOMAIN x = DOMAIN w \cup {Target} /\ x[Target] = File(staged) /\ SameBut(w, x, {Target})
    BY <1>5, <2>4, WithIs
  <2> HIDE DEF x
  <2>6. tree' = x
    BY <1>15 DEF Renamed, w, x, s
  <2>7. SameBut(tree, tree', T)
    <3>1. SameBut(tree, v, T) /\ SameBut(v, w, T) /\ SameBut(w, x, T)
      BY <1>8, <2>2, <2>5, SameButGrows
    <3> QED BY <2>6, <3>1, SameTwice
  <2>8. Target # s /\ s \notin DOMAIN tree' /\ Target \in DOMAIN tree' /\ tree'[Target] = File(staged)
    BY <1>5, <2>2, <2>5, <2>6
  <2>9. \A q \in T \cap DOMAIN tree' : q # Target => tree'[q] = Dir
    <3> SUFFICES ASSUME NEW q \in S, q \in DOMAIN tree', q # Target, q # s PROVE tree'[q] = Dir
      BY <2>8
    <3>1. q \in DOMAIN v /\ v[q] = Dir
      BY <1>8, <2>2, <2>5, <2>6
    <3> QED BY <2>2, <2>5, <2>6, <3>1 DEF SameBut, SameAt
  <2>10. ASSUME NEW p, p = Target PROVE Delivered(p)'
    <3>0. PICK i : i = Head(todo)
      OBVIOUS
    <3>1. i \in Chosen' /\ Root \o archive'[i].path = p
          /\ archive'[i].kind \in {"file", "hardlink"}
      BY <1>1, <1>2, <1>3, <2>10, <3>0, ChosenStays DEF Target, E, IsBody
    <3>2. ContentsOf(i)' = ContentsOf(i)
      BY <1>1 DEF ContentsOf, Chain, HardLinks, Closed
    <3>3. Body.content \in ContentsOf(i)
      <4>1. CASE E.kind = "file"
        BY <1>3, <3>0, <4>1, ContentsOfFile DEF Body, E
      <4>2. CASE E.kind = "hardlink"
        <5>1. /\ Canonical \in DOMAIN archive /\ archive[Canonical].path = E.target
              /\ archive[Canonical].kind = "file"
          BY <1>2, <4>2, CanonicalIs
        <5>2. ContentsOf(Canonical) \subseteq ContentsOf(i)
          BY <1>3, <3>0, <4>2, <5>1, ContentsOfLink DEF E
        <5>3. Body = archive[Canonical]
          BY <4>2 DEF Body
        <5> QED BY <5>1, <5>2, <5>3, ContentsOfFile
      <4> QED BY <1>2, <4>1, <4>2 DEF IsBody
    <3>4. tree'[p].inode = staged /\ KindAt(tree', p) = "file"
      BY <2>8, <2>10 DEF File, KindAt
    <3>5. data'[staged] \in ContentsOf(i)'
      BY <1>1, <1>2, <3>2, <3>3
    <3>6. HoldsFile(p, ContentsOf(i))'
      BY <3>4, <3>5 DEF HoldsFile
    <3> QED BY <3>1, <3>6 DEF Delivered
  <2>11. \A q \in T \cap DOMAIN tree' : FreshNode(q)
    <3> SUFFICES ASSUME NEW q \in T \cap DOMAIN tree' PROVE FreshNode(q)
      OBVIOUS
    <3>1. CASE q = Target
      <4>1. tree'[q] = File(staged) /\ staged \in 1..Len(data') /\ staged > Len(before.data)
        BY <1>1, <1>2, <1>10, <2>8, <3>1
      <4>2. Delivered(q)'
        BY <2>10, <3>1
      <4> QED BY <4>1, <4>2 DEF FreshNode, File
    <3>2. CASE q # Target
      BY <2>9, <3>2, DirFresh
    <3> QED BY <3>1, <3>2
  <2>12. NodesInv'
    <3>1. \A i \in written' \ written : Root \o archive[i].path \in T
      BY <1>1, <1>15 DEF Target, E
    <3>2. \A q \in T : MayChange(q)
      BY <1>6, <1>8
    <3> HIDE DEF T
    <3> QED BY <1>1, <1>10, <2>7, <2>11, <3>1, <3>2, ChangeTree DEF EInv
  <2>13. StagedSane'
    <3>1. ASSUME NEW p \in DOMAIN tree', p # <<>>, Last(p) = StagingName PROVE FALSE
      <4>1. p # s /\ p # Target
        BY <1>5, <2>8, <3>1
      <4>2. p \notin T
        BY <1>8, <3>1, <4>1
      <4>3. p \in DOMAIN tree
        BY <2>7, <4>2 DEF SameBut, SameAt
      <4> QED BY <1>2, <3>1, <4>1, <4>3
    <3> QED BY <1>1, <1>15, <3>1 DEF StagedSane
  <2>14. ControlSane'
    BY <1>1, <1>2, <1>15 DEF ControlSane, Reading
  <2> QED BY <1>13, <1>14, <2>12, <2>13, <2>14 DEF EInv
<1>16. CASE pc' = "throw" /\ tree' = v
  <2>1. UNCHANGED <<staged, written>>
    BY <1>1, <1>16
  <2>2. NodesInv'
    <3>1. written' \ written = {}
      BY <2>1
    <3>2. \A q \in S \cap DOMAIN tree' : FreshNode(q)
      BY <1>8, <1>16, DirFresh
    <3> QED BY <1>1, <1>8, <1>10, <1>16, <3>1, <3>2, ChangeTree DEF EInv
  <2>3. ControlSane'
    BY <1>1, <1>2, <1>16 DEF ControlSane, Reading
  <2>4. StagedSane'
    <3>1. E' = E /\ Target' = Target /\ IsBody' = IsBody /\ StagingPath(Target)' = s
      BY <1>1, <2>1 DEF E, Target, IsBody, Relinks, Canonical, s
    <3>2. s \notin S /\ Front(Target) \notin S
      <4>1. s \notin S
        BY <1>5, <1>8
      <4>2. Front(Target) # Target
        <5>1. Len(Front(Target)) = Len(Target) - 1 /\ Len(Target) \in Nat
          BY <1>5, PathParts
        <5> QED BY <5>1
      <4>3. Front(Target) \in DOMAIN tree
        BY <1>2 DEF KindAt
      <4> QED BY <1>8, <4>1, <4>2, <4>3
    <3>3. s \in DOMAIN tree' /\ tree'[s] = File(staged)
      BY <1>2, <1>8, <1>16, <3>2 DEF SameBut, SameAt, File
    <3>4. KindAt(tree', Front(Target)) = "dir"
      BY <1>2, <1>8, <1>16, <3>2, SameKind DEF SameBut
    <3>5. ~ThroughLink(tree', Target)
      <4>1. Reached(tree')
        BY <2>2 DEF NodesInv, TreeSane, IsTree, Reached
      <4> QED BY <1>3, <1>9, <1>16, <4>1, NotThroughLink DEF Target
    <3>6. ASSUME NEW p \in DOMAIN tree', tree'[p] = File(staged) PROVE p = s
      <4>1. p \notin S
        BY <1>8, <1>16, <3>6 DEF Dir, File
      <4>2. p \in DOMAIN tree /\ tree[p] = tree'[p]
        BY <1>8, <1>16, <3>6, <4>1 DEF SameBut, SameAt, Dir, File
      <4> QED BY <1>2, <3>6, <4>2
    <3>7. ASSUME NEW p \in DOMAIN tree', p # <<>>, Last(p) = StagingName PROVE p = s
      <4>1. p \notin S
        BY <1>8, <3>7
      <4>2. p \in DOMAIN tree
        BY <1>8, <1>16, <4>1 DEF SameBut, SameAt
      <4> QED BY <1>2, <3>7, <4>2
    <3>8. options'.policy # "all" => Target \notin DOMAIN tree'
      BY <1>1, <1>2, <1>8, <1>16
    <3> QED BY <1>1, <1>2, <2>1, <3>1, <3>3, <3>4, <3>5, <3>6, <3>7, <3>8 DEF StagedSane
  <2> QED BY <1>13, <1>14, <2>2, <2>3, <2>4 DEF EInv
<1> QED BY <1>7, <1>15, <1>16

----------------------------------------------------------------------------

\* RestoreDirectory keeps the invariant.
LEMMA RestoreDirectoryKeeps ==
  ASSUME EInv, RestoreDirectory
  PROVE  EInv'
<1>1. /\ UNCHANGED <<before, archive, options, data, todo, links, staged, written, copied>>
      /\ todo = <<>> /\ staged = 0 /\ dirs # <<>> /\ dirs' = Front(dirs)
      /\ pc \in {"entry", "dirs"} /\ pc' \in {"dirs", "throw"}
      /\ tree' = tree \/ (KindAt(tree, DirPath) = "dir"
                          /\ tree' = [tree EXCEPT ![DirPath].restored = TRUE])
  BY DEF RestoreDirectory, EInv, ControlSane, Reading
<1>2. dirs \in Seq(Chosen) /\ Last(dirs) \in Chosen /\ Front(dirs) \in Seq(Chosen)
  <2>1. dirs \in Seq(Chosen)
    BY DEF EInv, QueuesSane
  <2>2. Len(dirs) \in Nat \ {0} /\ \A k \in 1..Len(dirs) : dirs[k] \in Chosen
    BY <1>1, <2>1, LenProperties, EmptySeq, ElementOfSeq
  <2> DEFINE n == Len(dirs) - 1
  <2>3. n \in Nat /\ \A k \in 1..n : dirs[k] \in Chosen
    BY <2>2
  <2> HIDE DEF n
  <2>4. SubSeq(dirs, 1, n) \in Seq(Chosen)
    BY <2>3, FirstNames
  <2> QED BY <2>1, <2>2, <2>4 DEF Front, Last, n
<1>3. Last(dirs) \in DOMAIN archive
  BY <1>2, ChosenAre
<1>4. Named(archive[Last(dirs)].path)
  BY <1>3 DEF EInv, InputsSane, IsArchive
<1>5. /\ DirPath \in Path /\ DirPath # <<>> /\ DirPath \notin Prefixes(Root)
      /\ IsPrefix(Root, DirPath) /\ Last(DirPath) # StagingName
  BY <1>4, InPlace DEF DirPath
<1>6. InputsSane'
  BY <1>1 DEF EInv, InputsSane
<1>7. ControlSane'
  BY <1>1 DEF ControlSane, Reading
<1>8. QueuesSane'
  <2>1. Chosen \cap Dangling(archive) = {}
    BY <1>1 DEF EInv, QueuesSane
  <2> QED BY <1>1, <1>2, <2>1, ChosenStays DEF EInv, QueuesSane
<1>9. DataGrows /\ written' \ written = {}
  BY <1>1, SequenceHas DEF DataGrows, EInv, NodesInv, TreeSane
<1>10. CASE tree' = tree
  <2>1. SameBut(tree, tree', {})
    BY <1>10, SameSame
  <2>2. NodesInv'
    BY <1>1, <1>9, <2>1, ChangeTree DEF EInv
  <2>3. StagedSane'
    BY <1>1, <2>1, NoStaging DEF EInv
  <2> QED BY <1>6, <1>7, <1>8, <2>2, <2>3 DEF EInv
<1>11. CASE /\ KindAt(tree, DirPath) = "dir"
            /\ tree' = [tree EXCEPT ![DirPath].restored = TRUE]
  <2> DEFINE d == DirPath
  <2>0. KindAt(tree, d) = "dir" /\ tree' = [tree EXCEPT ![d].restored = TRUE]
    BY <1>11
  <2>1. /\ d \in Path /\ d # <<>> /\ d \notin Prefixes(Root)
        /\ IsPrefix(Root, d) /\ Last(d) # StagingName
    BY <1>5
  <2> HIDE DEF d
  <2>2. d \in DOMAIN tree /\ tree[d].kind = "dir"
    BY <2>0 DEF KindAt
  <2>3. tree[d] \in [kind : {"dir"}, restored : BOOLEAN]
    <3>1. IsNode(tree[d], Len(data))
      BY <2>2 DEF EInv, NodesInv, TreeSane, IsTree
    <3> QED BY <2>2, <3>1 DEF IsNode, File
  <2>4. tree'[d] \in [kind : {"dir"}, restored : BOOLEAN]
    BY <2>0, <2>2, <2>3
  <2>5. SameBut(tree, tree', {d})
    BY <2>0 DEF SameBut, SameAt
  <2>6. FreshNode(d)
    BY <2>1, <2>4 DEF FreshNode
  <2>7. MayChange(d)
    <3>1. options.policy # "all" => d \notin DOMAIN before.tree \/ before.tree[d].kind = "dir"
      BY <2>2 DEF EInv, NodesInv, PolicyKept
    <3> QED BY <2>1, <3>1 DEF MayChange
  <2>8. NodesInv'
    BY <1>1, <1>9, <2>5, <2>6, <2>7, ChangeTree DEF EInv
  <2>9. StagedSane'
    BY <1>1, <2>1, <2>5, NoStaging DEF EInv
  <2> QED BY <1>6, <1>7, <1>8, <2>8, <2>9 DEF EInv
<1> QED BY <1>1, <1>10, <1>11

\* PlaceLink keeps the invariant.
LEMMA PlaceLinkKeeps ==
  ASSUME EInv, PlaceLink
  PROVE  EInv'
<1>1. /\ UNCHANGED <<before, archive, options, data, todo, dirs, staged, written, copied>>
      /\ pc = "entry" /\ todo = <<>> /\ links # <<>> /\ staged = 0
      /\ pc' \in {"entry", "throw"} /\ links' = Tail(links)
      /\ ~ThroughLink(tree, LinkPath)
      /\ Exists(tree, LinkPath) => options.policy = "all"
      /\ \E u \in Directories(tree, Front(LinkPath)) : \E v \in Removals(u, LinkPath) :
           tree' = v \/ tree' = With(v, LinkPath, Link(L.target))
  BY DEF PlaceLink, LinksLeft, LinkRefused, EInv, ControlSane, Reading
<1>2. /\ Head(links) \in Chosen /\ L.kind = "symlink"
      /\ Tail(links) \in Seq({i \in Chosen : archive[i].kind = "symlink"})
  BY <1>1, HeadTailProperties DEF EInv, QueuesSane, L
<1>3. Named(L.path) /\ L.target \in Path
  <2>1. Head(links) \in DOMAIN archive
    BY <1>2, ChosenAre
  <2> QED BY <1>2, <2>1 DEF EInv, InputsSane, IsArchive, L
<1>4. Clear(tree, LinkPath) /\ Real(tree, LinkPath) = LinkPath
  BY <1>1, <1>3, OnTheWay DEF LinkPath
<1>5. options.policy # "all" => LinkPath \notin DOMAIN tree
  BY <1>1, <1>4 DEF Exists
<1>6. /\ LinkPath \in Path /\ LinkPath # <<>> /\ LinkPath \notin Prefixes(Root)
      /\ IsPrefix(Root, LinkPath) /\ Last(LinkPath) # StagingName
  BY <1>3, InPlace DEF LinkPath
<1>16. PICK u \in Directories(tree, Front(LinkPath)) :
         \E v \in Removals(u, LinkPath) : tree' = v \/ tree' = With(v, LinkPath, Link(L.target))
  BY <1>1
<1>7. PICK v \in Removals(u, LinkPath) :
        tree' = v \/ tree' = With(v, LinkPath, Link(L.target))
  BY <1>16
<1>8. PICK S : /\ SameBut(tree, v, S)
               /\ \A q \in S : MayChange(q) /\ q # <<>> /\ Last(q) # StagingName
               /\ \A q \in S \cap DOMAIN v : v[q] = Dir
               /\ \A q : KindAt(v, q) = "link" => KindAt(tree, q) = "link"
  BY <1>3, <1>4, <1>5, <1>7, WayChanges DEF LinkPath
<1>9. InputsSane'
  BY <1>1 DEF EInv, InputsSane
<1>10. ControlSane'
  BY <1>1 DEF ControlSane, Reading
<1>11. QueuesSane'
  <2>1. Chosen \cap Dangling(archive) = {}
    BY <1>1 DEF EInv, QueuesSane
  <2> QED BY <1>1, <1>2, <2>1, ChosenStays DEF EInv, QueuesSane
<1>12. DataGrows /\ written' \ written = {}
  BY <1>1, SequenceHas DEF DataGrows, EInv, NodesInv, TreeSane
<1>13. CASE tree' = v
  <2>1. \A q \in S \cap DOMAIN tree' : FreshNode(q)
    BY <1>8, <1>13, DirFresh
  <2>2. NodesInv'
    BY <1>1, <1>8, <1>12, <1>13, <2>1, ChangeTree DEF EInv
  <2>3. StagedSane'
    BY <1>1, <1>8, <1>13, NoStaging DEF EInv
  <2> QED BY <1>9, <1>10, <1>11, <2>2, <2>3 DEF EInv
<1>14. CASE tree' = With(v, LinkPath, Link(L.target))
  <2> DEFINE d == LinkPath
             w == With(v, d, Link(L.target))
             T == S \cup {d}
  <2>1. /\ d \in Path /\ d # <<>> /\ d \notin Prefixes(Root)
        /\ IsPrefix(Root, d) /\ Last(d) # StagingName
        /\ Clear(tree, d) /\ (options.policy # "all" => d \notin DOMAIN tree)
    BY <1>4, <1>5, <1>6
  <2> HIDE DEF d
  <2>2. Clear(v, d)
    BY <1>8, <2>1, StillOnTheWay
  <2>3. DOMAIN w = DOMAIN v \cup {d} /\ w[d] = Link(L.target) /\ SameBut(v, w, {d})
    BY <2>1, <2>2, WithIs
  <2> HIDE DEF w
  <2>4. tree' = w
    BY <1>14 DEF w, d
  <2>5. SameBut(tree, tree', T)
    <3>1. SameBut(tree, v, T) /\ SameBut(v, w, T)
      BY <1>8, <2>3, SameButGrows
    <3> QED BY <2>4, <3>1, SameTwice
  <2>6. \A q \in T : MayChange(q) /\ Last(q) # StagingName
    <3>1. MayChange(d)
      BY <2>1, MayChangeNew
    <3> QED BY <1>8, <2>1, <3>1
  <2>7. \A q \in T \cap DOMAIN tree' : FreshNode(q)
    <3> SUFFICES ASSUME NEW q \in T, q \in DOMAIN tree' PROVE FreshNode(q)
      OBVIOUS
    <3>1. CASE q = d
      <4>1. tree'[q] = Link(L.target) /\ todo' = <<>>
        BY <1>1, <2>3, <2>4, <3>1
      <4> QED BY <1>3, <4>1 DEF FreshNode, Link
    <3>2. CASE q # d
      <4>1. q \in S \cap DOMAIN v
        BY <2>3, <2>4, <3>2
      <4>2. tree'[q] = Dir
        BY <1>8, <2>3, <2>4, <3>2, <4>1 DEF SameBut, SameAt
      <4> QED BY <4>2, DirFresh
    <3> QED BY <3>1, <3>2
  <2> HIDE DEF T
  <2>8. NodesInv'
    BY <1>1, <1>12, <2>5, <2>6, <2>7, ChangeTree DEF EInv
  <2>9. StagedSane'
    BY <1>1, <2>5, <2>6, NoStaging DEF EInv
  <2> QED BY <1>9, <1>10, <1>11, <2>8, <2>9 DEF EInv
<1> QED BY <1>7, <1>13, <1>14

----------------------------------------------------------------------------
(* Hard links.                                                             *)

\* What a copy does, by what is where it ends up.
LEMMA CopiedIs ==
  ASSUME NEW v, Real(v, Original) = Original, Real(v, Target) = Target, NEW c \in Copied(v)
  PROVE  LET q == Follow(v, Target)
         IN  \/ /\ KindAt(v, q) = "file" /\ c.tree = v
                /\ \E x : c.data = [data EXCEPT ![v[q].inode] = x]
                /\ c.paths = {Target, q} /\ c.inodes = {v[q].inode}
             \/ /\ KindAt(v, q) = "none" /\ c.tree = With(v, q, File(Len(data) + 1))
                /\ \E x : c.data = Append(data, x)
                /\ c.paths = {Target, q} /\ c.inodes = {Len(data) + 1}
             \/ c.tree = v /\ c.data = data /\ c.paths = {Target} /\ c.inodes = {}
<1> DEFINE q == Follow(v, Target)
           o == Original
           Failed == [tree |-> v, data |-> data, paths |-> {Target}, inodes |-> {}]
           over == KindAt(v, o) = "file" /\ KindAt(v, q) = "file" /\ v[o] # v[q]
           made == KindAt(v, o) = "file" /\ KindAt(v, q) = "none" /\ Writable(v, q)
<1>1. CASE over
  <2>1. KindAt(v, q) = "file"
    BY <1>1
  <2>2. PICK x : c = [tree |-> v, data |-> [data EXCEPT ![v[q].inode] = x],
                      paths |-> {Target, q}, inodes |-> {v[q].inode}]
    BY <1>1 DEF Copied
  <2>3. /\ c.tree = v /\ c.data = [data EXCEPT ![v[q].inode] = x]
        /\ c.paths = {Target, q} /\ c.inodes = {v[q].inode}
    BY <2>2
  <2> HIDE DEF q
  <2>4. /\ KindAt(v, q) = "file" /\ c.tree = v
        /\ \E y : c.data = [data EXCEPT ![v[q].inode] = y]
        /\ c.paths = {Target, q} /\ c.inodes = {v[q].inode}
    BY <2>1, <2>3
  <2> QED BY <2>4 DEF q
<1>2. CASE ~over /\ made
  <2>1. \/ \E x : c = [tree |-> With(v, q, File(Len(data) + 1)), data |-> Append(data, x),
                       paths |-> {Target, q}, inodes |-> {Len(data) + 1}]
        \/ c = Failed
    BY <1>2 DEF Copied
  <2> QED BY <1>2, <2>1
<1>3. CASE ~over /\ ~made
  <2>1. c = Failed
    BY <1>3 DEF Copied
  <2> QED BY <2>1
<1> QED BY <1>1, <1>2, <1>3

\* The file a hard link is made to was written by this run.
LEMMA OriginalIsWhole ==
  ASSUME EInv, todo # <<>>, Relinks, KindAt(tree, Original) = "file",
         tree[Original].inode \notin copied.inodes
  PROVE  /\ tree[Original].inode > Len(before.data)
         /\ data[tree[Original].inode] \in ContentsOf(Head(todo))
<1>1. /\ Canonical \in DOMAIN archive /\ archive[Canonical].path = E.target
      /\ archive[Canonical].kind = "file" /\ Named(E.target) /\ Canonical \in written
  BY CanonicalIs DEF Relinks
<1>2. /\ Original \in DOMAIN tree /\ tree[Original].kind = "file" /\ Below(Original, Root)
      /\ Last(Original) # StagingName
  BY <1>1, InDestination, InPlace DEF KindAt, Original
<1>3. tree[Original].inode > Len(before.data)
  BY <1>1 DEF EInv, NodesInv, WrittenSane, Original
<1>4. WholeFile(Original)
  BY <1>2 DEF EInv, NodesInv, FilesSane
<1>5. Delivered(Original)
  <2> SUFFICES ASSUME Original \in DOMAIN before.tree, before.tree[Original] = tree[Original]
               PROVE  FALSE
    BY <1>4 DEF WholeFile
  <2>1. tree[Original].inode \in 1..Len(before.data)
    <3>1. IsSequence(before.data)
      BY DEF EInv, InputsSane, IsFileSystem
    <3>2. tree[Original].inode \in DOMAIN before.data
      <4> DEFINE node == before.tree[Original]
      <4>1. node.kind = "file"
        BY <1>2
      <4>2. \/ node = Dir
            \/ node.kind = "file" /\ node = File(node.inode) /\ node.inode \in DOMAIN before.data
            \/ node.kind = "link"
        BY DEF EInv, InputsSane, IsFileSystem
      <4>3. Dir.kind # "file"
        BY DEF Dir
      <4> QED BY <4>1, <4>2, <4>3
    <3> QED BY <3>1, <3>2, SequenceHas
  <2> QED BY <1>3, <2>1
<1>6. PICK j \in Chosen : /\ Root \o archive[j].path = Original
                          /\ archive[j].kind \in {"file", "hardlink"}
                          /\ HoldsFile(Original, ContentsOf(j))
  BY <1>5 DEF Delivered
<1>7. j \in DOMAIN archive /\ Named(archive[j].path)
  BY <1>6, ChosenAre DEF EInv, InputsSane, IsArchive
<1>8. archive[j].path = E.target
  BY <1>1, <1>6, <1>7, SameInDestination DEF Original
<1>9. Head(todo) \in DOMAIN archive /\ archive[Head(todo)].kind = "hardlink"
  BY HeadIsChosen DEF EInv, Relinks, E
<1>10. ContentsOf(j) \subseteq ContentsOf(Head(todo))
  BY <1>6, <1>7, <1>8, <1>9, ContentsOfLink DEF E
<1> QED BY <1>3, <1>6, <1>10 DEF HoldsFile

\* A relink under way: v is the tree with the way to the target cleared, S what that
\* changed.
Relinking(v, S) ==
  /\ EInv /\ Relink
  /\ SameBut(tree, v, S)
  /\ \A q \in S : MayChange(q) /\ q # <<>> /\ Last(q) # StagingName
  /\ \A q \in S \cap DOMAIN v : v[q] = Dir
  /\ \A q : KindAt(v, q) = "link" => KindAt(tree, q) = "link"

\* What a relink changes besides the tree, the inodes and what a copy wrote to.
LEMMA RelinkAround ==
  ASSUME EInv, Relink
  PROVE  /\ UNCHANGED <<before, archive, options, pc, links, dirs, staged, written, warned>>
         /\ pc = "entry" /\ todo # <<>> /\ staged = 0 /\ Named(E.path) /\ todo' = Tail(todo)
         /\ Clear(tree, Target) /\ Real(tree, Target) = Target
         /\ options.policy # "all" => Target \notin DOMAIN tree
         /\ InputsSane' /\ ControlSane' /\ QueuesSane'
         /\ (todo' # <<>> => todo # <<>>) /\ written' \ written = {}
<1>1. /\ UNCHANGED <<before, archive, options, pc, links, dirs, staged, written, warned>>
      /\ Entered /\ ~Refused /\ ~Blocked("fail") /\ ~Blocked("skip")
      /\ pc = "entry" /\ todo # <<>> /\ todo' = Tail(todo)
  BY DEF Relink, Entered, EntryDone
<1>2. /\ staged = 0 /\ Named(E.path)
      /\ Clear(tree, Target) /\ Real(tree, Target) = Target
      /\ options.policy # "all" => Target \notin DOMAIN tree
  BY <1>1, TargetFree
<1>3. InputsSane'
  BY <1>1 DEF EInv, InputsSane
<1>4. ControlSane'
  BY <1>1, <1>2 DEF ControlSane, Reading
<1>5. QueuesSane'
  BY <1>1, TailQueues
<1> QED BY <1>1, <1>2, <1>3, <1>4, <1>5

\* The original is reached without links and keeps its place.
LEMMA OriginalStays ==
  ASSUME NEW v, NEW S, Relinking(v, S)
  PROVE  /\ Named(E.target) /\ Real(v, Original) = Original
         /\ Clear(tree, Original) /\ Original \in Path /\ Original # <<>>
<1>1. ~ThroughLink(tree, Original) /\ E.kind = "hardlink" /\ todo # <<>>
  BY DEF Relinking, Relink, Refused, Relinks, Entered
<1>2. Named(E.target)
  BY <1>1, CanonicalIs DEF Relinking
<1>3. Original \in Path /\ Original # <<>>
  BY <1>2, InPlace DEF Original
<1>4. Clear(tree, Original)
  BY <1>1, <1>2, OnTheWay DEF Relinking, Original
<1>5. Real(v, Original) = Original
  BY <1>3, <1>4, StillOnTheWay DEF Relinking
<1> QED BY <1>2, <1>3, <1>4, <1>5

\* A link is made to the whole file that is there.
LEMMA RelinkLinks ==
  ASSUME NEW v, NEW S, Relinking(v, S), KindAt(v, Real(v, Original)) = "file",
         tree' = With(v, Target, v[Real(v, Original)]), UNCHANGED <<data, copied>>
  PROVE  EInv'
<1>1. EInv /\ Relink
  BY DEF Relinking
<1>2. /\ UNCHANGED <<before, archive, options, pc, links, dirs, staged, written, warned>>
      /\ todo # <<>> /\ staged = 0 /\ Named(E.path) /\ todo' = Tail(todo)
      /\ Clear(tree, Target)
      /\ options.policy # "all" => Target \notin DOMAIN tree
      /\ InputsSane' /\ ControlSane' /\ QueuesSane'
      /\ (todo' # <<>> => todo # <<>>) /\ written' \ written = {}
  BY <1>1, RelinkAround
<1>3. PICK p : p = Target
  OBVIOUS
<1>4. PICK o : o = Original
  OBVIOUS
<1>5. /\ p \in Path /\ p # <<>> /\ p \notin Prefixes(Root)
      /\ IsPrefix(Root, p) /\ Last(p) # StagingName /\ Clear(v, p)
  <2>1. /\ Target \in Path /\ Target # <<>> /\ Target \notin Prefixes(Root)
        /\ IsPrefix(Root, Target) /\ Last(Target) # StagingName
    BY <1>2, InPlace DEF Target
  <2>2. Clear(v, Target)
    BY <1>2, <2>1, StillOnTheWay DEF Relinking
  <2> QED BY <1>3, <2>1, <2>2
<1>6. Real(v, Original) = o /\ KindAt(v, o) = "file" /\ tree' = With(v, p, v[o])
  BY <1>3, <1>4, OriginalStays
<1>7. o \in DOMAIN v /\ v[o].kind = "file"
  BY <1>6 DEF KindAt
<1>8. o \in DOMAIN tree /\ tree[o] = v[o] /\ tree[o] = File(tree[o].inode)
      /\ tree[o].inode \in 1..Len(data)
  <2>1. o \notin S
    BY <1>7 DEF Relinking, Dir
  <2>2. o \in DOMAIN tree /\ tree[o] = v[o]
    BY <1>7, <2>1 DEF Relinking, SameBut, SameAt, Dir
  <2>3. IsNode(tree[o], Len(data))
    BY <1>1, <2>2 DEF EInv, NodesInv, TreeSane, IsTree
  <2> QED BY <1>7, <2>2, <2>3 DEF IsNode
<1>9. PICK i : i = Head(todo)
  OBVIOUS
<1>10. /\ i \in Chosen /\ i \in DOMAIN archive /\ Root \o archive[i].path = p
       /\ archive[i].kind = "hardlink"
  <2>1. i \in Chosen /\ i \in DOMAIN archive
    BY <1>1, <1>2, <1>9, HeadIsChosen DEF EInv
  <2> QED BY <1>1, <1>3, <1>9, <2>1 DEF Relink, Relinks, E, Target
<1>11. \/ tree[o].inode \in copied.inodes
       \/ tree[o].inode > Len(before.data) /\ data[tree[o].inode] \in ContentsOf(i)
  <2>1. Relinks
    BY <1>1 DEF Relink
  <2>2. KindAt(tree, o) = "file"
    BY <1>7, <1>8 DEF KindAt
  <2> QED BY <1>1, <1>2, <1>4, <1>9, <2>1, <2>2, OriginalIsWhole
<1>12. ContentsOf(i)' = ContentsOf(i) /\ Chosen' = Chosen
  BY <1>2, ChosenStays DEF ContentsOf, Chain, HardLinks, Closed
<1>13. DataGrows
  BY <1>1, <1>2, SequenceHas DEF DataGrows, EInv, NodesInv, TreeSane
<1> DEFINE T == S \cup {p}
<1>14. /\ DOMAIN tree' = DOMAIN v \cup {p} /\ tree'[p] = tree[o]
       /\ SameBut(v, tree', {p})
  <2> DEFINE w == With(v, p, v[o])
  <2>1. DOMAIN w = DOMAIN v \cup {p} /\ w[p] = v[o] /\ SameBut(v, w, {p})
    BY <1>5, WithIs
  <2> HIDE DEF w
  <2>2. tree' = w
    BY <1>6 DEF w
  <2> QED BY <1>8, <2>1, <2>2
<1>15. SameBut(tree, tree', T)
  <2>1. SameBut(tree, v, T) /\ SameBut(v, tree', T)
    BY <1>14, SameButGrows DEF Relinking
  <2> QED BY <2>1, SameTwice
<1>16. \A q \in T : MayChange(q) /\ q # <<>> /\ Last(q) # StagingName
  <2>1. MayChange(p)
    BY <1>1, <1>2, <1>3, <1>5, MayChangeNew
  <2> QED BY <1>5, <2>1 DEF Relinking
<1>17. \A q \in T \cap DOMAIN tree' : FreshNode(q)
  <2> SUFFICES ASSUME NEW q \in T, q \in DOMAIN tree' PROVE FreshNode(q)
    OBVIOUS
  <2>1. CASE q = p
    <3>1. tree'[p] = File(tree'[p].inode) /\ tree'[p].inode \in 1..Len(data')
          /\ tree'[p].kind = "file"
      BY <1>7, <1>8, <1>14
    <3>2. tree'[p].inode \in copied'.inodes
          \/ (tree'[p].inode > Len(before.data) /\ data'[tree'[p].inode] \in ContentsOf(i))
      BY <1>11, <1>14
    <3>3. CASE tree'[p].inode \in copied'.inodes
      BY <2>1, <3>1, <3>3 DEF FreshNode
    <3>4. CASE /\ tree'[p].inode > Len(before.data)
               /\ data'[tree'[p].inode] \in ContentsOf(i)
      <4>1. i \in Chosen' /\ Root \o archive'[i].path = p /\ archive'[i].kind = "hardlink"
        BY <1>2, <1>10, <1>12
      <4>2. HoldsFile(p, ContentsOf(i))'
        BY <1>12, <1>14, <3>1, <3>4 DEF HoldsFile, KindAt
      <4>3. Delivered(p)'
        BY <4>1, <4>2 DEF Delivered
      <4> QED BY <2>1, <3>1, <3>4, <4>3 DEF FreshNode
    <3> QED BY <3>2, <3>3, <3>4
  <2>2. CASE q # p
    <3>1. q \in S /\ q \in DOMAIN v
      BY <1>14, <2>2
    <3>2. tree'[q] = Dir
      BY <1>14, <2>2, <3>1 DEF Relinking, SameBut, SameAt
    <3> QED BY <3>2, DirFresh
  <2> QED BY <2>1, <2>2
<1> HIDE DEF T
<1>18. NodesInv'
  BY <1>1, <1>2, <1>13, <1>15, <1>16, <1>17, ChangeTree DEF EInv
<1>19. StagedSane'
  BY <1>1, <1>2, <1>15, <1>16, NoStaging DEF EInv
<1> QED BY <1>2, <1>18, <1>19 DEF EInv

\* Where the copy that stands in for a link ends up.
LEMMA CopyGoesTo ==
  ASSUME NEW v, NEW S, Relinking(v, S), NEW q, q = Follow(v, Target)
  PROVE  /\ Real(v, Target) = Target
         /\ KindAt(v, q) = "file" => v[q].inode \in 1..Len(data)
         /\ KindAt(v, q) = "none" =>
              /\ q \in Path /\ q # <<>> /\ q \notin Prefixes(Root)
              /\ Last(q) # StagingName /\ Clear(v, q)
              /\ IsPrefix(Root, q) \/ q # Target
              /\ options.policy # "all" => q \notin DOMAIN tree
<1>1. EInv /\ Relink
  BY DEF Relinking
<1>2. /\ todo # <<>> /\ Named(E.path) /\ Clear(tree, Target)
      /\ options.policy # "all" => Target \notin DOMAIN tree
  BY <1>1, RelinkAround
<1>3. /\ Target \in Path /\ Target # <<>> /\ Target \notin Prefixes(Root)
      /\ IsPrefix(Root, Target) /\ Last(Target) # StagingName
  BY <1>2, InPlace DEF Target
<1>4. Clear(v, Target) /\ Real(v, Target) = Target
  BY <1>2, <1>3, StillOnTheWay DEF Relinking
<1>5. ASSUME KindAt(v, q) = "file" PROVE v[q].inode \in 1..Len(data)
  <2>1. q \in DOMAIN v /\ v[q].kind = "file"
    BY <1>5 DEF KindAt
  <2>2. q \notin S
    BY <2>1 DEF Relinking, Dir
  <2>3. q \in DOMAIN tree /\ tree[q] = v[q]
    BY <2>1, <2>2 DEF Relinking, SameBut, SameAt, Dir
  <2>4. IsNode(v[q], Len(data))
    BY <1>1, <2>3 DEF EInv, NodesInv, TreeSane, IsTree
  <2> QED BY <2>1, <2>4 DEF IsNode
<1>6. CASE KindAt(v, Target) # "link"
  <2>1. q = Target
    BY <1>6 DEF Follow
  <2> QED BY <1>2, <1>3, <1>4, <1>5, <2>1
<1>7. CASE KindAt(v, Target) = "link"
  <2>1. q = v[Target].to /\ Target \in DOMAIN v /\ v[Target].kind = "link"
    BY <1>7 DEF Follow, KindAt
  <2>2. Target \notin S
    BY <2>1 DEF Relinking, Dir
  <2>3. Target \in DOMAIN tree /\ tree[Target] = v[Target]
    BY <2>1, <2>2 DEF Relinking, SameBut, SameAt, Dir
  <2>4. \A r \in DOMAIN tree :
          tree[r].kind = "link" => r \in DOMAIN before.tree /\ before.tree[r] = tree[r]
    BY <1>1, <1>2 DEF EInv, NodesInv, LinksSane
  <2>5. Target \in DOMAIN before.tree /\ before.tree[Target] = v[Target]
    BY <2>1, <2>3, <2>4
  <2>6. /\ q \in Path
        /\ q # <<>> => Last(q) # StagingName
        /\ \A r \in Prefixes(q) : KindAt(before.tree, r) # "link"
    <3> DEFINE node == before.tree[Target]
    <3>1. \/ node = Dir
          \/ node.kind = "file"
          \/ /\ node.to \in Path
             /\ node.to # <<>> => Last(node.to) # StagingName
             /\ \A r \in Prefixes(node.to) : KindAt(before.tree, r) # "link"
      BY <1>1, <2>5 DEF EInv, InputsSane, IsFileSystem
    <3> QED BY <2>1, <2>5, <3>1 DEF Dir
  <2>7. \A r : KindAt(v, r) = "link" => KindAt(before.tree, r) = "link"
    <3> SUFFICES ASSUME NEW r, KindAt(v, r) = "link" PROVE KindAt(before.tree, r) = "link"
      OBVIOUS
    <3>1. KindAt(tree, r) = "link"
      BY DEF Relinking
    <3>2. r \in DOMAIN tree /\ tree[r].kind = "link"
      BY <3>1 DEF KindAt
    <3> QED BY <2>4, <3>2 DEF KindAt
  <2>8. ASSUME KindAt(v, q) = "none"
        PROVE  q \notin Prefixes(Root) /\ q # <<>>
    <3> SUFFICES ASSUME q \in Prefixes(Root) PROVE FALSE
      <4>1. <<>> \in Prefixes(Root)
        <5>1. Root \in Path
          BY RootAssumption DEF Named
        <5>2. SubSeq(Root, 1, 0) \in Prefixes(Root) /\ SubSeq(Root, 1, 0) \in Path
              /\ Len(SubSeq(Root, 1, 0)) = 0
          <6>1. 0 \in 0..Len(Root)
            BY <5>1 DEF Path
          <6> QED BY <5>1, <6>1, Initial
        <5> QED BY <5>2, EmptySeq DEF Path
      <4> QED BY <4>1
    <3>1. KindAt(tree, q) = "dir"
      BY <1>1 DEF EInv, NodesInv, TreeSane, IsTree
    <3>2. q \notin S
      BY DEF Relinking, MayChange
    <3> QED BY <2>8, <3>1, <3>2, SameKind DEF Relinking, SameBut
  <2>9. Clear(v, q)
    <3> SUFFICES ASSUME NEW k \in 0..(Len(q) - 1) PROVE KindAt(v, SubSeq(q, 1, k)) # "link"
      BY DEF Clear
    <3>1. SubSeq(q, 1, k) \in Prefixes(q)
      <4>1. k \in 0..Len(q)
        <5>1. Len(q) \in Nat
          BY <2>6, LenProperties DEF Path
        <5> QED BY <5>1
      <4> QED BY <2>6, <4>1, Initial
    <3> QED BY <2>6, <2>7, <3>1
  <2>10. ASSUME KindAt(v, q) = "none" PROVE q # Target
    BY <1>7, <2>10
  <2>11. ~(options.policy # "all")
    BY <1>2, <2>3
  <2>12. KindAt(v, q) = "none" =>
           /\ q \in Path /\ q # <<>> /\ q \notin Prefixes(Root)
           /\ Last(q) # StagingName /\ Clear(v, q) /\ q # Target
    BY <2>6, <2>8, <2>9, <2>10
  <2> QED BY <1>4, <1>5, <2>11, <2>12
<1> QED BY <1>6, <1>7

\* Relink keeps the invariant where it copies.
LEMMA RelinkCopies ==
  ASSUME NEW v, NEW S, Relinking(v, S), NEW c \in Copied(v),
         tree' = c.tree, data' = c.data,
         copied' = [paths |-> copied.paths \cup c.paths, inodes |-> copied.inodes \cup c.inodes]
  PROVE  EInv'
<1>1. EInv /\ Relink
  BY DEF Relinking
<1>2. /\ UNCHANGED <<before, archive, options, pc, links, dirs, staged, written, warned>>
      /\ todo # <<>> /\ staged = 0 /\ Named(E.path) /\ todo' = Tail(todo)
      /\ InputsSane' /\ ControlSane' /\ QueuesSane'
      /\ (todo' # <<>> => todo # <<>>) /\ written' \ written = {}
  BY <1>1, RelinkAround
<1>3. PICK q : q = Follow(v, Target)
  OBVIOUS
<1>4. /\ Real(v, Target) = Target
      /\ KindAt(v, q) = "file" => v[q].inode \in 1..Len(data)
      /\ KindAt(v, q) = "none" =>
           /\ q \in Path /\ q # <<>> /\ q \notin Prefixes(Root)
           /\ Last(q) # StagingName /\ Clear(v, q)
           /\ IsPrefix(Root, q) \/ q # Target
           /\ options.policy # "all" => q \notin DOMAIN tree
  BY <1>3, CopyGoesTo
<1>5. Real(v, Original) = Original
  BY OriginalStays
<1>6. \/ /\ KindAt(v, q) = "file" /\ c.tree = v
         /\ \E x : c.data = [data EXCEPT ![v[q].inode] = x]
         /\ c.paths = {Target, q} /\ c.inodes = {v[q].inode}
      \/ /\ KindAt(v, q) = "none" /\ c.tree = With(v, q, File(Len(data) + 1))
         /\ \E x : c.data = Append(data, x)
         /\ c.paths = {Target, q} /\ c.inodes = {Len(data) + 1}
      \/ c.tree = v /\ c.data = data /\ c.paths = {Target} /\ c.inodes = {}
  BY <1>3, <1>4, <1>5, CopiedIs
<1>7. /\ IsSequence(data) /\ Len(data) \in Nat /\ Len(before.data) \in Nat
      /\ Len(before.data) <= Len(data) /\ copied.inodes \subseteq 1..Len(data)
  BY <1>1, SequenceHas DEF EInv, NodesInv, TreeSane, InputsSane, IsFileSystem
<1>8. ASSUME tree' = v, DataGrows PROVE EInv'
  <2>1. \A r \in S \cap DOMAIN tree' : FreshNode(r)
    BY <1>8, DirFresh DEF Relinking
  <2>2. SameBut(tree, tree', S) /\ \A r \in S : MayChange(r) /\ Last(r) # StagingName
    BY <1>8 DEF Relinking
  <2>3. NodesInv'
    BY <1>1, <1>2, <1>8, <2>1, <2>2, ChangeTree DEF EInv
  <2>4. StagedSane'
    BY <1>1, <1>2, <2>2, NoStaging DEF EInv
  <2> QED BY <1>2, <2>3, <2>4 DEF EInv
<1>9. copied.paths \subseteq copied'.paths /\ copied.inodes \subseteq copied'.inodes
      /\ copied'.inodes = copied.inodes \cup c.inodes /\ c.paths \subseteq copied'.paths
  OBVIOUS
<1>10. CASE /\ KindAt(v, q) = "file" /\ c.tree = v
            /\ \E x : c.data = [data EXCEPT ![v[q].inode] = x]
            /\ c.inodes = {v[q].inode}
  <2>1. PICK x : data' = [data EXCEPT ![v[q].inode] = x]
    BY <1>10
  <2>2. IsSequence(data') /\ Len(data') = Len(data)
        /\ \A j \in 1..Len(data) : j # v[q].inode => data'[j] = data[j]
    <3>1. PICK k : k = v[q].inode
      OBVIOUS
    <3>2. data' = [data EXCEPT ![k] = x]
      BY <2>1, <3>1
    <3>3. IsSequence(data') /\ Len(data') = Len(data)
          /\ \A j \in 1..Len(data) : j # k => data'[j] = data[j]
      <4>1. ASSUME NEW d, d = [data EXCEPT ![k] = x]
            PROVE  /\ IsSequence(d) /\ Len(d) = Len(data)
                   /\ \A j \in 1..Len(data) : j # k => d[j] = data[j]
        <5>1. IsSequence(data)
          BY <1>7
        <5> QED BY <4>1, <5>1, SequenceChanges, SequenceHas
      <4> QED BY <3>2, <4>1
    <3> QED BY <3>1, <3>3
  <2>3. v[q].inode \in 1..Len(data)
    BY <1>4, <1>10
  <2>4. DataGrows
    BY <1>7, <1>9, <1>10, <2>2, <2>3 DEF DataGrows
  <2> QED BY <1>8, <1>10, <2>4
<1>11. CASE /\ KindAt(v, q) = "none" /\ c.tree = With(v, q, File(Len(data) + 1))
            /\ \E x : c.data = Append(data, x)
            /\ c.paths = {Target, q} /\ c.inodes = {Len(data) + 1}
  <2>1. PICK x : data' = Append(data, x)
    BY <1>11
  <2>2. IsSequence(data') /\ Len(data') = Len(data) + 1
        /\ \A j \in 1..Len(data) : data'[j] = data[j]
    BY <1>7, <2>1, SequenceAppends
  <2>3. DataGrows
    BY <1>7, <1>9, <1>11, <2>2 DEF DataGrows
  <2>4. /\ q \in Path /\ q # <<>> /\ q \notin Prefixes(Root)
        /\ Last(q) # StagingName /\ Clear(v, q)
        /\ options.policy # "all" => q \notin DOMAIN tree
    BY <1>4, <1>11
  <2>5. q \in copied'.paths
    BY <1>9, <1>11
  <2> DEFINE T == S \cup {q}
  <2>6. /\ DOMAIN tree' = DOMAIN v \cup {q} /\ tree'[q] = File(Len(data) + 1)
        /\ SameBut(v, tree', {q})
    <3> DEFINE w == With(v, q, File(Len(data) + 1))
    <3>1. /\ DOMAIN w = DOMAIN v \cup {q} /\ w[q] = File(Len(data) + 1)
          /\ SameBut(v, w, {q})
      BY <2>4, WithIs
    <3> HIDE DEF w
    <3>2. tree' = w
      BY <1>11 DEF w
    <3> QED BY <3>1, <3>2
  <2>7. SameBut(tree, tree', T)
    <3>1. SameBut(tree, v, T) /\ SameBut(v, tree', T)
      BY <2>6, SameButGrows DEF Relinking
    <3> QED BY <3>1, SameTwice
  <2>8. \A r \in T : MayChange(r) /\ Last(r) # StagingName
    <3>1. MayChange(q)
      BY <1>1, <2>4, <2>5, MayChangeNew
    <3> QED BY <2>4, <3>1 DEF Relinking
  <2>9. \A r \in T \cap DOMAIN tree' : FreshNode(r)
    <3> SUFFICES ASSUME NEW r \in T, r \in DOMAIN tree' PROVE FreshNode(r)
      OBVIOUS
    <3>1. CASE r = q
      <4>1. tree'[r] = File(tree'[r].inode) /\ tree'[r].inode = Len(data) + 1
        BY <2>6, <3>1 DEF File
      <4>2. tree'[r].inode \in 1..Len(data') /\ tree'[r].inode \in copied'.inodes
        BY <1>7, <1>9, <1>11, <2>2, <4>1
      <4> QED BY <4>1, <4>2 DEF FreshNode
    <3>2. CASE r # q
      <4>1. r \in S /\ r \in DOMAIN v
        BY <2>6, <3>2
      <4>2. tree'[r] = Dir
        BY <2>6, <3>2, <4>1 DEF Relinking, SameBut, SameAt
      <4> QED BY <4>2, DirFresh
    <3> QED BY <3>1, <3>2
  <2> HIDE DEF T
  <2>10. NodesInv'
    BY <1>1, <1>2, <2>3, <2>7, <2>8, <2>9, ChangeTree DEF EInv
  <2>11. StagedSane'
    BY <1>1, <1>2, <2>7, <2>8, NoStaging DEF EInv
  <2> QED BY <1>2, <2>10, <2>11 DEF EInv
<1>12. CASE c.tree = v /\ c.data = data /\ c.inodes = {}
  <2>1. DataGrows
    BY <1>7, <1>9, <1>12 DEF DataGrows
  <2> QED BY <1>8, <1>12, <2>1
<1> QED BY <1>6, <1>10, <1>11, <1>12

\* Relink keeps the invariant, whether it links or copies.
LEMMA RelinkKeeps ==
  ASSUME EInv, Relink
  PROVE  EInv'
<1> DEFINE Relinked(v) ==
             \/ /\ KindAt(v, Real(v, Original)) = "file"
                /\ tree' = With(v, Target, v[Real(v, Original)])
                /\ UNCHANGED <<data, copied>>
             \/ \E c \in Copied(v) :
                  /\ tree' = c.tree /\ data' = c.data
                  /\ copied' = [paths |-> copied.paths \cup c.paths,
                               inodes |-> copied.inodes \cup c.inodes]
<1>5. PICK u \in Directories(tree, Front(Target)) : \E v \in Removals(u, Target) : Relinked(v)
  BY DEF Relink
<1>1. PICK v \in Removals(u, Target) : Relinked(v)
  BY <1>5
<1>2. /\ Named(E.path) /\ Clear(tree, Target)
      /\ options.policy # "all" => Target \notin DOMAIN tree
  BY RelinkAround
<1>3. PICK S : /\ SameBut(tree, v, S)
               /\ \A q \in S : MayChange(q) /\ q # <<>> /\ Last(q) # StagingName
               /\ \A q \in S \cap DOMAIN v : v[q] = Dir
               /\ \A q : KindAt(v, q) = "link" => KindAt(tree, q) = "link"
  BY <1>1, <1>2, WayChanges DEF Target
<1>4. Relinking(v, S)
  BY <1>3 DEF Relinking
<1> QED BY <1>1, <1>4, RelinkLinks, RelinkCopies

\* Every step of an extraction keeps the invariant.
LEMMA ExtractionKeeps ==
  ASSUME EInv, ExtractNext
  PROVE  EInv'
  BY StartKeeps, ControlKeeps, QueueKeeps, MakeDirectoryKeeps, RelinkKeeps, StageKeeps,
     WriteSliceKeeps, PlaceKeeps, PlaceLinkKeeps, RestoreDirectoryKeeps, UnwindKeeps
     DEF ExtractNext

----------------------------------------------------------------------------
(* The lists of an update.                                                 *)

\* What a scan finds.
IsItem(it) ==
  /\ Named(it.path) /\ it.kind \in {"file", "dir", "symlink"}
  /\ it.mtime \in Nat /\ (it.kind = "file" => it.mtime # 0)
  /\ it.kind = "symlink" => it.target \in Path
  /\ IsSequence(it.content)

IsFound(list) ==
  /\ IsSequence(list) /\ \A i \in DOMAIN list : IsItem(list[i])
  /\ \A i, j \in DOMAIN list :
       list[i].kind = "file" /\ list[j].kind = "file" /\ list[i].node = list[j].node
         => list[i].content = list[j].content

\* The part of a path beneath an input goes under the input's own destination.
LEMMA MappedIs ==
  ASSUME NEW to, Named(to), NEW from \in Path, NEW p, Named(p), IsPrefix(from, p)
  PROVE  Named(to \o SubSeq(p, Len(from) + 1, Len(p)))
<1> DEFINE n == Len(p) - Len(from)
           rest == SubSeq(p, Len(from) + 1, Len(p))
           m == to \o rest
<1>1. /\ p \in Path /\ to \in Path /\ Len(p) \in Nat /\ Len(from) \in Nat
      /\ Len(to) \in Nat \ {0} /\ Len(from) <= Len(p)
  <2>1. p \in Path /\ to \in Path /\ to # <<>>
    BY DEF Named
  <2>2. Len(p) \in Nat /\ Len(from) \in Nat /\ Len(to) \in Nat \ {0}
    BY <2>1, LenProperties, EmptySeq DEF Path
  <2> QED BY <2>1, <2>2, PrefixIs
<1>2. rest \in Path /\ Len(rest) = n /\ \A i \in 1..n : rest[i] = p[Len(from) + i]
  BY <1>1, SubSeqProperties DEF Path
<1> HIDE DEF rest, n
<1>3. n \in Nat
  BY <1>1 DEF n
<1>4. /\ m \in Path /\ Len(m) = Len(to) + n
      /\ \A i \in 1..Len(to) : m[i] = to[i]
      /\ \A i \in 1..n : m[Len(to) + i] = rest[i]
  <2>1. /\ m \in Path /\ Len(m) = Len(to) + Len(rest)
        /\ \A i \in 1..(Len(to) + Len(rest)) :
             m[i] = IF i <= Len(to) THEN to[i] ELSE rest[i - Len(to)]
    BY <1>1, <1>2, ConcatProperties DEF Path
  <2> HIDE DEF m
  <2>2. \A i \in 1..n : /\ Len(to) + i \in 1..(Len(to) + Len(rest))
                       /\ ~(Len(to) + i <= Len(to)) /\ (Len(to) + i) - Len(to) = i
    BY <1>1, <1>2, <1>3
  <2>3. \A i \in 1..n : m[Len(to) + i] = rest[i]
    BY <2>1, <2>2
  <2>4. \A i \in 1..Len(to) : m[i] = to[i]
    BY <1>1, <1>2, <1>3, <2>1
  <2> QED BY <1>2, <2>1, <2>3, <2>4
<1> HIDE DEF m
<1>5. m # <<>>
  BY <1>1, <1>3, <1>4, EmptySeq
<1>6. \A i \in 1..Len(m) : m[i] # StagingName
  <2> SUFFICES ASSUME NEW i \in 1..Len(m) PROVE m[i] # StagingName
    OBVIOUS
  <2>1. CASE i \in 1..Len(to)
    <3>1. i \in DOMAIN to
      BY <1>1, <2>1, LenProperties DEF Path
    <3>2. to[i] \in Range(to)
      BY <3>1 DEF Range
    <3> QED BY <1>4, <2>1, <3>2 DEF Named
  <2>2. CASE i \notin 1..Len(to)
    <3> DEFINE k == i - Len(to)
    <3>1. k \in 1..n /\ i = Len(to) + k
      BY <1>1, <1>3, <1>4, <2>2
    <3>2. m[i] = p[Len(from) + k]
      BY <1>2, <1>4, <3>1
    <3>3. Len(from) + k \in 1..Len(p)
      BY <1>1, <3>1 DEF n
    <3>4. Len(from) + k \in DOMAIN p
      BY <1>1, <3>3, LenProperties DEF Path
    <3>5. p[Len(from) + k] \in Range(p)
      BY <3>4 DEF Range
    <3> QED BY <3>2, <3>5 DEF Named
  <2> QED BY <2>1, <2>2
<1>7. \A x \in Range(m) : x # StagingName
  <2>1. DOMAIN m = 1..Len(m)
    BY <1>4, LenProperties DEF Path
  <2> QED BY <1>6, <2>1 DEF Range
<1>8. Named(m)
  BY <1>4, <1>5, <1>7 DEF Named
<1> QED BY <1>8 DEF m, rest

\* The items at places of a list are among those of the list.
LEMMA PickedFound ==
  ASSUME NEW list, IsFound(list), NEW I \in SUBSET DOMAIN list
  PROVE  /\ IsFound(Picked(list, I))
         /\ I \subseteq Nat /\ IsFiniteSet(I)
         /\ \A k \in DOMAIN Picked(list, I) : \E i \in I : Picked(list, I)[k] = list[i]
<1>1. IsSequence(list) /\ Len(list) \in Nat /\ DOMAIN list = 1..Len(list)
  BY SequenceHas DEF IsFound
<1>2. I \subseteq Nat /\ IsFiniteSet(I)
  <2>1. IsFiniteSet(1..Len(list))
    BY <1>1, FS_Interval
  <2> QED BY <1>1, <2>1, FS_Subset
<1> DEFINE s == Picked(list, I)
<1>3. \A i \in I : list[i] \in Range(list)
  BY DEF Range
<1>4. s \in Seq(Range(list))
  BY <1>2, <1>3, PickedSequence
<1>5. \A k \in DOMAIN s : \E i \in I : s[k] = list[i]
  BY <1>2, PickedIs
<1> HIDE DEF s
<1>6. IsSequence(s)
  BY <1>4, SequenceIs
<1>7. IsFound(s)
  BY <1>5, <1>6 DEF IsFound
<1> QED BY <1>2, <1>5, <1>7 DEF s

\* Two lists joined hold the elements of both, in their order.
LEMMA JoinIs ==
  ASSUME NEW a, IsSequence(a), NEW b, IsSequence(b)
  PROVE  /\ IsSequence(a \o b) /\ Len(a \o b) = Len(a) + Len(b)
         /\ Len(a) \in Nat /\ Len(b) \in Nat
         /\ \A i \in 1..(Len(a) + Len(b)) :
              (a \o b)[i] = IF i <= Len(a) THEN a[i] ELSE b[i - Len(a)]
<1> DEFINE S == Range(a) \cup Range(b)
<1>1. a \in Seq(S) /\ b \in Seq(S)
  <2>1. a \in [1..Len(a) -> Range(a)] /\ Len(a) \in Nat
    BY LenProperties DEF IsSequence
  <2>2. b \in [1..Len(b) -> Range(b)] /\ Len(b) \in Nat
    BY LenProperties DEF IsSequence
  <2>3. a \in [1..Len(a) -> S] /\ b \in [1..Len(b) -> S]
    BY <2>1, <2>2
  <2> QED BY <2>1, <2>2, <2>3
<1> HIDE DEF S
<1>2. /\ a \o b \in Seq(S) /\ Len(a \o b) = Len(a) + Len(b)
      /\ \A i \in 1..(Len(a) + Len(b)) :
           (a \o b)[i] = IF i <= Len(a) THEN a[i] ELSE b[i - Len(a)]
  BY <1>1, ConcatProperties
<1>3. Len(a) \in Nat /\ Len(b) \in Nat
  BY <1>1, LenProperties
<1>4. IsSequence(a \o b)
  BY <1>2, SequenceIs
<1> QED BY <1>2, <1>3, <1>4

\* The same, element by element.
LEMMA JoinHas ==
  ASSUME NEW a, IsSequence(a), NEW b, IsSequence(b)
  PROVE  /\ \A k \in DOMAIN (a \o b) : \/ \E i \in DOMAIN a : k = i /\ (a \o b)[k] = a[i]
                                       \/ \E i \in DOMAIN b : k = Len(a) + i /\ (a \o b)[k] = b[i]
         /\ \A i \in DOMAIN a : i \in DOMAIN (a \o b) /\ (a \o b)[i] = a[i]
         /\ \A i \in DOMAIN b : Len(a) + i \in DOMAIN (a \o b) /\ (a \o b)[Len(a) + i] = b[i]
<1> DEFINE s == a \o b
<1>1. /\ IsSequence(s) /\ Len(s) = Len(a) + Len(b)
      /\ Len(a) \in Nat /\ Len(b) \in Nat
      /\ \A i \in 1..(Len(a) + Len(b)) : s[i] = IF i <= Len(a) THEN a[i] ELSE b[i - Len(a)]
  BY JoinIs
<1> HIDE DEF s
<1>2. DOMAIN s = 1..(Len(a) + Len(b)) /\ DOMAIN a = 1..Len(a) /\ DOMAIN b = 1..Len(b)
  BY <1>1, SequenceHas
<1>3. ASSUME NEW k \in DOMAIN s
      PROVE  \/ \E i \in DOMAIN a : k = i /\ s[k] = a[i]
             \/ \E i \in DOMAIN b : k = Len(a) + i /\ s[k] = b[i]
  <2>1. CASE k <= Len(a)
    <3>1. k \in DOMAIN a /\ s[k] = a[k]
      BY <1>1, <1>2, <2>1
    <3> QED BY <3>1
  <2>2. CASE ~(k <= Len(a))
    <3>1. k - Len(a) \in DOMAIN b /\ k = Len(a) + (k - Len(a)) /\ s[k] = b[k - Len(a)]
      BY <1>1, <1>2, <2>2
    <3> QED BY <3>1
  <2> QED BY <2>1, <2>2
<1>4. \A i \in DOMAIN a : i \in DOMAIN s /\ s[i] = a[i]
  BY <1>1, <1>2
<1>5. ASSUME NEW i \in DOMAIN b PROVE Len(a) + i \in DOMAIN s /\ s[Len(a) + i] = b[i]
  <2>1. /\ Len(a) + i \in 1..(Len(a) + Len(b)) /\ ~(Len(a) + i <= Len(a))
        /\ (Len(a) + i) - Len(a) = i
    BY <1>1, <1>2
  <2> QED BY <1>1, <1>2, <2>1
<1> QED BY <1>3, <1>4, <1>5 DEF s

\* The paths of two lists that are joined.
LEMMA JoinPaths ==
  ASSUME NEW a, IsSequence(a), NEW b, IsSequence(b)
  PROVE  /\ PathsOf(a \o b) = PathsOf(a) \cup PathsOf(b)
         /\ OnePerPath(a) /\ OnePerPath(b) /\ PathsOf(a) \cap PathsOf(b) = {}
              => OnePerPath(a \o b)
<1> DEFINE s == a \o b
<1>1. /\ \A k \in DOMAIN s : \/ \E i \in DOMAIN a : k = i /\ s[k] = a[i]
                             \/ \E i \in DOMAIN b : k = Len(a) + i /\ s[k] = b[i]
      /\ \A i \in DOMAIN a : i \in DOMAIN s /\ s[i] = a[i]
      /\ \A i \in DOMAIN b : Len(a) + i \in DOMAIN s /\ s[Len(a) + i] = b[i]
  BY JoinHas
<1> HIDE DEF s
<1>2. PathsOf(s) \subseteq PathsOf(a) \cup PathsOf(b)
  BY <1>1 DEF PathsOf
<1>3. PathsOf(a) \cup PathsOf(b) \subseteq PathsOf(s)
  <2>1. ASSUME NEW i \in DOMAIN a PROVE \E k \in DOMAIN s : s[k].path = a[i].path
    BY <1>1
  <2>2. ASSUME NEW i \in DOMAIN b PROVE \E k \in DOMAIN s : s[k].path = b[i].path
    BY <1>1
  <2> QED BY <2>1, <2>2 DEF PathsOf
<1>4. ASSUME OnePerPath(a), OnePerPath(b), PathsOf(a) \cap PathsOf(b) = {}
      PROVE  OnePerPath(s)
  <2> SUFFICES ASSUME NEW j \in DOMAIN s, NEW k \in DOMAIN s, s[j].path = s[k].path
               PROVE  j = k
    BY DEF OnePerPath
  <2>1. \A i \in DOMAIN a : a[i].path \in PathsOf(a)
    BY DEF PathsOf
  <2>2. \A i \in DOMAIN b : b[i].path \in PathsOf(b)
    BY DEF PathsOf
  <2>3. CASE (\E i \in DOMAIN a : j = i /\ s[j] = a[i]) /\ (\E i \in DOMAIN a : k = i /\ s[k] = a[i])
    BY <1>4, <2>3 DEF OnePerPath
  <2>4. CASE /\ \E i \in DOMAIN b : j = Len(a) + i /\ s[j] = b[i]
             /\ \E i \in DOMAIN b : k = Len(a) + i /\ s[k] = b[i]
    <3>1. PICK i1 \in DOMAIN b : j = Len(a) + i1 /\ s[j] = b[i1]
      BY <2>4
    <3>2. PICK i2 \in DOMAIN b : k = Len(a) + i2 /\ s[k] = b[i2]
      BY <2>4
    <3>3. i1 = i2
      BY <1>4, <3>1, <3>2 DEF OnePerPath
    <3> QED BY <3>1, <3>2, <3>3
  <2>5. CASE (\E i \in DOMAIN a : s[j] = a[i]) /\ (\E i \in DOMAIN b : s[k] = b[i])
    BY <1>4, <2>1, <2>2, <2>5
  <2>6. CASE (\E i \in DOMAIN b : s[j] = b[i]) /\ (\E i \in DOMAIN a : s[k] = a[i])
    BY <1>4, <2>1, <2>2, <2>6
  <2> QED BY <1>1, <2>3, <2>4, <2>5, <2>6
<1> QED BY <1>2, <1>3, <1>4 DEF s

\* What is picked from a list keeps its paths apart.
LEMMA PickedPaths ==
  ASSUME NEW list, NEW I \in SUBSET DOMAIN list, I \subseteq Nat, IsFiniteSet(I)
  PROVE  /\ PathsOf(Picked(list, I)) = {list[i].path : i \in I}
         /\ OnePerPath(list) => OnePerPath(Picked(list, I))
<1> DEFINE s == Picked(list, I)
           n == Cardinality(I)
<1>1. /\ n \in Nat /\ DOMAIN s = 1..n
      /\ \A k \in 1..n : Nth(I, k) \in I /\ s[k] = list[Nth(I, k)]
      /\ \A i \in I : \E k \in 1..n : s[k] = list[i]
      /\ \A j, k \in 1..n : j < k <=> Nth(I, j) < Nth(I, k)
  <2>1. /\ Cardinality(I) \in Nat
        /\ DOMAIN Picked(list, I) = 1..Cardinality(I)
        /\ \A k \in 1..Cardinality(I) : Nth(I, k) \in I /\ Picked(list, I)[k] = list[Nth(I, k)]
        /\ \A i \in I : \E k \in 1..Cardinality(I) : Picked(list, I)[k] = list[i] /\ Nth(I, k) = i
        /\ \A j, k \in 1..Cardinality(I) : j < k <=> Nth(I, j) < Nth(I, k)
    BY PickedIs
  <2>2. \A i \in I : \E k \in 1..Cardinality(I) : Picked(list, I)[k] = list[i]
    BY <2>1
  <2> QED BY <2>1, <2>2
<1> HIDE DEF s, n
<1>2. PathsOf(s) = {list[i].path : i \in I}
  <2>1. ASSUME NEW k \in DOMAIN s PROVE \E i \in I : s[k].path = list[i].path
    BY <1>1
  <2>2. ASSUME NEW i \in I PROVE \E k \in DOMAIN s : list[i].path = s[k].path
    BY <1>1
  <2> QED BY <2>1, <2>2 DEF PathsOf
<1>3. ASSUME OnePerPath(list) PROVE OnePerPath(s)
  <2> SUFFICES ASSUME NEW j \in 1..n, NEW k \in 1..n, s[j].path = s[k].path PROVE j = k
    BY <1>1 DEF OnePerPath
  <2>1. /\ Nth(I, j) \in I /\ s[j] = list[Nth(I, j)]
        /\ Nth(I, k) \in I /\ s[k] = list[Nth(I, k)]
    BY <1>1
  <2>2. Nth(I, j) = Nth(I, k) /\ Nth(I, j) \in Nat
    BY <1>3, <2>1 DEF OnePerPath
  <2>3. ~(Nth(I, j) < Nth(I, k)) /\ ~(Nth(I, k) < Nth(I, j))
    BY <2>2
  <2>4. (j < k <=> Nth(I, j) < Nth(I, k)) /\ (k < j <=> Nth(I, k) < Nth(I, j))
    BY <1>1
  <2> QED BY <1>1, <2>3, <2>4
<1> QED BY <1>2, <1>3 DEF s

\* Nothing is lost or added when items are put in their order.
LEMMA OrderedIs ==
  ASSUME NEW list, IsFound(list)
  PROVE  LET s == Ordered(list)
         IN  /\ IsFound(s) /\ PathsOf(s) = PathsOf(list)
             /\ \A k \in DOMAIN s : \E i \in DOMAIN list : s[k] = list[i]
             /\ OnePerPath(list) => OnePerPath(s)
<1> DEFINE I == {i \in DOMAIN list : list[i].kind # "file"}
           J == {i \in DOMAIN list : list[i].kind = "file"}
           a == Picked(list, I)
           b == Picked(list, J)
           s == a \o b
<1>1. /\ IsFound(a) /\ I \subseteq Nat /\ IsFiniteSet(I)
      /\ \A k \in DOMAIN a : \E i \in I : a[k] = list[i]
  <2>1. I \in SUBSET DOMAIN list
    OBVIOUS
  <2> HIDE DEF I
  <2> QED BY <2>1, PickedFound
<1>2. /\ IsFound(b) /\ J \subseteq Nat /\ IsFiniteSet(J)
      /\ \A k \in DOMAIN b : \E i \in J : b[k] = list[i]
  <2>1. J \in SUBSET DOMAIN list
    OBVIOUS
  <2> HIDE DEF J
  <2> QED BY <2>1, PickedFound
<1>3. /\ PathsOf(a) = {list[i].path : i \in I}
      /\ OnePerPath(list) => OnePerPath(a)
  <2>1. I \in SUBSET DOMAIN list
    OBVIOUS
  <2> QED BY <1>1, <2>1, PickedPaths
<1>4. /\ PathsOf(b) = {list[i].path : i \in J}
      /\ OnePerPath(list) => OnePerPath(b)
  <2>1. J \in SUBSET DOMAIN list
    OBVIOUS
  <2> QED BY <1>2, <2>1, PickedPaths
<1>5. I \cup J = DOMAIN list /\ I \cap J = {}
  OBVIOUS
<1>6. s = Ordered(list)
  BY DEF Ordered
<1> HIDE DEF I, J, a, b
<1>7. IsSequence(a) /\ IsSequence(b)
  BY <1>1, <1>2 DEF IsFound
<1>8. /\ IsSequence(s)
      /\ \A k \in DOMAIN s : (\E i \in DOMAIN a : s[k] = a[i]) \/ (\E i \in DOMAIN b : s[k] = b[i])
      /\ PathsOf(s) = PathsOf(a) \cup PathsOf(b)
      /\ OnePerPath(a) /\ OnePerPath(b) /\ PathsOf(a) \cap PathsOf(b) = {} => OnePerPath(s)
  <2>1. IsSequence(s)
    BY <1>7, JoinIs
  <2>2. \A k \in DOMAIN s : (\E i \in DOMAIN a : s[k] = a[i]) \/ (\E i \in DOMAIN b : s[k] = b[i])
    BY <1>7, JoinHas
  <2>3. /\ PathsOf(s) = PathsOf(a) \cup PathsOf(b)
        /\ OnePerPath(a) /\ OnePerPath(b) /\ PathsOf(a) \cap PathsOf(b) = {} => OnePerPath(s)
    BY <1>7, JoinPaths
  <2> QED BY <2>1, <2>2, <2>3
<1> HIDE DEF s
<1>9. \A k \in DOMAIN s : \E i \in DOMAIN list : s[k] = list[i]
  BY <1>1, <1>2, <1>5, <1>8
<1>10. IsFound(s)
  BY <1>8, <1>9 DEF IsFound
<1>11. PathsOf(s) = PathsOf(list)
  BY <1>3, <1>4, <1>5, <1>8 DEF PathsOf
<1>12. ASSUME OnePerPath(list) PROVE OnePerPath(s)
  <2>1. PathsOf(a) \cap PathsOf(b) = {}
    BY <1>3, <1>4, <1>5, <1>12 DEF OnePerPath
  <2> QED BY <1>3, <1>4, <1>8, <1>12, <2>1
<1> QED BY <1>6, <1>9, <1>10, <1>11, <1>12

\* The entries added for items: each at the path of its item and of its kind, but for
\* the second path of a file, whose entry names the first.
StoredAs(e, list, k) ==
  LET it == list[k]
      first == Min(Earlier(list, k))
  IN  \/ /\ ~(it.kind = "file" /\ Earlier(list, k) # {})
         /\ e = [path |-> it.path, kind |-> it.kind, content |-> it.content,
                 mtime |-> it.mtime, target |-> it.target]
      \/ /\ it.kind = "file" /\ Earlier(list, k) # {}
         /\ e = [path |-> it.path, kind |-> "hardlink", content |-> <<>>, mtime |-> 0,
                 target |-> list[first].path]

\* The k-th entry added is the k-th item in the order of storing.
LEMMA StoredByOrder ==
  ASSUME NEW list, NEW s, s = Ordered(list)
  PROVE  /\ DOMAIN Stored(list) = DOMAIN s
         /\ \A k \in DOMAIN s : StoredAs(Stored(list)[k], s, k)
<1>1. Stored(list) =
        [k \in DOMAIN s |->
           IF s[k].kind = "file" /\ Earlier(s, k) # {}
           THEN [path |-> s[k].path, kind |-> "hardlink", content |-> <<>>, mtime |-> 0,
                 target |-> s[Min(Earlier(s, k))].path]
           ELSE [path |-> s[k].path, kind |-> s[k].kind, content |-> s[k].content,
                 mtime |-> s[k].mtime, target |-> s[k].target]]
  BY DEF Stored
<1> QED BY <1>1 DEF StoredAs

\* The first path of a file is that of an entry of its own.
LEMMA FirstPath ==
  ASSUME NEW s, IsFound(s), NEW k \in DOMAIN s, s[k].kind = "file", Earlier(s, k) # {}
  PROVE  LET m == Min(Earlier(s, k))
         IN  /\ m \in DOMAIN s /\ s[m].kind = "file" /\ s[m].node = s[k].node
             /\ Earlier(s, m) = {} /\ s[m].content = s[k].content
<1> DEFINE m == Min(Earlier(s, k))
<1>1. DOMAIN s = 1..Len(s) /\ Len(s) \in Nat
  BY SequenceHas DEF IsFound
<1>2. Earlier(s, k) \subseteq Nat
  BY <1>1 DEF Earlier
<1>3. m \in Earlier(s, k) /\ \A j \in Earlier(s, k) : m <= j
  <2>1. \E x \in Earlier(s, k) : \A y \in Earlier(s, k) : x <= y
    BY <1>2, LeastNumber
  <2> QED BY <2>1 DEF Min
<1> HIDE DEF m
<1>4. m \in 1..(k - 1) /\ s[m].kind = "file" /\ s[m].node = s[k].node
  BY <1>3 DEF Earlier
<1>5. m \in DOMAIN s
  BY <1>1, <1>4
<1>6. Earlier(s, m) = {}
  <2> SUFFICES ASSUME NEW j \in Earlier(s, m) PROVE FALSE
    OBVIOUS
  <2>1. j \in 1..(m - 1) /\ s[j].kind = "file" /\ s[j].node = s[k].node
    BY <1>4 DEF Earlier
  <2>2. j \in Earlier(s, k)
    BY <1>1, <1>4, <2>1 DEF Earlier
  <2> QED BY <1>1, <1>3, <1>4, <2>1, <2>2
<1>7. s[m].content = s[k].content
  BY <1>4, <1>5 DEF IsFound
<1> QED BY <1>4, <1>5, <1>6, <1>7 DEF m

\* An archive made of items.
LEMMA StoredIs ==
  ASSUME NEW list, IsFound(list)
  PROVE  LET new == Stored(list)
         IN  /\ IsArchive(new) /\ PathsOf(new) = PathsOf(list)
             /\ \A k \in DOMAIN new : new[k].kind = "hardlink" => new[k].mtime = 0
             /\ OnePerPath(list) => OnePerPath(new)
<1> DEFINE new == Stored(list)
           s == Ordered(list)
<1>1. /\ IsFound(s) /\ PathsOf(s) = PathsOf(list)
      /\ OnePerPath(list) => OnePerPath(s)
  BY OrderedIs
<1>2. DOMAIN new = DOMAIN s /\ \A k \in DOMAIN s : StoredAs(new[k], s, k)
  BY StoredByOrder
<1>3. \A k \in DOMAIN s : new[k].path = s[k].path
  BY <1>2 DEF StoredAs
<1>4. IsSequence(new)
  <2>1. DOMAIN new = 1..Len(s) /\ Len(s) \in Nat
    BY <1>1, <1>2, SequenceHas DEF IsFound
  <2>2. new = [k \in DOMAIN new |-> new[k]]
    BY DEF Stored
  <2> HIDE DEF new
  <2>3. new \in [1..Len(s) -> Range(new)]
    BY <2>1, <2>2 DEF Range
  <2>4. new \in Seq(Range(new))
    BY <2>1, <2>3
  <2> QED BY <2>4 DEF IsSequence
<1> HIDE DEF new, s
<1>5. ASSUME NEW k \in DOMAIN new
      PROVE  /\ Named(new[k].path)
             /\ new[k].kind \in {"file", "dir", "symlink", "hardlink"}
             /\ new[k].kind = "symlink" => new[k].target \in Path
             /\ IsSequence(new[k].content)
             /\ new[k].kind = "hardlink" => new[k].mtime = 0
  <2>1. k \in DOMAIN s /\ IsItem(s[k]) /\ StoredAs(new[k], s, k)
    BY <1>1, <1>2 DEF IsFound
  <2>2. CASE new[k] = [path |-> s[k].path, kind |-> s[k].kind, content |-> s[k].content,
                       mtime |-> s[k].mtime, target |-> s[k].target]
    BY <2>1, <2>2 DEF IsItem
  <2>3. CASE new[k] = [path |-> s[k].path, kind |-> "hardlink", content |-> <<>>, mtime |-> 0,
                       target |-> s[Min(Earlier(s, k))].path]
    <3>1. IsSequence(<<>>)
      BY EmptySeq, SequenceIs
    <3> QED BY <2>1, <2>3, <3>1 DEF IsItem
  <2> QED BY <2>1, <2>2, <2>3 DEF StoredAs
<1>6. IsArchive(new)
  BY <1>4, <1>5 DEF IsArchive
<1>7. PathsOf(new) = PathsOf(s)
  BY <1>2, <1>3 DEF PathsOf
<1>8. OnePerPath(s) => OnePerPath(new)
  BY <1>2, <1>3 DEF OnePerPath
<1> QED BY <1>1, <1>5, <1>6, <1>7, <1>8 DEF new

\* Entries picked from an archive are an archive.
LEMMA PickedArchive ==
  ASSUME NEW list, IsArchive(list), NEW I \in SUBSET DOMAIN list
  PROVE  /\ IsArchive(Picked(list, I)) /\ I \subseteq Nat /\ IsFiniteSet(I)
         /\ \A k \in DOMAIN Picked(list, I) : \E i \in I : Picked(list, I)[k] = list[i]
<1>1. IsSequence(list) /\ Len(list) \in Nat /\ DOMAIN list = 1..Len(list)
  BY SequenceHas DEF IsArchive
<1>2. I \subseteq Nat /\ IsFiniteSet(I)
  <2>1. IsFiniteSet(1..Len(list))
    BY <1>1, FS_Interval
  <2> QED BY <1>1, <2>1, FS_Subset
<1> DEFINE s == Picked(list, I)
<1>3. \A i \in I : list[i] \in Range(list)
  BY DEF Range
<1>4. s \in Seq(Range(list))
  BY <1>2, <1>3, PickedSequence
<1>5. \A k \in DOMAIN s : \E i \in I : s[k] = list[i]
  BY <1>2, PickedIs
<1> HIDE DEF s
<1>6. IsSequence(s)
  BY <1>4, SequenceIs
<1>7. IsArchive(s)
  BY <1>5, <1>6 DEF IsArchive
<1> QED BY <1>2, <1>5, <1>7 DEF s

\* Two archives that are joined are an archive.
LEMMA JoinArchives ==
  ASSUME NEW a, IsArchive(a), NEW b, IsArchive(b)
  PROVE  IsArchive(a \o b)
<1> DEFINE s == a \o b
<1>1. IsSequence(a) /\ IsSequence(b)
  BY DEF IsArchive
<1>2. /\ IsSequence(s)
      /\ \A k \in DOMAIN s : (\E i \in DOMAIN a : s[k] = a[i]) \/ (\E i \in DOMAIN b : s[k] = b[i])
  <2>1. IsSequence(s)
    BY <1>1, JoinIs
  <2>2. \A k \in DOMAIN s : (\E i \in DOMAIN a : s[k] = a[i]) \/ (\E i \in DOMAIN b : s[k] = b[i])
    BY <1>1, JoinHas
  <2> QED BY <2>1, <2>2
<1> HIDE DEF s
<1>3. IsArchive(s)
  BY <1>2 DEF IsArchive
<1> QED BY <1>3 DEF s

\* What an update leaves is an archive again.
LEMMA UpdatedIs ==
  ASSUME NEW found, IsFound(found), NEW entries, IsArchive(entries), NEW mode
  PROVE  /\ IsArchive(Updated(found, entries, mode))
         /\ IsFound(Selected(found, entries, mode))
<1> DEFINE sel == Selected(found, entries, mode)
<1>1. IsFound(sel)
  <2>1. CASE mode = "add"
    BY <2>1 DEF Selected
  <2>2. CASE mode # "add"
    <3>1. PICK I \in SUBSET DOMAIN found : sel = Picked(found, I)
      BY <2>2 DEF Selected, SelectUpdateItems
    <3> QED BY <3>1, PickedFound
  <2> QED BY <2>1, <2>2
<1> HIDE DEF sel
<1>2. IsArchive(Stored(sel))
  BY <1>1, StoredIs
<1>3. IsArchive(Appended(entries, sel))
  <2> DEFINE I == {i \in DOMAIN entries : entries[i].path \notin PathsOf(sel)}
  <2>1. IsArchive(Picked(entries, I))
    BY PickedArchive
  <2>2. IsArchive(Picked(entries, I) \o Stored(sel))
    <3> HIDE DEF I
    <3> QED BY <1>2, <2>1, JoinArchives
  <2> QED BY <2>2 DEF Appended
<1>4. IsArchive(Synchronized(entries, sel, PathsOf(found)))
  <2> DEFINE I == {i \in DOMAIN entries : /\ entries[i].path \in PathsOf(found)
                                          /\ entries[i].path \notin PathsOf(sel)}
             kept == Picked(entries, I)
             J == {i \in DOMAIN kept : kept[i].kind = "hardlink" =>
                                         kept[i].target \in PathsOf(kept) \cup PathsOf(sel)}
  <2>1. IsArchive(kept)
    BY PickedArchive
  <2>2. IsArchive(Picked(kept, J))
    <3>1. J \in SUBSET DOMAIN kept
      OBVIOUS
    <3> HIDE DEF kept, J
    <3> QED BY <2>1, <3>1, PickedArchive
  <2>3. IsArchive(Picked(kept, J) \o Stored(sel))
    <3> HIDE DEF kept, J
    <3> QED BY <1>2, <2>2, JoinArchives
  <2> QED BY <2>3 DEF Synchronized
<1>5. \/ Updated(found, entries, mode) = entries
      \/ Updated(found, entries, mode) = Synchronized(entries, sel, PathsOf(found))
      \/ Updated(found, entries, mode) = Appended(entries, sel)
  BY DEF Updated, sel
<1> QED BY <1>1, <1>3, <1>4, <1>5 DEF sel

\* Picked of the paths in the order of the scan.
LEMMA PickedOrder ==
  ASSUME NEW I, I \subseteq Nat, IsFiniteSet(I)
  PROVE  /\ Cardinality(I) \in Nat /\ DOMAIN Picked(Order, I) = 1..Cardinality(I)
         /\ \A k \in 1..Cardinality(I) : \E i \in I : Picked(Order, I)[k] = Order[i]
<1>1. /\ Cardinality(I) \in Nat
      /\ \A k \in 1..Cardinality(I) : Nth(I, k) \in I
  BY NthIs
<1> QED BY <1>1 DEF Picked

\* What a scan of a source finds.
LEMMA ScanIs ==
  ASSUME NEW tr, IsSource(tr), NEW inputs, AreInputs(inputs)
  PROVE  IsFound(Scan(tr, Order, inputs))
<1> DEFINE Names == {q \in Path : Named(q)}
           S == {Item(q, tr[p]) : q \in Names, p \in DOMAIN tr}
           Mapped(in, p) == in.to \o SubSeq(p, Len(in.from) + 1, Len(p))
           Places(in) == {i \in DOMAIN Order : /\ Order[i] \in DOMAIN tr
                                               /\ IsPrefix(in.from, Order[i])
                                               /\ ~Hidden(tr, in.from, Order[i])}
           Found(in) == Picked(Order, Places(in))
           Of(in) == [i \in DOMAIN Found(in) |-> Item(Mapped(in, Found(in)[i]), tr[Found(in)[i]])]
           lists == [k \in DOMAIN inputs |-> Of(inputs[k])]
<1>1. /\ IsSequence(Order) /\ Len(Order) \in Nat /\ DOMAIN Order = 1..Len(Order)
      /\ \A i \in DOMAIN Order : Named(Order[i])
  BY RoundTripAssumption, SequenceHas
<1>2. Len(inputs) \in Nat /\ DOMAIN inputs = 1..Len(inputs)
  BY SequenceHas DEF AreInputs
<1>3. ASSUME NEW k \in DOMAIN inputs PROVE Of(inputs[k]) \in Seq(S)
  <2> DEFINE in == inputs[k]
             I == Places(in)
             found == Picked(Order, I)
  <2>1. in.from \in Path /\ Named(in.to)
    BY DEF AreInputs
  <2>2. I \subseteq Nat /\ IsFiniteSet(I)
    <3>1. IsFiniteSet(1..Len(Order)) /\ I \in SUBSET (1..Len(Order))
      BY <1>1, FS_Interval
    <3> HIDE DEF I
    <3>2. IsFiniteSet(I)
      BY <3>1, FS_Subset
    <3>3. I \subseteq Nat
      BY <1>1, <3>1
    <3> QED BY <3>2, <3>3
  <2>3. \A i \in I : /\ Order[i] \in DOMAIN tr /\ Named(Order[i])
                     /\ IsPrefix(in.from, Order[i])
    BY <1>1
  <2> HIDE DEF I, in
  <2>4. /\ Cardinality(I) \in Nat /\ DOMAIN found = 1..Cardinality(I)
        /\ \A j \in 1..Cardinality(I) : \E i \in I : found[j] = Order[i]
    BY <2>2, PickedOrder
  <2> HIDE DEF found
  <2>5. ASSUME NEW j \in 1..Cardinality(I) PROVE Item(Mapped(in, found[j]), tr[found[j]]) \in S
    <3>1. PICK i \in I : found[j] = Order[i]
      BY <2>4
    <3>2. Named(Mapped(in, found[j]))
      BY <2>1, <2>3, <3>1, MappedIs
    <3>3. Mapped(in, found[j]) \in Names
      BY <3>2 DEF Named
    <3> QED BY <2>3, <3>1, <3>3
  <2>6. [i \in DOMAIN found |-> Item(Mapped(in, found[i]), tr[found[i]])] \in [1..Cardinality(I) -> S]
    BY <2>4, <2>5
  <2>7. [i \in DOMAIN found |-> Item(Mapped(in, found[i]), tr[found[i]])] \in Seq(S)
    <3> HIDE DEF S
    <3> QED BY <2>4, <2>6
  <2> QED BY <2>7 DEF found, I, in
<1>4. Scan(tr, Order, inputs) = FlattenSeq(lists)
  BY DEF Scan
<1>5. lists \in [1..Len(inputs) -> Seq(S)]
  <2> HIDE DEF S, Of
  <2> QED BY <1>2, <1>3
<1> DEFINE list == Scan(tr, Order, inputs)
<1>6. list \in Seq(S)
  <2> HIDE DEF S, lists
  <2> QED BY <1>2, <1>4, <1>5, FlattenIs
<1>7. \A x \in S : \E q \in Names, p \in DOMAIN tr : x = Item(q, tr[p])
  OBVIOUS
<1> HIDE DEF S, list
<1>8. IsSequence(list) /\ \A i \in DOMAIN list : list[i] \in S
  <2>1. \A i \in 1..Len(list) : list[i] \in S
    BY <1>6, ElementOfSeq
  <2>2. DOMAIN list = 1..Len(list)
    BY <1>6, LenProperties
  <2> QED BY <1>6, <2>1, <2>2, SequenceIs
<1>9. \A x \in S : IsItem(x)
  <2> SUFFICES ASSUME NEW q \in Names, NEW p \in DOMAIN tr PROVE IsItem(Item(q, tr[p]))
    BY <1>7
  <2>1. IsSourceNode(tr[p])
    BY DEF IsSource
  <2> QED BY <2>1 DEF IsSourceNode, IsItem, Item
<1>10. \A x, y \in S : x.kind = "file" /\ y.kind = "file" /\ x.node = y.node
                          => x.content = y.content
  <2> SUFFICES ASSUME NEW x \in S, NEW y \in S,
                      x.kind = "file", y.kind = "file", x.node = y.node
               PROVE  x.content = y.content
    OBVIOUS
  <2>1. PICK q1 \in Names, p1 \in DOMAIN tr : x = Item(q1, tr[p1])
    BY <1>7
  <2>2. PICK q2 \in Names, p2 \in DOMAIN tr : y = Item(q2, tr[p2])
    BY <1>7
  <2>3. /\ tr[p1].kind = "file" /\ tr[p2].kind = "file" /\ tr[p1].node = tr[p2].node
        /\ x.content = tr[p1].content /\ y.content = tr[p2].content
    BY <2>1, <2>2 DEF Item
  <2> QED BY <2>3 DEF IsSource
<1>11. IsFound(list)
  BY <1>8, <1>9, <1>10 DEF IsFound
<1> QED BY <1>11 DEF list

----------------------------------------------------------------------------
(* The source.                                                             *)

\* A node number no file has.
LEMMA NewNodeIs ==
  ASSUME IsSource(source)
  PROVE  NewNode \in Nat /\ \A p \in DOMAIN source : source[p].node < NewNode
<1> DEFINE N == {0} \cup {source[p].node : p \in DOMAIN source}
           n == Cardinality(N)
<1>1. N \subseteq Nat
  BY DEF IsSource, IsSourceNode
<1>2. IsFiniteSet(N)
  <2>1. IsFiniteSet({source[p].node : p \in DOMAIN source})
    <3> DEFINE T == {source[p].node : p \in DOMAIN source}
               f == [p \in DOMAIN source |-> source[p].node]
    <3>1. f \in Surjection(DOMAIN source, T)
      BY DEF Surjection
    <3>2. IsFiniteSet(DOMAIN source)
      BY DEF IsSource
    <3> HIDE DEF f, T
    <3>3. IsFiniteSet(T)
      BY <3>1, <3>2, FS_Surjection
    <3> QED BY <3>3 DEF T
  <2>2. IsFiniteSet({0})
    BY FS_Singleton
  <2> QED BY <2>1, <2>2, FS_Union
<1>3. 0 \in N /\ \A p \in DOMAIN source : source[p].node \in N
  OBVIOUS
<1>4. NewNode = 1 + Max(N)
  BY DEF NewNode
<1> HIDE DEF N
<1>5. /\ n \in Nat /\ \A k \in 1..n : Nth(N, k) \in N
      /\ \A i \in N : \E k \in 1..n : Nth(N, k) = i
      /\ \A j, k \in 1..n : j < k <=> Nth(N, j) < Nth(N, k)
  BY <1>1, <1>2, NthIs
<1> HIDE DEF n
<1>6. n \in 1..n
  <2>1. PICK k \in 1..n : Nth(N, k) = 0
    BY <1>3, <1>5
  <2> QED BY <1>5
<1>7. Nth(N, n) \in N /\ \A i \in N : i <= Nth(N, n)
  <2> SUFFICES ASSUME NEW i \in N PROVE i <= Nth(N, n)
    BY <1>5, <1>6
  <2>1. PICK k \in 1..n : Nth(N, k) = i
    BY <1>5
  <2>2. k = n \/ k < n
    BY <1>5
  <2>3. k < n => Nth(N, k) < Nth(N, n)
    BY <1>5, <1>6
  <2>4. Nth(N, n) \in Nat /\ i \in Nat
    BY <1>1, <1>5, <1>6
  <2> QED BY <2>1, <2>2, <2>3, <2>4
<1>8. Max(N) = Nth(N, n)
  BY <1>1, <1>7, MaxIs
<1>9. Nth(N, n) \in Nat
  BY <1>1, <1>7
<1>10. \A i \in N : i < 1 + Nth(N, n)
  BY <1>1, <1>7, <1>9
<1> QED BY <1>3, <1>4, <1>8, <1>9, <1>10

\* What changes in the source leaves it a source.
LEMMA SourceStays ==
  ASSUME IsSource(source), Edit
  PROVE  IsSource(source')
<1>1. PICK p \in Range(Tail(Order)) : Put(p) \/ Deleted(p) \/ Rewrite(p) \/ Close(p)
  BY DEF Edit
<1>2. /\ IsFiniteSet(DOMAIN source)
      /\ \A q \in DOMAIN source : IsSourceNode(source[q])
      /\ \A q, r \in DOMAIN source :
           source[q].kind = "file" /\ source[r].kind = "file" /\ source[q].node = source[r].node
             => source[q].content = source[r].content
  BY DEF IsSource
<1>3. MaxTime \in Nat /\ IsSequence(Rewritten)
  BY RoundTripAssumption
<1>4. CASE Put(p)
  <2>1. PICK node \in Nodes :
          source' = Setting(Restrict(source, {q \in DOMAIN source : ~Below(q, p)}), p, node)
    BY <1>4 DEF Put
  <2> DEFINE D == {q \in DOMAIN source : ~Below(q, p)}
  <2>2. /\ DOMAIN source' = D \cup {p} /\ source'[p] = node
        /\ \A q \in D : q # p => source'[q] = source[q]
    BY <2>1 DEF Setting, Restrict
  <2>3. /\ IsSourceNode(node)
        /\ \A q \in DOMAIN source :
             node.kind = "file" /\ source[q].kind = "file" /\ source[q].node = node.node
               => source[q].content = node.content
    <3>1. CASE \E t \in 1..MaxTime :
                 node = [Blank EXCEPT !.kind = "file", !.node = NewNode, !.content = Rewritten,
                                      !.mtime = t]
      <4>1. PICK t \in 1..MaxTime :
              node = [kind |-> "file", node |-> NewNode, content |-> Rewritten, mtime |-> t,
                      target |-> <<>>, closed |-> FALSE]
        BY <3>1 DEF Blank
      <4>2. NewNode \in Nat /\ \A q \in DOMAIN source : source[q].node < NewNode
        BY NewNodeIs
      <4>3. t \in Nat /\ t # 0
        BY <1>3
      <4>4. IsSourceNode(node)
        BY <1>3, <4>1, <4>2, <4>3 DEF IsSourceNode
      <4>5. \A q \in DOMAIN source : source[q].node # node.node
        <5> SUFFICES ASSUME NEW q \in DOMAIN source PROVE source[q].node # NewNode
          BY <4>1
        <5>1. source[q].node \in Nat
          BY <1>2 DEF IsSourceNode
        <5> QED BY <4>2, <5>1
      <4> QED BY <4>4, <4>5
    <3>2. CASE \E q \in DOMAIN source : node = source[q] /\ source[q].kind = "file"
      BY <1>2, <3>2
    <3>3. CASE node = Blank \/ node = [Blank EXCEPT !.kind = "symlink", !.target = Last(Order)]
      <4>1. IsSequence(<<>>)
        BY EmptySeq, SequenceIs
      <4>2. Last(Order) \in Path
        <5>1. Len(Order) \in DOMAIN Order
          <6>1. Order # <<>> /\ IsSequence(Order)
            BY RoundTripAssumption
          <6>2. Len(Order) \in Nat /\ DOMAIN Order = 1..Len(Order)
            BY <6>1, SequenceHas
          <6>3. Len(Order) # 0
            BY <6>1, EmptySeq DEF IsSequence
          <6> QED BY <6>2, <6>3
        <5> QED BY <5>1, RoundTripAssumption DEF Last, Named
      <4>3. CASE node = Blank
        <5>1. node = [kind |-> "dir", node |-> 0, content |-> <<>>, mtime |-> 0,
                      target |-> <<>>, closed |-> FALSE]
          BY <4>3 DEF Blank
        <5> QED BY <4>1, <5>1 DEF IsSourceNode
      <4>4. CASE node = [Blank EXCEPT !.kind = "symlink", !.target = Last(Order)]
        <5>1. node = [kind |-> "symlink", node |-> 0, content |-> <<>>, mtime |-> 0,
                      target |-> Last(Order), closed |-> FALSE]
          BY <4>4 DEF Blank
        <5> QED BY <4>1, <4>2, <5>1 DEF IsSourceNode
      <4> QED BY <3>3, <4>3, <4>4
    <3> QED BY <3>1, <3>2, <3>3 DEF Nodes
  <2>4. IsFiniteSet(DOMAIN source')
    <3>1. IsFiniteSet(D)
      BY <1>2, FS_Subset
    <3> QED BY <2>2, <3>1, FS_AddElement
  <2>5. \A q \in DOMAIN source' :
          (q = p /\ source'[q] = node) \/ (q \in DOMAIN source /\ source'[q] = source[q])
    <3> SUFFICES ASSUME NEW q \in DOMAIN source', q # p
                 PROVE  q \in DOMAIN source /\ source'[q] = source[q]
      BY <2>2
    <3> QED BY <2>2
  <2> HIDE DEF D
  <2> QED BY <1>2, <2>3, <2>4, <2>5 DEF IsSource
<1>5. CASE Deleted(p)
  <2>1. /\ DOMAIN source' \in SUBSET DOMAIN source
        /\ \A q \in DOMAIN source' : source'[q] = source[q]
    BY <1>5 DEF Deleted, Restrict
  <2>2. IsFiniteSet(DOMAIN source')
    BY <1>2, <2>1, FS_Subset
  <2> QED BY <1>2, <2>1, <2>2 DEF IsSource
<1>6. CASE Rewrite(p)
  <2>1. PICK t \in 1..MaxTime :
          source' = [q \in DOMAIN source |->
                       IF source[q].kind = "file" /\ source[q].node = source[p].node
                       THEN [source[q] EXCEPT !.content = Rewritten, !.mtime = t]
                       ELSE source[q]]
    BY <1>6 DEF Rewrite
  <2>2. t \in Nat /\ t # 0
    BY <1>3
  <2> DEFINE Same(q) == source[q].kind = "file" /\ source[q].node = source[p].node
  <2>3. DOMAIN source' = DOMAIN source /\ \A q \in DOMAIN source : ~Same(q) => source'[q] = source[q]
    BY <2>1
  <2>4. ASSUME NEW q \in DOMAIN source, Same(q)
        PROVE  /\ source'[q].kind = "file" /\ source'[q].node = source[p].node
               /\ source'[q].content = Rewritten /\ IsSourceNode(source'[q])
    <3>1. source[q] = [kind |-> source[q].kind, node |-> source[q].node,
                       content |-> source[q].content, mtime |-> source[q].mtime,
                       target |-> source[q].target, closed |-> source[q].closed]
      BY <1>2 DEF IsSourceNode
    <3>2. source'[q] = [source[q] EXCEPT !.content = Rewritten, !.mtime = t]
      BY <2>1, <2>4
    <3>3. source[q].kind = "file" /\ source[q].node = source[p].node /\ source[q].node \in Nat
      BY <1>2, <2>4 DEF IsSourceNode
    <3>4. source'[q] = [kind |-> "file", node |-> source[p].node, content |-> Rewritten,
                        mtime |-> t, target |-> source[q].target,
                        closed |-> source[q].closed]
      BY <3>1, <3>2, <3>3
    <3> QED BY <1>3, <2>2, <3>3, <3>4 DEF IsSourceNode
  <2>5. \A q \in DOMAIN source : IsSourceNode(source'[q])
    <3> SUFFICES ASSUME NEW q \in DOMAIN source PROVE IsSourceNode(source'[q])
      OBVIOUS
    <3>1. CASE Same(q)
      <4> HIDE DEF Same
      <4> QED BY <2>4, <3>1
    <3>2. CASE ~Same(q)
      <4> HIDE DEF Same
      <4> QED BY <1>2, <2>3, <3>2
    <3> QED BY <3>1, <3>2
  <2>6. \A q, r \in DOMAIN source :
          source'[q].kind = "file" /\ source'[r].kind = "file" /\ source'[q].node = source'[r].node
            => source'[q].content = source'[r].content
    <3> SUFFICES ASSUME NEW q \in DOMAIN source, NEW r \in DOMAIN source,
                        source'[q].kind = "file", source'[r].kind = "file",
                        source'[q].node = source'[r].node
                 PROVE  source'[q].content = source'[r].content
      OBVIOUS
    <3>1. /\ source[q].kind = "file" /\ source[q].node = source'[q].node
          /\ source[r].kind = "file" /\ source[r].node = source'[r].node
      <4>1. ASSUME NEW x \in DOMAIN source, source'[x].kind = "file"
            PROVE  source[x].kind = "file" /\ source[x].node = source'[x].node
        <5>1. CASE Same(x)
          <6>1. source'[x].node = source[p].node
            <7> HIDE DEF Same
            <7> QED BY <2>4, <5>1
          <6> QED BY <5>1, <6>1
        <5>2. CASE ~Same(x)
          <6> HIDE DEF Same
          <6> QED BY <2>3, <4>1, <5>2
        <5> QED BY <5>1, <5>2
      <4> QED BY <4>1
    <3>2. Same(q) <=> Same(r)
      BY <3>1
    <3>3. CASE Same(q)
      <4> HIDE DEF Same
      <4>1. source'[q].content = Rewritten
        BY <2>4, <3>3
      <4>2. source'[r].content = Rewritten
        BY <2>4, <3>2, <3>3
      <4> QED BY <4>1, <4>2
    <3>4. CASE ~Same(q)
      <4> HIDE DEF Same
      <4> QED BY <1>2, <2>3, <3>1, <3>2, <3>4
    <3> QED BY <3>3, <3>4
  <2> QED BY <1>2, <2>3, <2>5, <2>6 DEF IsSource
<1>7. CASE Close(p)
  <2>1. source' = [source EXCEPT ![p].closed = TRUE] /\ source[p].kind = "dir"
    BY <1>7 DEF Close, KindAt
  <2>2. DOMAIN source' = DOMAIN source /\ \A q \in DOMAIN source : q # p => source'[q] = source[q]
    BY <2>1
  <2>3. ASSUME p \in DOMAIN source
        PROVE  source'[p] = [kind |-> "dir", node |-> source[p].node,
                             content |-> source[p].content, mtime |-> source[p].mtime,
                             target |-> source[p].target, closed |-> TRUE]
    <3>1. source[p] = [kind |-> source[p].kind, node |-> source[p].node,
                       content |-> source[p].content, mtime |-> source[p].mtime,
                       target |-> source[p].target, closed |-> source[p].closed]
      BY <1>2, <2>3 DEF IsSourceNode
    <3>2. source'[p] = [source[p] EXCEPT !.closed = TRUE]
      BY <2>1, <2>3
    <3>3. source[p].kind = "dir"
      BY <2>1
    <3> HIDE <2>1
    <3> QED BY <3>1, <3>2, <3>3
  <2>4. \A q \in DOMAIN source : IsSourceNode(source'[q])
    <3> SUFFICES ASSUME NEW q \in DOMAIN source PROVE IsSourceNode(source'[q])
      OBVIOUS
    <3>1. CASE q = p
      BY <1>2, <2>3, <3>1 DEF IsSourceNode
    <3>2. CASE q # p
      BY <1>2, <2>2, <3>2
    <3> QED BY <3>1, <3>2
  <2>5. \A q \in DOMAIN source : source'[q].kind = "file" => source'[q] = source[q]
    BY <2>2, <2>3
  <2> QED BY <1>2, <2>2, <2>4, <2>5 DEF IsSource
<1> QED BY <1>1, <1>4, <1>5, <1>6, <1>7

----------------------------------------------------------------------------
(* The whole.                                                              *)

\* Nothing has been extracted yet.
Idle ==
  /\ pc \in {"idle", "start"} /\ tree = before.tree /\ data = before.data
  /\ todo = <<>> /\ links = <<>> /\ dirs = <<>>
  /\ staged = 0 /\ written = {} /\ warned = {}
  /\ copied = [paths |-> {}, inodes |-> {}]

\* Only a finished update and a given archive are extracted.
PhaseSane == phase \notin {"updated", "given"} => pc = "idle"

RInv == EInv /\ IsSource(source) /\ AreInputs(job.inputs) /\ PhaseSane

\* The empty sequence.
LEMMA NoneIsSequence == IsSequence(<<>>) /\ DOMAIN <<>> = {}
<1>1. <<>> \in Seq({}) /\ Len(<<>>) = 0
  OBVIOUS
<1>2. IsSequence(<<>>)
  BY <1>1, SequenceIs
<1>3. DOMAIN <<>> = 1..0
  BY <1>1, <1>2, SequenceHas
<1>4. 1..0 = {}
  OBVIOUS
<1> QED BY <1>2, <1>3, <1>4

\* Before an extraction begins its invariant holds.
LEMMA IdleIs == InputsSane /\ Idle => EInv
<1> SUFFICES ASSUME InputsSane, Idle PROVE EInv
  OBVIOUS
<1>1. ControlSane
  BY DEF Idle, ControlSane, Reading
<1>2. QueuesSane
  <2>1. <<>> \in Seq(Chosen) /\ <<>> \in Seq({i \in Chosen : archive[i].kind = "symlink"})
    BY EmptySeq
  <2> QED BY <2>1 DEF Idle, QueuesSane
<1>3. IsFileSystem(before) /\ tree = before.tree /\ data = before.data
  BY DEF Idle, InputsSane
<1>4. ASSUME NEW p \in DOMAIN tree
      PROVE  /\ p \in Path
             /\ p # <<>> => Last(p) # StagingName
             /\ IsNode(tree[p], Len(data))
             /\ tree[p].kind = "dir" => tree[p] = Dir
  <2> DEFINE node == tree[p]
  <2>1. /\ p \in Path
        /\ p # <<>> => Last(p) # StagingName
        /\ \/ node = Dir
           \/ node.kind = "file" /\ node = File(node.inode) /\ node.inode \in DOMAIN data
           \/ node.kind = "link" /\ node.to \in Path
    BY <1>3 DEF IsFileSystem
  <2>2. DOMAIN data = 1..Len(data)
    BY <1>3, SequenceHas DEF IsFileSystem
  <2>3. Dir \in [kind : {"dir"}, restored : BOOLEAN] /\ Dir.kind = "dir"
    BY DEF Dir
  <2>4. IsNode(node, Len(data))
    <3> HIDE DEF node
    <3> QED BY <2>1, <2>2, <2>3 DEF IsNode
  <2> QED BY <2>1, <2>4
<1>5. StagedSane
  BY <1>4 DEF Idle, StagedSane
<1>6. NodesInv
  <2>1. TreeSane
    <3>1. IsTree(tree, Len(data))
      <4>1. \A p \in Prefixes(Root) : KindAt(tree, p) = "dir"
        BY <1>3 DEF IsFileSystem, KindAt
      <4> QED BY <1>4, <4>1 DEF IsTree
    <3>2. IsSequence(data) /\ Len(data) \in Nat
      BY <1>3, SequenceHas DEF IsFileSystem
    <3> QED BY <1>3, <3>1, <3>2 DEF TreeSane, Idle
  <2>2. FilesSane
    BY <1>3 DEF FilesSane, WholeFile
  <2>3. InodesUntouched /\ OutsideUntouched /\ PolicyKept
    BY <1>3 DEF InodesUntouched, OutsideUntouched, PolicyKept
  <2> QED BY <2>1, <2>2, <2>3 DEF NodesInv, LinksSane, WrittenSane, Idle
<1> QED BY <1>1, <1>2, <1>5, <1>6 DEF EInv

\* The empty destination is a file system.
LEMMA EmptyIs == IsFileSystem(Empty)
<1>1. Root \in Path /\ Len(Root) \in Nat /\ StagingName \notin Range(Root)
  BY RootAssumption, LenProperties DEF Named, Path
<1>2. /\ DOMAIN Empty.tree = Prefixes(Root) /\ \A p \in Prefixes(Root) : Empty.tree[p] = Dir
      /\ Empty.data = <<>>
  BY DEF Empty
<1>3. IsSequence(<<>>) /\ DOMAIN <<>> = {}
  BY NoneIsSequence
<1>4. ASSUME NEW p \in Prefixes(Root)
      PROVE  /\ p \in Path
             /\ p # <<>> => Last(p) # StagingName /\ Front(p) \in Prefixes(Root)
  <2>1. PICK k \in 0..Len(Root) : p = SubSeq(Root, 1, k)
    BY DEF Prefixes
  <2>2. p \in Path /\ Len(p) = k
    BY <1>1, <2>1, Initial
  <2>3. ASSUME p # <<>> PROVE Last(p) # StagingName /\ Front(p) \in Prefixes(Root)
    <3>1. k \in 1..Len(Root)
      BY <1>1, <2>2, <2>3, EmptySeq DEF Path
    <3>2. Last(p) = Root[k] /\ Root[k] \in Range(Root) /\ Front(p) = SubSeq(Root, 1, k - 1)
      BY <1>1, <2>1, <3>1, InitialGrows
    <3>3. SubSeq(Root, 1, k - 1) \in Prefixes(Root)
      <4>1. k - 1 \in 0..Len(Root)
        BY <1>1, <3>1
      <4> QED BY <1>1, <4>1, Initial
    <3> QED BY <1>1, <3>2, <3>3
  <2> QED BY <2>2, <2>3
<1>5. Dir.kind = "dir"
  BY DEF Dir
<1> HIDE DEF Empty
<1> QED BY <1>2, <1>3, <1>4, <1>5 DEF IsFileSystem, KindAt

\* The inputs of an update and of an extraction, to begin with.
LEMMA RoundTripInit ==
  ASSUME Init
  PROVE  RInv
<1>1. Idle
  BY DEF Init, Idle
<1>2. CASE /\ \E tr \in Sources, j \in Jobs :
                source = tr /\ job = j /\ archive = Stored(Scan(tr, Order, j.made))
           /\ phase = "idle" /\ pc = "idle"
           /\ before = Empty /\ options = Everything
  <2>1. PICK tr \in Sources, j \in Jobs :
          source = tr /\ job = j /\ archive = Stored(Scan(tr, Order, j.made))
    BY <1>2
  <2>2. IsSource(tr) /\ AreInputs(j.inputs) /\ AreInputs(j.made)
    BY RoundTripAssumption
  <2>3. IsArchive(archive)
    BY <2>1, <2>2, ScanIs, StoredIs
  <2>4. InputsSane
    BY <1>2, <2>3, EmptyIs DEF InputsSane, Everything, Policies
  <2> QED BY <1>1, <1>2, <2>1, <2>2, <2>4, IdleIs DEF RInv, PhaseSane
<1>3. CASE /\ \E c \in Cases :
                archive = c.archive /\ before = c.before /\ options = c.options
           /\ phase = "given" /\ source = <<>> /\ job = NoJob
  <2>1. InputsSane
    BY <1>3, RoundTripAssumption DEF InputsSane
  <2>2. DOMAIN source = {}
    BY <1>3
  <2>3. IsSource(source)
    BY <2>2, FS_EmptySet DEF IsSource
  <2>4. AreInputs(job.inputs)
    <3>1. job.inputs = <<>>
      BY <1>3 DEF NoJob
    <3>2. IsSequence(<<>>) /\ DOMAIN <<>> = {}
      BY NoneIsSequence
    <3> QED BY <3>1, <3>2 DEF AreInputs
  <2> QED BY <1>1, <1>3, <2>1, <2>3, <2>4, IdleIs DEF RInv, PhaseSane
<1> QED BY <1>2, <1>3 DEF Init

\* What does not concern the extraction keeps its invariant.
LEMMA SameExtraction ==
  ASSUME EInv, UNCHANGED extractVars
  PROVE  EInv'
<1>1. UNCHANGED <<before, archive, options, pc, tree, data, todo, links, dirs, staged, written,
                  warned, copied>>
  BY DEF extractVars, fsVars, queueVars
<1>2. ControlSane'
  <2>1. Body' = Body
    BY <1>1 DEF Body, E, Canonical
  <2> QED BY <1>1, <2>1 DEF EInv, ControlSane, Reading
<1>3. QueuesSane'
  <2>1. Chosen' = Chosen /\ Dangling(archive)' = Dangling(archive)
    BY <1>1, ChosenStays
  <2> QED BY <1>1, <2>1 DEF EInv, QueuesSane
<1> QED BY <1>1, <1>2, <1>3, QuietInv

\* The update reads and writes archives while nothing is extracted.
LEMMA ExecuteKeeps ==
  ASSUME RInv, Execute
  PROVE  RInv'
<1>1. /\ archive' = Updated(Scanned, archive, job.mode) /\ phase' = "updated"
      /\ UNCHANGED <<source, job, before, options, pc, tree, data, todo, links, dirs, staged,
                     written, warned, copied>>
  BY DEF Execute, fsVars, queueVars
<1>2. pc = "idle"
  <2>1. phase \in {"approved", "idle"}
    BY DEF Execute, Ready
  <2> QED BY <2>1 DEF RInv, PhaseSane
<1>3. Idle'
  BY <1>1, <1>2 DEF RInv, EInv, ControlSane, Idle
<1>4. IsArchive(archive')
  <2>1. IsFound(Scanned)
    BY ScanIs DEF RInv, Scanned
  <2> QED BY <1>1, <2>1, UpdatedIs DEF RInv, EInv, InputsSane
<1>5. InputsSane'
  BY <1>1, <1>4 DEF RInv, EInv, InputsSane
<1>6. InputsSane' /\ Idle' => EInv'
  BY IdleIs, PTL
<1> QED BY <1>1, <1>3, <1>5, <1>6 DEF RInv, PhaseSane

\* Every step keeps the invariant.
LEMMA RoundTripStep ==
  ASSUME RInv, [Next]_vars
  PROVE  RInv'
<1>1. CASE Edit
  <2>1. EInv' /\ IsSource(source')
    BY <1>1, SameExtraction, SourceStays DEF RInv, Edit
  <2> QED BY <1>1, <2>1 DEF Edit, RInv, PhaseSane, extractVars
<1>2. CASE Refuses \/ Preview \/ Approve \/ Cancel
  <2>1. UNCHANGED <<source, job, extractVars>>
    BY <1>2 DEF Refuses, Preview, Approve, Cancel
  <2>2. phase \notin {"updated", "given"}
    BY <1>2 DEF Refuses, Ready, Preview, Approve, Cancel
  <2>3. EInv'
    BY <2>1, SameExtraction DEF RInv
  <2> QED BY <2>1, <2>2, <2>3 DEF RInv, PhaseSane, extractVars
<1>3. CASE Execute
  BY <1>3, ExecuteKeeps
<1>4. CASE Restore
  <2>1. /\ phase = "updated" /\ pc = "idle" /\ pc' = "start" /\ UNCHANGED jobVars
        /\ UNCHANGED <<before, archive, options, tree, data, todo, links, dirs, staged, written,
                       warned, copied>>
    BY <1>4 DEF Restore, fsVars, queueVars
  <2>2. ControlSane'
    BY <2>1 DEF RInv, EInv, ControlSane, Reading
  <2>3. QueuesSane'
    BY <2>1, ChosenStays DEF RInv, EInv, QueuesSane
  <2>4. EInv'
    BY <2>1, <2>2, <2>3, QuietInv DEF RInv
  <2> QED BY <2>1, <2>4 DEF RInv, PhaseSane, jobVars
<1>5. CASE Extract
  <2>1. EInv' /\ UNCHANGED jobVars
    BY <1>5, ExtractionKeeps DEF Extract, RInv
  <2>2. phase \in {"updated", "given"}
    <3>1. pc # "idle"
      BY <1>5 DEF Extract, ExtractNext, Start, Refuse, Skip, DeferLink, MakeDirectory, Relink,
                  Stage, WriteSlice, Verify, Place, Metadata, RefuseLink, SkipLink, PlaceLink,
                  RestoreDirectory, Finish, Throw, Unwind, Killed, Entered, LinksLeft
    <3> QED BY <3>1 DEF RInv, PhaseSane
  <2> QED BY <2>1, <2>2 DEF RInv, PhaseSane, jobVars
<1>6. CASE Terminated \/ UNCHANGED vars
  <2>1. UNCHANGED <<jobVars, extractVars>>
    BY <1>6 DEF Terminated, vars
  <2>2. EInv'
    BY <2>1, SameExtraction DEF RInv
  <2> QED BY <2>1, <2>2 DEF RInv, PhaseSane, jobVars, extractVars
<1> QED BY <1>1, <1>2, <1>3, <1>4, <1>5, <1>6 DEF Next

\* In every state of extract_entries_impl, whatever archive, destination and faults it
\* meets, and between the updates before it, the lists, the tree, the staging file and
\* the inodes are as EInv says: the inductive invariant from which the rest follows.
THEOREM RoundTripInvariant == Spec => []RInv
<1>1. Init => RInv
  BY RoundTripInit
<1>2. RInv /\ [Next]_vars => RInv'
  BY RoundTripStep
<1> QED BY <1>1, <1>2, PTL DEF Spec

\* WholeFilesOnly, the promise of StagedFile and of the order verify, then rename in
\* extract_entries_impl: whatever fails or is killed, a file of the destination is one
\* that was there or is complete, and no staging file outlives an extraction that ends.
THEOREM NoPartialFiles == Spec => []WholeFilesOnly
<1>1. RInv => WholeFilesOnly
  <2> SUFFICES ASSUME RInv PROVE WholeFilesOnly
    OBVIOUS
  <2>1. ASSUME NEW p \in DOMAIN tree, tree[p].kind = "file", Below(p, Root),
               Last(p) # StagingName, tree[p].inode \notin copied.inodes
        PROVE  \/ tree[p].inode \in DOMAIN before.data
                  /\ p \in DOMAIN before.tree /\ before.tree[p] = tree[p]
               \/ \E i \in Chosen : /\ Root \o archive[i].path = p
                                    /\ archive[i].kind \in {"file", "hardlink"}
                                    /\ HoldsFile(p, ContentsOf(i))
    <3>1. WholeFile(p)
      BY <2>1 DEF RInv, EInv, NodesInv, FilesSane
    <3>2. CASE p \in DOMAIN before.tree /\ before.tree[p] = tree[p]
      <4> DEFINE node == before.tree[p]
      <4>1. \/ node = Dir
            \/ node.kind = "file" /\ node.inode \in DOMAIN before.data
            \/ node.kind = "link"
        BY <3>2 DEF RInv, EInv, InputsSane, IsFileSystem
      <4>2. Dir.kind = "dir"
        BY DEF Dir
      <4> QED BY <2>1, <3>2, <4>1, <4>2
    <3> QED BY <3>1, <3>2 DEF WholeFile, Delivered
  <2>2. ASSUME pc \in {"done", "failed"}, NEW p \in DOMAIN tree \ {<<>>}
        PROVE  Last(p) # StagingName
    <3>1. staged = 0
      BY <2>2 DEF RInv, EInv, ControlSane, Reading
    <3> QED BY <3>1 DEF RInv, EInv, StagedSane
  <2> QED BY <2>1, <2>2 DEF WholeFilesOnly
<1> QED BY <1>1, RoundTripInvariant, PTL

\* OthersUntouched: an extraction changes nothing outside its destination, no file that
\* shares its inode with one it replaces, and under `skip` and `fail` nothing that was
\* there, but for what copy_file writes where a hard link cannot be made.
THEOREM OthersStay == Spec => []OthersUntouched
<1>1. RInv => OthersUntouched
  BY DEF RInv, EInv, NodesInv, InodesUntouched, OutsideUntouched, PolicyKept, OthersUntouched
<1> QED BY <1>1, RoundTripInvariant, PTL

----------------------------------------------------------------------------
(* An approved update does what its plan shows.                            *)

\* What a scan finds is a list without hard links.
LEMMA FoundListed ==
  ASSUME NEW found, IsFound(found)
  PROVE  Listed(found, Kinds \ {"hardlink"}) /\ DOMAIN found \in SUBSET Nat
<1>1. DOMAIN found = 1..Len(found) /\ Len(found) \in Nat
  BY SequenceHas DEF IsFound
<1>2. IsFiniteSet(1..Len(found))
  BY <1>1, FS_Interval
<1>3. \A i \in DOMAIN found : found[i].kind \in Kinds \ {"hardlink"}
  BY DEF IsFound, IsItem, Kinds
<1> QED BY <1>1, <1>2, <1>3 DEF Listed

\* An archive is a list of entries.
LEMMA ArchiveListed ==
  ASSUME NEW list, IsArchive(list)
  PROVE  Listed(list, Kinds) /\ DOMAIN list \in SUBSET Nat
<1>1. DOMAIN list = 1..Len(list) /\ Len(list) \in Nat
  BY SequenceHas DEF IsArchive
<1>2. IsFiniteSet(1..Len(list))
  BY <1>1, FS_Interval
<1>3. \A i \in DOMAIN list : list[i].kind \in Kinds
  BY DEF IsArchive, Kinds
<1> QED BY <1>1, <1>2, <1>3 DEF Listed

\* The actions of the rows where there is no conflict.
LEMMA RowsAre ==
  ASSUME NEW found, NEW old, NEW mode, Conflicts(found, old) = {},
         NEW rows, rows = Plan(found, old, mode)
  PROVE  /\ RowsOf(rows, "conflict") = {}
         /\ RowsOf(rows, "add") =
              {p \in PathsOf(found) : p \notin PathsOf(old) /\ mode # "fresh"}
         /\ RowsOf(rows, "replace") =
              {found[i].path : i \in {i \in DOMAIN found :
                 /\ found[i].path \in PathsOf(old)
                 /\ \/ mode = "add"
                    \/ /\ found[i].kind = "file"
                       /\ found[i].mtime > FirstAt(old, found[i].path).mtime}}
         /\ RowsOf(rows, "remove") =
              IF mode = "sync" THEN PathsOf(old) \ PathsOf(found) ELSE {}
<1> DEFINE Does(i) == PlannedAction(found[i], found, old, mode)
           Row(i) == [path |-> found[i].path, action |-> Does(i),
                      kind |-> EntryClass(found[i].kind), size |-> Len(found[i].content),
                      mtime |-> IF found[i].kind = "file" THEN found[i].mtime ELSE 0]
           Gone(p) == [path |-> p, action |-> "remove", kind |-> EntryClass(FirstAt(old, p).kind),
                       size |-> Len(FirstAt(old, p).content), mtime |-> FirstAt(old, p).mtime]
           Left == IF mode = "sync" THEN PathsOf(old) \ PathsOf(found) ELSE {}
<1>1. rows = {Row(i) : i \in DOMAIN found} \cup {Gone(p) : p \in Left}
  BY DEF Plan
<1>2. \A i \in DOMAIN found : Row(i).path = found[i].path /\ Row(i).action = Does(i)
  OBVIOUS
<1>3. \A p \in Left : Gone(p).path = p /\ Gone(p).action = "remove"
  OBVIOUS
<1>4. ASSUME NEW i \in DOMAIN found
      PROVE  /\ Does(i) \in {"add", "replace", "ignored", "unchanged"}
             /\ Does(i) = "add" <=> found[i].path \notin PathsOf(old) /\ mode # "fresh"
             /\ Does(i) = "replace" <=>
                  /\ found[i].path \in PathsOf(old)
                  /\ \/ mode = "add"
                     \/ /\ found[i].kind = "file"
                        /\ found[i].mtime > FirstAt(old, found[i].path).mtime
  BY DEF PlannedAction
<1> HIDE DEF Does, Row, Gone, Left
<1>5. ASSUME NEW action, action # "remove"
      PROVE  RowsOf(rows, action) = {found[i].path : i \in {i \in DOMAIN found : Does(i) = action}}
  <2>1. ASSUME NEW r \in rows, r.action = action
        PROVE  \E i \in DOMAIN found : Does(i) = action /\ r.path = found[i].path
    BY <1>1, <1>2, <1>3, <1>5, <2>1
  <2>2. ASSUME NEW i \in DOMAIN found, Does(i) = action
        PROVE  \E r \in rows : r.action = action /\ r.path = found[i].path
    <3>1. Row(i) \in rows
      BY <1>1
    <3> QED BY <1>2, <2>2, <3>1
  <2> QED BY <2>1, <2>2 DEF RowsOf
<1>6. RowsOf(rows, "remove") = Left
  <2>1. ASSUME NEW r \in rows, r.action = "remove" PROVE r.path \in Left
    BY <1>1, <1>2, <1>3, <1>4, <2>1
  <2>2. ASSUME NEW p \in Left PROVE \E r \in rows : r.action = "remove" /\ r.path = p
    <3>1. Gone(p) \in rows
      BY <1>1
    <3> QED BY <1>3, <3>1
  <2> QED BY <2>1, <2>2 DEF RowsOf
<1>7. RowsOf(rows, "conflict") = {}
  <2>1. RowsOf(rows, "conflict") =
          {found[i].path : i \in {i \in DOMAIN found : Does(i) = "conflict"}}
    BY <1>5
  <2> QED BY <1>4, <2>1
<1>8. RowsOf(rows, "add") = {p \in PathsOf(found) : p \notin PathsOf(old) /\ mode # "fresh"}
  <2>1. RowsOf(rows, "add") = {found[i].path : i \in {i \in DOMAIN found : Does(i) = "add"}}
    BY <1>5
  <2> QED BY <1>4, <2>1 DEF PathsOf
<1>9. RowsOf(rows, "replace") =
        {found[i].path : i \in {i \in DOMAIN found :
           /\ found[i].path \in PathsOf(old)
           /\ \/ mode = "add"
              \/ /\ found[i].kind = "file"
                 /\ found[i].mtime > FirstAt(old, found[i].path).mtime}}
  <2>1. RowsOf(rows, "replace") =
          {found[i].path : i \in {i \in DOMAIN found : Does(i) = "replace"}}
    BY <1>5
  <2> QED BY <1>4, <2>1
<1> QED BY <1>6, <1>7, <1>8, <1>9 DEF Left

\* A row of a conflict for every path of one.
LEMMA ConflictRows ==
  ASSUME NEW found, NEW old, NEW mode, NEW rows, rows = Plan(found, old, mode)
  PROVE  RowsOf(rows, "conflict") = {} <=> Conflicts(found, old) = {}
<1>1. ASSUME Conflicts(found, old) = {} PROVE RowsOf(rows, "conflict") = {}
  BY <1>1, RowsAre
<1>2. ASSUME NEW p \in Conflicts(found, old) PROVE RowsOf(rows, "conflict") # {}
  <2>1. PICK i \in DOMAIN found : p = found[i].path
    BY DEF Conflicts, PathsOf
  <2>2. PlannedAction(found[i], found, old, mode) = "conflict"
    BY <2>1 DEF PlannedAction
  <2>3. \E r \in rows : r.action = "conflict"
    <3> DEFINE r == [path |-> found[i].path,
                     action |-> PlannedAction(found[i], found, old, mode),
                     kind |-> EntryClass(found[i].kind), size |-> Len(found[i].content),
                     mtime |-> IF found[i].kind = "file" THEN found[i].mtime ELSE 0]
    <3>1. r \in rows
      BY DEF Plan
    <3>2. r.action = "conflict"
      BY <2>2
    <3> HIDE DEF r
    <3> QED BY <3>1, <3>2
  <2> QED BY <2>3 DEF RowsOf
<1> QED BY <1>1, <1>2

\* What is written is what the rows add and replace.
LEMMA SelectedAre ==
  ASSUME NEW found, IsFound(found), NEW old, NEW mode, Conflicts(found, old) = {},
         NEW rows, rows = Plan(found, old, mode), OnePerPath(found)
  PROVE  LET sel == Selected(found, old, mode)
         IN  /\ PathsOf(sel) = RowsOf(rows, "add") \cup RowsOf(rows, "replace")
             /\ IsFound(sel) /\ OnePerPath(sel)
             /\ \A k \in DOMAIN sel : \E i \in DOMAIN found : sel[k] = found[i]
<1> DEFINE sel == Selected(found, old, mode)
           Taken(i) == IF found[i].path \notin PathsOf(old) THEN mode # "fresh"
                       ELSE mode = "add" \/ (/\ found[i].kind = "file"
                                             /\ found[i].mtime > FirstAt(old, found[i].path).mtime)
           I == {i \in DOMAIN found : Taken(i)}
<1>1. RowsOf(rows, "add") \cup RowsOf(rows, "replace") = {found[i].path : i \in I}
  <2> DEFINE A == {p \in PathsOf(found) : p \notin PathsOf(old) /\ mode # "fresh"}
             B == {found[i].path : i \in {i \in DOMAIN found :
                     /\ found[i].path \in PathsOf(old)
                     /\ \/ mode = "add"
                        \/ /\ found[i].kind = "file"
                           /\ found[i].mtime > FirstAt(old, found[i].path).mtime}}
  <2>1. RowsOf(rows, "add") = A /\ RowsOf(rows, "replace") = B
    BY RowsAre
  <2>2. A \cup B = {found[i].path : i \in I}
    BY DEF PathsOf
  <2> QED BY <2>1, <2>2
<1>2. CASE mode = "add"
  <2>1. sel = found /\ I = DOMAIN found
    BY <1>2 DEF Selected
  <2>2. PathsOf(found) = {found[i].path : i \in DOMAIN found}
    BY DEF PathsOf
  <2> QED BY <1>1, <2>1, <2>2
<1>3. CASE mode # "add"
  <2>1. sel = Picked(found, I)
    <3>1. sel = SelectUpdateItems(found, old, mode = "fresh")
      BY <1>3 DEF Selected
    <3>2. {i \in DOMAIN found :
             LET it == found[i]
             IN  IF it.path \notin PathsOf(old) THEN ~(mode = "fresh")
                 ELSE it.kind = "file" /\ it.mtime > FirstAt(old, it.path).mtime} = I
      BY <1>3
    <3> HIDE DEF I
    <3> QED BY <3>1, <3>2 DEF SelectUpdateItems
  <2>2. I \in SUBSET DOMAIN found
    OBVIOUS
  <2> HIDE DEF I, sel
  <2>3. /\ IsFound(Picked(found, I)) /\ I \subseteq Nat /\ IsFiniteSet(I)
        /\ \A k \in DOMAIN Picked(found, I) : \E i \in I : Picked(found, I)[k] = found[i]
    BY <2>2, PickedFound
  <2>4. /\ PathsOf(Picked(found, I)) = {found[i].path : i \in I}
        /\ OnePerPath(Picked(found, I))
    BY <2>2, <2>3, PickedPaths
  <2>5. \A k \in DOMAIN sel : \E i \in DOMAIN found : sel[k] = found[i]
    BY <2>1, <2>2, <2>3
  <2> QED BY <1>1, <2>1, <2>3, <2>4, <2>5 DEF sel
<1> QED BY <1>2, <1>3

\* The content a path of an archive stands for.
ContentAt(list, p) ==
  LET e == FirstAt(list, p)
  IN  IF e.kind = "hardlink" THEN FirstAt(list, e.target).content ELSE e.content

\* What is to be found in the archive new made of the entries kept and the items sel.
Renewed(new, kept, sel) ==
  /\ PathsOf(new) = PathsOf(kept) \cup PathsOf(sel)
  /\ \A i \in DOMAIN kept : FirstAt(new, kept[i].path) = kept[i]
  /\ \A k \in DOMAIN sel : ContentAt(new, sel[k].path) = sel[k].content

\* Entries kept, with those added after them.
LEMMA JoinedContents ==
  ASSUME NEW kept, IsSequence(kept), OnePerPath(kept),
         NEW sel, IsFound(sel), OnePerPath(sel), \A p \in PathsOf(kept) : p \notin PathsOf(sel),
         NEW new, new = kept \o Stored(sel)
  PROVE  Renewed(new, kept, sel)
<1> DEFINE added == Stored(sel)
           s == Ordered(sel)
<1>1. /\ IsArchive(added) /\ PathsOf(added) = PathsOf(sel) /\ OnePerPath(added)
  BY StoredIs
<1>2. IsFound(s) /\ PathsOf(s) = PathsOf(sel) /\ OnePerPath(s)
      /\ \A k \in DOMAIN s : \E i \in DOMAIN sel : s[k] = sel[i]
  BY OrderedIs
<1>3. DOMAIN added = DOMAIN s /\ \A k \in DOMAIN s : StoredAs(added[k], s, k)
  BY StoredByOrder
<1>4. new = kept \o added
  OBVIOUS
<1> HIDE DEF added, s
<1>5. IsSequence(added)
  BY <1>1 DEF IsArchive
<1>6. /\ PathsOf(new) = PathsOf(kept) \cup PathsOf(added)
      /\ OnePerPath(new)
  <2>1. PathsOf(kept) \cap PathsOf(added) = {}
    BY <1>1
  <2> QED BY <1>1, <1>4, <1>5, <2>1, JoinPaths
<1>7. DOMAIN new \in SUBSET Nat
  <2>1. IsSequence(new)
    BY <1>4, <1>5, JoinIs
  <2>2. DOMAIN new = 1..Len(new) /\ Len(new) \in Nat
    BY <2>1, SequenceHas
  <2> QED BY <2>2
<1>8. /\ \A i \in DOMAIN kept : i \in DOMAIN new /\ new[i] = kept[i]
      /\ \A i \in DOMAIN added : Len(kept) + i \in DOMAIN new /\ new[Len(kept) + i] = added[i]
  BY <1>4, <1>5, JoinHas
<1>9. \A j \in DOMAIN new : FirstAt(new, new[j].path) = new[j]
  BY <1>6, <1>7, OnlyIsFirst
<1>10. \A i \in DOMAIN kept : FirstAt(new, kept[i].path) = kept[i]
  <2> SUFFICES ASSUME NEW i \in DOMAIN kept PROVE FirstAt(new, kept[i].path) = kept[i]
    OBVIOUS
  <2>1. i \in DOMAIN new /\ new[i] = kept[i]
    BY <1>8
  <2>2. FirstAt(new, new[i].path) = new[i]
    BY <1>9, <2>1
  <2> QED BY <2>1, <2>2
<1>11. \A i \in DOMAIN added : FirstAt(new, added[i].path) = added[i]
  <2> SUFFICES ASSUME NEW i \in DOMAIN added PROVE FirstAt(new, added[i].path) = added[i]
    OBVIOUS
  <2> DEFINE j == Len(kept) + i
  <2>1. j \in DOMAIN new /\ new[j] = added[i]
    BY <1>8
  <2> HIDE DEF j
  <2>2. FirstAt(new, new[j].path) = new[j]
    BY <1>9, <2>1
  <2> QED BY <2>1, <2>2
<1>12. ASSUME NEW k \in DOMAIN s PROVE ContentAt(new, s[k].path) = s[k].content
  <2>1. StoredAs(added[k], s, k) /\ k \in DOMAIN added
    BY <1>3
  <2>2. added[k].path = s[k].path
    BY <2>1 DEF StoredAs
  <2>3. FirstAt(new, s[k].path) = added[k]
    BY <1>11, <2>1, <2>2
  <2>4. s[k].kind # "hardlink"
    BY <1>2 DEF IsFound, IsItem
  <2>5. CASE ~(s[k].kind = "file" /\ Earlier(s, k) # {})
    <3>1. added[k].kind = s[k].kind /\ added[k].content = s[k].content
      BY <2>1, <2>5 DEF StoredAs
    <3> QED BY <2>3, <2>4, <3>1 DEF ContentAt
  <2>6. CASE s[k].kind = "file" /\ Earlier(s, k) # {}
    <3> DEFINE m == Min(Earlier(s, k))
    <3>1. added[k].kind = "hardlink" /\ added[k].target = s[m].path
      BY <2>1, <2>6 DEF StoredAs
    <3>2. /\ m \in DOMAIN s /\ s[m].kind = "file" /\ Earlier(s, m) = {}
          /\ s[m].content = s[k].content
      BY <1>2, <2>6, FirstPath
    <3> HIDE DEF m
    <3>3. StoredAs(added[m], s, m) /\ m \in DOMAIN added
      BY <1>3, <3>2
    <3>4. added[m].path = s[m].path /\ added[m].content = s[m].content
      BY <3>2, <3>3 DEF StoredAs
    <3>5. FirstAt(new, s[m].path) = added[m]
      BY <1>11, <3>3, <3>4
    <3> QED BY <2>3, <3>1, <3>2, <3>4, <3>5 DEF ContentAt
  <2> QED BY <2>5, <2>6
<1>13. \A k \in DOMAIN sel : ContentAt(new, sel[k].path) = sel[k].content
  <2> SUFFICES ASSUME NEW k \in DOMAIN sel PROVE ContentAt(new, sel[k].path) = sel[k].content
    OBVIOUS
  <2>1. sel[k].path \in PathsOf(s)
    BY <1>2 DEF PathsOf
  <2>2. PICK j \in DOMAIN s : s[j].path = sel[k].path
    BY <2>1 DEF PathsOf
  <2>3. PICK i \in DOMAIN sel : s[j] = sel[i]
    BY <1>2
  <2>4. i = k
    BY <2>2, <2>3 DEF OnePerPath
  <2> QED BY <1>12, <2>2, <2>3, <2>4
<1> QED BY <1>1, <1>6, <1>10, <1>13 DEF Renewed

\* An archive as it is made: no path twice, and no time for a hard link.
MadeOnce(list) ==
  /\ IsArchive(list) /\ OnePerPath(list)
  /\ \A i \in DOMAIN list : list[i].kind = "hardlink" => list[i].mtime = 0

\* A sync of the entries old keeps those of the positions I, and no other.
SyncKeptAt(found, old, sel, I) ==
  /\ \A i \in DOMAIN old : i \in I <=> old[i].path \in PathsOf(found) \ PathsOf(sel)
  /\ Synchronized(old, sel, PathsOf(found))
       = Picked(Picked(old, I), DOMAIN Picked(old, I)) \o Stored(sel)

\* A sync keeps no hard link it does not renew, for the file in its place has a time,
\* so that none is dropped for its target.
LEMMA SyncKeeps ==
  ASSUME NEW found, IsFound(found), NEW old, MadeOnce(old), MappedValid(found, old),
         NEW sel, sel = Selected(found, old, "sync")
  PROVE  \E I \in SUBSET DOMAIN old : SyncKeptAt(found, old, sel, I)
<1> DEFINE I == {i \in DOMAIN old : /\ old[i].path \in PathsOf(found)
                                    /\ old[i].path \notin PathsOf(sel)}
           kept == Picked(old, I)
<1>1. /\ I \in SUBSET DOMAIN old
  OBVIOUS
<1>2. \A k \in DOMAIN kept : \E i \in I : kept[k] = old[i]
  <2>1. IsArchive(old)
    BY DEF MadeOnce
  <2> HIDE DEF I
  <2> QED BY <1>1, <2>1, PickedArchive
<1>3. ASSUME NEW i \in I, old[i].kind = "hardlink" PROVE FALSE
  <2>1. PICK j \in DOMAIN found : found[j].path = old[i].path
    BY <1>1 DEF PathsOf
  <2>2. FirstAt(old, old[i].path) = old[i] /\ old[i].path \in PathsOf(old) /\ old[i].mtime = 0
    <3>1. DOMAIN old \in SUBSET Nat
      BY ArchiveListed DEF MadeOnce
    <3> QED BY <1>1, <1>3, <3>1, OnlyIsFirst DEF MadeOnce, PathsOf
  <2>3. SameClass("hardlink", found[j].kind)
    BY <1>3, <2>1, <2>2 DEF MappedValid
  <2>4. found[j].kind = "file" /\ found[j].mtime \in Nat /\ found[j].mtime # 0
    BY <2>3 DEF SameClass, FileLike, IsFound, IsItem
  <2> DEFINE J == {k \in DOMAIN found :
                     LET it == found[k]
                     IN  IF it.path \notin PathsOf(old) THEN ~("sync" = "fresh")
                         ELSE it.kind = "file" /\ it.mtime > FirstAt(old, it.path).mtime}
  <2>5. sel = Picked(found, J)
    BY DEF Selected, SelectUpdateItems
  <2>6. j \in J
    BY <2>1, <2>2, <2>4
  <2>7. J \in SUBSET DOMAIN found
    OBVIOUS
  <2> HIDE DEF J
  <2>8. J \subseteq Nat /\ IsFiniteSet(J)
    BY <2>7, PickedFound
  <2>9. PathsOf(sel) = {found[k].path : k \in J}
    BY <2>5, <2>7, <2>8, PickedPaths
  <2>10. old[i].path \in PathsOf(sel)
    BY <2>1, <2>6, <2>9
  <2> QED BY <2>10
<1>4. {k \in DOMAIN kept : kept[k].kind = "hardlink"
                             => kept[k].target \in PathsOf(kept) \cup PathsOf(sel)}
        = DOMAIN kept
  <2> HIDE DEF kept
  <2>1. ASSUME NEW k \in DOMAIN kept PROVE kept[k].kind # "hardlink"
    <3>1. PICK i \in I : kept[k] = old[i]
      BY <1>2
    <3> QED BY <1>3, <3>1
  <2> QED BY <2>1
<1>5. Synchronized(old, sel, PathsOf(found)) =
        Picked(kept, {k \in DOMAIN kept : kept[k].kind = "hardlink"
                                            => kept[k].target \in PathsOf(kept) \cup PathsOf(sel)})
          \o Stored(sel)
  BY DEF Synchronized
<1>6. Synchronized(old, sel, PathsOf(found)) = Picked(kept, DOMAIN kept) \o Stored(sel)
  BY <1>4, <1>5
<1>7. \A i \in DOMAIN old : i \in I <=> old[i].path \in PathsOf(found) \ PathsOf(sel)
  OBVIOUS
<1> HIDE DEF I
<1> QED BY <1>1, <1>6, <1>7 DEF SyncKeptAt

\* Entries that were picked are where they were.
LEMMA PickedOnce ==
  ASSUME NEW list, IsArchive(list), OnePerPath(list), NEW I \in SUBSET DOMAIN list
  PROVE  LET kept == Picked(list, I)
         IN  /\ IsArchive(kept) /\ OnePerPath(kept)
             /\ PathsOf(kept) = {list[i].path : i \in I}
             /\ \A k \in DOMAIN kept : kept[k] = FirstAt(list, kept[k].path)
<1> DEFINE kept == Picked(list, I)
<1>1. /\ IsArchive(kept) /\ I \subseteq Nat /\ IsFiniteSet(I)
      /\ \A k \in DOMAIN kept : \E i \in I : kept[k] = list[i]
  BY PickedArchive
<1>2. PathsOf(kept) = {list[i].path : i \in I} /\ OnePerPath(kept)
  BY <1>1, PickedPaths
<1> HIDE DEF kept
<1>3. \A k \in DOMAIN kept : kept[k] = FirstAt(list, kept[k].path)
  <2> SUFFICES ASSUME NEW k \in DOMAIN kept PROVE kept[k] = FirstAt(list, kept[k].path)
    OBVIOUS
  <2>1. PICK i \in I : kept[k] = list[i]
    BY <1>1
  <2>2. FirstAt(list, list[i].path) = list[i]
    BY ArchiveListed, OnlyIsFirst
  <2> QED BY <2>1, <2>2
<1> QED BY <1>1, <1>2, <1>3 DEF kept

\* What an update that was not refused does to the archive.
LEMMA UpdateDoes ==
  ASSUME NEW found, IsFound(found), NEW old, MadeOnce(old), MappedValid(found, old),
         NEW mode, NEW rows, rows = Plan(found, old, mode),
         NEW new, new = Updated(found, old, mode)
  PROVE  /\ PathsOf(new) = (PathsOf(old) \cup RowsOf(rows, "add")) \ RowsOf(rows, "remove")
         /\ \A p \in PathsOf(new) :
              IF p \in RowsOf(rows, "add") \cup RowsOf(rows, "replace")
              THEN ContentAt(new, p) = FirstAt(found, p).content
              ELSE FirstAt(new, p) = FirstAt(old, p)
<1>1. IsArchive(old) /\ OnePerPath(old) /\ DOMAIN old \in SUBSET Nat
  BY ArchiveListed DEF MadeOnce
<1>2. OnePerPath(found) /\ DOMAIN found \in SUBSET Nat /\ Conflicts(found, old) = {}
  <2>1. Listed(found, Kinds \ {"hardlink"}) /\ DOMAIN found \in SUBSET Nat
    BY FoundListed
  <2>2. Listed(old, Kinds)
    BY <1>1, ArchiveListed
  <2>3. Conflicts(found, old) = {}
    BY <1>1, <2>1, <2>2, PreviewFindsConflicts
  <2> QED BY <2>1, <2>3 DEF MappedValid, IncomingValid, OnePerPath
<1> DEFINE sel == Selected(found, old, mode)
           Adds == RowsOf(rows, "add")
           Replaces == RowsOf(rows, "replace")
           Removes == RowsOf(rows, "remove")
<1>3. /\ Adds \subseteq PathsOf(found) /\ Adds \cap PathsOf(old) = {}
      /\ Replaces \subseteq PathsOf(found) /\ Replaces \subseteq PathsOf(old)
      /\ Removes = IF mode = "sync" THEN PathsOf(old) \ PathsOf(found) ELSE {}
      /\ mode # "fresh" => PathsOf(found) \ PathsOf(old) \subseteq Adds
  <2>1. /\ Adds = {p \in PathsOf(found) : p \notin PathsOf(old) /\ mode # "fresh"}
        /\ Replaces = {found[i].path : i \in {i \in DOMAIN found :
                        /\ found[i].path \in PathsOf(old)
                        /\ \/ mode = "add"
                           \/ /\ found[i].kind = "file"
                              /\ found[i].mtime > FirstAt(old, found[i].path).mtime}}
        /\ Removes = IF mode = "sync" THEN PathsOf(old) \ PathsOf(found) ELSE {}
    BY <1>2, RowsAre
  <2>2. Replaces \subseteq PathsOf(found) /\ Replaces \subseteq PathsOf(old)
    BY <2>1 DEF PathsOf
  <2> HIDE DEF Adds, Replaces, Removes
  <2> QED BY <2>1, <2>2
<1>4. /\ PathsOf(sel) = Adds \cup Replaces
      /\ IsFound(sel) /\ OnePerPath(sel)
      /\ \A k \in DOMAIN sel : \E i \in DOMAIN found : sel[k] = found[i]
  BY <1>2, SelectedAre
<1>5. \A k \in DOMAIN sel : FirstAt(found, sel[k].path) = sel[k]
  <2> SUFFICES ASSUME NEW k \in DOMAIN sel PROVE FirstAt(found, sel[k].path) = sel[k]
    OBVIOUS
  <2> HIDE DEF sel
  <2>1. PICK i \in DOMAIN found : sel[k] = found[i]
    BY <1>4
  <2>2. FirstAt(found, found[i].path) = found[i]
    BY <1>2, OnlyIsFirst
  <2> QED BY <2>1, <2>2
<1> HIDE DEF sel, Adds, Replaces, Removes
<1>6. ASSUME NEW kept, IsArchive(kept), OnePerPath(kept),
             \A k \in DOMAIN kept : kept[k] = FirstAt(old, kept[k].path),
             PathsOf(kept) = (PathsOf(old) \ PathsOf(sel)) \ Removes,
             new = kept \o Stored(sel)
      PROVE  /\ PathsOf(new) = (PathsOf(old) \cup Adds) \ Removes
             /\ \A p \in PathsOf(new) :
                  IF p \in Adds \cup Replaces
                  THEN ContentAt(new, p) = FirstAt(found, p).content
                  ELSE FirstAt(new, p) = FirstAt(old, p)
  <2>1. IsSequence(kept)
    BY <1>6 DEF IsArchive
  <2>7. OnePerPath(kept) /\ new = kept \o Stored(sel)
    BY <1>6
  <2>8. \A p \in PathsOf(kept) : p \notin PathsOf(sel)
    BY <1>6
  <2>9. IsFound(sel) /\ OnePerPath(sel)
    BY <1>4
  <2>2. /\ PathsOf(new) = PathsOf(kept) \cup PathsOf(sel)
        /\ \A i \in DOMAIN kept : FirstAt(new, kept[i].path) = kept[i]
        /\ \A k \in DOMAIN sel : ContentAt(new, sel[k].path) = sel[k].content
    <3>1. Renewed(new, kept, sel)
      BY <2>1, <2>7, <2>8, <2>9, JoinedContents
    <3> QED BY <3>1 DEF Renewed
  <2>3. PathsOf(new) = (PathsOf(old) \cup Adds) \ Removes
    <3>1. PathsOf(sel) \cap Removes = {}
      BY <1>3, <1>4
    <3>2. Replaces \subseteq PathsOf(old)
      BY <1>3
    <3> QED BY <1>4, <1>6, <2>2, <3>1, <3>2
  <2>4. ASSUME NEW p \in Adds \cup Replaces PROVE ContentAt(new, p) = FirstAt(found, p).content
    <3>1. PICK k \in DOMAIN sel : p = sel[k].path
      BY <1>4 DEF PathsOf
    <3> QED BY <1>5, <2>2, <3>1
  <2>5. ASSUME NEW p \in PathsOf(new), p \notin Adds \cup Replaces
        PROVE  FirstAt(new, p) = FirstAt(old, p)
    <3>1. PICK i \in DOMAIN kept : p = kept[i].path
      BY <1>4, <2>2, <2>5 DEF PathsOf
    <3> QED BY <1>6, <2>2, <3>1
  <2> QED BY <2>3, <2>4, <2>5
<1>7. CASE sel = <<>> /\ (mode = "sync" => PathsOf(old) \subseteq PathsOf(found))
  <2>1. new = old
    BY <1>7 DEF Updated, sel
  <2>2. PathsOf(sel) = {}
    BY <1>7, NoneIsSequence DEF PathsOf
  <2>3. Adds = {} /\ Replaces = {} /\ Removes = {}
    BY <1>3, <1>4, <1>7, <2>2
  <2> QED BY <2>1, <2>3 DEF Adds, Replaces, Removes
<1>8. CASE ~(sel = <<>> /\ (mode = "sync" => PathsOf(old) \subseteq PathsOf(found)))
           /\ mode = "sync"
  <2>1. new = Synchronized(old, sel, PathsOf(found))
    BY <1>8 DEF Updated, sel
  <2>2. sel = Selected(found, old, "sync")
    BY <1>8 DEF sel
  <2>4. PICK I \in SUBSET DOMAIN old : SyncKeptAt(found, old, sel, I)
    BY <2>2, SyncKeeps
  <2> DEFINE first == Picked(old, I)
             kept == Picked(first, DOMAIN first)
  <2>3. new = kept \o Stored(sel)
    BY <2>1, <2>4 DEF SyncKeptAt
  <2>5. PathsOf(old) \cap PathsOf(found) = (PathsOf(old) \ Removes)
    BY <1>3, <1>8
  <2>6. {old[i].path : i \in I} = (PathsOf(old) \ PathsOf(sel)) \ Removes
    <3>1. {old[i].path : i \in I} = (PathsOf(old) \cap PathsOf(found)) \ PathsOf(sel)
      BY <2>4 DEF PathsOf, SyncKeptAt
    <3> QED BY <2>5, <3>1
  <2>7. /\ IsArchive(first) /\ OnePerPath(first)
        /\ PathsOf(first) = {old[i].path : i \in I}
        /\ \A k \in DOMAIN first : first[k] = FirstAt(old, first[k].path)
    BY <1>1, PickedOnce
  <2> HIDE DEF first
  <2>8. /\ IsArchive(kept) /\ OnePerPath(kept)
        /\ PathsOf(kept) = {first[k].path : k \in DOMAIN first}
        /\ \A k \in DOMAIN kept : kept[k] = FirstAt(first, kept[k].path)
    <3>1. DOMAIN first \in SUBSET DOMAIN first
      OBVIOUS
    <3> QED BY <2>7, <3>1, PickedOnce
  <2> HIDE DEF kept
  <2>9. PathsOf(kept) = PathsOf(first)
    BY <2>8 DEF PathsOf
  <2>10. \A k \in DOMAIN kept : kept[k] = FirstAt(old, kept[k].path)
    <3> SUFFICES ASSUME NEW k \in DOMAIN kept PROVE kept[k] = FirstAt(old, kept[k].path)
      OBVIOUS
    <3>1. kept[k].path \in PathsOf(first)
      BY <2>9 DEF PathsOf
    <3>2. PICK j \in DOMAIN first : first[j].path = kept[k].path
      BY <3>1 DEF PathsOf
    <3>3. FirstAt(first, first[j].path) = first[j]
      BY <2>7, ArchiveListed, OnlyIsFirst
    <3>4. kept[k] = first[j]
      BY <2>8, <3>2, <3>3
    <3> QED BY <2>7, <3>2, <3>4
  <2>11. PathsOf(kept) = (PathsOf(old) \ PathsOf(sel)) \ Removes
    BY <2>6, <2>7, <2>9
  <2> QED BY <1>6, <2>3, <2>8, <2>10, <2>11 DEF Adds, Replaces, Removes
<1>9. CASE ~(sel = <<>> /\ (mode = "sync" => PathsOf(old) \subseteq PathsOf(found)))
           /\ mode # "sync"
  <2> DEFINE I == {i \in DOMAIN old : old[i].path \notin PathsOf(sel)}
             kept == Picked(old, I)
  <2>1. new = Appended(old, sel)
    BY <1>9 DEF Updated, sel
  <2>2. new = kept \o Stored(sel)
    BY <2>1 DEF Appended
  <2>3. I \in SUBSET DOMAIN old
    OBVIOUS
  <2>4. {old[i].path : i \in I} = PathsOf(old) \ PathsOf(sel)
    BY DEF PathsOf
  <2> HIDE DEF I
  <2>5. /\ IsArchive(kept) /\ OnePerPath(kept)
        /\ PathsOf(kept) = {old[i].path : i \in I}
        /\ \A k \in DOMAIN kept : kept[k] = FirstAt(old, kept[k].path)
    BY <1>1, <2>3, PickedOnce
  <2> HIDE DEF kept
  <2>6. PathsOf(kept) = (PathsOf(old) \ PathsOf(sel)) \ Removes
    BY <1>3, <1>9, <2>4, <2>5
  <2> QED BY <1>6, <2>2, <2>5, <2>6 DEF Adds, Replaces, Removes
<1> QED BY <1>7, <1>8, <1>9

\* What the phases of an update know of each other.
ReviewSane ==
  /\ phase # "given" => MadeOnce(was)
  /\ phase # "updated" => archive = was
  /\ phase \in {"review", "approved"} /\ quiet => plan = Plan(Scanned, archive, job.mode)
  /\ phase = "approved" => CanApply(plan)
  /\ phase = "refused" /\ job.mapped /\ quiet => ScanFails(source, job.inputs)
  /\ phase = "updated" =>
       /\ IsFound(items) /\ archive = Updated(items, was, job.mode)
       /\ job.mapped /\ quiet => plan = Plan(items, was, job.mode) /\ MappedValid(items, was)

\* The phases of an update start out right.
LEMMA ReviewInit ==
  ASSUME Init
  PROVE  ReviewSane
<1>1. was = archive /\ phase \in {"idle", "given"}
  BY DEF Init
<1>2. ASSUME phase # "given" PROVE MadeOnce(was)
  <2>1. PICK tr \in Sources, j \in Jobs : archive = Stored(Scan(tr, Order, j.made))
    BY <1>2 DEF Init
  <2>2. IsSource(tr) /\ AreInputs(j.made) /\ IncomingValid(Scan(tr, Order, j.made))
    BY RoundTripAssumption
  <2>3. IsFound(Scan(tr, Order, j.made))
    BY <2>2, ScanIs
  <2>4. OnePerPath(Scan(tr, Order, j.made))
    BY <2>2 DEF IncomingValid, OnePerPath
  <2> QED BY <1>1, <2>1, <2>3, <2>4, StoredIs DEF MadeOnce
<1> QED BY <1>1, <1>2 DEF ReviewSane

\* Where the preview shows no conflict the update is valid.
LEMMA PreviewAgrees ==
  ASSUME RInv, MadeOnce(archive), plan = Plan(Scanned, archive, job.mode)
  PROVE  RowsOf(plan, "conflict") = {} <=> MappedValid(Scanned, archive)
<1>1. IsFound(Scanned)
  BY ScanIs DEF RInv, Scanned
<1>2. Listed(Scanned, Kinds \ {"hardlink"})
  BY <1>1, FoundListed
<1>3. Listed(archive, Kinds) /\ OnePerPath(archive)
  BY ArchiveListed DEF MadeOnce
<1>4. Conflicts(Scanned, archive) = {} <=> MappedValid(Scanned, archive)
  BY <1>2, <1>3, PreviewFindsConflicts
<1>5. RowsOf(plan, "conflict") = {} <=> Conflicts(Scanned, archive) = {}
  BY ConflictRows
<1> QED BY <1>4, <1>5

\* Every step keeps what the phases of an update know.
LEMMA ReviewStep ==
  ASSUME RInv, ReviewSane, [Next]_vars
  PROVE  ReviewSane'
<1>1. CASE Edit
  <2>1. /\ UNCHANGED <<job, phase, plan, was, items, archive>> /\ quiet' = FALSE
        /\ phase \in {"idle", "review", "approved"}
    BY <1>1 DEF Edit, extractVars
  <2> QED BY <2>1 DEF ReviewSane
<1>2. CASE Refuses
  <2>1. /\ UNCHANGED <<source, job, plan, quiet, was, items, archive>> /\ phase' = "refused"
        /\ Ready /\ Refusing /\ phase \in {"idle", "approved"}
    BY <1>2 DEF Refuses, Ready, extractVars
  <2>2. ASSUME job.mapped, quiet PROVE ScanFails(source, job.inputs)
    <3>1. phase = "approved"
      BY <2>1, <2>2 DEF Ready
    <3>2. plan = Plan(Scanned, archive, job.mode) /\ RowsOf(plan, "conflict") = {}
          /\ MadeOnce(archive)
      BY <2>2, <3>1 DEF ReviewSane, CanApply
    <3>3. MappedValid(Scanned, archive)
      BY <3>2, PreviewAgrees
    <3> QED BY <2>1, <2>2, <3>3 DEF Refusing
  <2> QED BY <2>1, <2>2 DEF ReviewSane
<1>3. CASE Execute
  <2>1. /\ UNCHANGED <<source, job, plan, quiet, was>> /\ phase' = "updated"
        /\ items' = Scanned /\ archive' = Updated(Scanned, archive, job.mode)
        /\ Ready /\ ~Refusing /\ phase \in {"idle", "approved"}
    BY <1>3 DEF Execute, Ready
  <2>2. IsFound(Scanned)
    BY ScanIs DEF RInv, Scanned
  <2>3. archive = was /\ MadeOnce(was)
    BY <2>1 DEF ReviewSane
  <2>4. ASSUME job.mapped, quiet
        PROVE  plan = Plan(Scanned, archive, job.mode) /\ MappedValid(Scanned, archive)
    <3>1. phase = "approved"
      BY <2>1, <2>4 DEF Ready
    <3> QED BY <2>1, <2>4, <3>1 DEF ReviewSane, Refusing
  <2> QED BY <2>1, <2>2, <2>3, <2>4 DEF ReviewSane
<1>4. CASE Preview
  <2>1. /\ UNCHANGED <<source, job, was, items, archive>> /\ phase = "idle"
        /\ Scanned' = Scanned
        /\ \/ ScanFails(source, job.inputs) /\ phase' = "refused"
           \/ phase' = "review" /\ plan' = Plan(Scanned, archive, job.mode)
    BY <1>4 DEF Preview, extractVars, Scanned
  <2> QED BY <2>1 DEF ReviewSane
<1>5. CASE Approve
  <2>1. /\ UNCHANGED <<source, job, was, items, archive>> /\ phase = "review" /\ CanApply(plan)
        /\ Scanned' = Scanned
        /\ \/ ScanFails(source, job.inputs) /\ phase' = "refused"
           \/ /\ plan' = Plan(Scanned, archive, job.mode)
              /\ \/ phase' = "approved" /\ plan' = plan
                 \/ phase' = "review"
    BY <1>5 DEF Approve, extractVars, Scanned
  <2> QED BY <2>1 DEF ReviewSane
<1>6. CASE Cancel
  <2>1. /\ UNCHANGED <<source, job, was, items, archive>> /\ phase = "review"
        /\ phase' = "cancelled"
    BY <1>6 DEF Cancel, extractVars
  <2> QED BY <2>1 DEF ReviewSane
<1>7. CASE Restore \/ Extract \/ Terminated \/ UNCHANGED vars
  <2>1. UNCHANGED <<jobVars, archive>>
    <3>1. CASE Extract
      BY <3>1 DEF Extract, ExtractNext, Start, Refuse, Skip, DeferLink, MakeDirectory, Relink,
                  Stage, WriteSlice, Verify, Place, Metadata, RefuseLink, SkipLink, PlaceLink,
                  RestoreDirectory, Finish, Throw, Unwind, Killed
    <3>2. CASE Restore \/ Terminated \/ UNCHANGED vars
      BY <3>2 DEF Restore, Terminated, vars, extractVars
    <3> QED BY <1>7, <3>1, <3>2
  <2>2. UNCHANGED <<source, job, phase, plan, quiet, was, items, archive>> /\ Scanned' = Scanned
    BY <2>1 DEF jobVars, Scanned
  <2> QED BY <2>2 DEF ReviewSane
<1> QED BY <1>1, <1>2, <1>3, <1>4, <1>5, <1>6, <1>7 DEF Next

\* ApprovedIsExecuted: what build_archive_update_plan shows and the user approves is what
\* the library does, as long as the source stays as it was: the update is not refused,
\* adds, replaces and removes what the rows say and keeps every other entry.
THEOREM PreviewHolds == Spec => []ApprovedIsExecuted
<1>1. Init => ReviewSane
  BY ReviewInit
<1>2. RInv /\ ReviewSane /\ [Next]_vars => ReviewSane'
  BY ReviewStep
<1>3. RInv /\ ReviewSane => ApprovedIsExecuted
  <2> SUFFICES ASSUME RInv, ReviewSane, job.mapped, quiet
               PROVE  /\ phase \in {"review", "approved"} =>
                           (RowsOf(plan, "conflict") = {} <=> MappedValid(Scanned, archive))
                      /\ phase = "refused" => ScanFails(source, job.inputs)
                      /\ phase = "updated" =>
                           /\ PathsOf(archive) =
                                (PathsOf(was) \cup RowsOf(plan, "add")) \ RowsOf(plan, "remove")
                           /\ \A p \in PathsOf(archive) :
                                IF p \in RowsOf(plan, "add") \cup RowsOf(plan, "replace")
                                THEN StoredContent(p) = SourceOf(p)
                                ELSE FirstAt(archive, p) = FirstAt(was, p)
    BY DEF ApprovedIsExecuted
  <2>1. ASSUME phase \in {"review", "approved"}
        PROVE  RowsOf(plan, "conflict") = {} <=> MappedValid(Scanned, archive)
    <3>1. plan = Plan(Scanned, archive, job.mode) /\ MadeOnce(archive)
      BY <2>1 DEF ReviewSane
    <3> QED BY <3>1, PreviewAgrees
  <2>2. phase = "refused" => ScanFails(source, job.inputs)
    BY DEF ReviewSane
  <2>3. ASSUME phase = "updated"
        PROVE  /\ PathsOf(archive) =
                    (PathsOf(was) \cup RowsOf(plan, "add")) \ RowsOf(plan, "remove")
               /\ \A p \in PathsOf(archive) :
                    IF p \in RowsOf(plan, "add") \cup RowsOf(plan, "replace")
                    THEN StoredContent(p) = SourceOf(p)
                    ELSE FirstAt(archive, p) = FirstAt(was, p)
    <3>1. /\ MadeOnce(was) /\ IsFound(items) /\ archive = Updated(items, was, job.mode)
          /\ plan = Plan(items, was, job.mode) /\ MappedValid(items, was)
      BY <2>3 DEF ReviewSane
    <3>2. \A p : StoredContent(p) = ContentAt(archive, p) /\ SourceOf(p) = FirstAt(items, p).content
      BY DEF StoredContent, ContentAt, SourceOf
    <3> QED BY <3>1, <3>2, UpdateDoes
  <2> QED BY <2>1, <2>2, <2>3
<1> QED BY <1>1, <1>2, <1>3, RoundTripInvariant, PTL DEF Spec

----------------------------------------------------------------------------
(* What `test` foretells.                                                  *)

\* The extraction of a whole archive into an empty destination, without faults.
Undisturbed == before = Empty /\ options = Everything

\* The same of an archive that passes `test` without a warning.
Foreseen == Undisturbed /\ ~TestFails(archive) /\ ~TestWarns(archive)

\* What an entry becomes.
OnDisk(kind) == IF kind = "dir" THEN "dir" ELSE IF kind = "symlink" THEN "link" ELSE "file"

\* What is at p comes from the archive: it is on the way to an entry or is the entry.
OfArchive(p) ==
  \/ p \in Prefixes(Root)
  \/ p # <<>> /\ Last(p) = StagingName
  \/ \E i \in DOMAIN archive :
       \/ Below(Root \o archive[i].path, p) /\ tree[p].kind = "dir"
       \/ p = Root \o archive[i].path /\ tree[p].kind = OnDisk(archive[i].kind)

Tidy == \A p \in DOMAIN tree : OfArchive(p)

\* What has been staged are the first slices of the file.
ReadSoFar ==
  pc \in Reading =>
    /\ IsSequence(data[staged]) /\ Len(data[staged]) <= Len(Body.content)
    /\ \A k \in 1..Len(data[staged]) : data[staged][k] = Body.content[k]

Clean == pc \notin {"throw", "failed", "killed"} /\ warned = {} /\ Tidy /\ ReadSoFar

\* An extraction that `test` has nothing against goes well.
CleanInv == Foreseen => Clean

\* An extraction does not pass an entry whose path is unsafe.
Unpassed(S) == \A i \in S : \E k \in 1..Len(todo) : todo[k] = i

SafeSoFar ==
  Undisturbed /\ pc \notin {"idle", "start", "throw", "failed", "killed"} =>
    /\ Unpassed(Unsafe(archive))
    /\ pc \in {"write", "place", "placed"} => Head(todo) \notin Unsafe(archive)

\* One path in an archive lies beneath another as the two do in the destination.
LEMMA BelowInDestination ==
  ASSUME NEW x, Named(x), NEW y, Named(y)
  PROVE  Below(Root \o x, Root \o y) <=> Below(x, y)
<1>1. /\ Root \in Path /\ x \in Path /\ y \in Path /\ Root \o x \in Path /\ Root \o y \in Path
      /\ Len(Root) \in Nat /\ Len(x) \in Nat /\ Len(y) \in Nat
      /\ Len(Root \o x) = Len(Root) + Len(x) /\ Len(Root \o y) = Len(Root) + Len(y)
  BY InDestination, RootAssumption DEF Named
<1>2. /\ \A k \in 1..Len(Root) : (Root \o x)[k] = Root[k] /\ (Root \o y)[k] = Root[k]
      /\ \A k \in 1..Len(x) : (Root \o x)[Len(Root) + k] = x[k]
      /\ \A k \in 1..Len(y) : (Root \o y)[Len(Root) + k] = y[k]
  BY <1>1 DEF Path
<1>3. IsPrefix(Root \o y, Root \o x) <=>
        (/\ Len(Root \o y) <= Len(Root \o x)
         /\ \A k \in 1..Len(Root \o y) : (Root \o y)[k] = (Root \o x)[k])
  BY <1>1, PrefixIs
<1>4. IsPrefix(y, x) <=> (Len(y) <= Len(x) /\ \A k \in 1..Len(y) : y[k] = x[k])
  BY <1>1, PrefixIs
<1>5. ASSUME IsPrefix(y, x) PROVE IsPrefix(Root \o y, Root \o x)
  <2>1. ASSUME NEW k \in 1..Len(Root \o y) PROVE (Root \o y)[k] = (Root \o x)[k]
    <3>1. CASE k <= Len(Root)
      BY <1>1, <1>2, <3>1
    <3>2. CASE ~(k <= Len(Root))
      <4>1. k - Len(Root) \in 1..Len(y) /\ Len(Root) + (k - Len(Root)) = k
        BY <1>1, <3>2
      <4>2. y[k - Len(Root)] = x[k - Len(Root)] /\ k - Len(Root) \in 1..Len(x)
        BY <1>1, <1>4, <1>5, <4>1
      <4> QED BY <1>2, <4>1, <4>2
    <3> QED BY <3>1, <3>2
  <2> QED BY <1>1, <1>3, <1>4, <1>5, <2>1
<1>6. ASSUME IsPrefix(Root \o y, Root \o x) PROVE IsPrefix(y, x)
  <2>1. ASSUME NEW k \in 1..Len(y) PROVE y[k] = x[k]
    <3>1. Len(Root) + k \in 1..Len(Root \o y) /\ k \in 1..Len(x)
      BY <1>1, <1>3, <1>6
    <3>2. (Root \o y)[Len(Root) + k] = (Root \o x)[Len(Root) + k]
      BY <1>3, <1>6, <3>1
    <3> QED BY <1>2, <3>1, <3>2
  <2> QED BY <1>1, <1>3, <1>4, <1>6, <2>1
<1>7. x = y <=> Root \o x = Root \o y
  BY SameInDestination
<1> QED BY <1>5, <1>6, <1>7 DEF Below, IsStrictPrefix

\* In an archive without a warning a path is used once, and only directories have
\* something beneath them.
LEMMA NothingAbove ==
  ASSUME InputsSane, ~TestWarns(archive), NEW i \in DOMAIN archive, NEW j \in DOMAIN archive
  PROVE  /\ archive[i].path = archive[j].path => i = j
         /\ Below(archive[j].path, archive[i].path) => archive[i].kind = "dir"
<1>1. DOMAIN archive \in SUBSET Nat
  BY ArchiveListed DEF InputsSane
<1>2. OnePerPath(archive)
  BY DEF TestWarns, OnePerPath
<1>3. FirstAt(archive, archive[i].path) = archive[i]
  BY <1>1, <1>2, OnlyIsFirst
<1>4. archive[i].path \in PathsOf(archive) /\ archive[j].path \in PathsOf(archive)
  BY DEF PathsOf
<1>5. ~BeneathNonDirectory(archive, archive[j].path)
  BY <1>4 DEF TestWarns
<1> QED BY <1>2, <1>3, <1>4, <1>5 DEF OnePerPath, BeneathNonDirectory

\* The names on the way to something in the destination are no staging names.
LEMMA PrefixName ==
  ASSUME NEW x, Named(x), NEW q \in Path, IsPrefix(q, Root \o x), q \notin Prefixes(Root)
  PROVE  q # <<>> /\ Last(q) # StagingName
<1>1. /\ Root \o x \in Path /\ Len(Root) \in Nat /\ Root \in Path /\ Len(Root \o x) \in Nat
      /\ Len(Root) <= Len(Root \o x)
      /\ \A k \in 0..Len(Root) : SubSeq(Root \o x, 1, k) = SubSeq(Root, 1, k)
      /\ \A k \in (Len(Root) + 1)..Len(Root \o x) : (Root \o x)[k] # StagingName
  <2>1. /\ Root \o x \in Path /\ Len(Root) \in Nat /\ Len(x) \in Nat
        /\ Len(Root \o x) = Len(Root) + Len(x)
        /\ \A k \in 0..Len(Root) : SubSeq(Root \o x, 1, k) = SubSeq(Root, 1, k)
        /\ \A k \in (Len(Root) + 1)..Len(Root \o x) : (Root \o x)[k] # StagingName
    BY InDestination
  <2>2. Root \in Path
    BY RootAssumption DEF Named
  <2> QED BY <2>1, <2>2
<1>2. /\ Len(q) \in Nat /\ Len(q) <= Len(Root \o x) /\ q = SubSeq(Root \o x, 1, Len(q))
      /\ \A k \in 1..Len(q) : q[k] = (Root \o x)[k]
  <2>1. Len(q) \in Nat
    BY DEF Path
  <2> QED BY <1>1, <2>1, PrefixIs
<1>3. Len(q) > Len(Root)
  <2> SUFFICES ASSUME Len(q) <= Len(Root) PROVE FALSE
    BY <1>1, <1>2
  <2>1. q = SubSeq(Root, 1, Len(q))
    BY <1>1, <1>2
  <2>2. Len(q) \in 0..Len(Root)
    BY <1>1, <1>2
  <2>3. SubSeq(Root, 1, Len(q)) \in Prefixes(Root)
    BY <1>1, <2>2, Initial
  <2> QED BY <2>1, <2>3
<1>4. q # <<>> /\ Last(q) = q[Len(q)]
  BY <1>1, <1>2, <1>3 DEF Last
<1> QED BY <1>1, <1>2, <1>3, <1>4

\* On the way to an entry there are directories, and at its path there is nothing or
\* what the entry becomes.
LEMMA WayIsTidy ==
  ASSUME EInv, Foreseen, Tidy, NEW i \in DOMAIN archive, NEW q \in DOMAIN tree,
         IsPrefix(q, Root \o archive[i].path)
  PROVE  IF q = Root \o archive[i].path THEN tree[q].kind = OnDisk(archive[i].kind)
         ELSE tree[q].kind = "dir"
<1> DEFINE x == archive[i].path
           p == Root \o x
<1>1. InputsSane /\ ~TestWarns(archive) /\ \A j \in DOMAIN archive : Named(archive[j].path)
  BY DEF EInv, Foreseen, InputsSane, IsArchive
<1>2. /\ q \in Path /\ p \in Path /\ p \notin Prefixes(Root)
      /\ \A r \in Prefixes(Root) : KindAt(tree, r) = "dir"
  BY <1>1, InPlace DEF EInv, NodesInv, TreeSane, IsTree
<1>3. CASE q \in Prefixes(Root)
  BY <1>2, <1>3 DEF KindAt
<1>4. CASE q \notin Prefixes(Root)
  <2>1. ~(q # <<>> /\ Last(q) = StagingName)
    BY <1>1, <1>2, <1>4, PrefixName
  <2>2. PICK j \in DOMAIN archive :
          \/ Below(Root \o archive[j].path, q) /\ tree[q].kind = "dir"
          \/ q = Root \o archive[j].path /\ tree[q].kind = OnDisk(archive[j].kind)
    BY <1>4, <2>1 DEF Tidy, OfArchive
  <2>3. CASE q = p
    <3>1. CASE Below(Root \o archive[j].path, q) /\ tree[q].kind = "dir"
      <4>1. Below(archive[j].path, x)
        BY <1>1, <2>3, <3>1, BelowInDestination
      <4> QED BY <1>1, <2>3, <3>1, <4>1, NothingAbove DEF OnDisk
    <3>2. CASE q = Root \o archive[j].path /\ tree[q].kind = OnDisk(archive[j].kind)
      <4>1. archive[j].path = x
        BY <1>1, <2>3, <3>2, SameInDestination
      <4>2. i = j
        BY <1>1, <4>1, NothingAbove
      <4> QED BY <2>3, <3>2, <4>2
    <3> QED BY <2>2, <3>1, <3>2
  <2>4. CASE q # p
    <3>1. CASE q = Root \o archive[j].path /\ tree[q].kind = OnDisk(archive[j].kind)
      <4>1. Below(x, archive[j].path)
        BY <1>1, <2>4, <3>1, BelowInDestination DEF Below, IsStrictPrefix
      <4>2. archive[j].kind = "dir"
        BY <1>1, <4>1, NothingAbove
      <4> QED BY <2>4, <3>1, <4>2 DEF OnDisk
    <3> QED BY <2>2, <2>4, <3>1
  <2> QED BY <2>3, <2>4
<1> QED BY <1>3, <1>4

\* The destination is reached without links from the first step to the last.
LEMMA TreeReached == EInv => Reached(tree)
BY DEF EInv, NodesInv, TreeSane, IsTree, Reached

\* No link is on the way to an entry.
LEMMA WayIsClear ==
  ASSUME EInv, Foreseen, Tidy, NEW i \in DOMAIN archive
  PROVE  LET p == Root \o archive[i].path
         IN  /\ Named(archive[i].path) /\ Clear(tree, p) /\ Real(tree, p) = p
             /\ ~ThroughLink(tree, p)
             /\ p \in DOMAIN tree => tree[p].kind = OnDisk(archive[i].kind)
<1> DEFINE p == Root \o archive[i].path
<1>1. Named(archive[i].path) /\ Reached(tree)
  BY TreeReached DEF EInv, InputsSane, IsArchive
<1>2. p \in Path /\ p # <<>> /\ Len(p) \in Nat
  BY <1>1, InDestination
<1>3. ASSUME NEW k \in 0..(Len(p) - 1) PROVE KindAt(tree, SubSeq(p, 1, k)) # "link"
  <2>1. k \in 0..Len(p) /\ k # Len(p)
    BY <1>2
  <2>2. Len(SubSeq(p, 1, k)) = k /\ IsPrefix(SubSeq(p, 1, k), p)
    BY <1>2, <2>1, Initial
  <2>3. SubSeq(p, 1, k) # p
    BY <2>1, <2>2
  <2>4. SubSeq(p, 1, k) \in DOMAIN tree => tree[SubSeq(p, 1, k)].kind = "dir"
    BY <2>2, <2>3, WayIsTidy
  <2> QED BY <2>4 DEF KindAt
<1>4. Clear(tree, p)
  BY <1>3 DEF Clear
<1>5. p \in DOMAIN tree => tree[p].kind = OnDisk(archive[i].kind)
  <2>1. IsPrefix(p, p)
    BY <1>2, PrefixIs
  <2> QED BY <2>1, WayIsTidy
<1> QED BY <1>1, <1>2, <1>4, <1>5, RealOfClear, NotThroughLink

\* Nothing but directories is on the way to p or at p.
WayOpen(t, p) ==
  \A k \in 0..Len(p) : SubSeq(p, 1, k) \in DOMAIN t => t[SubSeq(p, 1, k)].kind = "dir"

\* Such a way can be made, and all of it is.
LEMMA DirectoriesComplete ==
  ASSUME NEW t, NEW p \in Path, Reached(t), IsPrefix(Root, p), WayOpen(t, p)
  PROVE  KindAt(WithDirectories(t, p), p) = "dir"
<1> DEFINE made == MadeBy(t, p)
           Wrong == {k \in Len(Root)..Len(p) :
                       ~(WayOpen(made[k], p) /\ KindAt(made[k], SubSeq(p, 1, k)) = "dir")}
<1>1. Root \in Path /\ Len(Root) \in Nat /\ Len(p) \in Nat
  BY RootAssumption DEF Named, Path
<1>2. Len(Root) <= Len(p) /\ SubSeq(p, 1, Len(Root)) = Root
  BY <1>1, PrefixIs
<1>3. /\ made[Len(Root)] = t
      /\ \A k \in (Len(Root) + 1)..Len(p) : made[k] = Making(made[k - 1], SubSeq(p, 1, k))
  BY <1>2, MadeByIs
<1>4. WithDirectories(t, p) = made[Len(p)]
  BY DirectoriesByMaking
<1> HIDE DEF made
<1>5. ASSUME Wrong # {} PROVE FALSE
  <2>1. PICK k \in Wrong : \A j \in Wrong : k <= j
    <3>1. Wrong \subseteq Nat
      BY <1>1
    <3> HIDE DEF Wrong
    <3> QED BY <1>5, <3>1, LeastNumber
  <2>2. /\ k \in Len(Root)..Len(p)
        /\ ~(WayOpen(made[k], p) /\ KindAt(made[k], SubSeq(p, 1, k)) = "dir")
    OBVIOUS
  <2>3. CASE k = Len(Root)
    <3>1. Root \in Prefixes(Root)
      BY <1>1, PrefixIs
    <3>2. KindAt(t, Root) = "dir"
      BY <3>1 DEF Reached
    <3> QED BY <1>2, <1>3, <2>2, <2>3, <3>2
  <2>4. CASE k # Len(Root)
    <3> DEFINE u == made[k - 1]
               q == SubSeq(p, 1, k)
    <3>1. k \in (Len(Root) + 1)..Len(p) /\ k \in 1..Len(p) /\ k - 1 \in Len(Root)..Len(p)
      BY <1>1, <2>2, <2>4
    <3>2. WayOpen(u, p) /\ KindAt(u, SubSeq(p, 1, k - 1)) = "dir"
      <4>1. k - 1 \notin Wrong
        BY <1>1, <2>1, <2>2
      <4> QED BY <3>1, <4>1
    <3>3. made[k] = Making(u, q)
      BY <1>3, <3>1
    <3>4. q \in Path /\ q # <<>> /\ Front(q) = SubSeq(p, 1, k - 1)
      <4>1. k \in 0..Len(p)
        BY <1>1, <3>1
      <4> QED BY <4>1, <3>1, Initial, InitialGrows
    <3> HIDE DEF u
    <3>5. Clear(u, q) /\ Real(u, q) = q
      <4>1. \A j \in 0..(Len(p) - 1) : KindAt(u, SubSeq(p, 1, j)) # "link"
        BY <1>1, <3>2 DEF WayOpen, KindAt
      <4>2. Clear(u, p)
        BY <4>1 DEF Clear
      <4> QED BY <3>1, <4>2, ClearInitial
    <3>6. Writable(u, q)
      BY <3>2, <3>4, <3>5 DEF Writable
    <3>7. q \in DOMAIN u => KindAt(u, q) = "dir"
      BY <1>1, <3>1, <3>2 DEF WayOpen, KindAt
    <3>8. CASE Exists(u, q)
      BY <2>2, <3>2, <3>3, <3>5, <3>7, <3>8 DEF Making, Exists
    <3>9. CASE ~Exists(u, q)
      <4> DEFINE v == With(u, q, Dir)
      <4> HIDE DEF q
      <4>1. DOMAIN v = DOMAIN u \cup {q} /\ v[q] = Dir /\ SameBut(u, v, {q})
        <5>1. q \in Path /\ q # <<>> /\ Clear(u, q)
          BY <3>4, <3>5
        <5> QED BY <5>1, WithIs
      <4>2. made[k] = v
        BY <3>3, <3>6, <3>9 DEF Making
      <4> HIDE DEF v
      <4>3. \A r : r \in DOMAIN v => \/ v[r].kind = "dir"
                                     \/ r \in DOMAIN u /\ v[r] = u[r]
        BY <4>1 DEF SameBut, SameAt, Dir
      <4>4. WayOpen(v, p)
        BY <3>2, <4>3 DEF WayOpen
      <4>5. KindAt(v, q) = "dir"
        BY <4>1 DEF KindAt, Dir
      <4> QED BY <2>2, <4>2, <4>4, <4>5 DEF q
    <3> QED BY <3>8, <3>9
  <2> QED BY <2>3, <2>4
<1>6. Len(p) \in Len(Root)..Len(p)
  BY <1>1, <1>2
<1>7. KindAt(made[Len(p)], SubSeq(p, 1, Len(p))) = "dir"
  BY <1>5, <1>6
<1>8. SubSeq(p, 1, Len(p)) = p
  BY DEF Path
<1> QED BY <1>4, <1>7, <1>8

\* The tree t is the tree but for directories on the way to p, p itself and staging files.
OnlyWay(t, p) ==
  \A q \in DOMAIN t : \/ q = p
                      \/ q # <<>> /\ Last(q) = StagingName
                      \/ SameAt(tree, t, q)
                      \/ t[q] = Dir /\ Below(p, q)

\* A step that makes an entry and the way to it keeps the destination tidy.
LEMMA TidyStays ==
  ASSUME Tidy, archive' = archive, NEW i \in DOMAIN archive,
         OnlyWay(tree', Root \o archive[i].path),
         Root \o archive[i].path \in DOMAIN tree'
           => tree'[Root \o archive[i].path].kind = OnDisk(archive[i].kind)
  PROVE  Tidy'
<1> DEFINE p == Root \o archive[i].path
<1>1. ASSUME NEW q \in DOMAIN tree'
      PROVE  \/ q \in Prefixes(Root)
             \/ q # <<>> /\ Last(q) = StagingName
             \/ \E j \in DOMAIN archive :
                  \/ Below(Root \o archive[j].path, q) /\ tree'[q].kind = "dir"
                  \/ q = Root \o archive[j].path /\ tree'[q].kind = OnDisk(archive[j].kind)
  <2>1. CASE q = p
    BY <2>1
  <2>2. CASE SameAt(tree, tree', q)
    <3>1. q \in DOMAIN tree /\ tree'[q].kind = tree[q].kind
      BY <2>2 DEF SameAt, Dir
    <3> QED BY <3>1 DEF Tidy, OfArchive
  <2>3. CASE tree'[q] = Dir /\ Below(p, q)
    <3>1. tree'[q].kind = "dir"
      BY <2>3 DEF Dir
    <3> QED BY <2>3, <3>1
  <2> QED BY <2>1, <2>2, <2>3 DEF OnlyWay
<1> QED BY <1>1 DEF Tidy, OfArchive

\* The same tree is as tidy.
LEMMA TidySame ==
  ASSUME Tidy, UNCHANGED <<archive, tree>>
  PROVE  Tidy'
  BY DEF Tidy, OfArchive

\* A change at p, or of a staging file, on top of that.
LEMMA OnlyWayMore ==
  ASSUME NEW t, NEW p, OnlyWay(t, p), NEW u, NEW s, SameBut(t, u, {s}),
         s = p \/ (s # <<>> /\ Last(s) = StagingName)
  PROVE  OnlyWay(u, p)
<1> SUFFICES ASSUME NEW q \in DOMAIN u, q # p, ~(q # <<>> /\ Last(q) = StagingName)
             PROVE  SameAt(tree, u, q) \/ (u[q] = Dir /\ Below(p, q))
  BY DEF OnlyWay
<1>1. SameAt(t, u, q) /\ q # s
  BY DEF SameBut
<1>2. q \in DOMAIN t /\ (SameAt(tree, t, q) \/ (t[q] = Dir /\ Below(p, q)))
  BY <1>1 DEF OnlyWay, SameAt
<1> QED BY <1>1, <1>2 DEF SameAt

\* Where nothing fails, directories are made to the end.
LEMMA DirectoriesAll ==
  ASSUME Foreseen, NEW t, NEW p, NEW u \in Directories(t, p)
  PROVE  u = WithDirectories(t, p)
  BY DEF Foreseen, Undisturbed, Everything, Directories

\* The way to an entry can be made.
LEMMA WayIsMade ==
  ASSUME EInv, Foreseen, Tidy, NEW i \in DOMAIN archive,
         NEW u \in Directories(tree, Front(Root \o archive[i].path))
  PROVE  LET p == Root \o archive[i].path
         IN  /\ OnlyWay(u, p) /\ Clear(u, p) /\ Real(u, p) = p /\ Writable(u, p)
             /\ p \in DOMAIN u => u[p].kind = OnDisk(archive[i].kind)
             /\ \A q : KindAt(u, q) = "link" <=> KindAt(tree, q) = "link"
<1> DEFINE x == archive[i].path
           p == Root \o x
           d == Front(p)
           new == DOMAIN u \ DOMAIN tree
<1>1. /\ Named(x) /\ Clear(tree, p)
      /\ p \in DOMAIN tree => tree[p].kind = OnDisk(archive[i].kind)
  BY WayIsClear
<1>2. /\ p \in Path /\ p # <<>> /\ Len(p) \in Nat \ {0} /\ d \in Path /\ Len(d) = Len(p) - 1
      /\ IsPrefix(Root, d)
  BY <1>1, InDestination, PathParts
<1>3. /\ SameBut(tree, u, new)
      /\ \A q \in new : u[q] = Dir /\ q \in Path /\ IsPrefix(q, d)
  <2>1. Named(x) /\ Clear(tree, Root \o x) /\ d \in {Root \o x, Front(Root \o x)}
    BY <1>1
  <2>2. u \in Directories(tree, d)
    OBVIOUS
  <2> HIDE DEF d, x
  <2>3. /\ SameBut(tree, u, DOMAIN u \ DOMAIN tree)
        /\ \A q \in DOMAIN u \ DOMAIN tree :
             /\ u[q] = Dir /\ q \in Path /\ q # <<>> /\ q \notin Prefixes(Root)
             /\ IsPrefix(Root, q) /\ Last(q) # StagingName /\ IsPrefix(q, d)
    BY <2>1, <2>2, DirectoriesFor
  <2> QED BY <2>3
<1>4. Reached(tree)
  BY TreeReached
<1>5. \A q \in Path : IsPrefix(q, d) => IsPrefix(q, p) /\ q # p
  <2> SUFFICES ASSUME NEW q \in Path, IsPrefix(q, d) PROVE IsPrefix(q, p) /\ q # p
    OBVIOUS
  <2>1. Len(q) \in Nat /\ Len(q) <= Len(d) /\ \A k \in 1..Len(q) : q[k] = d[k]
    BY <1>2, PrefixIs DEF Path
  <2>2. \A k \in 1..(Len(p) - 1) : d[k] = p[k]
    BY <1>2, PathParts
  <2>3. Len(q) <= Len(p) /\ \A k \in 1..Len(q) : q[k] = p[k]
    BY <1>2, <2>1, <2>2
  <2>4. Len(q) # Len(p)
    BY <1>2, <2>1
  <2> QED BY <1>2, <2>3, <2>4, PrefixIs
<1>6. WayOpen(tree, d)
  <2> SUFFICES ASSUME NEW k \in 0..Len(d), SubSeq(d, 1, k) \in DOMAIN tree
               PROVE  tree[SubSeq(d, 1, k)].kind = "dir"
    BY DEF WayOpen
  <2>1. SubSeq(d, 1, k) \in Path /\ IsPrefix(SubSeq(d, 1, k), d)
    BY <1>2, Initial
  <2>2. IsPrefix(SubSeq(d, 1, k), p) /\ SubSeq(d, 1, k) # p
    BY <1>5, <2>1
  <2> QED BY <2>2, WayIsTidy
<1>7. KindAt(u, d) = "dir"
  <2>1. u = WithDirectories(tree, d)
    BY DirectoriesAll
  <2> QED BY <1>2, <1>4, <1>6, <2>1, DirectoriesComplete
<1>8. \A q : KindAt(u, q) = "link" <=> KindAt(tree, q) = "link"
  BY <1>3, NoLinksMade
<1>9. Clear(u, p) /\ Real(u, p) = p
  BY <1>1, <1>2, <1>8, StillOnTheWay
<1>10. Writable(u, p)
  BY <1>7, <1>9 DEF Writable
<1>11. p \in DOMAIN u => u[p].kind = OnDisk(archive[i].kind)
  <2>1. p \notin new
    BY <1>3, <1>5
  <2>2. SameAt(tree, u, p)
    BY <1>3, <2>1 DEF SameBut
  <2> QED BY <1>1, <2>2 DEF SameAt, Dir
<1>12. OnlyWay(u, p)
  <2> SUFFICES ASSUME NEW q \in DOMAIN u PROVE SameAt(tree, u, q) \/ (u[q] = Dir /\ Below(p, q))
    BY DEF OnlyWay
  <2>1. CASE q \in new
    BY <1>3, <1>5, <2>1 DEF Below, IsStrictPrefix
  <2>2. CASE q \notin new
    BY <1>3, <2>2 DEF SameBut
  <2> QED BY <2>1, <2>2
<1> QED BY <1>8, <1>9, <1>10, <1>11, <1>12

\* A step that leaves the tree alone and reads nothing.
LEMMA CleanQuiet ==
  ASSUME Clean, UNCHANGED <<archive, tree, warned>>,
         pc' \notin {"throw", "failed", "killed", "write", "place"}
  PROVE  Clean'
<1>1. Tidy'
  BY TidySame DEF Clean
<1>2. ReadSoFar'
  BY DEF ReadSoFar, Reading
<1> QED BY <1>1, <1>2 DEF Clean

\* No entry is refused or skipped.
LEMMA NothingRefused ==
  ASSUME EInv, Foreseen, Tidy, Entered
  PROVE  ~Refused /\ ~Blocked("fail") /\ ~Blocked("skip")
<1>1. todo # <<>> /\ Head(todo) \in DOMAIN archive
  BY HeadIsChosen DEF Entered, EInv
<1>2. ~Blocked("fail") /\ ~Blocked("skip")
  BY DEF Foreseen, Undisturbed, Everything, Blocked
<1>3. Head(todo) \notin Unsafe(archive)
  BY DEF Foreseen, TestFails
<1>4. /\ ~ThroughLink(tree, Target)
      /\ Target \in DOMAIN tree => tree[Target].kind = OnDisk(E.kind)
  BY <1>1, WayIsClear DEF Target, E
<1>5. ~(Relinks /\ ThroughLink(tree, Original))
  <2> SUFFICES ASSUME Relinks PROVE ~ThroughLink(tree, Original)
    OBVIOUS
  <2>1. Canonical \in DOMAIN archive /\ archive[Canonical].path = E.target
    BY <1>1, CanonicalIs DEF Relinks
  <2>2. ~ThroughLink(tree, Root \o archive[Canonical].path)
    BY <2>1, WayIsClear
  <2> QED BY <2>1, <2>2 DEF Original
<1>6. ~(E.kind = "dir" /\ KindAt(tree, Target) = "link")
  BY <1>4 DEF KindAt, OnDisk
<1> QED BY <1>2, <1>3, <1>4, <1>5, <1>6 DEF Refused

\* The extraction starts.
LEMMA CleanStart ==
  ASSUME Foreseen, Clean, Start
  PROVE  Clean'
<1>1. options.request = {} /\ Dangling(archive) = {}
  BY DEF Foreseen, Undisturbed, Everything, TestFails
<1>2. pc' = "entry" /\ UNCHANGED <<archive, tree, warned>>
  BY <1>1 DEF Start, fsVars
<1> QED BY <1>2, CleanQuiet

\* The steps that leave the tree alone.
LEMMA CleanStill ==
  ASSUME EInv, Foreseen, Clean,
         Refuse \/ Skip \/ DeferLink \/ Metadata \/ Finish \/ Throw \/ Unwind \/ Killed
  PROVE  Clean'
<1>1. ~options.faults
  BY DEF Foreseen, Undisturbed, Everything
<1>2. CASE Refuse
  BY <1>2, NothingRefused DEF Refuse, Clean
<1>3. CASE Skip
  BY <1>3, NothingRefused DEF Skip, Clean
<1>4. CASE DeferLink
  BY <1>4, CleanQuiet DEF DeferLink, fsVars, Entered
<1>5. CASE Metadata
  BY <1>1, <1>5, CleanQuiet DEF Metadata, fsVars
<1>6. CASE Finish
  BY <1>6, CleanQuiet DEF Finish, fsVars
<1>7. CASE Throw \/ Killed
  BY <1>1, <1>7 DEF Throw, Killed
<1>8. CASE Unwind
  BY <1>8 DEF Unwind, Clean
<1> QED BY <1>2, <1>3, <1>4, <1>5, <1>6, <1>7, <1>8

\* A directory and those on the way to it.
LEMMA CleanDirectory ==
  ASSUME EInv, Foreseen, Clean, MakeDirectory
  PROVE  Clean'
<1> DEFINE i == Head(todo)
           p == Root \o archive[i].path
           new == DOMAIN tree' \ DOMAIN tree
<1>1. /\ tree' \in Directories(tree, Target) /\ archive[Head(todo)].kind = "dir"
      /\ UNCHANGED <<archive, warned>> /\ pc' = "entry" /\ todo # <<>>
  BY DEF MakeDirectory, Entered, E
<1>2. i \in DOMAIN archive
  BY <1>1, HeadIsChosen DEF EInv
<1>3. /\ Named(archive[i].path) /\ Clear(tree, p)
      /\ p \in DOMAIN tree => tree[p].kind = OnDisk(archive[i].kind)
  BY <1>2, WayIsClear DEF Clean
<1>4. tree' \in Directories(tree, p)
  BY <1>1 DEF Target, E
<1>5. SameBut(tree, tree', new) /\ \A q \in new : tree'[q] = Dir /\ IsPrefix(q, p)
  <2>1. PICK t : t = tree'
    OBVIOUS
  <2>2. t \in Directories(tree, p)
    BY <1>4, <2>1
  <2>3. /\ SameBut(tree, t, DOMAIN t \ DOMAIN tree)
        /\ \A q \in DOMAIN t \ DOMAIN tree : t[q] = Dir /\ IsPrefix(q, p)
    BY <1>3, <2>2, DirectoriesFor
  <2> QED BY <2>1, <2>3
<1> HIDE DEF p
<1>6. OnlyWay(tree', p)
  BY <1>4, <1>5 DEF OnlyWay, SameBut, Below, IsStrictPrefix
<1>7. p \in DOMAIN tree' => tree'[p].kind = OnDisk(archive[i].kind)
  <2>1. CASE p \in new
    BY <1>1, <1>4, <1>5, <2>1 DEF OnDisk, Dir
  <2>2. CASE p \notin new
    BY <1>3, <1>4, <1>5, <2>2 DEF SameBut, SameAt, Dir
  <2> QED BY <2>1, <2>2
<1>8. Tidy'
  BY <1>1, <1>2, <1>6, <1>7, TidyStays DEF Clean, p
<1> QED BY <1>1, <1>8 DEF Clean, ReadSoFar, Reading

\* A file is staged, for there is a directory to stage it in.
LEMMA CleanStage ==
  ASSUME EInv, Foreseen, Clean, Stage
  PROVE  Clean'
<1> DEFINE i == Head(todo)
           p == Root \o archive[i].path
           s == StagingPath(p)
<1>1. /\ UNCHANGED <<archive, todo, warned>> /\ todo # <<>>
  BY DEF Stage, Entered, queueVars
<1>14. PICK u \in Directories(tree, Front(Target)) :
         \/ /\ tree' = With(u, StagingPath(Target), File(Len(data) + 1))
            /\ data' = Append(data, <<>>)
            /\ staged' = Len(data) + 1
            /\ pc' = "write"
         \/ ~Writable(u, Target)
  BY DEF Stage, Foreseen, Undisturbed, Everything
<1>15. Target = p
  BY DEF Target, E
<1>2. i \in DOMAIN archive
  BY <1>1, HeadIsChosen DEF EInv
<1>3. Named(archive[i].path)
  BY <1>2, WayIsClear DEF Clean
<1>4. /\ OnlyWay(u, p) /\ Clear(u, p) /\ Writable(u, p)
      /\ p \in DOMAIN u => u[p].kind = OnDisk(archive[i].kind)
  BY <1>2, <1>14, <1>15, WayIsMade DEF Clean
<1>5. /\ tree' = With(u, s, File(Len(data) + 1)) /\ data' = Append(data, <<>>)
      /\ staged' = Len(data) + 1 /\ pc' = "write"
  BY <1>4, <1>14, <1>15
<1>6. /\ p \in Path /\ p # <<>> /\ Last(p) # StagingName
      /\ s \in Path /\ s # <<>> /\ Last(s) = StagingName /\ Front(s) = Front(p)
  BY <1>3, InPlace
<1> HIDE DEF s, p
<1>7. Clear(u, s)
  BY <1>4, <1>6, ClearBeside
<1> DEFINE v == With(u, s, File(Len(data) + 1))
<1>8. DOMAIN v = DOMAIN u \cup {s} /\ SameBut(u, v, {s})
  BY <1>6, <1>7, WithIs
<1> HIDE DEF v
<1>9. tree' = v
  BY <1>5 DEF v
<1>10. OnlyWay(tree', p)
  BY <1>4, <1>6, <1>8, <1>9, OnlyWayMore
<1>11. p \in DOMAIN tree' => tree'[p].kind = OnDisk(archive[i].kind)
  BY <1>4, <1>6, <1>8, <1>9 DEF SameBut, SameAt, Dir
<1>12. Tidy'
  BY <1>1, <1>2, <1>10, <1>11, TidyStays DEF Clean, p
<1>13. ReadSoFar'
  <2>1. data'[staged'] = <<>>
    BY <1>5, SequenceAppends DEF EInv, NodesInv, TreeSane
  <2>2. Body' = Body /\ IsSequence(Body.content)
    <3>1. Body' = Body
      BY <1>1 DEF Body, E, Canonical
    <3>2. Body \in {archive[j] : j \in DOMAIN archive}
      BY <1>1, <1>2, CanonicalIs DEF Body, E
    <3> QED BY <3>1, <3>2 DEF EInv, InputsSane, IsArchive
  <2>3. Len(Body.content) \in Nat
    BY <2>2, SequenceHas
  <2>4. IsSequence(<<>>) /\ Len(<<>>) = 0 /\ 1..0 = {}
    BY NoneIsSequence
  <2> QED BY <2>1, <2>2, <2>3, <2>4 DEF ReadSoFar
<1> QED BY <1>1, <1>5, <1>12, <1>13 DEF Clean

\* The bytes that are read are those of an entry.
LEMMA BodyIs ==
  ASSUME EInv, todo # <<>>
  PROVE  IsSequence(Body.content) /\ Len(Body.content) \in Nat
<1>1. Head(todo) \in DOMAIN archive
  BY HeadIsChosen DEF EInv
<1>2. Body \in {archive[j] : j \in DOMAIN archive}
  BY <1>1, CanonicalIs DEF Body, E
<1>3. IsSequence(Body.content)
  BY <1>2 DEF EInv, InputsSane, IsArchive
<1> QED BY <1>3, SequenceHas

\* The next slice is the right one.
LEMMA CleanSlice ==
  ASSUME EInv, Foreseen, Clean, WriteSlice
  PROVE  Clean'
<1> DEFINE b == Body.content
           d == data[staged]
           n == Len(data[staged])
<1>1. /\ UNCHANGED <<archive, pc, tree, staged, todo, warned>> /\ pc = "write" /\ todo # <<>>
      /\ staged # 0 /\ n < Len(b)
  BY DEF WriteSlice, queueVars, EInv, ControlSane, Reading
<1>2. options.damaged = {}
  BY DEF Foreseen, Undisturbed, Everything
<1>3. data' = [data EXCEPT ![staged] = Append(data[staged], b[n + 1])]
  BY <1>2 DEF WriteSlice
<1>4. /\ IsSequence(data) /\ Len(data) \in Nat /\ staged \in 1..Len(data)
  <2>1. IsSequence(data) /\ IsSequence(before.data)
    BY DEF EInv, NodesInv, TreeSane, InputsSane, IsFileSystem
  <2>2. Len(data) \in Nat /\ Len(before.data) \in Nat
    BY <2>1, SequenceHas
  <2> QED BY <1>1, <2>1, <2>2 DEF EInv, StagedSane
<1>5. data'[staged'] = Append(d, b[n + 1])
  BY <1>1, <1>3, <1>4, SequenceChanges
<1>6. IsSequence(d) /\ n <= Len(b) /\ \A k \in 1..n : d[k] = b[k]
  BY <1>1 DEF Clean, ReadSoFar, Reading
<1>7. n \in Nat /\ Len(b) \in Nat
  BY <1>1, <1>6, SequenceHas, BodyIs
<1> DEFINE e == Append(d, b[n + 1])
<1>8. /\ IsSequence(e) /\ Len(e) = n + 1 /\ e[n + 1] = b[n + 1]
      /\ \A k \in 1..n : e[k] = d[k]
  BY <1>6, SequenceAppends
<1> HIDE DEF e, b
<1>9. Len(e) <= Len(b) /\ \A k \in 1..Len(e) : e[k] = b[k]
  BY <1>1, <1>6, <1>7, <1>8
<1>10. Body'.content = b
  BY <1>1 DEF Body, E, Canonical, b
<1>11. ReadSoFar'
  BY <1>5, <1>8, <1>9, <1>10 DEF ReadSoFar, e
<1>12. Tidy'
  BY <1>1, TidySame DEF Clean
<1> QED BY <1>1, <1>11, <1>12 DEF Clean

\* What has been read is the file.
LEMMA CleanVerify ==
  ASSUME EInv, Foreseen, Clean, Verify
  PROVE  Clean'
<1> DEFINE b == Body.content
           d == data[staged]
<1>1. /\ UNCHANGED <<archive, tree, data, staged, todo, warned>> /\ pc = "write"
      /\ todo # <<>> /\ Len(d) = Len(b) /\ pc' = IF d = b THEN "place" ELSE "throw"
  BY DEF Verify, queueVars, fsVars, EInv, ControlSane
<1>2. IsSequence(d) /\ \A k \in 1..Len(d) : d[k] = b[k]
  BY <1>1 DEF Clean, ReadSoFar, Reading
<1>3. IsSequence(b)
  BY <1>1, BodyIs
<1> HIDE DEF b, d
<1>4. d = b
  <2>1. d = [k \in 1..Len(d) |-> d[k]] /\ b = [k \in 1..Len(b) |-> b[k]]
    BY <1>2, <1>3 DEF IsSequence
  <2> QED BY <1>1, <1>2, <2>1
<1>5. pc' = "place"
  BY <1>1, <1>4
<1>6. ReadSoFar'
  <2>1. Body'.content = Body.content /\ data'[staged'] = data[staged]
    BY <1>1 DEF Body, E, Canonical
  <2> QED BY <1>1, <2>1 DEF Clean, ReadSoFar, Reading
<1>7. Tidy'
  BY <1>1, TidySame DEF Clean
<1> QED BY <1>1, <1>5, <1>6, <1>7 DEF Clean

\* Nothing is in the way of the staged file.
LEMMA CleanPlace ==
  ASSUME EInv, Foreseen, Clean, Place
  PROVE  Clean'
<1> DEFINE i == Head(todo)
           p == Root \o archive[i].path
           s == StagingPath(p)
           w == Without(tree, s)
           v == With(w, p, File(staged))
<1>1. /\ UNCHANGED <<archive, todo, warned>> /\ pc = "place" /\ todo # <<>> /\ staged # 0
      /\ ~options.faults
  BY DEF Place, queueVars, EInv, ControlSane, Reading, Foreseen, Undisturbed, Everything
<1>2. i \in DOMAIN archive
  BY <1>1, HeadIsChosen DEF EInv
<1>3. /\ Named(archive[i].path) /\ Clear(tree, p) /\ Real(tree, p) = p
      /\ p \in DOMAIN tree => tree[p].kind = OnDisk(archive[i].kind)
  BY <1>2, WayIsClear DEF Clean
<1>4. OnDisk(archive[i].kind) = "file"
  <2>1. IsBody
    BY <1>1 DEF EInv, StagedSane
  <2> QED BY <2>1 DEF IsBody, OnDisk, E
<1>5. KindAt(tree, Real(tree, Target)) # "dir"
  BY <1>3, <1>4 DEF Target, E, KindAt
<1>6. pc' = "placed" /\ tree' = Renamed(tree)
  BY <1>1, <1>5 DEF Place
<1>7. tree' = v
  BY <1>6 DEF Renamed, Target, E
<1>8. /\ p \in Path /\ p # <<>> /\ Last(p) # StagingName
      /\ s \in Path /\ s # <<>> /\ Last(s) = StagingName /\ Front(s) = Front(p)
  BY <1>3, InPlace
<1> HIDE DEF s, p
<1>9. OnlyWay(tree, p)
  BY DEF OnlyWay, SameAt
<1>10. Clear(tree, s)
  BY <1>3, <1>8, ClearBeside
<1>11. DOMAIN w = DOMAIN tree \ {s} /\ SameBut(tree, w, {s})
  BY <1>8, <1>10, WithoutIs
<1> HIDE DEF w
<1>12. OnlyWay(w, p)
  BY <1>8, <1>9, <1>11, OnlyWayMore
<1>13. Clear(w, p)
  <2>1. \A q \in {s} : KindAt(w, q) # "link"
    BY <1>11 DEF KindAt
  <2> QED BY <1>3, <1>8, <1>11, <2>1, SameClear
<1>14. v[p] = File(staged) /\ SameBut(w, v, {p})
  BY <1>8, <1>13, WithIs
<1> HIDE DEF v
<1>15. OnlyWay(tree', p)
  BY <1>7, <1>12, <1>14, OnlyWayMore
<1>16. tree'[p].kind = OnDisk(archive[i].kind)
  BY <1>4, <1>7, <1>14 DEF File
<1>17. Tidy'
  BY <1>1, <1>2, <1>15, <1>16, TidyStays DEF Clean, p
<1> QED BY <1>1, <1>6, <1>17 DEF Clean, ReadSoFar, Reading

\* The way to what is no directory can be made and its target removed.
LEMMA WayIsCleared ==
  ASSUME EInv, Foreseen, Tidy, NEW i \in DOMAIN archive, archive[i].kind # "dir",
         NEW u \in Directories(tree, Front(Root \o archive[i].path)),
         NEW v \in Removals(u, Root \o archive[i].path)
  PROVE  LET p == Root \o archive[i].path
         IN  /\ OnlyWay(v, p) /\ Clear(v, p) /\ Real(v, p) = p /\ Writable(v, p)
             /\ p \notin DOMAIN v
             /\ \A q : KindAt(v, q) = "link" => KindAt(tree, q) = "link"
<1> DEFINE x == archive[i].path
           p == Root \o x
<1>1. Named(x)
  BY WayIsClear
<1>2. /\ OnlyWay(u, p) /\ Clear(u, p) /\ Real(u, p) = p /\ Writable(u, p)
      /\ p \in DOMAIN u => u[p].kind = OnDisk(archive[i].kind)
      /\ \A q : KindAt(u, q) = "link" <=> KindAt(tree, q) = "link"
  BY WayIsMade
<1>3. p \in Path /\ p # <<>> /\ Len(p) \in Nat \ {0} /\ Len(Front(p)) = Len(p) - 1
  BY <1>1, InPlace, PathParts
<1>4. v \in Removals(u, p)
  OBVIOUS
<1> HIDE DEF p
<1>5. SameBut(u, v, {p}) /\ (p \notin DOMAIN u => v = u)
  BY <1>2, <1>3, <1>4, RemovalsAre
<1>6. p \notin DOMAIN v
  <2>1. CASE p \notin DOMAIN u
    BY <1>5, <2>1
  <2>2. CASE p \in DOMAIN u
    <3>1. Exists(u, p)
      BY <1>2, <2>2 DEF Exists
    <3>2. Removable(u, p)
      BY <1>2, <2>2 DEF Removable, KindAt, OnDisk
    <3>3. v = Without(u, p)
      BY <1>4, <3>1, <3>2 DEF Removals, Foreseen, Undisturbed, Everything
    <3>4. DOMAIN Without(u, p) = DOMAIN u \ {p}
      BY <1>2, <1>3, WithoutIs
    <3> QED BY <3>3, <3>4
  <2> QED BY <2>1, <2>2
<1>7. OnlyWay(v, p)
  BY <1>2, <1>5, OnlyWayMore
<1>8. \A q : KindAt(v, q) = "link" => KindAt(u, q) = "link"
  <2> SUFFICES ASSUME NEW q, KindAt(v, q) = "link" PROVE KindAt(u, q) = "link"
    OBVIOUS
  <2>1. q # p
    BY <1>6 DEF KindAt
  <2>2. SameAt(u, v, q)
    BY <1>5, <2>1 DEF SameBut
  <2> QED BY <2>2, SameKind
<1>9. Clear(v, p) /\ Real(v, p) = p
  BY <1>2, <1>3, <1>8, StillOnTheWay
<1>10. Writable(v, p)
  <2>1. Front(p) # p
    BY <1>3
  <2>2. SameAt(u, v, Front(p))
    BY <1>5, <2>1 DEF SameBut
  <2>3. KindAt(v, Front(p)) = KindAt(u, Front(p))
    BY <2>2, SameKind
  <2> QED BY <1>2, <1>9, <2>3 DEF Writable
<1> QED BY <1>2, <1>6, <1>7, <1>8, <1>9, <1>10 DEF p

\* A hard link, or the copy in its place.
LEMMA CleanRelink ==
  ASSUME EInv, Foreseen, Clean, Relink
  PROVE  Clean'
<1> DEFINE i == Head(todo)
           p == Root \o archive[i].path
<1>1. /\ UNCHANGED <<archive, warned>> /\ pc' = "entry" /\ todo # <<>> /\ E.kind = "hardlink"
  BY RelinkAround DEF Relink, Relinks, Entered
<1>2. i \in DOMAIN archive
  BY <1>1, HeadIsChosen DEF EInv
<1>3. /\ Canonical \in DOMAIN archive /\ archive[Canonical].path = E.target
  BY <1>1, CanonicalIs
<1> DEFINE Relinked(v) == \/ /\ KindAt(v, Real(v, Original)) = "file"
                             /\ tree' = With(v, Target, v[Real(v, Original)])
                          \/ \E c \in Copied(v) : tree' = c.tree
<1>12. PICK u \in Directories(tree, Front(Target)) : \E v \in Removals(u, Target) : Relinked(v)
  BY DEF Relink
<1>4. PICK v \in Removals(u, Target) : Relinked(v)
  BY <1>12
<1>5. Target = p /\ archive[i].kind = "hardlink"
  BY <1>1 DEF Target, E
<1>6. /\ OnlyWay(v, p) /\ Clear(v, p) /\ Real(v, p) = p /\ p \notin DOMAIN v
      /\ \A q : KindAt(v, q) = "link" => KindAt(tree, q) = "link"
  BY <1>2, <1>4, <1>5, <1>12, WayIsCleared DEF Clean
<1>7. p \in Path /\ p # <<>>
  <2>1. Named(archive[i].path)
    BY <1>2, WayIsClear DEF Clean
  <2> QED BY <2>1, InPlace
<1>8. Real(v, Original) = Original
  <2>1. /\ Named(E.target) /\ Clear(tree, Root \o archive[Canonical].path)
    BY <1>3, WayIsClear DEF Clean
  <2>2. Original \in Path /\ Original # <<>> /\ Clear(tree, Original)
    BY <1>3, <2>1, InPlace DEF Original
  <2> QED BY <1>6, <2>2, StillOnTheWay
<1>9. \/ tree' = v
      \/ \E node : node.kind = "file" /\ tree' = With(v, p, node)
  <2>1. CASE KindAt(v, Real(v, Original)) = "file"
             /\ tree' = With(v, Target, v[Real(v, Original)])
    BY <1>5, <2>1 DEF KindAt
  <2>2. CASE \E c \in Copied(v) : tree' = c.tree
    <3>1. PICK c \in Copied(v) : tree' = c.tree
      BY <2>2
    <3>2. Follow(v, Target) = Target /\ KindAt(v, Target) = "none"
      BY <1>5, <1>6 DEF Follow, KindAt
    <3>3. c.tree = v \/ c.tree = With(v, Target, File(Len(data) + 1))
      <4>1. Real(v, Original) = Original /\ Real(v, Target) = Target
        BY <1>5, <1>6, <1>8
      <4> QED BY <3>2, <4>1, CopiedIs
    <3>4. File(Len(data) + 1).kind = "file"
      BY DEF File
    <3> QED BY <1>5, <3>1, <3>3, <3>4
  <2> QED BY <1>4, <2>1, <2>2
<1> HIDE DEF p
<1>10. OnlyWay(tree', p) /\ (p \in DOMAIN tree' => tree'[p].kind = OnDisk(archive[i].kind))
  <2>1. CASE tree' = v
    BY <1>6, <2>1
  <2>2. CASE \E node : node.kind = "file" /\ tree' = With(v, p, node)
    <3>1. PICK node : node.kind = "file" /\ tree' = With(v, p, node)
      BY <2>2
    <3> DEFINE w == With(v, p, node)
    <3>2. w[p] = node /\ SameBut(v, w, {p})
      <4>1. p \in Path /\ p # <<>> /\ Clear(v, p)
        BY <1>6, <1>7
      <4> QED BY <4>1, WithIs
    <3> HIDE DEF w
    <3>3. tree' = w
      BY <3>1 DEF w
    <3>4. OnlyWay(w, p)
      BY <1>6, <3>2, OnlyWayMore
    <3> QED BY <1>5, <3>1, <3>2, <3>3, <3>4 DEF OnDisk
  <2> QED BY <1>9, <2>1, <2>2
<1>11. Tidy'
  BY <1>1, <1>2, <1>10, TidyStays DEF Clean, p
<1> QED BY <1>1, <1>11 DEF Clean, ReadSoFar, Reading

\* The links of the archive are made, none of them refused or skipped.
LEMMA CleanLinks ==
  ASSUME EInv, Foreseen, Clean, RefuseLink \/ SkipLink \/ PlaceLink
  PROVE  Clean'
<1> DEFINE i == Head(links)
           p == Root \o archive[i].path
<1>1. LinksLeft /\ links # <<>> /\ pc = "entry"
  BY DEF RefuseLink, SkipLink, PlaceLink, LinksLeft
<1>2. i \in DOMAIN archive /\ archive[i].kind = "symlink"
  <2> DEFINE S == {j \in Chosen : archive[j].kind = "symlink"}
  <2>1. links \in Seq(S)
    BY DEF EInv, QueuesSane
  <2>2. Head(links) \in S
    BY <1>1, <2>1, HeadTailProperties
  <2> QED BY <2>2, ChosenAre
<1>3. /\ Named(archive[i].path) /\ ~ThroughLink(tree, p)
  BY <1>2, WayIsClear DEF Clean
<1>4. LinkPath = p /\ options.policy = "all" /\ ~options.faults
  BY DEF LinkPath, L, Foreseen, Undisturbed, Everything
<1>5. PlaceLink
  BY <1>3, <1>4 DEF RefuseLink, SkipLink, LinkRefused
<1> DEFINE Linked(v) == \/ tree' = With(v, LinkPath, Link(L.target)) /\ UNCHANGED <<warned, pc>>
                        \/ Exists(v, LinkPath) \/ ~Writable(v, LinkPath)
<1>16. PICK u \in Directories(tree, Front(LinkPath)) : \E v \in Removals(u, LinkPath) : Linked(v)
  BY <1>4, <1>5 DEF PlaceLink
<1>6. PICK v \in Removals(u, LinkPath) : Linked(v)
  BY <1>16
<1>7. UNCHANGED archive
  BY <1>5 DEF PlaceLink
<1>8. /\ OnlyWay(v, p) /\ Clear(v, p) /\ Real(v, p) = p /\ Writable(v, p)
      /\ p \notin DOMAIN v
  BY <1>2, <1>4, <1>6, <1>16, WayIsCleared DEF Clean
<1>9. tree' = With(v, p, Link(L.target)) /\ UNCHANGED <<warned, pc>>
  BY <1>4, <1>6, <1>8 DEF Exists
<1>10. p \in Path /\ p # <<>>
  BY <1>3, InPlace
<1> HIDE DEF p
<1> DEFINE w == With(v, p, Link(L.target))
<1>11. w[p] = Link(L.target) /\ SameBut(v, w, {p})
  <2>1. p \in Path /\ p # <<>> /\ Clear(v, p)
    BY <1>8, <1>10
  <2> QED BY <2>1, WithIs
<1> HIDE DEF w
<1>12. tree' = w
  BY <1>9 DEF w
<1>13. OnlyWay(w, p)
  BY <1>8, <1>11, OnlyWayMore
<1>14. tree'[p].kind = OnDisk(archive[i].kind)
  BY <1>2, <1>11, <1>12 DEF Link, OnDisk
<1>15. Tidy'
  BY <1>2, <1>7, <1>12, <1>13, <1>14, TidyStays DEF Clean, p
<1> QED BY <1>1, <1>9, <1>15 DEF Clean, ReadSoFar, Reading

\* Directories get their times.
LEMMA CleanRestore ==
  ASSUME EInv, Foreseen, Clean, RestoreDirectory
  PROVE  Clean'
<1>1. /\ UNCHANGED <<archive, warned>> /\ pc' = "dirs"
      /\ tree' = tree \/ (KindAt(tree, DirPath) = "dir"
                          /\ tree' = [tree EXCEPT ![DirPath].restored = TRUE])
  BY DEF RestoreDirectory, Foreseen, Undisturbed, Everything
<1>2. DOMAIN tree' = DOMAIN tree /\ \A q \in DOMAIN tree : tree'[q].kind = tree[q].kind
  <2>1. CASE tree' = tree
    BY <2>1
  <2>2. CASE /\ KindAt(tree, DirPath) = "dir"
             /\ tree' = [tree EXCEPT ![DirPath].restored = TRUE]
    <3>1. DirPath \in DOMAIN tree /\ tree[DirPath] \in [kind : {"dir"}, restored : BOOLEAN]
      BY <2>2 DEF KindAt, EInv, NodesInv, TreeSane, IsTree, IsNode
    <3>2. tree'[DirPath] = [tree[DirPath] EXCEPT !.restored = TRUE]
      BY <2>2, <3>1
    <3>3. tree'[DirPath].kind = tree[DirPath].kind
      BY <3>1, <3>2
    <3>4. DOMAIN tree' = DOMAIN tree /\ \A q \in DOMAIN tree : q # DirPath => tree'[q] = tree[q]
      BY <2>2
    <3> QED BY <3>3, <3>4
  <2> QED BY <1>1, <2>1, <2>2
<1>3. Tidy'
  BY <1>1, <1>2 DEF Clean, Tidy, OfArchive
<1> QED BY <1>1, <1>3 DEF Clean, ReadSoFar, Reading

\* What an extraction is given does not change.
LEMMA GivenStays ==
  ASSUME ExtractNext
  PROVE  UNCHANGED <<before, archive, options>>
  BY DEF ExtractNext, Start, Refuse, Skip, DeferLink, MakeDirectory, Relink, Stage,
         WriteSlice, Verify, Place, Metadata, RefuseLink, SkipLink, PlaceLink,
         RestoreDirectory, Finish, Throw, Unwind, Killed

\* An extraction that `test` has nothing against keeps going well.
LEMMA CleanStep ==
  ASSUME EInv, CleanInv, ExtractNext
  PROVE  CleanInv'
<1>1. Foreseen' <=> Foreseen
  BY GivenStays DEF Foreseen, Undisturbed, TestFails, TestWarns
<1> SUFFICES ASSUME Foreseen PROVE Clean'
  BY <1>1 DEF CleanInv
<1>2. Clean
  BY DEF CleanInv
<1>3. CASE Start
  BY <1>2, <1>3, CleanStart
<1>4. CASE Refuse \/ Skip \/ DeferLink \/ Metadata \/ Finish \/ Throw \/ Unwind \/ Killed
  BY <1>2, <1>4, CleanStill
<1>5. CASE MakeDirectory
  BY <1>2, <1>5, CleanDirectory
<1>6. CASE Relink
  BY <1>2, <1>6, CleanRelink
<1>7. CASE Stage
  BY <1>2, <1>7, CleanStage
<1>8. CASE WriteSlice
  BY <1>2, <1>8, CleanSlice
<1>9. CASE Verify
  BY <1>2, <1>9, CleanVerify
<1>10. CASE Place
  BY <1>2, <1>10, CleanPlace
<1>11. CASE RefuseLink \/ SkipLink \/ PlaceLink
  BY <1>2, <1>11, CleanLinks
<1>12. CASE RestoreDirectory
  BY <1>2, <1>12, CleanRestore
<1> QED BY <1>3, <1>4, <1>5, <1>6, <1>7, <1>8, <1>9, <1>10, <1>11, <1>12 DEF ExtractNext

\* What is taken from the list is not one of S.
LEMMA UnpassedTail ==
  ASSUME todo \in Seq(Chosen), todo # <<>>, NEW S, Unpassed(S), Head(todo) \notin S,
         todo' = Tail(todo)
  PROVE  \A i \in S : \E k \in 1..Len(todo') : todo'[k] = i
<1> SUFFICES ASSUME NEW i \in S PROVE \E k \in 1..Len(todo') : todo'[k] = i
  OBVIOUS
<1>1. PICK k \in 1..Len(todo) : todo[k] = i
  BY DEF Unpassed
<1>2. Len(todo) \in Nat /\ Head(todo) = todo[1]
  OBVIOUS
<1>3. k # 1
  BY <1>1, <1>2
<1>4. Len(Tail(todo)) = Len(todo) - 1 /\ \A j \in 1..(Len(todo) - 1) : Tail(todo)[j] = todo[j + 1]
  OBVIOUS
<1>5. k - 1 \in 1..Len(Tail(todo)) /\ k - 1 \in 1..(Len(todo) - 1) /\ (k - 1) + 1 = k
  BY <1>1, <1>2, <1>3, <1>4
<1>6. Tail(todo)[k - 1] = i
  BY <1>1, <1>4, <1>5
<1> QED BY <1>5, <1>6

\* No step passes an unsafe entry.
LEMMA SafeStep ==
  ASSUME EInv, SafeSoFar, ExtractNext
  PROVE  SafeSoFar'
<1> DEFINE Over == {"idle", "start", "throw", "failed", "killed"}
           Busy == {"write", "place", "placed"}
           U == Unsafe(archive)
<1>1. UNCHANGED <<before, archive, options>>
  BY GivenStays
<1>2. Unsafe(archive)' = U /\ (Undisturbed' <=> Undisturbed)
  BY <1>1 DEF Unsafe, Undisturbed
<1> HIDE DEF U
<1> SUFFICES ASSUME Undisturbed, pc' \notin Over
             PROVE  /\ \A i \in U : \E k \in 1..Len(todo') : todo'[k] = i
                    /\ pc' \in Busy => Head(todo') \notin U
  BY <1>2 DEF SafeSoFar, Unpassed
<1>3. CASE Start
  <2> DEFINE all == [i \in DOMAIN archive |-> i]
  <2>1. pc' = "entry" /\ todo' = Picked(all, Chosen) /\ Chosen = DOMAIN archive
    BY <1>3 DEF Start, Chosen, Selection, Undisturbed, Everything
  <2>2. Chosen \subseteq Nat /\ IsFiniteSet(Chosen)
    <3>1. IsSequence(archive)
      BY DEF EInv, InputsSane, IsArchive
    <3>2. Chosen = 1..Len(archive) /\ Len(archive) \in Nat
      BY <2>1, <3>1, SequenceHas
    <3> QED BY <3>2, FS_Interval
  <2>3. \A i \in Chosen : all[i] \in Nat /\ all[i] = i
    BY <2>1, <2>2
  <2> HIDE DEF all
  <2>4. /\ Len(todo') = Cardinality(Chosen)
        /\ \A i \in Chosen : \E k \in 1..Cardinality(Chosen) : todo'[k] = all[i]
    BY <2>1, <2>2, <2>3, PickedSequence, PickedIs
  <2>5. U \subseteq Chosen
    BY <2>1 DEF U, Unsafe
  <2> QED BY <2>1, <2>3, <2>4, <2>5
<1>4. CASE ~Start
  <2>1. pc \notin Over
    BY <1>4 DEF ExtractNext, Refuse, Skip, DeferLink, MakeDirectory, Relink, Stage, WriteSlice,
         Verify, Place, Metadata, RefuseLink, SkipLink, PlaceLink, RestoreDirectory, Finish,
         Throw, Unwind, Killed, Entered, LinksLeft
  <2>2. Unpassed(U) /\ (pc \in Busy => Head(todo) \notin U)
    BY <2>1 DEF SafeSoFar, U
  <2>3. \/ todo' = todo /\ (pc' \in Busy => pc \in Busy \/ Head(todo) \notin U)
        \/ todo # <<>> /\ todo' = Tail(todo) /\ pc' \notin Busy /\ Head(todo) \notin U
    <3>1. CASE Skip \/ DeferLink \/ MakeDirectory \/ Relink
      BY <3>1 DEF Skip, DeferLink, MakeDirectory, Relink, Entered, EntryDone, Refused, U
    <3>2. CASE Stage
      BY <3>2 DEF Stage, Entered, Refused, queueVars, U
    <3>3. CASE Metadata
      BY <2>2, <3>3 DEF Metadata, EntryDone, EInv, ControlSane
    <3>4. CASE WriteSlice \/ Verify \/ Place
      BY <3>4 DEF WriteSlice, Verify, Place, queueVars
    <3>5. CASE Refuse \/ RefuseLink \/ SkipLink \/ PlaceLink
      BY <3>5 DEF Refuse, RefuseLink, SkipLink, PlaceLink, LinksLeft, queueVars
    <3>6. CASE RestoreDirectory \/ Finish \/ Throw \/ Unwind \/ Killed
      BY <3>6 DEF RestoreDirectory, Finish, Throw, Unwind, Killed, queueVars
    <3> QED BY <1>4, <3>1, <3>2, <3>3, <3>4, <3>5, <3>6 DEF ExtractNext
  <2>4. CASE todo' = todo /\ (pc' \in Busy => pc \in Busy \/ Head(todo) \notin U)
    BY <2>2, <2>4 DEF Unpassed
  <2>5. CASE todo # <<>> /\ todo' = Tail(todo) /\ pc' \notin Busy /\ Head(todo) \notin U
    <3>1. todo \in Seq(Chosen)
      BY DEF EInv, QueuesSane
    <3> QED BY <2>2, <2>5, <3>1, UnpassedTail
  <2> QED BY <2>3, <2>4, <2>5
<1> QED BY <1>3, <1>4

Resting == pc \in {"idle", "start"}

\* Before an extraction begins nothing has gone wrong.
LEMMA IdleClean == EInv /\ Resting => CleanInv /\ SafeSoFar
<1> SUFFICES ASSUME EInv, pc \in {"idle", "start"} PROVE CleanInv /\ SafeSoFar
  BY DEF Resting
<1>1. warned = {} /\ tree = before.tree
  BY DEF EInv, ControlSane
<1>2. Foreseen => Tidy
  BY <1>1 DEF Foreseen, Undisturbed, Empty, Tidy, OfArchive
<1> QED BY <1>1, <1>2 DEF CleanInv, SafeSoFar, Clean, ReadSoFar, Reading

\* The same for what every other step does.
LEMMA ForetoldStep ==
  ASSUME RInv, CleanInv, SafeSoFar, [Next]_vars
  PROVE  CleanInv' /\ SafeSoFar'
<1>1. EInv /\ RInv'
  BY RoundTripStep DEF RInv
<1>2. ASSUME UNCHANGED extractVars PROVE CleanInv' /\ SafeSoFar'
  BY <1>2 DEF CleanInv, SafeSoFar, Foreseen, Undisturbed, Clean, Tidy, OfArchive, ReadSoFar,
       Reading, TestFails, TestWarns, Unsafe, Unpassed, Body, E, Canonical, extractVars, fsVars,
       queueVars
<1>3. ASSUME pc' \in {"idle", "start"} PROVE CleanInv' /\ SafeSoFar'
  <2>1. EInv'
    BY <1>1 DEF RInv
  <2>2. Resting'
    BY <1>3 DEF Resting
  <2> QED BY <2>1, <2>2, IdleClean, PTL
<1>4. CASE Edit \/ Refuses \/ Preview \/ Approve \/ Cancel
  BY <1>2, <1>4 DEF Edit, Refuses, Preview, Approve, Cancel
<1>5. CASE Execute
  <2>1. pc = "idle" /\ pc' = pc
    BY <1>5 DEF Execute, Ready, RInv, PhaseSane
  <2> QED BY <1>3, <2>1
<1>6. CASE Restore
  BY <1>3, <1>6 DEF Restore
<1>7. CASE Extract
  BY <1>1, <1>7, CleanStep, SafeStep DEF Extract
<1>8. CASE Terminated \/ UNCHANGED vars
  BY <1>2, <1>8 DEF Terminated, vars
<1> QED BY <1>4, <1>5, <1>6, <1>7, <1>8 DEF Next

\* `test` foretells the faultless extraction of a whole archive into an empty
\* destination: it is not refused for anything `test` passes, and what ends well has
\* passed `test` (check_directory_structure and extract_entries_impl).
THEOREM TestTells == Spec => []TestForetells
<1>1. Init => CleanInv /\ SafeSoFar
  <2>1. Init => RInv /\ Resting
    BY RoundTripInit DEF Init, Resting
  <2> QED BY <2>1, IdleClean DEF RInv
<1>2. RInv /\ CleanInv /\ SafeSoFar /\ [Next]_vars => CleanInv' /\ SafeSoFar'
  BY ForetoldStep
<1>3. RInv /\ CleanInv /\ SafeSoFar => TestForetells
  <2> SUFFICES ASSUME RInv, CleanInv, SafeSoFar, Undisturbed
               PROVE  /\ pc = "failed" => TestFails(archive) \/ TestWarns(archive)
                      /\ pc = "done" =>
                           ~TestFails(archive) /\ (warned # {} => TestWarns(archive))
    BY DEF TestForetells, Undisturbed
  <2>1. pc = "failed" => TestFails(archive) \/ TestWarns(archive)
    BY DEF CleanInv, Foreseen, Clean
  <2>2. ASSUME pc = "done" PROVE ~TestFails(archive)
    <3>1. todo = <<>> /\ Chosen \cap Dangling(archive) = {}
      BY <2>2 DEF RInv, EInv, ControlSane, QueuesSane
    <3>2. Unsafe(archive) = {}
      BY <2>2, <3>1 DEF SafeSoFar, Unpassed
    <3>3. Dangling(archive) \subseteq Chosen
      BY DEF Dangling, Chosen, Selection, Undisturbed, Everything
    <3> QED BY <3>1, <3>2, <3>3 DEF TestFails
  <2>3. pc = "done" => (warned # {} => TestWarns(archive))
    BY <2>2 DEF CleanInv, Foreseen, Clean
  <2> QED BY <2>1, <2>2, <2>3
<1> QED BY <1>1, <1>2, <1>3, RoundTripInvariant, PTL DEF Spec

----------------------------------------------------------------------------
\* What an extraction that reports success has done.

\* The path of an entry in the destination.
Own(i) == Root \o archive[i].path

\* An entry is still to come: it is in the list, or a link that was put off.
Awaits(i) == \E k \in 1..Len(todo) : todo[k] = i
Deferred(i) == \E k \in 1..Len(links) : links[k] = i

\* No entry is to come twice.
Once ==
  /\ \A k, l \in 1..Len(todo) : k # l => todo[k] # todo[l]
  /\ \A k, l \in 1..Len(links) : k # l => links[k] # links[l]
  /\ \A k \in 1..Len(links), l \in 1..Len(todo) : links[k] # todo[l]

\* It has been at its path: it is to come no more, or its file has just been renamed.
Past(i) == (~Awaits(i) /\ ~Deferred(i)) \/ (pc = "placed" /\ i = Head(todo))

\* There is a file at p, and none of the user's that was not written over.
Fresh(p) ==
  /\ KindAt(tree, p) = "file"
  /\ tree[p].inode > Len(before.data) \/ tree[p].inode \in copied.inodes

\* What an entry that is not to come has made of its path, times of directories and
\* links apart that are still put off.
InPlaceSoFar(i) ==
  LET e == archive[i]
      p == Own(i)
  IN  /\ e.kind = "dir" =>
           /\ KindAt(tree, p) = "dir"
           /\ \/ \E k \in 1..Len(dirs) : dirs[k] = i
              \/ todo = <<>> /\ links = <<>> /\ tree[p].restored
      /\ e.kind = "symlink" =>
           \/ Deferred(i)
           \/ todo = <<>> /\ KindAt(tree, p) = "link" /\ tree[p].to = e.target
      /\ FileLike(e.kind) => Fresh(p)

\* What is at p in the destination was there, is of the archive or of copy_file.
Known(p) ==
  Below(p, Root) /\ Last(p) # StagingName =>
    /\ tree[p].kind = "file" => FileInTheWay(p)
    /\ \/ p \in DOMAIN before.tree \/ p \in copied.paths
       \/ \E j \in Chosen : Below(Own(j), p) \/ (Own(j) = p /\ Past(j))

Restoring ==
  /\ \A i \in Chosen : Awaits(i) \/ LetBe(i) \/ InPlaceSoFar(i)
  /\ pc = "placed" => FileLike(E.kind) /\ Fresh(Target)
  /\ \A p \in DOMAIN tree : Known(p)
  /\ Once
  /\ pc \in {"dirs", "done"} => links = <<>>
  /\ pc = "done" => dirs = <<>>

\* An extraction that has not failed has dealt with all entries that are not to come.
Going == {"entry", "write", "place", "placed", "dirs", "done"}
RestInv == pc \in Going => Restoring

\* The paths of entries.
LEMMA OwnPath ==
  ASSUME InputsSane, NEW i \in Chosen
  PROVE  /\ Named(archive[i].path) /\ archive[i].kind \in Kinds
         /\ Own(i) \in Path /\ Own(i) # <<>> /\ Below(Own(i), Root)
         /\ Last(Own(i)) # StagingName /\ Own(i) \notin Prefixes(Root)
         /\ \A j \in Chosen : Own(j) = Own(i) => archive[j].path = archive[i].path
         /\ \A j \in Chosen : Below(Own(j), Own(i)) <=> Below(archive[j].path, archive[i].path)
<1>1. \A j \in Chosen : Named(archive[j].path) /\ archive[j].kind \in Kinds
  BY ChosenAre DEF InputsSane, IsArchive, Kinds
<1>2. \A j \in Chosen : Own(j) = Own(i) => archive[j].path = archive[i].path
  BY <1>1, SameInDestination DEF Own
<1>3. \A j \in Chosen : Below(Own(j), Own(i)) <=> Below(archive[j].path, archive[i].path)
  BY <1>1, BelowInDestination DEF Own
<1> QED BY <1>1, <1>2, <1>3, InDestination, InPlace DEF Own

\* What need not be in place need not be later.
LEMMA LetBeStays ==
  ASSUME UNCHANGED <<before, archive, options>>, copied.paths \subseteq copied'.paths,
         warned \subseteq warned', ignored \subseteq ignored', NEW i, LetBe(i)
  PROVE  LetBe(i)'
<1>1. Chosen' = Chosen
  BY ChosenStays
<1>2. \A q : FileInTheWay(q) => FileInTheWay(q)'
  BY <1>1 DEF FileInTheWay
<1> QED BY <1>1, <1>2 DEF LetBe

\* A step on behalf of x leaves the others in place.
LEMMA OthersInPlace ==
  ASSUME InputsSane, UNCHANGED <<before, archive, options>>,
         copied.inodes \subseteq copied'.inodes,
         NEW x \in Chosen, NEW S, SameBut(tree, tree', S),
         \A q \in S : \/ q \notin DOMAIN tree \/ q = Own(x) \/ q \in copied'.paths
                      \/ Last(q) = StagingName,
         todo # <<>> \/ links # <<>>, todo = <<>> => todo' = <<>>,
         \A j : (\E k \in 1..Len(dirs) : dirs[k] = j) => \E k \in 1..Len(dirs') : dirs'[k] = j,
         NEW i \in Chosen, i # x, InPlaceSoFar(i), Deferred(i) => Deferred(i)',
         ~LetBe(i)'
  PROVE  InPlaceSoFar(i)'
<1>0. PICK p : p = Own(i)
  OBVIOUS
<1>1. Own(i)' = p /\ Chosen' = Chosen
  BY <1>0, ChosenStays DEF Own
<1>2. archive[i].path # archive[x].path /\ p \notin copied'.paths
  BY <1>0, <1>1 DEF LetBe, Own
<1>3. p # Own(x) /\ Last(p) # StagingName
  BY <1>0, <1>2, OwnPath
<1>4. p \in DOMAIN tree => p \in DOMAIN tree' /\ SameAt(tree, tree', p)
  BY <1>2, <1>3 DEF SameBut, SameAt
<1>5. ASSUME KindAt(tree, p) = "dir" PROVE KindAt(tree', p) = "dir"
  BY <1>4, <1>5, SameKind DEF KindAt
<1>6. ASSUME KindAt(tree, p) \in {"link", "file"} PROVE KindAt(tree', p) = KindAt(tree, p) /\ tree'[p] = tree[p]
  BY <1>4, <1>6, SameKind DEF KindAt
<1>7. FileLike(archive[i].kind) =>
        /\ KindAt(tree', p) = "file"
        /\ tree'[p].inode > Len(before'.data) \/ tree'[p].inode \in copied'.inodes
  BY <1>0, <1>6 DEF InPlaceSoFar, Fresh
<1>8. archive[i].kind = "symlink" =>
        Deferred(i)' \/ (todo' = <<>> /\ KindAt(tree', p) = "link" /\ tree'[p].to = archive[i].target)
  BY <1>0, <1>6 DEF InPlaceSoFar
<1>9. archive[i].kind = "dir" =>
        KindAt(tree', p) = "dir" /\ \E k \in 1..Len(dirs') : dirs'[k] = i
  BY <1>0, <1>5 DEF InPlaceSoFar
<1> QED BY <1>1, <1>7, <1>8, <1>9 DEF InPlaceSoFar, Fresh

\* What it puts into the tree is known.
LEMMA KnownStays ==
  ASSUME UNCHANGED <<before, archive, options>>, copied.paths \subseteq copied'.paths,
         \A p \in DOMAIN tree : Known(p),
         NEW x \in Chosen, NEW S, SameBut(tree, tree', S),
         \A j \in Chosen : Past(j) => Past(j)',
         \A q \in S \cap DOMAIN tree' :
           \/ Last(q) = StagingName \/ q \in copied'.paths
           \/ Below(Own(x), q) /\ tree'[q].kind = "dir"
           \/ /\ q = Own(x) /\ Past(x)'
              /\ tree'[q].kind = "file" => FileLike(archive[x].kind)
  PROVE  \A p \in DOMAIN tree' : Known(p)'
<1>1. Chosen' = Chosen /\ \A j : Own(j)' = Own(j)
  BY ChosenStays DEF Own
<1>2. \A q : FileInTheWay(q) => FileInTheWay(q)'
  BY <1>1 DEF FileInTheWay
<1> SUFFICES ASSUME NEW p \in DOMAIN tree', Below(p, Root), Last(p) # StagingName
             PROVE  /\ tree'[p].kind = "file" => FileInTheWay(p)'
                    /\ \/ p \in DOMAIN before.tree \/ p \in copied'.paths
                       \/ \E j \in Chosen : Below(Own(j), p) \/ (Own(j) = p /\ Past(j)')
  BY <1>1 DEF Known
<1>3. CASE p \in S
  BY <1>1, <1>3 DEF FileInTheWay, Own
<1>4. CASE p \notin S
  <2>1. p \in DOMAIN tree /\ (tree'[p].kind = "file" => tree[p].kind = "file")
    BY <1>4 DEF SameBut, SameAt, Dir
  <2> QED BY <1>2, <2>1 DEF Known
<1> QED BY <1>3, <1>4

\* A sequence without its first element.
LEMMA TailIs ==
  ASSUME NEW C, NEW s \in Seq(C), s # <<>>
  PROVE  /\ Len(s) \in Nat \ {0} /\ Len(Tail(s)) = Len(s) - 1 /\ Head(s) = s[1]
         /\ \A k \in 1..Len(Tail(s)) : Tail(s)[k] = s[k + 1] /\ k + 1 \in 1..Len(s) /\ k + 1 # 1
         /\ \A k \in 1..Len(s) : k # 1 =>
              k - 1 \in 1..Len(Tail(s)) /\ Tail(s)[k - 1] = s[k]
<1>1. /\ Len(s) \in Nat \ {0} /\ Len(Tail(s)) = Len(s) - 1 /\ Head(s) = s[1]
      /\ \A k \in 1..(Len(s) - 1) : Tail(s)[k] = s[k + 1]
  OBVIOUS
<1>2. \A k \in 1..(Len(s) - 1) : k + 1 \in 1..Len(s) /\ k + 1 # 1
  BY <1>1
<1>3. \A k \in 1..Len(s) : k # 1 => k - 1 \in 1..(Len(s) - 1) /\ (k - 1) + 1 = k
  BY <1>1
<1> QED BY <1>1, <1>2, <1>3

\* What is still to come after the list has lost its first entry, which is put off or
\* dealt with.
LEMMA ListGoesOn ==
  ASSUME QueuesSane, Once, pc # "placed" \/ links' = links, todo # <<>>, todo' = Tail(todo),
         NEW h, h = Head(todo), links' = links \/ links' = Append(links, h), pc' # "placed"
  PROVE  /\ Once' /\ (links' = links => Past(h)')
         /\ \A j : Past(j) => Past(j)'
         /\ \A j : Awaits(j) => j = h \/ Awaits(j)'
         /\ \A j : Deferred(j) => Deferred(j)'
         /\ links' # links => Deferred(h)'
<1>1. todo \in Seq(Chosen) /\ links \in Seq({i \in Chosen : archive[i].kind = "symlink"})
  BY DEF QueuesSane
<1>2. /\ Len(todo) \in Nat \ {0} /\ h = todo[1]
      /\ \A k \in 1..Len(todo') : todo'[k] = todo[k + 1] /\ k + 1 \in 1..Len(todo) /\ k + 1 # 1
      /\ \A k \in 1..Len(todo) : k # 1 => k - 1 \in 1..Len(todo') /\ todo'[k - 1] = todo[k]
  BY <1>1, TailIs
<1>3. /\ Len(links) \in Nat
      /\ \/ links' = links
         \/ /\ Len(links') = Len(links) + 1 /\ links'[Len(links) + 1] = h
            /\ \A k \in 1..Len(links) : links'[k] = links[k]
  <2>0. IsSequence(links)
    BY <1>1, SequenceIs
  <2>1. CASE links' = links
    BY <2>0, <2>1, SequenceHas
  <2>2. CASE links' = Append(links, h)
    BY <2>0, <2>2, SequenceHas, SequenceAppends
  <2> QED BY <2>1, <2>2
<1>4. \A k \in 1..Len(todo') : todo'[k] # h
  BY <1>2 DEF Once
<1>5. Once'
  <2>1. ASSUME NEW k \in 1..Len(todo'), NEW l \in 1..Len(todo'), k # l PROVE todo'[k] # todo'[l]
    <3>1. k + 1 \in 1..Len(todo) /\ l + 1 \in 1..Len(todo) /\ k + 1 # l + 1
      BY <1>2, <2>1
    <3> QED BY <1>2, <3>1 DEF Once
  <2>2. ASSUME NEW k \in 1..Len(links'), NEW l \in 1..Len(todo') PROVE links'[k] # todo'[l]
    <3>1. (k \in 1..Len(links) /\ links'[k] = links[k]) \/ links'[k] = h
      BY <1>3
    <3> QED BY <1>2, <1>4, <3>1 DEF Once
  <2>3. ASSUME NEW k \in 1..Len(links'), NEW l \in 1..Len(links'), k # l PROVE links'[k] # links'[l]
    <3>1. \A m \in 1..Len(links) : links[m] # h
      <4>1. 1 \in 1..Len(todo)
        BY <1>2
      <4> QED BY <1>2, <4>1 DEF Once
    <3>2. \/ k \in 1..Len(links) /\ l \in 1..Len(links) /\ links'[k] = links[k] /\ links'[l] = links[l]
          \/ k \in 1..Len(links) /\ links'[k] = links[k] /\ links'[l] = h
          \/ l \in 1..Len(links) /\ links'[l] = links[l] /\ links'[k] = h
      BY <1>3, <2>3
    <3> QED BY <2>3, <3>1, <3>2 DEF Once
  <2> QED BY <2>1, <2>2, <2>3 DEF Once
<1>6. \A j : Awaits(j) => j = h \/ Awaits(j)'
  BY <1>2 DEF Awaits
<1>7. \A j : Awaits(j)' => Awaits(j) /\ j # h
  BY <1>2, <1>4 DEF Awaits
<1>8. \A j : Deferred(j) => Deferred(j)'
  <2>1. \A k \in 1..Len(links) : k \in 1..Len(links')
    BY <1>3
  <2> QED BY <1>3, <2>1 DEF Deferred
<1>9. \A j : Deferred(j)' => Deferred(j) \/ (j = h /\ links' # links)
  <2>1. \A k \in 1..Len(links') : \/ k \in 1..Len(links) /\ links'[k] = links[k]
                                  \/ (links'[k] = h /\ links' # links)
    BY <1>3
  <2> QED BY <2>1 DEF Deferred
<1>10. links' # links => Deferred(h)'
  <2> SUFFICES ASSUME links' # links PROVE Deferred(h)'
    OBVIOUS
  <2>1. Len(links) + 1 \in 1..Len(links') /\ links'[Len(links) + 1] = h
    BY <1>3
  <2> QED BY <2>1 DEF Deferred
<1>11. Awaits(h) /\ ~Deferred(h)
  <2>1. 1 \in 1..Len(todo)
    BY <1>2
  <2> QED BY <1>2, <2>1 DEF Awaits, Deferred, Once
<1>12. links' = links => ~Awaits(h)' /\ ~Deferred(h)'
  BY <1>7, <1>9, <1>11
<1>13. \A j : Past(j) => Past(j)'
  <2> SUFFICES ASSUME NEW j, Past(j) PROVE ~Awaits(j)' /\ ~Deferred(j)'
    BY DEF Past
  <2>1. CASE ~Awaits(j) /\ ~Deferred(j)
    BY <1>7, <1>9, <1>11, <2>1
  <2>2. CASE pc = "placed" /\ j = h
    BY <1>12, <2>2
  <2> QED BY <2>1, <2>2 DEF Past
<1> QED BY <1>5, <1>6, <1>8, <1>10, <1>12, <1>13 DEF Past

\* What is still to come after the first link has been dealt with.
LEMMA LinksGoOn ==
  ASSUME QueuesSane, Once, pc # "placed", todo = <<>>, todo' = <<>>, links # <<>>,
         NEW h, h = Head(links), links' = Tail(links)
  PROVE  /\ Once' /\ Past(h)'
         /\ \A j : Past(j) => Past(j)'
         /\ \A j : Awaits(j) => j = h \/ Awaits(j)'
         /\ \A j : Deferred(j) => j = h \/ Deferred(j)'
<1>1. links \in Seq({i \in Chosen : archive[i].kind = "symlink"})
  BY DEF QueuesSane
<1>2. /\ Len(links) \in Nat \ {0} /\ h = links[1]
      /\ \A k \in 1..Len(links') : links'[k] = links[k + 1] /\ k + 1 \in 1..Len(links) /\ k + 1 # 1
      /\ \A k \in 1..Len(links) : k # 1 => k - 1 \in 1..Len(links') /\ links'[k - 1] = links[k]
  BY <1>1, TailIs
<1>3. Len(todo) = 0 /\ Len(todo') = 0 /\ 1..0 = {}
  OBVIOUS
<1>4. Once'
  <2>1. ASSUME NEW k \in 1..Len(links'), NEW l \in 1..Len(links'), k # l PROVE links'[k] # links'[l]
    <3>1. k + 1 \in 1..Len(links) /\ l + 1 \in 1..Len(links) /\ k + 1 # l + 1
      BY <1>2, <2>1
    <3> QED BY <1>2, <3>1 DEF Once
  <2> QED BY <1>3, <2>1 DEF Once
<1>5. \A j : ~Awaits(j) /\ ~Awaits(j)'
  BY <1>3 DEF Awaits
<1>6. \A j : Deferred(j)' => Deferred(j) /\ j # h
  <2>1. \A k \in 1..Len(links') : links'[k] # h
    BY <1>2 DEF Once
  <2> QED BY <1>2, <2>1 DEF Deferred
<1>7. \A j : Deferred(j) => j = h \/ Deferred(j)'
  BY <1>2 DEF Deferred
<1>8. Past(h)'
  BY <1>5, <1>6 DEF Past
<1>9. \A j : Past(j) => Past(j)'
  BY <1>5, <1>6 DEF Past
<1> QED BY <1>4, <1>5, <1>7, <1>8, <1>9

\* A step on behalf of the entry x.
LEMMA RestStep ==
  ASSUME EInv, Restoring, UNCHANGED <<before, archive, options>>,
         copied.paths \subseteq copied'.paths, copied.inodes \subseteq copied'.inodes,
         warned \subseteq warned', ignored \subseteq ignored',
         NEW x \in Chosen, NEW S, SameBut(tree, tree', S),
         \A q \in S : \/ q \notin DOMAIN tree \/ q = Own(x) \/ q \in copied'.paths
                      \/ Last(q) = StagingName,
         \A q \in S \cap DOMAIN tree' :
           \/ Last(q) = StagingName \/ q \in copied'.paths
           \/ Below(Own(x), q) /\ tree'[q].kind = "dir"
           \/ /\ q = Own(x) /\ Past(x)'
              /\ tree'[q].kind = "file" => FileLike(archive[x].kind),
         todo # <<>> \/ links # <<>>, todo = <<>> => todo' = <<>>,
         \A j : (\E k \in 1..Len(dirs) : dirs[k] = j) => \E k \in 1..Len(dirs') : dirs'[k] = j,
         Once', \A j \in Chosen : Past(j) => Past(j)',
         \A j \in Chosen : Awaits(j) => j = x \/ Awaits(j)',
         \A j \in Chosen : Deferred(j) => j = x \/ Deferred(j)',
         Awaits(x)' \/ LetBe(x)' \/ InPlaceSoFar(x)',
         pc' = "placed" => (FileLike(E.kind) /\ Fresh(Target))',
         pc' \notin {"dirs", "done"}
  PROVE  Restoring'
<1>1. Chosen' = Chosen /\ InputsSane
  BY ChosenStays DEF EInv
<1>2. ASSUME NEW i \in Chosen, ~Awaits(i)', ~LetBe(i)' PROVE InPlaceSoFar(i)'
  <2>1. CASE i = x
    BY <1>2, <2>1
  <2>2. CASE i # x
    <3>1. ~LetBe(i)
      BY <1>2, LetBeStays
    <3>2. InPlaceSoFar(i) /\ (Deferred(i) => Deferred(i)')
      BY <1>2, <2>2, <3>1 DEF Restoring
    <3> QED BY <1>1, <1>2, <2>2, <3>2, OthersInPlace
  <2> QED BY <2>1, <2>2
<1>3. \A p \in DOMAIN tree' : Known(p)'
  <2>1. \A p \in DOMAIN tree : Known(p)
    BY DEF Restoring
  <2> QED BY <2>1, KnownStays
<1> QED BY <1>1, <1>2, <1>3 DEF Restoring

\* A step on behalf of the first entry of the list that takes it from there.
LEMMA RestEntry ==
  ASSUME EInv, Restoring, UNCHANGED <<before, archive, options, links>>,
         todo # <<>>, todo' = Tail(todo), NEW x, x = Head(todo),
         copied.paths \subseteq copied'.paths, copied.inodes \subseteq copied'.inodes,
         warned \subseteq warned', ignored \subseteq ignored', NEW S, SameBut(tree, tree', S),
         \A q \in S : \/ q \notin DOMAIN tree \/ q = Own(x) \/ q \in copied'.paths
                      \/ Last(q) = StagingName,
         \A q \in S \cap DOMAIN tree' :
           \/ Last(q) = StagingName \/ q \in copied'.paths
           \/ Below(Own(x), q) /\ tree'[q].kind = "dir"
           \/ q = Own(x) /\ (tree'[q].kind = "file" => FileLike(archive[x].kind)),
         \A j : (\E k \in 1..Len(dirs) : dirs[k] = j) => \E k \in 1..Len(dirs') : dirs'[k] = j,
         LetBe(x)' \/ InPlaceSoFar(x)', pc' = "entry"
  PROVE  Restoring'
<1>1. x \in Chosen /\ QueuesSane /\ Once
  BY HeadIsChosen DEF EInv, Restoring
<1>2. /\ Once' /\ Past(x)'
      /\ \A j : Past(j) => Past(j)'
      /\ \A j : Awaits(j) => j = x \/ Awaits(j)'
      /\ \A j : Deferred(j) => Deferred(j)'
  BY <1>1, ListGoesOn
<1>3. \A q \in S \cap DOMAIN tree' :
        \/ Last(q) = StagingName \/ q \in copied'.paths
        \/ Below(Own(x), q) /\ tree'[q].kind = "dir"
        \/ /\ q = Own(x) /\ Past(x)'
           /\ tree'[q].kind = "file" => FileLike(archive[x].kind)
  BY <1>2
<1> QED BY <1>1, <1>2, <1>3, RestStep

\* A step that leaves the lists and the tree alone.
LEMMA RestQuiet ==
  ASSUME EInv, Restoring,
         UNCHANGED <<before, archive, options, tree, todo, links, dirs, copied, warned, ignored>>,
         pc \notin {"placed", "dirs", "done"}, pc' \notin {"placed", "dirs", "done"}
  PROVE  Restoring'
<1>1. Chosen' = Chosen
  BY ChosenStays
<1>2. \A i : /\ LetBe(i)' <=> LetBe(i)
             /\ InPlaceSoFar(i)' <=> InPlaceSoFar(i)
             /\ Awaits(i)' <=> Awaits(i)
             /\ Past(i)' <=> Past(i)
  BY <1>1 DEF LetBe, FileInTheWay, InPlaceSoFar, Own, Awaits, Deferred, Past, Fresh
<1>3. \A p \in DOMAIN tree' : Known(p)'
  BY <1>1, <1>2 DEF Restoring, Known, FileInTheWay, Own
<1>4. Once'
  BY DEF Restoring, Once
<1> QED BY <1>1, <1>2, <1>3, <1>4 DEF Restoring

\* What is where skip finds something before a step is not due to the entry.
LEMMA SomethingThere ==
  ASSUME EInv, Restoring, NEW x \in Chosen, ~Past(x), options.policy = "skip",
         archive[x].kind # "dir", Own(x) \in DOMAIN tree
  PROVE  LetBe(x)
<1>1. /\ Below(Own(x), Root) /\ Last(Own(x)) # StagingName
      /\ \A j \in Chosen : Own(j) = Own(x) => archive[j].path = archive[x].path
      /\ \A j \in Chosen : Below(Own(j), Own(x)) => Below(archive[j].path, archive[x].path)
  BY OwnPath DEF EInv
<1>2. \/ Own(x) \in DOMAIN before.tree \/ Own(x) \in copied.paths
      \/ \E j \in Chosen : Below(Own(j), Own(x)) \/ (Own(j) = Own(x) /\ Past(j))
  BY <1>1 DEF Restoring, Known
<1>3. CASE Own(x) \in DOMAIN before.tree \/ Own(x) \in copied.paths
  BY <1>3 DEF LetBe, Own
<1>4. ASSUME NEW j \in Chosen, Below(Own(j), Own(x)) PROVE LetBe(x)
  BY <1>1, <1>4 DEF LetBe
<1>5. ASSUME NEW j \in Chosen, Own(j) = Own(x), Past(j) PROVE LetBe(x)
  BY <1>1, <1>5 DEF LetBe
<1> QED BY <1>2, <1>3, <1>4, <1>5

\* The first entry of the list is still to come.
LEMMA FirstAwaits ==
  ASSUME QueuesSane, Once, todo # <<>>, NEW x, x = Head(todo)
  PROVE  /\ Awaits(x) /\ ~Deferred(x) /\ (pc # "placed" => ~Past(x))
         /\ Target = Own(x) /\ E = archive[x]
<1>1. todo \in Seq(Chosen)
  BY DEF QueuesSane
<1>2. 1 \in 1..Len(todo) /\ x = todo[1]
  BY <1>1
<1>3. Awaits(x) /\ ~Deferred(x)
  BY <1>2 DEF Awaits, Deferred, Once
<1> QED BY <1>3 DEF Past, Target, E, Own

\* What skip keeps is not in place and need not be.
LEMMA RestSkip ==
  ASSUME EInv, Restoring, Skip
  PROVE  Restoring'
<1>0. PICK x : x = Head(todo)
  OBVIOUS
<1>1. /\ UNCHANGED <<before, archive, options, pc, tree, links, dirs, warned, copied, ignored>>
      /\ pc = "entry" /\ todo # <<>> /\ todo' = Tail(todo)
      /\ E.kind \in {"file", "hardlink"} /\ ~ThroughLink(tree, Target)
      /\ Exists(tree, Target) /\ options.policy = "skip"
  BY DEF Skip, Entered, EntryDone, Refused, Blocked, fsVars
<1>2. /\ x \in Chosen /\ Named(E.path) /\ ~Past(x) /\ Target = Own(x) /\ E = archive[x]
  BY <1>0, <1>1, HeadIsChosen, FirstAwaits DEF EInv, Restoring
<1>3. Own(x) \in DOMAIN tree
  <2>1. Real(tree, Target) = Target
    BY <1>1, <1>2, OnTheWay DEF Target
  <2> QED BY <1>1, <1>2, <2>1 DEF Exists
<1>4. LetBe(x)'
  <2>1. LetBe(x)
    BY <1>1, <1>2, <1>3, SomethingThere
  <2> QED BY <1>1, <2>1, LetBeStays
<1>5. SameBut(tree, tree', {})
  BY <1>1, SameSame
<1> QED BY <1>0, <1>1, <1>4, <1>5, RestEntry

\* A link is put off.
LEMMA RestDefer ==
  ASSUME EInv, Restoring, DeferLink
  PROVE  Restoring'
<1>0. PICK x : x = Head(todo)
  OBVIOUS
<1>1. /\ UNCHANGED <<before, archive, options, pc, tree, dirs, warned, copied, ignored>>
      /\ pc = "entry" /\ todo # <<>> /\ todo' = Tail(todo) /\ links' = Append(links, x)
      /\ E.kind = "symlink"
  BY <1>0 DEF DeferLink, Entered, EntryDone, fsVars
<1>2. /\ x \in Chosen /\ E = archive[x] /\ QueuesSane /\ Once
  BY <1>0, <1>1, HeadIsChosen, FirstAwaits DEF EInv, Restoring
<1>3. /\ Once'
      /\ \A j : Past(j) => Past(j)'
      /\ \A j : Awaits(j) => j = x \/ Awaits(j)'
      /\ \A j : Deferred(j) => Deferred(j)'
      /\ links' # links => Deferred(x)'
  BY <1>0, <1>1, <1>2, ListGoesOn
<1>4. InPlaceSoFar(x)'
  <2>1. links' # links
    <3>1. IsSequence(links)
      BY <1>2, SequenceIs DEF QueuesSane
    <3>2. Len(links') = Len(links) + 1 /\ Len(links) \in Nat
      BY <1>1, <3>1, SequenceHas, SequenceAppends
    <3> QED BY <3>2
  <2>2. Deferred(x)'
    BY <1>3, <2>1
  <2>3. archive'[x].kind = "symlink"
    BY <1>1, <1>2
  <2> QED BY <2>2, <2>3 DEF InPlaceSoFar, FileLike
<1>5. SameBut(tree, tree', {})
  BY <1>1, SameSame
<1> QED BY <1>1, <1>2, <1>3, <1>4, <1>5, RestStep

\* A directory is made, unless a file is in the way.
LEMMA RestDirectory ==
  ASSUME EInv, Restoring, MakeDirectory
  PROVE  Restoring'
<1>0. PICK x : x = Head(todo)
  OBVIOUS
<1>1. /\ UNCHANGED <<before, archive, options, pc, links, warned, copied>>
      /\ pc = "entry" /\ todo # <<>> /\ todo' = Tail(todo)
      /\ E.kind = "dir" /\ ~ThroughLink(tree, Target) /\ KindAt(tree, Target) # "link"
      /\ tree' \in Directories(tree, Target)
      /\ ignored' = IF tree' = WithDirectories(tree, Target) THEN ignored ELSE ignored \cup {E.path}
      /\ dirs' = IF KindAt(tree', Target) = "dir" THEN Append(dirs, x) ELSE dirs
  BY <1>0 DEF MakeDirectory, Entered, EntryDone, Refused
<1>2. /\ x \in Chosen /\ Named(E.path) /\ ~Past(x) /\ Target = Own(x) /\ E = archive[x]
  BY <1>0, <1>1, HeadIsChosen, FirstAwaits DEF EInv, Restoring
<1>3. Clear(tree, Target)
  BY <1>1, <1>2, OnTheWay DEF Target
<1>4. PICK p : p = Target
  OBVIOUS
<1>5. p = Own(x) /\ Own(x)' = p /\ p = Root \o E.path
  BY <1>1, <1>2, <1>4 DEF Own, Target
<1>6. /\ p \in Path /\ p # <<>> /\ IsPrefix(Root, p) /\ Last(p) # StagingName /\ Below(p, Root)
  BY <1>2, <1>5, InPlace, InDestination
<1> DEFINE S == DOMAIN tree' \ DOMAIN tree
<1>7. /\ SameBut(tree, tree', S)
      /\ \A q \in S : tree'[q] = Dir /\ q \in Path /\ IsPrefix(q, p)
  <2>1. PICK y : y = E.path
    OBVIOUS
  <2>2. p \in {Root \o y, Front(Root \o y)} /\ Clear(tree, Root \o y) /\ Named(y)
    BY <1>2, <1>3, <1>4, <1>5, <2>1
  <2>3. PICK u : u = tree'
    OBVIOUS
  <2> DEFINE new == DOMAIN u \ DOMAIN tree
  <2>4. u \in Directories(tree, p)
    BY <1>1, <1>4, <2>3
  <2>5. /\ SameBut(tree, u, new)
        /\ \A q \in new :
            /\ u[q] = Dir /\ q \in Path /\ q # <<>> /\ q \notin Prefixes(Root)
            /\ IsPrefix(Root, q) /\ Last(q) # StagingName /\ IsPrefix(q, p)
    BY <2>2, <2>4, DirectoriesFor
  <2> QED BY <2>3, <2>5
<1>8. \A q \in S : q = p \/ Below(p, q)
  BY <1>7 DEF Below, IsStrictPrefix
<1>9. dirs \in Seq(Chosen) /\ IsSequence(dirs) /\ Len(dirs) \in Nat
  <2>1. dirs \in Seq(Chosen)
    BY DEF EInv, QueuesSane
  <2> QED BY <2>1, SequenceIs, SequenceHas
<1>10. /\ \A j : (\E k \in 1..Len(dirs) : dirs[k] = j) => \E k \in 1..Len(dirs') : dirs'[k] = j
       /\ KindAt(tree', p) = "dir" => \E k \in 1..Len(dirs') : dirs'[k] = x
  <2>1. CASE KindAt(tree', p) = "dir"
    <3>1. /\ Len(dirs') = Len(dirs) + 1 /\ dirs'[Len(dirs) + 1] = x
          /\ \A k \in 1..Len(dirs) : dirs'[k] = dirs[k]
      BY <1>1, <1>4, <1>9, <2>1, SequenceAppends
    <3>2. Len(dirs) + 1 \in 1..Len(dirs') /\ \A k \in 1..Len(dirs) : k \in 1..Len(dirs')
      BY <1>9, <3>1
    <3> QED BY <3>1, <3>2
  <2>2. CASE KindAt(tree', p) # "dir"
    BY <1>1, <1>4, <2>2
  <2> QED BY <2>1, <2>2
<1>11. LetBe(x)' \/ InPlaceSoFar(x)'
  <2>1. CASE KindAt(tree', p) = "dir"
    <3>1. archive'[x].kind = "dir"
      BY <1>1, <1>2
    <3> QED BY <1>5, <1>10, <2>1, <3>1 DEF InPlaceSoFar, FileLike
  <2>2. CASE tree' # WithDirectories(tree, p)
    <3>1. archive'[x].kind = "dir" /\ archive'[x].path \in ignored'
      BY <1>1, <1>2, <1>4, <2>2
    <3> QED BY <3>1 DEF LetBe
  <2>3. CASE tree' = WithDirectories(tree, p) /\ KindAt(tree', p) # "dir"
    <3>1. Reached(tree)
      BY DEF EInv, NodesInv, TreeSane, IsTree, Reached
    <3>2. ~WayOpen(tree, p)
      BY <1>6, <2>3, <3>1, DirectoriesComplete
    <3>3. PICK k \in 0..Len(p) : SubSeq(p, 1, k) \in DOMAIN tree /\ tree[SubSeq(p, 1, k)].kind # "dir"
      BY <3>2 DEF WayOpen
    <3>4. PICK q : q = SubSeq(p, 1, k)
      OBVIOUS
    <3>5. /\ q \in Path /\ q \in Prefixes(p) /\ IsPrefix(q, p) /\ Len(p) \in Nat
          /\ Len(q) = k
      BY <1>6, <3>4, Initial, LenProperties DEF Path
    <3>6. tree[q].kind # "link"
      <4>1. CASE k = Len(p)
        <5>1. q = p
          BY <1>6, <3>5, <4>1, PrefixIs, <3>4 DEF Path
        <5> QED BY <1>1, <1>4, <3>3, <3>4, <5>1 DEF KindAt
      <4>2. CASE k # Len(p)
        <5>1. k \in 0..(Len(p) - 1)
          BY <3>5, <4>2
        <5> QED BY <1>3, <1>4, <3>3, <3>4, <5>1 DEF Clear, KindAt
      <4> QED BY <4>1, <4>2
    <3>7. tree[q].kind = "file" /\ q \in DOMAIN tree
      <4>1. IsNode(tree[q], Len(data))
        BY <3>3, <3>4 DEF EInv, NodesInv, TreeSane, IsTree
      <4> QED BY <3>3, <3>4, <3>6, <4>1 DEF IsNode
    <3>8. q \notin Prefixes(Root)
      BY <3>1, <3>7 DEF Reached, KindAt
    <3>9. Last(q) # StagingName
      BY <1>2, <1>5, <3>5, <3>8, PrefixName
    <3>10. Below(q, Root)
      <4>1. Root \in Path /\ Len(Root) \in Nat /\ Len(q) \in Nat
        BY <3>5, RootAssumption, LenProperties DEF Named, Path
      <4>2. Len(Root) <= Len(p) /\ \A i \in 1..Len(Root) : Root[i] = p[i]
        BY <1>6, <4>1, PrefixIs
      <4>3. Len(q) <= Len(p) /\ \A i \in 1..Len(q) : q[i] = p[i]
        BY <1>6, <3>5, PrefixIs
      <4>4. ~IsPrefix(q, Root)
        BY <3>5, <3>8, <4>1, PrefixIs
      <4>5. ~(Len(q) <= Len(Root))
        <5> SUFFICES ASSUME Len(q) <= Len(Root) PROVE FALSE
          OBVIOUS
        <5>1. \A i \in 1..Len(q) : i \in 1..Len(Root)
          BY <4>1
        <5>2. \A i \in 1..Len(q) : q[i] = Root[i]
          BY <4>2, <4>3, <5>1
        <5> QED BY <3>5, <4>1, <4>4, <5>2, PrefixIs
      <4>6. \A i \in 1..Len(Root) : i \in 1..Len(q)
        BY <4>1, <4>5
      <4>7. IsPrefix(Root, q)
        BY <3>5, <4>1, <4>2, <4>3, <4>5, <4>6, PrefixIs
      <4> QED BY <4>4, <4>7 DEF Below, IsStrictPrefix
    <3>11. FileInTheWay(q)
      BY <3>7, <3>9, <3>10 DEF Restoring, Known
    <3>12. LetBe(x)
      BY <1>1, <1>2, <1>5, <3>5, <3>11 DEF LetBe
    <3> QED BY <1>1, <3>12, LetBeStays
  <2> QED BY <2>1, <2>2, <2>3
<1>12. /\ \A q \in S : q \notin DOMAIN tree
       /\ \A q \in S \cap DOMAIN tree' :
            \/ Below(Own(x), q) /\ tree'[q].kind = "dir"
            \/ q = Own(x) /\ (tree'[q].kind = "file" => FileLike(archive[x].kind))
  BY <1>5, <1>7, <1>8 DEF Dir
<1> HIDE DEF S
<1> QED BY <1>0, <1>1, <1>7, <1>10, <1>11, <1>12, RestEntry

\* What is made on the way to an entry are directories above it.
LEMMA WayAbove ==
  ASSUME EInv, NEW x \in Chosen, Clear(tree, Own(x)),
         NEW u \in Directories(tree, Front(Own(x)))
  PROVE  /\ SameBut(tree, u, DOMAIN u \ DOMAIN tree)
         /\ \A q \in DOMAIN u \ DOMAIN tree : u[q] = Dir /\ q # Own(x) /\ Below(Own(x), q)
         /\ \A q : KindAt(u, q) = "link" <=> KindAt(tree, q) = "link"
         /\ Clear(u, Own(x))
<1> DEFINE new == DOMAIN u \ DOMAIN tree
<1>0. PICK p : p = Own(x)
  OBVIOUS
<1>1. p \in Path /\ p # <<>> /\ Clear(tree, p)
  BY <1>0, OwnPath DEF EInv
<1>2. /\ SameBut(tree, u, new)
      /\ \A q \in new : u[q] = Dir /\ q \in Path /\ IsPrefix(q, Front(p))
  <2>1. PICK y : y = archive[x].path
    OBVIOUS
  <2>2. /\ Named(y) /\ p = Root \o y /\ Clear(tree, Root \o y)
        /\ Front(p) \in {Root \o y, Front(Root \o y)}
    BY <1>0, <1>1, <2>1, OwnPath DEF EInv, Own
  <2>3. PICK d : d = Front(p)
    OBVIOUS
  <2>4. u \in Directories(tree, d)
    BY <1>0, <2>3
  <2>5. /\ SameBut(tree, u, new)
        /\ \A q \in new :
            /\ u[q] = Dir /\ q \in Path /\ q # <<>> /\ q \notin Prefixes(Root)
            /\ IsPrefix(Root, q) /\ Last(q) # StagingName /\ IsPrefix(q, d)
    BY <2>2, <2>3, <2>4, DirectoriesFor
  <2> QED BY <2>3, <2>5
<1>3. \A q \in new : q # p /\ Below(p, q)
  <2> SUFFICES ASSUME NEW q \in new PROVE q # p /\ Below(p, q)
    OBVIOUS
  <2>1. q \in Path /\ IsPrefix(q, Front(p))
    BY <1>2
  <2>2. /\ Front(p) \in Path /\ Len(Front(p)) = Len(p) - 1 /\ Len(p) \in Nat /\ Len(q) \in Nat
        /\ \A k \in 1..(Len(p) - 1) : Front(p)[k] = p[k]
    BY <1>1, <2>1, PathParts, LenProperties DEF Path
  <2>3. Len(q) <= Len(Front(p)) /\ \A i \in 1..Len(q) : q[i] = Front(p)[i]
    BY <2>1, <2>2, PrefixIs
  <2>4. q # p
    BY <2>2, <2>3
  <2>5. IsPrefix(q, p)
    <3>1. Len(q) <= Len(p) /\ \A i \in 1..Len(q) : q[i] = p[i]
      BY <2>2, <2>3
    <3> QED BY <1>1, <2>1, <3>1, PrefixIs
  <2> QED BY <2>4, <2>5 DEF Below, IsStrictPrefix
<1>4. \A q : KindAt(u, q) = "link" <=> KindAt(tree, q) = "link"
  BY <1>2, NoLinksMade
<1>5. Clear(u, p)
  BY <1>1, <1>4 DEF Clear
<1> QED BY <1>0, <1>2, <1>3, <1>4, <1>5

\* The same where what was there has been removed besides.
LEMMA WayKnown ==
  ASSUME EInv, NEW x \in Chosen, Clear(tree, Own(x)),
         NEW u \in Directories(tree, Front(Own(x))),
         NEW v \in Removals(u, Own(x))
  PROVE  \E S : /\ SameBut(tree, v, S)
                /\ \A q \in S : q = Own(x) \/ q \notin DOMAIN tree
                /\ \A q \in S \cap DOMAIN v : v[q] = Dir /\ Below(Own(x), q)
                /\ \A q : KindAt(v, q) = "link" => KindAt(tree, q) = "link"
<1> DEFINE new == DOMAIN u \ DOMAIN tree
<1>0. PICK p : p = Own(x)
  OBVIOUS
<1>1. p \in Path /\ p # <<>>
  BY <1>0, OwnPath DEF EInv
<1>2. /\ SameBut(tree, u, new)
      /\ \A q \in new : u[q] = Dir /\ q # p /\ Below(p, q)
      /\ \A q : KindAt(u, q) = "link" <=> KindAt(tree, q) = "link"
      /\ Clear(u, p)
  BY <1>0, WayAbove
<1>3. SameBut(u, v, {p}) /\ (v = u \/ p \notin DOMAIN v)
  BY <1>0, <1>1, <1>2, RemovalsAre
<1> HIDE DEF new
<1>4. CASE v = u
  BY <1>0, <1>2, <1>4 DEF new
<1>5. CASE v # u
  <2> DEFINE S == new \cup {p}
  <2>1. SameBut(tree, v, S)
    <3>1. SameBut(tree, u, S) /\ SameBut(u, v, S)
      BY <1>2, <1>3, SameButGrows
    <3> QED BY <3>1, SameTwice
  <2>2. \A q \in S : q = p \/ q \notin DOMAIN tree
    BY DEF new
  <2>3. \A q \in S \cap DOMAIN v : v[q] = Dir /\ Below(p, q)
    <3> SUFFICES ASSUME NEW q \in new, q \in DOMAIN v PROVE v[q] = Dir /\ Below(p, q)
      BY <1>3, <1>5
    <3>1. SameAt(u, v, q) /\ u[q] = Dir /\ Below(p, q)
      BY <1>2, <1>3 DEF SameBut
    <3> QED BY <3>1 DEF SameAt
  <2>4. ASSUME NEW q, KindAt(v, q) = "link" PROVE KindAt(tree, q) = "link"
    <3>1. q # p
      BY <1>3, <1>5, <2>4 DEF KindAt
    <3>2. KindAt(u, q) = "link"
      BY <1>3, <2>4, <3>1, SameKind DEF SameBut
    <3> QED BY <1>2, <3>2
  <2> HIDE DEF S
  <2> QED BY <1>0, <2>1, <2>2, <2>3, <2>4
<1> QED BY <1>4, <1>5

\* A link made in place of a hard link is to a whole file of this run.
LEMMA RestRelinkLinks ==
  ASSUME EInv, Restoring, Relink,
         NEW v, NEW S, SameBut(tree, v, S),
         \A q \in S : q = Target \/ q \notin DOMAIN tree,
         \A q \in S \cap DOMAIN v : v[q] = Dir /\ Below(Target, q),
         \A q : KindAt(v, q) = "link" => KindAt(tree, q) = "link",
         KindAt(v, Real(v, Original)) = "file",
         tree' = With(v, Target, v[Real(v, Original)]), UNCHANGED <<data, copied>>
  PROVE  Restoring'
<1>0. PICK x : x = Head(todo)
  OBVIOUS
<1>1. /\ UNCHANGED <<before, archive, options, pc, links, dirs, warned, ignored>>
      /\ pc = "entry" /\ todo # <<>> /\ todo' = Tail(todo) /\ Named(E.path)
      /\ Clear(tree, Target) /\ Relinks /\ ~ThroughLink(tree, Original)
  BY RelinkAround DEF Relink, Refused
<1>2. x \in Chosen /\ Target = Own(x) /\ E = archive[x]
  BY <1>0, <1>1, HeadIsChosen, FirstAwaits DEF EInv, Restoring
<1>3. PICK p : p = Target
  OBVIOUS
<1>4. PICK o : o = Original
  OBVIOUS
<1>5. p = Own(x) /\ Own(x)' = p /\ archive'[x].kind = "hardlink"
  BY <1>1, <1>2, <1>3 DEF Own, Relinks
<1>6. p \in Path /\ p # <<>> /\ Clear(v, p)
  <2>1. Target \in Path /\ Target # <<>>
    BY <1>1, InPlace DEF Target
  <2> QED BY <1>1, <1>3, <2>1, StillOnTheWay
<1>7. Real(v, Original) = o /\ o \in Path
  <2>1. Named(E.target)
    BY <1>1, CanonicalIs DEF Relinks
  <2>2. Original \in Path /\ Original # <<>>
    BY <2>1, InPlace DEF Original
  <2>3. Clear(tree, Original)
    BY <1>1, <2>1, OnTheWay DEF Original
  <2> QED BY <1>4, <2>2, <2>3, StillOnTheWay
<1>8. o \in DOMAIN v /\ v[o].kind = "file" /\ o \in DOMAIN tree /\ tree[o] = v[o]
  <2>1. o \in DOMAIN v /\ v[o].kind = "file"
    BY <1>7 DEF KindAt
  <2>2. o \notin S
    BY <2>1 DEF Dir
  <2> QED BY <2>1, <2>2 DEF SameBut, SameAt, Dir
<1>9. \/ tree[o].inode \in copied.inodes
      \/ tree[o].inode > Len(before.data)
  <2>1. KindAt(tree, o) = "file"
    BY <1>8 DEF KindAt
  <2> QED BY <1>1, <1>4, <2>1, OriginalIsWhole
<1>10. DOMAIN tree' = DOMAIN v \cup {p} /\ tree'[p] = tree[o] /\ SameBut(v, tree', {p})
  <2>1. PICK node : node = v[o]
    OBVIOUS
  <2>2. PICK w : w = With(v, p, node)
    OBVIOUS
  <2>3. DOMAIN w = DOMAIN v \cup {p} /\ w[p] = node /\ SameBut(v, w, {p})
    BY ONLY <1>6, <2>2, WithIs
  <2>4. tree' = w
    BY <1>3, <1>7, <2>1, <2>2
  <2> QED BY <1>8, <2>1, <2>3, <2>4
<1> DEFINE T == S \cup {p}
<1>11. SameBut(tree, tree', T)
  <2>1. SameBut(tree, v, T) /\ SameBut(v, tree', T)
    BY <1>10, SameButGrows
  <2> QED BY <2>1, SameTwice
<1>12. InPlaceSoFar(x)'
  <2>1. Fresh(p)'
    BY <1>1, <1>8, <1>9, <1>10 DEF Fresh, KindAt
  <2> QED BY <1>5, <2>1 DEF InPlaceSoFar, Fresh
<1>13. /\ \A q \in T : q \notin DOMAIN tree \/ q = Own(x)
       /\ \A q \in T \cap DOMAIN tree' :
            \/ Below(Own(x), q) /\ tree'[q].kind = "dir"
            \/ q = Own(x) /\ (tree'[q].kind = "file" => FileLike(archive[x].kind))
  <2>1. \A q \in T : q \notin DOMAIN tree \/ q = p
    BY <1>3
  <2>2. FileLike(archive[x].kind)
    BY <1>1, <1>2 DEF Relinks, FileLike
  <2>3. ASSUME NEW q \in S, q # p, q \in DOMAIN tree' PROVE Below(p, q) /\ tree'[q].kind = "dir"
    <3>1. q \in DOMAIN v /\ v[q] = Dir /\ Below(p, q)
      BY <1>3, <1>10, <2>3
    <3> QED BY <1>10, <2>3, <3>1 DEF SameBut, SameAt, Dir
  <2> QED BY <1>5, <2>1, <2>2, <2>3
<1> HIDE DEF T
<1> QED BY <1>0, <1>1, <1>11, <1>12, <1>13, RestEntry

\* A copy in its stead is not looked at.
LEMMA RestRelinkCopies ==
  ASSUME EInv, Restoring, Relink,
         NEW v, NEW R, Relinking(v, R), NEW S, SameBut(tree, v, S),
         \A q \in S : q = Target \/ q \notin DOMAIN tree,
         \A q \in S \cap DOMAIN v : v[q] = Dir /\ Below(Target, q),
         NEW c \in Copied(v), tree' = c.tree,
         copied' = [paths |-> copied.paths \cup c.paths, inodes |-> copied.inodes \cup c.inodes]
  PROVE  Restoring'
<1>0. PICK x : x = Head(todo)
  OBVIOUS
<1>1. /\ UNCHANGED <<before, archive, options, pc, links, dirs, warned, ignored>>
      /\ pc = "entry" /\ todo # <<>> /\ todo' = Tail(todo)
  BY RelinkAround DEF Relink
<1>2. x \in Chosen /\ Target = Own(x) /\ E = archive[x]
  BY <1>0, <1>1, HeadIsChosen, FirstAwaits DEF EInv, Restoring
<1>3. PICK p : p = Target
  OBVIOUS
<1>4. PICK q : q = Follow(v, Target)
  OBVIOUS
<1>5. p = Own(x) /\ Own(x)' = p
  BY <1>1, <1>2, <1>3 DEF Own
<1>6. /\ Real(v, Target) = Target /\ Real(v, Original) = Original
      /\ KindAt(v, q) = "none" => q \in Path /\ q # <<>> /\ Clear(v, q)
  BY <1>4, CopyGoesTo, OriginalStays
<1>7. /\ p \in c.paths
      /\ \/ c.tree = v
         \/ KindAt(v, q) = "none" /\ c.tree = With(v, q, File(Len(data) + 1)) /\ q \in c.paths
  BY <1>3, <1>4, <1>6, CopiedIs
<1>8. /\ copied.paths \subseteq copied'.paths /\ copied.inodes \subseteq copied'.inodes
      /\ c.paths \subseteq copied'.paths
  OBVIOUS
<1>9. LetBe(x)'
  BY <1>5, <1>7, <1>8 DEF LetBe, Own
<1>11. CASE c.tree = v
  <2>1. \A r \in S : r \notin DOMAIN tree \/ r = Own(x)
    BY <1>2
  <2>2. \A r \in S \cap DOMAIN tree' : Below(Own(x), r) /\ tree'[r].kind = "dir"
    BY <1>2, <1>11 DEF Dir
  <2>3. SameBut(tree, tree', S)
    BY <1>11
  <2> QED BY <1>0, <1>1, <1>8, <1>9, <2>1, <2>2, <2>3, RestEntry
<1>12. CASE KindAt(v, q) = "none" /\ c.tree = With(v, q, File(Len(data) + 1)) /\ q \in c.paths
  <2> DEFINE w == With(v, q, File(Len(data) + 1))
             T == S \cup {q}
  <2>1. DOMAIN w = DOMAIN v \cup {q} /\ SameBut(v, w, {q})
    BY <1>6, <1>12, WithIs
  <2> HIDE DEF w
  <2>2. tree' = w
    BY <1>12 DEF w
  <2>3. SameBut(tree, tree', T)
    <3>1. SameBut(tree, v, T) /\ SameBut(v, w, T)
      BY <2>1, SameButGrows
    <3> QED BY <2>2, <3>1, SameTwice
  <2>4. \A r \in T : r \notin DOMAIN tree \/ r = Own(x) \/ r \in copied'.paths
    BY <1>2, <1>8, <1>12
  <2>5. \A r \in T \cap DOMAIN tree' :
          r \in copied'.paths \/ (Below(Own(x), r) /\ tree'[r].kind = "dir")
    <3> SUFFICES ASSUME NEW r \in S, r \in DOMAIN tree', r # q
                 PROVE  Below(Own(x), r) /\ tree'[r].kind = "dir"
      BY <1>8, <1>12
    <3>1. r \in DOMAIN v /\ v[r] = Dir /\ Below(Own(x), r)
      BY <1>2, <2>1, <2>2
    <3> QED BY <2>1, <2>2, <3>1 DEF SameBut, SameAt, Dir
  <2> HIDE DEF T
  <2> QED BY <1>0, <1>1, <1>8, <1>9, <2>3, <2>4, <2>5, RestEntry
<1> QED BY <1>7, <1>11, <1>12

\* A hard link is in place, or copy_file has been at its path.
LEMMA RestRelink ==
  ASSUME EInv, Restoring, Relink
  PROVE  Restoring'
<1>0. PICK x : x = Head(todo)
  OBVIOUS
<1> DEFINE Relinked(v) ==
             \/ /\ KindAt(v, Real(v, Original)) = "file"
                /\ tree' = With(v, Target, v[Real(v, Original)])
                /\ UNCHANGED <<data, copied>>
             \/ \E c \in Copied(v) :
                  /\ tree' = c.tree /\ data' = c.data
                  /\ copied' = [paths |-> copied.paths \cup c.paths,
                               inodes |-> copied.inodes \cup c.inodes]
<1>7. PICK u \in Directories(tree, Front(Target)) : \E v \in Removals(u, Target) : Relinked(v)
  BY DEF Relink
<1>1. PICK v \in Removals(u, Target) : Relinked(v)
  BY <1>7
<1>2. /\ Clear(tree, Target) /\ todo # <<>> /\ Named(E.path)
      /\ options.policy # "all" => Target \notin DOMAIN tree
  BY RelinkAround
<1>3. x \in Chosen /\ Target = Own(x)
  BY <1>0, <1>2, HeadIsChosen, FirstAwaits DEF EInv, Restoring
<1>4. PICK S : /\ SameBut(tree, v, S)
               /\ \A q \in S : q = Target \/ q \notin DOMAIN tree
               /\ \A q \in S \cap DOMAIN v : v[q] = Dir /\ Below(Target, q)
               /\ \A q : KindAt(v, q) = "link" => KindAt(tree, q) = "link"
  BY <1>1, <1>2, <1>3, <1>7, WayKnown
<1>5. CASE /\ KindAt(v, Real(v, Original)) = "file"
           /\ tree' = With(v, Target, v[Real(v, Original)])
           /\ UNCHANGED <<data, copied>>
  BY <1>4, <1>5, RestRelinkLinks
<1>6. ASSUME NEW c \in Copied(v), tree' = c.tree,
             copied' = [paths |-> copied.paths \cup c.paths,
                        inodes |-> copied.inodes \cup c.inodes]
      PROVE  Restoring'
  <2>1. PICK R : Relinking(v, R)
    <3>1. PICK R : /\ SameBut(tree, v, R)
                   /\ \A q \in R : MayChange(q) /\ q # <<>> /\ Last(q) # StagingName
                   /\ \A q \in R \cap DOMAIN v : v[q] = Dir
                   /\ \A q : KindAt(v, q) = "link" => KindAt(tree, q) = "link"
      BY <1>1, <1>2, <1>7, WayChanges DEF Target
    <3>2. Relinking(v, R)
      BY <3>1 DEF Relinking
    <3> QED BY <3>2
  <2> QED BY <1>4, <1>6, <2>1, RestRelinkCopies
<1> QED BY <1>1, <1>5, <1>6

\* A file to be is beside its target.
LEMMA RestStage ==
  ASSUME EInv, Restoring, Stage, pc' = "write"
  PROVE  Restoring'
<1>0. PICK x : x = Head(todo)
  OBVIOUS
<1>1. /\ UNCHANGED <<before, archive, options, todo, links, dirs, warned, copied, ignored>>
      /\ Entered /\ ~Refused /\ ~Blocked("fail") /\ ~Blocked("skip") /\ pc = "entry"
  BY DEF Stage, queueVars, Entered
<1>2. todo # <<>> /\ Named(E.path) /\ Clear(tree, Target)
  BY <1>1, TargetFree
<1>3. x \in Chosen /\ Target = Own(x) /\ Awaits(x)
  BY <1>0, <1>2, HeadIsChosen, FirstAwaits DEF EInv, Restoring
<1>4. PICK p : p = Target
  OBVIOUS
<1>5. PICK s : s = StagingPath(Target)
  OBVIOUS
<1>6. PICK u \in Directories(tree, Front(Target)) :
        tree' = With(u, StagingPath(Target), File(Len(data) + 1))
  BY DEF Stage
<1>7. /\ p \in Path /\ p # <<>> /\ s \in Path /\ s # <<>> /\ Last(s) = StagingName
      /\ s = StagingPath(p) /\ Front(s) = Front(p)
  BY <1>2, <1>4, <1>5, InPlace DEF Target
<1> DEFINE new == DOMAIN u \ DOMAIN tree
           S == new \cup {s}
           w == With(u, s, File(Len(data) + 1))
<1>8. /\ SameBut(tree, u, new)
      /\ \A q \in new : u[q] = Dir /\ Below(Own(x), q)
      /\ Clear(u, p)
  BY <1>2, <1>3, <1>4, <1>6, WayAbove
<1>9. DOMAIN w = DOMAIN u \cup {s} /\ SameBut(u, w, {s})
  <2>1. Clear(u, s)
    BY <1>7, <1>8, ClearBeside
  <2> QED BY <1>7, <2>1, WithIs
<1> HIDE DEF w
<1>10. tree' = w
  BY <1>5, <1>6 DEF w
<1> HIDE DEF new
<1>11. SameBut(tree, tree', S)
  <2>1. SameBut(tree, u, S) /\ SameBut(u, w, S)
    BY <1>8, <1>9, SameButGrows
  <2> QED BY <1>10, <2>1, SameTwice
<1>12. /\ \A q \in S : q \notin DOMAIN tree \/ Last(q) = StagingName
       /\ \A q \in S \cap DOMAIN tree' :
            Last(q) = StagingName \/ (Below(Own(x), q) /\ tree'[q].kind = "dir")
  <2>1. \A q \in S : q \notin DOMAIN tree \/ Last(q) = StagingName
    BY <1>7 DEF new
  <2>2. ASSUME NEW q \in new, q # s PROVE Below(Own(x), q) /\ tree'[q].kind = "dir"
    <3>1. u[q] = Dir /\ q \in DOMAIN u /\ Below(Own(x), q)
      BY <1>8 DEF new
    <3> QED BY <1>9, <1>10, <2>2, <3>1 DEF SameBut, SameAt, Dir
  <2> QED BY <1>7, <2>1, <2>2
<1> HIDE DEF S
<1>13. /\ \A j : Awaits(j)' <=> Awaits(j)
       /\ \A j : Deferred(j)' <=> Deferred(j)
       /\ \A j : Past(j) => Past(j)'
       /\ Once'
  BY <1>1 DEF Awaits, Deferred, Past, Once, Restoring
<1> QED BY <1>1, <1>2, <1>3, <1>11, <1>12, <1>13, RestStep

\* A file gets to its path.
LEMMA RestPlace ==
  ASSUME EInv, Restoring, Place, pc' = "placed"
  PROVE  Restoring'
<1>0. PICK x : x = Head(todo)
  OBVIOUS
<1>1. /\ UNCHANGED <<before, archive, options, data, todo, links, dirs, warned, copied, ignored>>
      /\ pc = "place"
      /\ \E v \in {tree} \cup Removals(tree, Target) : tree' = Renamed(v)
  BY DEF Place, queueVars
<1>2. /\ todo # <<>> /\ IsBody /\ ~ThroughLink(tree, Target)
      /\ staged \in (Len(before.data) + 1)..Len(data)
  BY <1>1 DEF EInv, StagedSane, ControlSane, Reading
<1>3. x \in Chosen /\ Named(E.path) /\ Target = Own(x) /\ E = archive[x] /\ Awaits(x)
  BY <1>0, <1>2, HeadIsChosen, FirstAwaits DEF EInv, Restoring
<1>4. PICK p : p = Target
  OBVIOUS
<1>5. PICK s : s = StagingPath(Target)
  OBVIOUS
<1>6. /\ p \in Path /\ p # <<>> /\ s \in Path /\ s # <<>> /\ Last(s) = StagingName
      /\ Last(p) # StagingName /\ s = StagingPath(p) /\ Front(s) = Front(p)
  BY <1>3, <1>4, <1>5, InPlace DEF Target
<1>7. Clear(tree, p)
  BY <1>2, <1>3, <1>4, OnTheWay DEF Target
<1>8. PICK v \in {tree} \cup Removals(tree, p) : tree' = Renamed(v)
  BY <1>1, <1>4
<1>9. SameBut(tree, v, {p}) /\ (v = tree \/ p \notin DOMAIN v)
  BY <1>6, <1>7, <1>8, RemovalsAre, SameSame
<1>10. \A q : KindAt(v, q) = "link" => KindAt(tree, q) = "link"
  <2> SUFFICES ASSUME NEW q, KindAt(v, q) = "link", v # tree PROVE KindAt(tree, q) = "link"
    OBVIOUS
  <2>1. q # p
    BY <1>9 DEF KindAt
  <2> QED BY <1>9, <2>1, SameKind DEF SameBut
<1> DEFINE w == Without(v, s)
           y == With(w, p, File(staged))
           S == {s, p}
<1>11. DOMAIN w = DOMAIN v \ {s} /\ SameBut(v, w, {s})
  <2>1. Clear(v, p)
    BY <1>6, <1>7, <1>10, StillOnTheWay
  <2>2. Clear(v, s)
    BY <1>6, <2>1, ClearBeside
  <2> QED BY <1>6, <2>2, WithoutIs
<1> HIDE DEF w
<1>12. DOMAIN y = DOMAIN w \cup {p} /\ y[p] = File(staged) /\ SameBut(w, y, {p})
  <2>1. \A q : KindAt(w, q) = "link" => KindAt(tree, q) = "link"
    BY <1>10, <1>11, SameKind DEF SameBut, KindAt
  <2>2. Clear(w, p)
    BY <1>6, <1>7, <2>1, StillOnTheWay
  <2> QED BY <1>6, <2>2, WithIs
<1> HIDE DEF y
<1>13. tree' = y
  BY <1>4, <1>5, <1>8 DEF Renamed, w, y
<1>14. SameBut(tree, tree', S)
  <2>1. SameBut(tree, v, S) /\ SameBut(v, w, S) /\ SameBut(w, y, S)
    BY <1>9, <1>11, <1>12, SameButGrows
  <2> QED BY <1>13, <2>1, SameTwice
<1>15. tree'[p] = File(staged) /\ p \in DOMAIN tree'
  BY <1>12, <1>13
<1>16. (FileLike(E.kind) /\ Fresh(Target))'
  <2>1. Target' = p /\ E' = E /\ FileLike(E.kind)
    BY <1>1, <1>2, <1>4 DEF Target, E, IsBody, FileLike
  <2>2. KindAt(tree', p) = "file" /\ tree'[p].inode = staged
    BY <1>15 DEF KindAt, File
  <2>3. tree'[p].inode > Len(before'.data)
    <3>1. Len(before.data) \in Nat
      BY SequenceHas DEF EInv, InputsSane, IsFileSystem
    <3> QED BY <1>1, <1>2, <2>2, <3>1
  <2> QED BY <2>1, <2>2, <2>3 DEF Fresh
<1>17. /\ \A j : Awaits(j)' <=> Awaits(j)
       /\ \A j : Deferred(j)' <=> Deferred(j)
       /\ \A j : Past(j) => Past(j)'
       /\ Once' /\ Past(x)'
  BY <1>0, <1>1 DEF Awaits, Deferred, Past, Once, Restoring
<1>18. /\ \A q \in S : q = Own(x) \/ Last(q) = StagingName
       /\ \A q \in S \cap DOMAIN tree' :
            \/ Last(q) = StagingName
            \/ /\ q = Own(x) /\ Past(x)'
               /\ tree'[q].kind = "file" => FileLike(archive[x].kind)
  BY <1>2, <1>3, <1>4, <1>6, <1>17 DEF IsBody, FileLike
<1> HIDE DEF S
<1> QED BY <1>1, <1>2, <1>3, <1>14, <1>16, <1>17, <1>18, RestStep

\* A file is in place when its metadata have been dealt with.
LEMMA RestMetadata ==
  ASSUME EInv, Restoring, Metadata, pc' = "entry"
  PROVE  Restoring'
<1>0. PICK x : x = Head(todo)
  OBVIOUS
<1>1. /\ UNCHANGED <<before, archive, options, tree, links, dirs, copied, ignored>>
      /\ pc = "placed" /\ todo # <<>> /\ todo' = Tail(todo) /\ warned \subseteq warned'
  BY DEF Metadata, EntryDone, fsVars, EInv, ControlSane
<1>2. /\ x \in Chosen /\ Target = Own(x) /\ E = archive[x]
      /\ FileLike(E.kind) /\ Fresh(Target)
  BY <1>0, <1>1, HeadIsChosen, FirstAwaits DEF EInv, Restoring
<1>3. InPlaceSoFar(x)'
  BY <1>1, <1>2 DEF InPlaceSoFar, Fresh, FileLike, Own
<1>4. SameBut(tree, tree', {})
  BY <1>1, SameSame
<1> QED BY <1>0, <1>1, <1>3, <1>4, RestEntry

\* A step on behalf of the first link put off.
LEMMA RestLink ==
  ASSUME EInv, Restoring, UNCHANGED <<before, archive, options, todo, dirs, copied, ignored>>,
         LinksLeft, links' = Tail(links), NEW x, x = Head(links),
         warned \subseteq warned', NEW S, SameBut(tree, tree', S),
         \A q \in S : q \notin DOMAIN tree \/ q = Own(x),
         \A q \in S \cap DOMAIN tree' :
           \/ Below(Own(x), q) /\ tree'[q].kind = "dir"
           \/ q = Own(x) /\ (tree'[q].kind = "file" => FileLike(archive[x].kind)),
         LetBe(x)' \/ InPlaceSoFar(x)', pc' = "entry"
  PROVE  Restoring'
<1>1. pc = "entry" /\ todo = <<>> /\ links # <<>> /\ QueuesSane /\ Once
  BY DEF LinksLeft, EInv, Restoring
<1>2. x \in Chosen
  BY <1>1, HeadTailProperties DEF QueuesSane
<1>3. /\ Once' /\ Past(x)'
      /\ \A j : Past(j) => Past(j)'
      /\ \A j : Awaits(j) => j = x \/ Awaits(j)'
      /\ \A j : Deferred(j) => j = x \/ Deferred(j)'
  BY <1>1, LinksGoOn
<1>4. \A q \in S \cap DOMAIN tree' :
        \/ Below(Own(x), q) /\ tree'[q].kind = "dir"
        \/ /\ q = Own(x) /\ Past(x)'
           /\ tree'[q].kind = "file" => FileLike(archive[x].kind)
  BY <1>3
<1> QED BY <1>1, <1>2, <1>3, <1>4, RestStep

\* The first link put off.
LEMMA FirstLink ==
  ASSUME EInv, Restoring, LinksLeft, ~LinkRefused, NEW x, x = Head(links)
  PROVE  /\ x \in Chosen /\ archive[x].kind = "symlink" /\ ~Past(x)
         /\ LinkPath = Own(x) /\ L = archive[x]
         /\ Clear(tree, LinkPath) /\ Real(tree, LinkPath) = LinkPath
<1>1. /\ pc = "entry" /\ todo = <<>> /\ links # <<>> /\ ~ThroughLink(tree, LinkPath)
      /\ links \in Seq({i \in Chosen : archive[i].kind = "symlink"})
  BY DEF LinksLeft, LinkRefused, EInv, QueuesSane
<1>2. 1 \in 1..Len(links) /\ x = links[1] /\ x \in {i \in Chosen : archive[i].kind = "symlink"}
  BY <1>1, HeadTailProperties
<1>3. LinkPath = Own(x) /\ L = archive[x]
  BY DEF LinkPath, L, Own
<1>4. Clear(tree, LinkPath) /\ Real(tree, LinkPath) = LinkPath
  <2>1. Named(L.path)
    BY <1>2, <1>3, OwnPath DEF EInv
  <2> QED BY <1>1, <2>1, OnTheWay DEF LinkPath
<1>5. ~Past(x)
  BY <1>1, <1>2 DEF Past, Deferred
<1> QED BY <1>2, <1>3, <1>4, <1>5

\* A link that skip leaves out need not be in place.
LEMMA RestSkipLink ==
  ASSUME EInv, Restoring, SkipLink
  PROVE  Restoring'
<1>0. PICK x : x = Head(links)
  OBVIOUS
<1>1. /\ UNCHANGED <<before, archive, options, pc, tree, todo, dirs, warned, copied, ignored>>
      /\ LinksLeft /\ ~LinkRefused /\ links' = Tail(links)
      /\ Exists(tree, LinkPath) /\ options.policy = "skip" /\ pc = "entry"
  BY DEF SkipLink, LinksLeft, fsVars
<1>2. /\ x \in Chosen /\ archive[x].kind = "symlink" /\ ~Past(x)
      /\ LinkPath = Own(x) /\ Real(tree, LinkPath) = LinkPath
  BY <1>0, <1>1, FirstLink
<1>3. LetBe(x)'
  <2>1. Own(x) \in DOMAIN tree
    BY <1>1, <1>2 DEF Exists
  <2>2. LetBe(x)
    BY <1>1, <1>2, <2>1, SomethingThere
  <2> QED BY <1>1, <2>2, LetBeStays
<1>4. SameBut(tree, tree', {})
  BY <1>1, SameSame
<1> QED BY <1>0, <1>1, <1>3, <1>4, RestLink

\* A link is made, or a warning says that it is not.
LEMMA RestPlaceLink ==
  ASSUME EInv, Restoring, PlaceLink, pc' = "entry"
  PROVE  Restoring'
<1>0. PICK x : x = Head(links)
  OBVIOUS
<1>1. /\ UNCHANGED <<before, archive, options, todo, dirs, copied, ignored>>
      /\ LinksLeft /\ ~LinkRefused /\ links' = Tail(links) /\ todo = <<>> /\ links # <<>>
      /\ warned \subseteq warned'
  BY DEF PlaceLink, LinksLeft
<1>2. /\ x \in Chosen /\ archive[x].kind = "symlink" /\ L = archive[x]
      /\ LinkPath = Own(x) /\ Clear(tree, LinkPath)
  BY <1>0, <1>1, FirstLink
<1>3. PICK p : p = LinkPath
  OBVIOUS
<1>4. /\ p = Own(x) /\ Own(x)' = p /\ p \in Path /\ p # <<>> /\ Clear(tree, p)
      /\ archive'[x] = archive[x]
  BY <1>1, <1>2, <1>3, OwnPath DEF EInv, Own
<1> DEFINE Linked(v) == \/ tree' = With(v, LinkPath, Link(L.target))
                        \/ tree' = v /\ L.path \in warned'
<1>9. PICK u \in Directories(tree, Front(LinkPath)) : \E v \in Removals(u, LinkPath) : Linked(v)
  BY DEF PlaceLink
<1>5. PICK v \in Removals(u, LinkPath) : Linked(v)
  BY <1>9
<1>6. PICK S : /\ SameBut(tree, v, S)
               /\ \A q \in S : q = p \/ q \notin DOMAIN tree
               /\ \A q \in S \cap DOMAIN v : v[q] = Dir /\ Below(p, q)
               /\ \A q : KindAt(v, q) = "link" => KindAt(tree, q) = "link"
  BY <1>2, <1>3, <1>4, <1>5, <1>9, WayKnown
<1>7. CASE tree' = v /\ L.path \in warned'
  <2>1. LetBe(x)'
    BY <1>2, <1>4, <1>7 DEF LetBe
  <2>2. \A q \in S \cap DOMAIN tree' : Below(Own(x), q) /\ tree'[q].kind = "dir"
    BY <1>4, <1>6, <1>7 DEF Dir
  <2>3. SameBut(tree, tree', S) /\ \A q \in S : q \notin DOMAIN tree \/ q = Own(x)
    BY <1>4, <1>6, <1>7
  <2> QED BY <1>0, <1>1, <2>1, <2>2, <2>3, RestLink
<1>8. CASE tree' = With(v, LinkPath, Link(L.target))
  <2>0. PICK node : node = Link(L.target)
    OBVIOUS
  <2> DEFINE w == With(v, p, node)
             T == S \cup {p}
  <2>1. DOMAIN w = DOMAIN v \cup {p} /\ w[p] = node /\ SameBut(v, w, {p})
    <3>1. p \in Path /\ p # <<>> /\ Clear(v, p)
      BY <1>4, <1>6, StillOnTheWay
    <3> QED BY <3>1, WithIs
  <2> HIDE DEF w
  <2>2. tree' = w
    BY <1>3, <1>8, <2>0 DEF w
  <2>3. SameBut(tree, tree', T)
    <3>1. SameBut(tree, v, T) /\ SameBut(v, w, T)
      BY <1>6, <2>1, SameButGrows
    <3> QED BY <2>2, <3>1, SameTwice
  <2>4. tree'[p] = Link(L.target) /\ p \in DOMAIN tree'
    BY <2>0, <2>1, <2>2
  <2>5. InPlaceSoFar(x)'
    <3>1. KindAt(tree', p) = "link" /\ tree'[p].to = archive'[x].target /\ todo' = <<>>
      BY <1>1, <1>2, <1>4, <2>4 DEF KindAt, Link
    <3> QED BY <1>2, <1>4, <3>1 DEF InPlaceSoFar, FileLike
  <2>6. /\ \A q \in T : q \notin DOMAIN tree \/ q = Own(x)
        /\ \A q \in T \cap DOMAIN tree' :
             \/ Below(Own(x), q) /\ tree'[q].kind = "dir"
             \/ q = Own(x) /\ (tree'[q].kind = "file" => FileLike(archive[x].kind))
    <3>1. \A q \in T : q \notin DOMAIN tree \/ q = p
      BY <1>6
    <3>2. tree'[p].kind # "file"
      BY <2>4 DEF Link
    <3>3. ASSUME NEW q \in S, q # p, q \in DOMAIN tree' PROVE Below(p, q) /\ tree'[q].kind = "dir"
      <4>1. q \in DOMAIN v /\ v[q] = Dir /\ Below(p, q)
        BY <1>6, <2>1, <2>2, <3>3
      <4> QED BY <2>1, <2>2, <3>3, <4>1 DEF SameBut, SameAt, Dir
    <3> QED BY <1>4, <3>1, <3>2, <3>3
  <2> HIDE DEF T
  <2> QED BY <1>0, <1>1, <2>3, <2>5, <2>6, RestLink
<1> QED BY <1>5, <1>7, <1>8

\* The last directory put off gets its metadata, or is none.
LEMMA RestRestore ==
  ASSUME EInv, Restoring, RestoreDirectory, pc' = "dirs"
  PROVE  Restoring'
<1>0. PICK x : x = Last(dirs)
  OBVIOUS
<1>1. PICK d : d = DirPath
  OBVIOUS
<1>2. /\ UNCHANGED <<before, archive, options, todo, links, copied>>
      /\ pc \in {"entry", "dirs"} /\ todo = <<>> /\ links = <<>> /\ dirs # <<>>
      /\ dirs' = Front(dirs) /\ warned \subseteq warned' /\ ignored \subseteq ignored'
      /\ \/ tree' = tree /\ (KindAt(tree, d) # "dir" \/ archive[x].path \in ignored')
         \/ KindAt(tree, d) = "dir" /\ tree' = [tree EXCEPT ![d].restored = TRUE]
  BY <1>0, <1>1 DEF RestoreDirectory
<1>3. d = Own(x) /\ Chosen' = Chosen
  BY <1>0, <1>1, <1>2, ChosenStays DEF DirPath, Own
<1>4. DOMAIN tree' = DOMAIN tree /\ \A q \in DOMAIN tree : tree'[q].kind = tree[q].kind
  <2>1. CASE tree' = tree
    BY <2>1
  <2>2. CASE KindAt(tree, d) = "dir" /\ tree' = [tree EXCEPT ![d].restored = TRUE]
    BY <2>2 DEF KindAt
  <2> QED BY <1>2, <2>1, <2>2
<1>5. /\ \A q \in DOMAIN tree : tree[q].kind # "dir" => tree'[q] = tree[q]
      /\ \A q \in DOMAIN tree : tree[q].kind = "dir" /\ tree[q].restored => tree'[q].restored
      /\ archive[x].path \notin ignored' /\ KindAt(tree, d) = "dir" => tree'[d].restored
  <2>1. CASE tree' = tree /\ (KindAt(tree, d) # "dir" \/ archive[x].path \in ignored')
    BY <2>1
  <2>2. CASE KindAt(tree, d) = "dir" /\ tree' = [tree EXCEPT ![d].restored = TRUE]
    <3>1. d \in DOMAIN tree /\ tree[d].kind = "dir"
      BY <2>2 DEF KindAt
    <3>2. \A q \in DOMAIN tree : q # d => tree'[q] = tree[q]
      BY <2>2
    <3>3. tree'[d].restored
      <4>1. IsNode(tree[d], Len(data))
        BY <3>1 DEF EInv, NodesInv, TreeSane, IsTree
      <4>2. tree[d] \in [kind : {"dir"}, restored : BOOLEAN]
        BY <3>1, <4>1 DEF IsNode
      <4> QED BY <2>2, <3>1, <4>2
    <3> QED BY <3>1, <3>2, <3>3
  <2> QED BY <1>2, <2>1, <2>2
<1>6. dirs \in Seq(Chosen) /\ Len(dirs) \in Nat \ {0} /\ x = dirs[Len(dirs)]
      /\ \A k \in 1..(Len(dirs) - 1) : k \in 1..Len(dirs') /\ dirs'[k] = dirs[k]
  <2>1. dirs \in Seq(Chosen) /\ Len(dirs) \in Nat \ {0} /\ x = dirs[Len(dirs)]
    BY <1>0, <1>2, EmptySeq, LenProperties DEF EInv, QueuesSane, Last
  <2> DEFINE n == Len(dirs) - 1
  <2>2. n \in Nat /\ \A k \in 1..n : dirs[k] \in Chosen
    BY <2>1
  <2> HIDE DEF n
  <2>3. Len(SubSeq(dirs, 1, n)) = n /\ \A k \in 1..n : SubSeq(dirs, 1, n)[k] = dirs[k]
    BY <2>2, FirstNames
  <2>4. dirs' = SubSeq(dirs, 1, n)
    BY <1>2 DEF Front, n
  <2> QED BY <2>1, <2>3, <2>4 DEF n
<1>7. ASSUME NEW i \in Chosen PROVE Awaits(i)' \/ LetBe(i)' \/ InPlaceSoFar(i)'
  <2> SUFFICES ASSUME ~LetBe(i)' PROVE InPlaceSoFar(i)'
    OBVIOUS
  <2>1. ~LetBe(i)
    BY <1>2, LetBeStays
  <2>2. ~Awaits(i)
    BY <1>2 DEF Awaits
  <2>3. InPlaceSoFar(i)
    BY <2>1, <2>2 DEF Restoring
  <2>4. PICK p : p = Own(i)
    OBVIOUS
  <2>5. Own(i)' = p /\ archive'[i] = archive[i]
    BY <1>2, <2>4 DEF Own
  <2>6. ~Deferred(i)
    BY <1>2 DEF Deferred
  <2>7. FileLike(archive[i].kind) => Fresh(p)'
    BY <1>2, <1>4, <1>5, <2>3, <2>4 DEF InPlaceSoFar, Fresh, KindAt
  <2>8. archive[i].kind = "symlink" =>
          todo' = <<>> /\ KindAt(tree', p) = "link" /\ tree'[p].to = archive[i].target
    BY <1>2, <1>4, <1>5, <2>3, <2>4, <2>6 DEF InPlaceSoFar, KindAt
  <2>9. ASSUME archive[i].kind = "dir"
        PROVE  /\ KindAt(tree', p) = "dir"
               /\ \/ \E k \in 1..Len(dirs') : dirs'[k] = i
                  \/ todo' = <<>> /\ links' = <<>> /\ tree'[p].restored
    <3>1. KindAt(tree, p) = "dir" /\ p \in DOMAIN tree /\ tree[p].kind = "dir"
      BY <2>3, <2>4, <2>9 DEF InPlaceSoFar, KindAt
    <3>2. KindAt(tree', p) = "dir"
      BY <1>4, <3>1 DEF KindAt
    <3>3. CASE tree[p].restored
      BY <1>2, <1>5, <3>1, <3>2, <3>3
    <3>4. CASE i = x
      <4>1. archive[x].path \notin ignored'
        BY <1>2, <2>9, <3>4 DEF LetBe
      <4>2. p = d
        BY <1>3, <2>4, <3>4
      <4>3. tree'[d].restored
        BY <1>5, <3>1, <4>1, <4>2
      <4> QED BY <1>2, <3>2, <4>2, <4>3
    <3>5. CASE ~tree[p].restored /\ i # x
      <4>1. PICK k \in 1..Len(dirs) : dirs[k] = i
        BY <2>3, <2>4, <2>9, <3>5 DEF InPlaceSoFar
      <4>2. k \in 1..(Len(dirs) - 1)
        BY <1>6, <3>5, <4>1
      <4> QED BY <1>6, <3>2, <4>1, <4>2
    <3> QED BY <3>3, <3>4, <3>5
  <2> QED BY <2>5, <2>7, <2>8, <2>9 DEF InPlaceSoFar, Fresh
<1>8. \A j : Past(j)' <=> Past(j)
  BY <1>2 DEF Past, Awaits, Deferred
<1>9. \A p \in DOMAIN tree' : Known(p)'
  BY <1>2, <1>3, <1>4, <1>8 DEF Restoring, Known, FileInTheWay, Own
<1>10. Once'
  BY <1>2 DEF Restoring, Once
<1> QED BY <1>2, <1>3, <1>7, <1>9, <1>10 DEF Restoring

\* An extraction ends when nothing is put off.
LEMMA RestFinish ==
  ASSUME EInv, Restoring, Finish
  PROVE  Restoring'
<1>1. /\ UNCHANGED <<before, archive, options, tree, todo, links, dirs, copied, warned, ignored>>
      /\ pc \in {"entry", "dirs"} /\ pc' = "done" /\ links = <<>> /\ dirs = <<>>
  BY DEF Finish, queueVars, fsVars
<1>2. Chosen' = Chosen
  BY <1>1, ChosenStays
<1>3. \A i : /\ LetBe(i)' <=> LetBe(i)
             /\ InPlaceSoFar(i)' <=> InPlaceSoFar(i)
             /\ Awaits(i)' <=> Awaits(i)
             /\ Past(i)' <=> Past(i)
  BY <1>1, <1>2 DEF LetBe, FileInTheWay, InPlaceSoFar, Own, Awaits, Deferred, Past, Fresh
<1>4. \A p \in DOMAIN tree' : Known(p)'
  BY <1>1, <1>2, <1>3 DEF Restoring, Known, FileInTheWay, Own
<1>5. Once'
  BY <1>1 DEF Restoring, Once
<1> QED BY <1>1, <1>2, <1>3, <1>4, <1>5 DEF Restoring

\* When the entries have been selected all are still to come.
LEMMA RestStart ==
  ASSUME EInv, Start, pc' = "entry"
  PROVE  Restoring'
<1> DEFINE all == [i \in DOMAIN archive |-> i]
<1>1. /\ UNCHANGED <<before, archive, options, tree, links, dirs, copied, warned, ignored>>
      /\ pc = "start" /\ todo' = Picked(all, Chosen)
  BY DEF Start, fsVars
<1>2. tree = before.tree /\ links = <<>>
  BY <1>1 DEF EInv, ControlSane
<1>3. Chosen \subseteq Nat /\ IsFiniteSet(Chosen) /\ Chosen \subseteq DOMAIN archive
      /\ Chosen' = Chosen
  <2>1. IsSequence(archive)
    BY DEF EInv, InputsSane, IsArchive
  <2>2. DOMAIN archive = 1..Len(archive) /\ Len(archive) \in Nat
    BY <2>1, SequenceHas
  <2>3. IsFiniteSet(DOMAIN archive) /\ DOMAIN archive \subseteq Nat
    BY <2>2, FS_Interval
  <2>4. IsFiniteSet(Chosen)
    BY <2>3, FS_Subset, ChosenAre
  <2> QED BY <1>1, <2>3, <2>4, ChosenAre, ChosenStays
<1>4. \A i \in Chosen : all[i] = i /\ all[i] \in Nat
  BY <1>3
<1> HIDE DEF all
<1>5. /\ Len(todo') = Cardinality(Chosen) /\ Cardinality(Chosen) \in Nat
      /\ \A k \in 1..Cardinality(Chosen) : Nth(Chosen, k) \in Chosen /\ todo'[k] = all[Nth(Chosen, k)]
      /\ \A i \in Chosen : \E k \in 1..Cardinality(Chosen) : todo'[k] = all[i]
      /\ \A j, k \in 1..Cardinality(Chosen) : j < k <=> Nth(Chosen, j) < Nth(Chosen, k)
  <2>1. PICK C : C = Chosen
    OBVIOUS
  <2>2. PICK list : list = all
    OBVIOUS
  <2>3. C \subseteq Nat /\ IsFiniteSet(C) /\ todo' = Picked(list, C) /\ \A i \in C : list[i] \in Nat
    BY <1>1, <1>3, <1>4, <2>1, <2>2
  <2>4. Len(Picked(list, C)) = Cardinality(C)
    BY <2>3, PickedSequence
  <2>5. /\ Cardinality(C) \in Nat
        /\ \A k \in 1..Cardinality(C) : Nth(C, k) \in C /\ Picked(list, C)[k] = list[Nth(C, k)]
        /\ \A i \in C : \E k \in 1..Cardinality(C) : Picked(list, C)[k] = list[i]
        /\ \A j, k \in 1..Cardinality(C) : j < k <=> Nth(C, j) < Nth(C, k)
    <3>1. /\ Cardinality(C) \in Nat
          /\ \A k \in 1..Cardinality(C) : Nth(C, k) \in C
          /\ \A i \in C : \E k \in 1..Cardinality(C) : Nth(C, k) = i
          /\ \A j, k \in 1..Cardinality(C) : j < k <=> Nth(C, j) < Nth(C, k)
      BY <2>3, NthIs
    <3> QED BY <3>1 DEF Picked
  <2> QED BY <2>1, <2>2, <2>3, <2>4, <2>5
<1>6. \A i \in Chosen : Awaits(i)'
  BY <1>4, <1>5 DEF Awaits
<1>7. Once'
  <2>1. ASSUME NEW k \in 1..Len(todo'), NEW l \in 1..Len(todo'), k # l PROVE todo'[k] # todo'[l]
    <3>1. /\ todo'[k] = Nth(Chosen, k) /\ todo'[l] = Nth(Chosen, l)
          /\ Nth(Chosen, k) \in Nat /\ Nth(Chosen, l) \in Nat
      BY <1>3, <1>4, <1>5, <2>1
    <3>2. Nth(Chosen, k) < Nth(Chosen, l) \/ Nth(Chosen, l) < Nth(Chosen, k)
      <4>1. k < l \/ l < k
        BY <1>5, <2>1
      <4> QED BY <1>5, <2>1, <4>1
    <3> QED BY <3>1, <3>2
  <2>2. Len(links') = 0 /\ 1..0 = {}
    BY <1>1, <1>2
  <2> QED BY <2>1, <2>2 DEF Once
<1>8. \A p \in DOMAIN tree' : Known(p)'
  BY <1>1, <1>2 DEF Known, FileInTheWay, KindAt
<1> QED BY <1>3, <1>6, <1>7, <1>8 DEF Restoring

\* No step of an extraction that has not failed passes an entry without dealing with it.
LEMMA RestNext ==
  ASSUME EInv, RestInv, ExtractNext
  PROVE  RestInv'
<1> SUFFICES ASSUME pc' \in Going PROVE Restoring'
  BY DEF RestInv, Going
<1>1. ASSUME pc \in Going PROVE Restoring
  BY <1>1 DEF RestInv
<1>2. CASE Start
  BY <1>2, RestStart DEF Start, Going
<1>3. CASE Skip \/ DeferLink \/ MakeDirectory \/ Relink
  <2>1. Restoring
    BY <1>1, <1>3 DEF Skip, DeferLink, MakeDirectory, Relink, Entered, Going
  <2> QED BY <1>3, <2>1, RestSkip, RestDefer, RestDirectory, RestRelink
<1>4. CASE Stage
  <2>1. Restoring /\ pc' = "write"
    BY <1>1, <1>4 DEF Stage, Entered, Going
  <2> QED BY <1>4, <2>1, RestStage
<1>5. CASE WriteSlice \/ Verify
  <2>1. /\ pc = "write" /\ pc' \in {"write", "place"}
        /\ UNCHANGED <<before, archive, options, tree, todo, links, dirs, copied, warned, ignored>>
    BY <1>5 DEF WriteSlice, Verify, queueVars, fsVars, Going
  <2>2. Restoring
    BY <1>1, <2>1 DEF Going
  <2> QED BY <2>1, <2>2, RestQuiet
<1>6. CASE Place
  <2>1. Restoring /\ pc' = "placed"
    BY <1>1, <1>6 DEF Place, Going
  <2> QED BY <1>6, <2>1, RestPlace
<1>7. CASE Metadata
  <2>1. Restoring /\ pc' = "entry"
    BY <1>1, <1>7 DEF Metadata, Going
  <2> QED BY <1>7, <2>1, RestMetadata
<1>8. CASE SkipLink
  <2>1. Restoring
    BY <1>1, <1>8 DEF SkipLink, LinksLeft, Going
  <2> QED BY <1>8, <2>1, RestSkipLink
<1>9. CASE PlaceLink
  <2>1. Restoring /\ pc' = "entry"
    BY <1>1, <1>9 DEF PlaceLink, LinksLeft, Going
  <2> QED BY <1>9, <2>1, RestPlaceLink
<1>10. CASE RestoreDirectory
  <2>1. Restoring /\ pc' = "dirs"
    BY <1>1, <1>10 DEF RestoreDirectory, Going
  <2> QED BY <1>10, <2>1, RestRestore
<1>11. CASE Finish
  <2>1. Restoring
    BY <1>1, <1>11 DEF Finish, Going
  <2> QED BY <1>11, <2>1, RestFinish
<1>12. CASE Refuse \/ RefuseLink \/ Throw \/ Unwind \/ Killed
  BY <1>12 DEF Refuse, RefuseLink, Throw, Unwind, Killed, Going
<1> QED BY <1>2, <1>3, <1>4, <1>5, <1>6, <1>7, <1>8, <1>9, <1>10, <1>11, <1>12 DEF ExtractNext

\* The same for what every other step does.
LEMMA RestWhole ==
  ASSUME RInv, RestInv, [Next]_vars
  PROVE  RestInv'
<1>1. EInv
  BY DEF RInv
<1>2. ASSUME UNCHANGED extractVars PROVE RestInv'
  <2>1. /\ UNCHANGED <<before, archive, options, tree, data, copied, warned, ignored>>
        /\ UNCHANGED <<todo, links, dirs, pc>>
    BY <1>2 DEF extractVars, fsVars, queueVars
  <2>2. Chosen' = Chosen /\ E' = E /\ Target' = Target
    BY <2>1, ChosenStays DEF E, Target
  <2>3. \A i : /\ LetBe(i)' <=> LetBe(i)
               /\ InPlaceSoFar(i)' <=> InPlaceSoFar(i)
               /\ Awaits(i)' <=> Awaits(i)
               /\ Past(i)' <=> Past(i)
    BY <2>1, <2>2 DEF LetBe, FileInTheWay, InPlaceSoFar, Own, Awaits, Deferred, Past, Fresh
  <2>4. (\A p \in DOMAIN tree : Known(p)) => \A p \in DOMAIN tree' : Known(p)'
    BY <2>1, <2>2, <2>3 DEF Known, FileInTheWay, Own
  <2>5. Once => Once'
    BY <2>1 DEF Once
  <2>6. Fresh(Target) => Fresh(Target)'
    BY <2>1, <2>2 DEF Fresh
  <2>7. Restoring => Restoring'
    BY <2>1, <2>2, <2>3, <2>4, <2>5, <2>6 DEF Restoring
  <2> QED BY <2>1, <2>7 DEF RestInv
<1>3. ASSUME pc' \in {"idle", "start"} PROVE RestInv'
  BY <1>3 DEF RestInv, Going
<1>4. CASE Edit \/ Refuses \/ Preview \/ Approve \/ Cancel
  BY <1>2, <1>4 DEF Edit, Refuses, Preview, Approve, Cancel
<1>5. CASE Execute
  <2>1. pc = "idle" /\ pc' = pc
    BY <1>5 DEF Execute, Ready, RInv, PhaseSane
  <2> QED BY <1>3, <2>1
<1>6. CASE Restore
  BY <1>3, <1>6 DEF Restore
<1>7. CASE Extract
  BY <1>1, <1>7, RestNext DEF Extract
<1>8. CASE Terminated \/ UNCHANGED vars
  BY <1>2, <1>8 DEF Terminated, vars
<1> QED BY <1>4, <1>5, <1>6, <1>7, <1>8 DEF Next

\* A file this run has made is none of the user's.
LEMMA NotUsers ==
  ASSUME EInv, NEW p \in DOMAIN tree, tree[p].kind = "file", tree[p].inode > Len(before.data)
  PROVE  ~(p \in DOMAIN before.tree /\ before.tree[p] = tree[p])
<1> SUFFICES ASSUME p \in DOMAIN before.tree, before.tree[p] = tree[p] PROVE FALSE
  OBVIOUS
<1>1. IsSequence(before.data) /\ Len(before.data) \in Nat /\ DOMAIN before.data = 1..Len(before.data)
  BY SequenceHas DEF EInv, InputsSane, IsFileSystem
<1>2. tree[p].inode \in DOMAIN before.data
  <2> DEFINE node == before.tree[p]
  <2>1. node.kind = "file"
    OBVIOUS
  <2>2. \/ node = Dir
        \/ node.kind = "file" /\ node = File(node.inode) /\ node.inode \in DOMAIN before.data
        \/ node.kind = "link"
    BY DEF EInv, InputsSane, IsFileSystem
  <2>3. Dir.kind # "file"
    BY DEF Dir
  <2> QED BY <2>1, <2>2, <2>3
<1> QED BY <1>1, <1>2

\* An extraction that reports success has put every entry in place that nothing excuses:
\* none is passed over in extract_entries_impl, and what is put off is done in the end,
\* where nothing can disturb it any more.
THEOREM SuccessMeansRestored == Spec => []DoneMeansRestored
<1>1. Init => RestInv
  BY DEF Init, RestInv, Going
<1>2. RInv /\ RestInv /\ [Next]_vars => RestInv'
  BY RestWhole
<1>3. RInv /\ RestInv => DoneMeansRestored
  <2> SUFFICES ASSUME RInv, RestInv, pc = "done", NEW i \in Chosen, ~Excused(i)
               PROVE  EntryInPlace(i)
    BY DEF DoneMeansRestored
  <2>1. EInv /\ Restoring /\ todo = <<>> /\ links = <<>> /\ dirs = <<>>
    BY DEF RInv, RestInv, Going, Restoring, EInv, ControlSane
  <2>2. ~LetBe(i) /\ ~Awaits(i) /\ ~Deferred(i)
    BY <2>1 DEF Excused, Awaits, Deferred
  <2>3. InPlaceSoFar(i)
    BY <2>1, <2>2 DEF Restoring
  <2>4. /\ archive[i].kind \in Kinds /\ Below(Own(i), Root) /\ Last(Own(i)) # StagingName
        /\ \A j \in Chosen : Own(j) = Own(i) => archive[j].path = archive[i].path
    BY <2>1, OwnPath DEF EInv
  <2>5. CASE archive[i].kind = "dir"
    BY <2>1, <2>3, <2>5 DEF InPlaceSoFar, EntryInPlace, Own
  <2>6. CASE archive[i].kind = "symlink"
    BY <2>2, <2>3, <2>6 DEF InPlaceSoFar, EntryInPlace, Own
  <2>7. CASE FileLike(archive[i].kind)
    <3>1. PICK p : p = Own(i)
      OBVIOUS
    <3>2. /\ p \in DOMAIN tree /\ tree[p].kind = "file"
          /\ tree[p].inode \notin copied.inodes /\ tree[p].inode > Len(before.data)
      BY <2>2, <2>3, <2>7, <3>1 DEF InPlaceSoFar, Fresh, KindAt, Excused, Own
    <3>3. WholeFile(p)
      BY <2>1, <2>4, <3>1, <3>2 DEF EInv, NodesInv, FilesSane
    <3>4. Delivered(p)
      BY <2>1, <3>2, <3>3, NotUsers DEF WholeFile
    <3>5. PICK j \in Chosen : Own(j) = p /\ HoldsFile(p, ContentsOf(j))
      BY <3>4 DEF Delivered, Own
    <3>6. j = i
      <4>1. archive[j].path = archive[i].path
        BY <2>4, <3>1, <3>5
      <4> QED BY <2>2, <4>1 DEF LetBe
    <3>7. HoldsFile(p, ContentsOf(i))
      BY <3>5, <3>6
    <3> QED BY <2>7, <3>1, <3>7 DEF EntryInPlace, Own, FileLike
  <2> QED BY <2>4, <2>5, <2>6, <2>7 DEF Kinds, FileLike
<1> QED BY <1>1, <1>2, <1>3, RoundTripInvariant, PTL DEF Spec

=============================================================================
