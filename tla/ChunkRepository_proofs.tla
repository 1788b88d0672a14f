----------------------- MODULE ChunkRepository_proofs -----------------------
(***************************************************************************)
(* Proofs about ChunkRepository for any files, paths, names and numbers of *)
(* operations.  The inductive invariant says where a chunk is: the table   *)
(* of chunks and the table of blocks run in step, each block holds the     *)
(* chunk of its own index and is sealed under that index, and no           *)
(* catalogue, of the archive or of a snapshot, refers past the end of the  *)
(* table.  Capturing files keeps it because the tables only grow; a repack *)
(* keeps it because it renumbers both tables and every catalogue by the    *)
(* same order-preserving map of the live chunks onto 1..n, and seals what  *)
(* it moves again.                                                         *)
(*                                                                         *)
(* From the invariant every block opens, so a catalogue reads back as its  *)
(* chunks' identities, and each operation can be compared with what        *)
(* ContentStore says of whole trees.                                       *)
(***************************************************************************)
EXTENDS ChunkRepository, NumberSets, TLAPS

\* What a catalogue reads back as when each chunk of the table is readable.
Restoration(table, tree) ==
  MapContent(tree, [ref \in ContentOf(tree) |-> table[ref].identity])

\* The data of a file, every chunk put through f.
Mapped(data, f) == [k \in 1..Len(data) |-> f[data[k]]]

----------------------------------------------------------------------------
(* Sequences.                                                              *)

\* A function over 1..n has length n.
LEMMA LenIs ==
  ASSUME NEW f, NEW n \in Nat, DOMAIN f = 1..n
  PROVE  Len(f) = n
<1>1. f = [i \in 1..n |-> f[i]] => f \in Seq({f[i] : i \in 1..n}) /\ Len(f) = n
  OBVIOUS
<1> QED BY <1>1

\* What concatenation returns.
LEMMA Concatenation ==
  ASSUME NEW m \in Nat, NEW n \in Nat, NEW f, NEW g,
         f = [i \in 1..m |-> f[i]], g = [i \in 1..n |-> g[i]]
  PROVE  /\ f \o g = [i \in 1..(m + n) |-> IF i <= m THEN f[i] ELSE g[i - m]]
         /\ Len(f) = m /\ Len(g) = n
<1> DEFINE S == {f[i] : i \in 1..m} \cup {g[i] : i \in 1..n}
<1>1. f \in Seq(S) /\ Len(f) = m
  OBVIOUS
<1>2. g \in Seq(S) /\ Len(g) = n
  OBVIOUS
<1> HIDE DEF S
<1> QED BY <1>1, <1>2

\* What Append returns.
LEMMA Appended ==
  ASSUME NEW n \in Nat, NEW f, NEW x, f = [i \in 1..n |-> f[i]]
  PROVE  Append(f, x) = [i \in 1..(n + 1) |-> IF i <= n THEN f[i] ELSE x]
<1> DEFINE S == {f[i] : i \in 1..n} \cup {x}
<1>1. f \in Seq(S) /\ Len(f) = n /\ x \in S
  OBVIOUS
<1> HIDE DEF S
<1> QED BY <1>1

\* SetToSeq enumerates a finite set.
LEMMA Enumeration ==
  ASSUME NEW S, IsFiniteSet(S)
  PROVE  /\ Cardinality(S) \in Nat
         /\ SetToSeq(S) \in [1..Cardinality(S) -> S]
         /\ \A x \in S : \E k \in 1..Cardinality(S) : SetToSeq(S)[k] = x
<1>1. Cardinality(S) \in Nat /\ ExistsBijection(1..Cardinality(S), S)
  BY FS_CardinalityType
<1> DEFINE N == 1..Cardinality(S)
<1>2. \E f \in [N -> S] : IsInjective(f)
  BY <1>1 DEF ExistsBijection, Bijection, Injection, IsInjective
<1>3. SetToSeq(S) \in [N -> S] /\ IsInjective(SetToSeq(S))
  BY <1>2 DEF SetToSeq
<1>4. SetToSeq(S) \in Injection(N, S)
  BY <1>3 DEF Injection, IsInjective
<1>5. Cardinality(N) = Cardinality(S)
  BY <1>1, FS_Interval
<1>6. SetToSeq(S) \in Surjection(N, S)
  BY <1>4, <1>5, FS_Injection
<1> QED BY <1>1, <1>3, <1>6 DEF Surjection

----------------------------------------------------------------------------
(* Tables that lose elements.                                              *)

\* Renumbering is a bijection onto the new indices that keeps the order, and
\* KeptAt is its inverse.
LEMMA Renumbering ==
  ASSUME NEW n \in Nat, NEW kept, kept \subseteq 1..n
  PROVE  /\ Cardinality(kept) \in Nat
         /\ \A i \in kept : /\ Renumbered(i, kept) \in 1..Cardinality(kept)
                            /\ KeptAt(Renumbered(i, kept), kept) = i
         /\ \A i, j \in kept : i < j => Renumbered(i, kept) < Renumbered(j, kept)
         /\ \A k \in 1..Cardinality(kept) : /\ KeptAt(k, kept) \in kept
                                            /\ Renumbered(KeptAt(k, kept), kept) = k
<1> DEFINE UpTo(i) == {k \in kept : k <= i}
           N == 1..Cardinality(kept)
           R == [i \in kept |-> Renumbered(i, kept)]
<1>1. IsFiniteSet(kept) /\ Cardinality(kept) \in Nat
  <2>1. IsFiniteSet(1..n)
    BY FS_Interval
  <2> QED BY <2>1, FS_Subset, FS_CardinalityType
<1>2. \A i \in kept : /\ IsFiniteSet(UpTo(i)) /\ Cardinality(UpTo(i)) \in Nat
                      /\ Cardinality(UpTo(i)) <= Cardinality(kept)
                      /\ Cardinality(UpTo(i)) # 0
  <2> SUFFICES ASSUME NEW i \in kept
               PROVE  /\ IsFiniteSet(UpTo(i)) /\ Cardinality(UpTo(i)) \in Nat
                      /\ Cardinality(UpTo(i)) <= Cardinality(kept)
                      /\ Cardinality(UpTo(i)) # 0
    OBVIOUS
  <2>1. UpTo(i) \in SUBSET kept /\ i \in UpTo(i)
    OBVIOUS
  <2> HIDE DEF UpTo
  <2>2. IsFiniteSet(UpTo(i)) /\ Cardinality(UpTo(i)) <= Cardinality(kept)
    BY <1>1, <2>1, FS_Subset
  <2>3. Cardinality(UpTo(i)) # 0
    BY <2>1, <2>2, FS_EmptySet
  <2> QED BY <2>2, <2>3, FS_CardinalityType
<1>3. \A i, j \in kept : i < j => Renumbered(i, kept) < Renumbered(j, kept)
  <2> SUFFICES ASSUME NEW i \in kept, NEW j \in kept, i < j
               PROVE  Renumbered(i, kept) < Renumbered(j, kept)
    OBVIOUS
  <2>1. UpTo(i) \in SUBSET UpTo(j)
    <3>1. \A k \in kept : k <= i => k <= j
      <4>1. \A k \in kept : k \in Nat
        OBVIOUS
      <4> QED BY <4>1
    <3> QED BY <3>1
  <2>2. UpTo(i) # UpTo(j)
    <3>1. j \in UpTo(j) /\ j \notin UpTo(i)
      OBVIOUS
    <3> QED BY <3>1
  <2>3. Cardinality(UpTo(i)) = Renumbered(i, kept) /\ Cardinality(UpTo(j)) = Renumbered(j, kept)
    BY DEF Renumbered
  <2>4. /\ IsFiniteSet(UpTo(j))
        /\ Cardinality(UpTo(i)) \in Nat /\ Cardinality(UpTo(j)) \in Nat
    BY <1>2
  <2> HIDE DEF UpTo
  <2>5. Cardinality(UpTo(i)) <= Cardinality(UpTo(j)) /\ Cardinality(UpTo(i)) # Cardinality(UpTo(j))
    BY <2>1, <2>2, <2>4, FS_Subset
  <2> QED BY <2>3, <2>4, <2>5
<1>4. \A i \in kept : Renumbered(i, kept) \in N
  <2> SUFFICES ASSUME NEW i \in kept PROVE Renumbered(i, kept) \in N
    OBVIOUS
  <2>1. Cardinality(UpTo(i)) = Renumbered(i, kept)
    BY DEF Renumbered
  <2> QED BY <1>1, <1>2, <2>1
<1>5. \A i, j \in kept : Renumbered(i, kept) = Renumbered(j, kept) => i = j
  <2> SUFFICES ASSUME NEW i \in kept, NEW j \in kept, i # j
               PROVE  Renumbered(i, kept) # Renumbered(j, kept)
    OBVIOUS
  <2>1. i < j \/ j < i
    OBVIOUS
  <2>2. Renumbered(i, kept) \in Nat /\ Renumbered(j, kept) \in Nat
    BY <1>1, <1>4
  <2> QED BY <1>3, <2>1, <2>2
<1>6. R \in Injection(kept, N)
  BY <1>4, <1>5 DEF Injection, IsInjective
<1>7. IsFiniteSet(N) /\ Cardinality(N) = Cardinality(kept)
  BY <1>1, FS_Interval
<1>8. R \in Surjection(kept, N)
  <2> HIDE DEF R, N
  <2> QED BY <1>6, <1>7, FS_Injection
<1>9. \A k \in N : \E i \in kept : Renumbered(i, kept) = k
  BY <1>8 DEF Surjection
<1>10. \A k \in N : KeptAt(k, kept) \in kept /\ Renumbered(KeptAt(k, kept), kept) = k
  <2> HIDE DEF N
  <2> QED BY <1>9 DEF KeptAt
<1> QED BY <1>1, <1>3, <1>4, <1>5, <1>10

\* A table without some elements: the kept ones in order.
LEMMA Compaction ==
  ASSUME NEW n \in Nat, NEW table, DOMAIN table = 1..n, NEW kept, kept \subseteq 1..n
  PROVE  LET c == Compacted(table, kept)
         IN  /\ Cardinality(kept) \in Nat
             /\ c = [k \in 1..Cardinality(kept) |-> c[k]]
             /\ Len(c) = Cardinality(kept)
             /\ \A k \in 1..Cardinality(kept) : /\ KeptAt(k, kept) \in kept
                                                /\ c[k] = table[KeptAt(k, kept)]
             /\ \A i \in kept : /\ Renumbered(i, kept) \in 1..Cardinality(kept)
                                /\ c[Renumbered(i, kept)] = table[i]
             /\ \A k, l \in 1..Cardinality(kept) : KeptAt(k, kept) = KeptAt(l, kept) => k = l
<1> DEFINE c == Compacted(table, kept)
<1>1. Cardinality(kept) \in Nat
  BY Renumbering
<1>2. /\ DOMAIN c = 1..Cardinality(kept)
      /\ c = [k \in 1..Cardinality(kept) |-> c[k]]
      /\ \A k \in 1..Cardinality(kept) : c[k] = table[KeptAt(k, kept)]
  BY DEF Compacted
<1> HIDE DEF c
<1>3. Len(c) = Cardinality(kept)
  BY <1>1, <1>2, LenIs
<1> USE DEF c
<1> HIDE DEF c
<1>4. \A k \in 1..Cardinality(kept) : KeptAt(k, kept) \in kept
  BY Renumbering
<1>5. \A i \in kept : /\ Renumbered(i, kept) \in 1..Cardinality(kept)
                      /\ c[Renumbered(i, kept)] = table[i]
  <2>1. \A i \in kept : /\ Renumbered(i, kept) \in 1..Cardinality(kept)
                        /\ KeptAt(Renumbered(i, kept), kept) = i
    BY Renumbering
  <2> QED BY <2>1, <1>2
<1>6. \A k, l \in 1..Cardinality(kept) : KeptAt(k, kept) = KeptAt(l, kept) => k = l
  <2>1. \A k \in 1..Cardinality(kept) : Renumbered(KeptAt(k, kept), kept) = k
    BY Renumbering
  <2> QED BY <2>1
<1>7. c = Compacted(table, kept)
  BY DEF c
<1> QED BY <1>1, <1>2, <1>3, <1>4, <1>5, <1>6, <1>7

----------------------------------------------------------------------------
(* Catalogues.                                                             *)

\* What an entry of a tree is.
LEMMA EntryShape ==
  ASSUME NEW tree, IsTree(tree), NEW p \in DOMAIN tree
  PROVE  /\ tree[p].kind \in {"dir", "link", "file"}
         /\ tree[p].kind = "dir" => tree[p] = [kind |-> "dir"]
         /\ tree[p].kind = "link" => tree[p] = [kind |-> "link", target |-> tree[p].target]
         /\ tree[p].kind = "file" =>
              /\ tree[p] = [kind |-> "file", data |-> tree[p].data]
              /\ tree[p].data = [k \in 1..Len(tree[p].data) |-> tree[p].data[k]]
              /\ Len(tree[p].data) \in Nat
              /\ \A k \in 1..Len(tree[p].data) : tree[p].data[k] \in ContentOf(tree)
<1>1. IsEntry(tree[p])
  BY DEF IsTree
<1>2. CASE tree[p] = [kind |-> "dir"]
  BY <1>2
<1>3. CASE tree[p].kind = "link" /\ tree[p] = [kind |-> "link", target |-> tree[p].target]
  BY <1>3
<1>4. CASE /\ tree[p].kind = "file" /\ tree[p] = [kind |-> "file", data |-> tree[p].data]
           /\ tree[p].data \in Seq(Range(tree[p].data))
  <2> DEFINE d == tree[p].data
             R == Range(d)
  <2>1. d \in Seq(R)
    BY <1>4
  <2>2. d = [k \in 1..Len(d) |-> d[k]] /\ Len(d) \in Nat /\ DOMAIN d = 1..Len(d)
    <3> HIDE DEF d, R
    <3> QED BY <2>1
  <2>3. \A k \in DOMAIN d : d[k] \in R
    BY DEF Range
  <2>4. R \subseteq ContentOf(tree)
    BY <1>4 DEF ContentOf, Files
  <2> QED BY <1>4, <2>2, <2>3, <2>4
<1> QED BY <1>1, <1>2, <1>3, <1>4 DEF IsEntry

\* Where the content of a tree comes from.
LEMMA ContentIn ==
  ASSUME NEW tree, IsTree(tree), NEW x \in ContentOf(tree)
  PROVE  \E p \in Files(tree) : \E k \in 1..Len(tree[p].data) : tree[p].data[k] = x
<1>1. PICK p \in Files(tree) : x \in Range(tree[p].data)
  BY DEF ContentOf
<1>2. p \in DOMAIN tree /\ tree[p].kind = "file"
  BY DEF Files
<1>3. DOMAIN tree[p].data = 1..Len(tree[p].data)
  BY <1>2, EntryShape
<1> QED BY <1>1, <1>3 DEF Range

\* An entry that is what an entry of a tree is.
LEMMA FileEntry ==
  ASSUME NEW n \in Nat, NEW d, d = [k \in 1..n |-> d[k]]
  PROVE  /\ IsEntry([kind |-> "file", data |-> d])
         /\ Len(d) = n
<1>1. d \in Seq({d[k] : k \in 1..n}) /\ Len(d) = n
  OBVIOUS
<1>2. Range(d) = {d[k] : k \in 1..n}
  BY DEF Range
<1> QED BY <1>1, <1>2 DEF IsEntry

\* Mapping the content of a tree leaves its shape alone.
LEMMA Mapping ==
  ASSUME NEW tree, IsTree(tree), NEW f
  PROVE  LET c == MapContent(tree, f)
         IN  /\ IsTree(c) /\ DOMAIN c = DOMAIN tree
             /\ \A p \in DOMAIN tree : c[p].kind = tree[p].kind
             /\ \A p \in DOMAIN tree \ Files(tree) : c[p] = tree[p]
             /\ Files(c) = Files(tree) /\ Links(c) = Links(tree)
             /\ \A p \in Files(tree) :
                  c[p] = [kind |-> "file",
                          data |-> Mapped(tree[p].data, f)]
<1> DEFINE c == MapContent(tree, f)
           M(p) == Mapped(tree[p].data, f)
<1>1. DOMAIN c = DOMAIN tree /\ c = [p \in DOMAIN c |-> c[p]]
  BY DEF MapContent
<1>2. \A p \in DOMAIN tree \ Files(tree) : c[p] = tree[p]
  BY DEF MapContent
<1>3. ASSUME NEW p \in Files(tree)
      PROVE  c[p] = [kind |-> "file", data |-> M(p)] /\ IsEntry(c[p])
  <2>1. p \in DOMAIN tree /\ tree[p].kind = "file"
    BY DEF Files
  <2>6. /\ tree[p] = [kind |-> "file", data |-> tree[p].data]
        /\ tree[p].data = [k \in 1..Len(tree[p].data) |-> tree[p].data[k]]
        /\ Len(tree[p].data) \in Nat
    BY <2>1, EntryShape
  <2>2. /\ tree[p] = [kind |-> "file", data |-> tree[p].data]
        /\ DOMAIN tree[p].data = 1..Len(tree[p].data) /\ Len(tree[p].data) \in Nat
    BY <2>6
  <2>3. c[p] = [tree[p] EXCEPT !.data = [k \in DOMAIN tree[p].data |-> f[tree[p].data[k]]]]
    BY <2>1 DEF MapContent
  <2>4. c[p] = [kind |-> "file", data |-> M(p)]
    BY <2>2, <2>3 DEF Mapped
  <2>5. M(p) = [k \in 1..Len(tree[p].data) |-> M(p)[k]]
    BY DEF Mapped
  <2> HIDE DEF M, c
  <2> QED BY <2>2, <2>4, <2>5, FileEntry
<1> HIDE DEF c, M
<1>4. \A p \in DOMAIN tree : c[p].kind = tree[p].kind
  <2>1. ASSUME NEW p \in Files(tree) PROVE c[p].kind = "file" /\ tree[p].kind = "file"
    <3>1. c[p] = [kind |-> "file", data |-> M(p)]
      BY <1>3
    <3> QED BY <3>1 DEF Files
  <2> QED BY <1>2, <2>1
<1>5. IsTree(c)
  <2>1. \A p \in DOMAIN tree : IsEntry(tree[p])
    BY DEF IsTree
  <2>2. \A p \in DOMAIN tree : IsEntry(c[p])
    BY <1>2, <1>3, <2>1
  <2> QED BY <1>1, <2>2 DEF IsTree
<1>6. Files(c) = Files(tree) /\ Links(c) = Links(tree)
  BY <1>1, <1>4 DEF Files, Links
<1> USE DEF c, M
<1> QED BY <1>1, <1>2, <1>3, <1>4, <1>5, <1>6

\* ... nor its directories, nor its links.
LEMMA MappedShape ==
  ASSUME NEW tree, IsTree(tree), NEW f
  PROVE  /\ WellFormed(MapContent(tree, f)) = WellFormed(tree)
         /\ LinksResolve(MapContent(tree, f)) = LinksResolve(tree)
<1> DEFINE c == MapContent(tree, f)
<1>1. /\ DOMAIN c = DOMAIN tree /\ Links(c) = Links(tree)
      /\ \A p \in DOMAIN tree : c[p].kind = tree[p].kind
  BY Mapping
<1>2. \A p \in Links(tree) : c[p] = tree[p]
  <2>1. Links(tree) \subseteq DOMAIN tree \ Files(tree)
    BY DEF Links, Files
  <2> QED BY <2>1, Mapping
<1> HIDE DEF c
<1>3. WellFormed(c) <=> WellFormed(tree)
  BY <1>1 DEF WellFormed
<1>4. \A p \in Links(tree) : LinkResolves(c, p) <=> LinkResolves(tree, p)
  BY <1>1, <1>2 DEF LinkResolves
<1>5. LinksResolve(c) <=> LinksResolve(tree)
  BY <1>1, <1>4 DEF LinksResolve
<1>6. WellFormed(c) \in BOOLEAN /\ WellFormed(tree) \in BOOLEAN
  BY DEF WellFormed
<1>7. LinksResolve(c) \in BOOLEAN /\ LinksResolve(tree) \in BOOLEAN
  BY DEF LinksResolve
<1> USE DEF c
<1> QED BY <1>3, <1>5, <1>6, <1>7

\* Only the values of f at the content of the tree matter.
LEMMA MappingSame ==
  ASSUME NEW tree, IsTree(tree), NEW f, NEW g, \A x \in ContentOf(tree) : f[x] = g[x]
  PROVE  MapContent(tree, f) = MapContent(tree, g)
<1> DEFINE c == MapContent(tree, f)
           d == MapContent(tree, g)
<1>1. c = [p \in DOMAIN tree |-> c[p]] /\ d = [p \in DOMAIN tree |-> d[p]]
  BY DEF MapContent
<1>2. \A p \in DOMAIN tree \ Files(tree) : c[p] = d[p]
  BY DEF MapContent
<1>3. ASSUME NEW p \in Files(tree) PROVE c[p] = d[p]
  <2>1. p \in DOMAIN tree /\ tree[p].kind = "file"
    BY DEF Files
  <2>2. \A k \in 1..Len(tree[p].data) : f[tree[p].data[k]] = g[tree[p].data[k]]
    BY <2>1, EntryShape
  <2>3. c[p] = [kind |-> "file", data |-> Mapped(tree[p].data, f)]
    BY Mapping
  <2>4. d[p] = [kind |-> "file", data |-> Mapped(tree[p].data, g)]
    BY Mapping
  <2>5. Mapped(tree[p].data, f) = Mapped(tree[p].data, g)
    BY <2>2 DEF Mapped
  <2> HIDE DEF c, d
  <2> QED BY <2>3, <2>4, <2>5
<1>4. \A p \in DOMAIN tree : c[p] = d[p]
  BY <1>2, <1>3
<1> HIDE DEF c, d
<1>5. c = d
  BY <1>1, <1>4
<1> USE DEF c, d
<1> QED BY <1>5

\* The content of a tree that was mapped.
LEMMA MappedContent ==
  ASSUME NEW tree, IsTree(tree), NEW f
  PROVE  ContentOf(MapContent(tree, f)) = {f[x] : x \in ContentOf(tree)}
<1> DEFINE c == MapContent(tree, f)
<1>1. /\ IsTree(c) /\ Files(c) = Files(tree)
      /\ \A p \in Files(tree) :
           c[p] = [kind |-> "file",
                   data |-> Mapped(tree[p].data, f)]
  BY Mapping
<1> HIDE DEF c
<1>2. \A p \in Files(tree) :
         /\ p \in DOMAIN tree /\ tree[p].kind = "file"
         /\ Len(tree[p].data) \in Nat
         /\ \A k \in 1..Len(tree[p].data) : tree[p].data[k] \in ContentOf(tree)
  BY EntryShape DEF Files
<1>3. \A p \in Files(tree) :
         Range(c[p].data) = {f[tree[p].data[k]] : k \in 1..Len(tree[p].data)}
  <2> SUFFICES ASSUME NEW p \in Files(tree)
               PROVE  Range(c[p].data) = {f[tree[p].data[k]] : k \in 1..Len(tree[p].data)}
    OBVIOUS
  <2>1. c[p] = [kind |-> "file", data |-> Mapped(tree[p].data, f)]
    BY <1>1
  <2>2. c[p].data = Mapped(tree[p].data, f)
    BY <2>1
  <2> QED BY <2>2 DEF Range, Mapped
<1>4. ASSUME NEW y \in ContentOf(c) PROVE y \in {f[x] : x \in ContentOf(tree)}
  <2>1. PICK p \in Files(tree) : y \in Range(c[p].data)
    BY <1>1 DEF ContentOf
  <2>2. PICK k \in 1..Len(tree[p].data) : y = f[tree[p].data[k]]
    BY <1>3, <2>1
  <2> QED BY <1>2, <2>2
<1>5. ASSUME NEW x \in ContentOf(tree) PROVE f[x] \in ContentOf(c)
  <2>1. PICK p \in Files(tree) : \E k \in 1..Len(tree[p].data) : tree[p].data[k] = x
    BY ContentIn
  <2>2. f[x] \in Range(c[p].data)
    BY <1>3, <2>1
  <2> QED BY <1>1, <2>2 DEF ContentOf
<1>6. ContentOf(c) = {f[x] : x \in ContentOf(tree)}
  BY <1>4, <1>5
<1> USE DEF c
<1> QED BY <1>6

\* Mapping twice is mapping once.
LEMMA MappingTwice ==
  ASSUME NEW tree, IsTree(tree), NEW f, NEW g, NEW h,
         \A x \in ContentOf(tree) : g[f[x]] = h[x]
  PROVE  MapContent(MapContent(tree, f), g) = MapContent(tree, h)
<1> DEFINE c == MapContent(tree, f)
           d == MapContent(c, g)
           e == MapContent(tree, h)
<1>1. /\ IsTree(c) /\ Files(c) = Files(tree) /\ DOMAIN c = DOMAIN tree
      /\ \A p \in DOMAIN tree \ Files(tree) : c[p] = tree[p]
      /\ \A p \in Files(tree) :
           c[p] = [kind |-> "file",
                   data |-> Mapped(tree[p].data, f)]
  BY Mapping
<1> HIDE DEF c
<1>2. /\ \A p \in DOMAIN tree \ Files(tree) : d[p] = c[p]
      /\ \A p \in Files(tree) :
           d[p] = [kind |-> "file", data |-> Mapped(c[p].data, g)]
      /\ DOMAIN d = DOMAIN tree /\ IsTree(d)
  BY <1>1, Mapping
<1>3. /\ \A p \in DOMAIN tree \ Files(tree) : e[p] = tree[p]
      /\ \A p \in Files(tree) :
           e[p] = [kind |-> "file",
                   data |-> Mapped(tree[p].data, h)]
      /\ DOMAIN e = DOMAIN tree /\ IsTree(e)
  BY Mapping
<1> HIDE DEF d, e
<1>4. ASSUME NEW p \in Files(tree) PROVE d[p] = e[p]
  <2> DEFINE n == Len(tree[p].data)
  <2>1. /\ n \in Nat
        /\ \A k \in 1..n : tree[p].data[k] \in ContentOf(tree)
    BY EntryShape DEF Files
  <2>2. c[p].data = [k \in 1..n |-> f[tree[p].data[k]]]
    <3>1. c[p] = [kind |-> "file", data |-> Mapped(tree[p].data, f)]
      BY <1>1
    <3>2. c[p].data = Mapped(tree[p].data, f)
      BY <3>1
    <3> QED BY <3>2 DEF Mapped
  <2> HIDE DEF n
  <2>3. Len(c[p].data) = n
    BY <2>1, <2>2, LenIs
  <2>4. \A k \in 1..n : g[c[p].data[k]] = h[tree[p].data[k]]
    BY <2>1, <2>2
  <2>5. [k \in 1..n |-> g[c[p].data[k]]] = [k \in 1..n |-> h[tree[p].data[k]]]
    BY <2>4
  <2>6. Mapped(c[p].data, g) = Mapped(tree[p].data, h)
    BY <2>3, <2>5 DEF Mapped, n
  <2> QED BY <1>2, <1>3, <2>6
<1>5. \A p \in DOMAIN tree : d[p] = e[p]
  BY <1>1, <1>2, <1>3, <1>4
<1>6. d = e
  BY <1>2, <1>3, <1>5 DEF IsTree
<1> USE DEF c, d, e
<1> QED BY <1>6

\* Mapping by the identity changes nothing.
LEMMA MappingNothing ==
  ASSUME NEW tree, IsTree(tree), NEW f, \A x \in ContentOf(tree) : f[x] = x
  PROVE  MapContent(tree, f) = tree
<1> DEFINE c == MapContent(tree, f)
<1>1. /\ IsTree(c) /\ DOMAIN c = DOMAIN tree
      /\ \A p \in DOMAIN tree \ Files(tree) : c[p] = tree[p]
      /\ \A p \in Files(tree) :
           c[p] = [kind |-> "file",
                   data |-> Mapped(tree[p].data, f)]
  BY Mapping
<1> HIDE DEF c
<1>2. ASSUME NEW p \in Files(tree) PROVE c[p] = tree[p]
  <2>1. p \in DOMAIN tree /\ tree[p].kind = "file"
    BY DEF Files
  <2>2. /\ tree[p] = [kind |-> "file", data |-> tree[p].data]
        /\ tree[p].data = [k \in 1..Len(tree[p].data) |-> tree[p].data[k]]
        /\ \A k \in 1..Len(tree[p].data) : tree[p].data[k] \in ContentOf(tree)
    BY <2>1, EntryShape
  <2>3. Mapped(tree[p].data, f) = tree[p].data
    BY <2>2 DEF Mapped
  <2> QED BY <1>1, <2>2, <2>3
<1>3. \A p \in DOMAIN tree : c[p] = tree[p]
  BY <1>1, <1>2
<1>4. c = tree
  BY <1>1, <1>3 DEF IsTree
<1> USE DEF c
<1> QED BY <1>4

----------------------------------------------------------------------------
(* Catalogues made of the entries of others.                               *)

\* An entry reads back the same in every catalogue that has it.
LEMMA SameEntry ==
  ASSUME NEW table, NEW c, IsTree(c), NEW d, IsTree(d),
         NEW p \in DOMAIN c, p \in DOMAIN d, c[p] = d[p]
  PROVE  Restoration(table, c)[p] = Restoration(table, d)[p]
<1> DEFINE f == [ref \in ContentOf(c) |-> table[ref].identity]
           g == [ref \in ContentOf(d) |-> table[ref].identity]
           r == MapContent(c, f)
           s == MapContent(d, g)
<1>1. r = Restoration(table, c) /\ s = Restoration(table, d)
  BY DEF Restoration
<1>2. CASE c[p].kind # "file"
  <2>1. p \in DOMAIN c \ Files(c) /\ p \in DOMAIN d \ Files(d)
    BY <1>2 DEF Files
  <2>2. r[p] = c[p] /\ s[p] = d[p]
    <3> HIDE DEF f, g
    <3> QED BY <2>1, Mapping
  <2> QED BY <1>1, <2>2
<1>3. CASE c[p].kind = "file"
  <2>1. p \in Files(c) /\ p \in Files(d)
    BY <1>3 DEF Files
  <2>2. r[p] = [kind |-> "file", data |-> Mapped(c[p].data, f)]
    <3> HIDE DEF f, g
    <3> QED BY <2>1, Mapping
  <2>3. s[p] = [kind |-> "file", data |-> Mapped(d[p].data, g)]
    <3> HIDE DEF f, g
    <3> QED BY <2>1, Mapping
  <2>4. \A k \in 1..Len(c[p].data) : c[p].data[k] \in ContentOf(c) /\ c[p].data[k] \in ContentOf(d)
    BY <1>3, EntryShape
  <2>5. Mapped(c[p].data, f) = Mapped(d[p].data, g)
    BY <2>4 DEF Mapped
  <2> HIDE DEF r, s, f, g
  <2> QED BY <1>1, <2>2, <2>3, <2>5
<1> QED BY <1>2, <1>3

\* A catalogue whose every entry is one of c or of d.
LEMMA MadeOf ==
  ASSUME NEW c, IsTree(c), NEW d, IsTree(d), NEW e, e = [p \in DOMAIN e |-> e[p]],
         \A p \in DOMAIN e : \/ p \in DOMAIN c /\ e[p] = c[p]
                             \/ p \in DOMAIN d /\ e[p] = d[p]
  PROVE  IsTree(e) /\ ContentOf(e) \subseteq ContentOf(c) \cup ContentOf(d)
<1>1. IsTree(e)
  BY DEF IsTree
<1>2. ASSUME NEW x \in ContentOf(e) PROVE x \in ContentOf(c) \cup ContentOf(d)
  <2>1. PICK p \in Files(e) : x \in Range(e[p].data)
    BY DEF ContentOf
  <2>2. p \in DOMAIN e /\ e[p].kind = "file"
    BY DEF Files
  <2>3. CASE p \in DOMAIN c /\ e[p] = c[p]
    BY <2>1, <2>2, <2>3 DEF ContentOf, Files
  <2>4. CASE p \in DOMAIN d /\ e[p] = d[p]
    BY <2>1, <2>2, <2>4 DEF ContentOf, Files
  <2> QED BY <2>2, <2>3, <2>4
<1> QED BY <1>1, <1>2

\* Putting one catalogue over another.
LEMMA OneOverAnother ==
  ASSUME NEW c, IsTree(c), NEW d, IsTree(d)
  PROVE  /\ DOMAIN Over(c, d) = DOMAIN c \cup DOMAIN d
         /\ \A p \in DOMAIN c : Over(c, d)[p] = c[p]
         /\ \A p \in DOMAIN d \ DOMAIN c : Over(c, d)[p] = d[p]
         /\ IsTree(Over(c, d)) /\ ContentOf(Over(c, d)) \subseteq ContentOf(c) \cup ContentOf(d)
<1> DEFINE e == Over(c, d)
<1>1. /\ e = [p \in DOMAIN e |-> e[p]] /\ DOMAIN e = DOMAIN c \cup DOMAIN d
      /\ \A p \in DOMAIN c : e[p] = c[p]
      /\ \A p \in DOMAIN d \ DOMAIN c : e[p] = d[p]
  BY DEF Over
<1> HIDE DEF e
<1>2. IsTree(e) /\ ContentOf(e) \subseteq ContentOf(c) \cup ContentOf(d)
  BY <1>1, MadeOf
<1> USE DEF e
<1> QED BY <1>1, <1>2

\* Leaving entries out.
LEMMA Restricted ==
  ASSUME NEW c, IsTree(c), NEW S, S \subseteq DOMAIN c
  PROVE  /\ DOMAIN Restrict(c, S) = S
         /\ \A p \in S : Restrict(c, S)[p] = c[p]
         /\ IsTree(Restrict(c, S)) /\ ContentOf(Restrict(c, S)) \subseteq ContentOf(c)
         /\ WellFormed(c) => WellFormed(Restrict(c, S))
<1> DEFINE e == Restrict(c, S)
<1>1. /\ e = [p \in DOMAIN e |-> e[p]] /\ DOMAIN e = S
      /\ \A p \in S : e[p] = c[p]
  BY DEF Restrict
<1> HIDE DEF e
<1>2. \A p \in DOMAIN e : p \in DOMAIN c /\ e[p] = c[p]
  BY <1>1
<1>3. IsTree(e) /\ ContentOf(e) \subseteq ContentOf(c)
  BY <1>1, <1>2, MadeOf
<1>4. WellFormed(c) => WellFormed(e)
  BY <1>1, <1>2 DEF WellFormed
<1> USE DEF e
<1> QED BY <1>1, <1>3, <1>4

\* The path of the entry that moves to q.
MovedFrom(q, paths, moves) == CHOOSE p \in paths : MovedPath(p, moves) = q

\* m is what a move makes of c.
MovedTo(m, c, moves) ==
  /\ m = [q \in DOMAIN m |-> m[q]]
  /\ DOMAIN m = {MovedPath(p, moves) : p \in DOMAIN c}
  /\ \A q \in DOMAIN m :
       LET from == MovedFrom(q, DOMAIN c, moves)
       IN  /\ from \in DOMAIN c
           /\ c[from].kind # "link" => m[q] = c[from]
           /\ c[from].kind = "link" =>
                m[q] = [kind |-> "link", target |-> MovedPath(c[from].target, moves)]

\* What a move makes of the entries.
LEMMA MovedEntries ==
  ASSUME NEW c, IsTree(c), NEW moves
  PROVE  MovedTo(MovedTree(c, moves), c, moves)
<1> DEFINE m == MovedTree(c, moves)
           From(q) == MovedFrom(q, DOMAIN c, moves)
<1>1. /\ m = [q \in DOMAIN m |-> m[q]]
      /\ DOMAIN m = {MovedPath(p, moves) : p \in DOMAIN c}
  BY DEF MovedTree
<1>2. ASSUME NEW q \in DOMAIN m
      PROVE  /\ From(q) \in DOMAIN c
             /\ c[From(q)].kind # "link" => m[q] = c[From(q)]
             /\ c[From(q)].kind = "link" =>
                  m[q] = [kind |-> "link", target |-> MovedPath(c[From(q)].target, moves)]
  <2>1. From(q) \in DOMAIN c
    <3>1. \E p \in DOMAIN c : MovedPath(p, moves) = q
      BY <1>1
    <3> QED BY <3>1 DEF MovedFrom
  <2>2. m[q] = IF c[From(q)].kind = "link"
               THEN [c[From(q)] EXCEPT !.target = MovedPath(@, moves)] ELSE c[From(q)]
    BY <1>1 DEF MovedTree, MovedFrom
  <2>3. c[From(q)].kind = "link" =>
          c[From(q)] = [kind |-> "link", target |-> c[From(q)].target]
    BY <2>1, EntryShape
  <2> HIDE DEF From, m
  <2> QED BY <2>1, <2>2, <2>3
<1> HIDE DEF m
<1>3. MovedTo(m, c, moves)
  BY <1>1, <1>2 DEF MovedTo
<1> USE DEF m
<1> QED BY <1>3

\* A moved catalogue has the content it had, and reads back moved.
LEMMA MovedReads ==
  ASSUME NEW c, IsTree(c), NEW moves, NEW table
  PROVE  /\ IsTree(MovedTree(c, moves))
         /\ ContentOf(MovedTree(c, moves)) \subseteq ContentOf(c)
         /\ Restoration(table, MovedTree(c, moves)) = MovedTree(Restoration(table, c), moves)
<1> DEFINE m == MovedTree(c, moves)
           From(q) == MovedFrom(q, DOMAIN c, moves)
           f == [ref \in ContentOf(c) |-> table[ref].identity]
           r == Restoration(table, c)
           rm == Restoration(table, m)
           mr == MovedTree(r, moves)
<1>1. /\ m = [q \in DOMAIN m |-> m[q]]
      /\ DOMAIN m = {MovedPath(p, moves) : p \in DOMAIN c}
      /\ \A q \in DOMAIN m :
           /\ From(q) \in DOMAIN c
           /\ c[From(q)].kind # "link" => m[q] = c[From(q)]
           /\ c[From(q)].kind = "link" =>
                m[q] = [kind |-> "link", target |-> MovedPath(c[From(q)].target, moves)]
  <2>1. MovedTo(m, c, moves)
    BY MovedEntries
  <2> HIDE DEF m
  <2> QED BY <2>1 DEF MovedTo
<1>2. /\ IsTree(r) /\ DOMAIN r = DOMAIN c
      /\ \A p \in DOMAIN c : r[p].kind = c[p].kind
      /\ \A p \in DOMAIN c \ Files(c) : r[p] = c[p]
  BY Mapping DEF Restoration
<1>3. \A q : From(q) = MovedFrom(q, DOMAIN r, moves)
  BY <1>2
<1>4. /\ mr = [q \in DOMAIN mr |-> mr[q]]
      /\ DOMAIN mr = {MovedPath(p, moves) : p \in DOMAIN c}
      /\ \A q \in DOMAIN mr :
           /\ From(q) \in DOMAIN c
           /\ r[From(q)].kind # "link" => mr[q] = r[From(q)]
           /\ r[From(q)].kind = "link" =>
                mr[q] = [kind |-> "link", target |-> MovedPath(r[From(q)].target, moves)]
  <2>1. MovedTo(mr, r, moves)
    BY <1>2, MovedEntries
  <2> HIDE DEF mr, r
  <2> QED BY <1>2, <2>1 DEF MovedTo
<1> HIDE DEF From, r, mr, m
<1>5. IsTree(m)
  <2> SUFFICES ASSUME NEW q \in DOMAIN m PROVE IsEntry(m[q])
    BY <1>1 DEF IsTree
  <2>1. CASE c[From(q)].kind = "link"
    <3>1. m[q] = [kind |-> "link", target |-> MovedPath(c[From(q)].target, moves)]
      BY <1>1, <2>1
    <3> QED BY <3>1 DEF IsEntry
  <2>2. CASE c[From(q)].kind # "link"
    BY <1>1, <2>2 DEF IsTree
  <2> QED BY <2>1, <2>2
<1>6. ContentOf(m) \subseteq ContentOf(c)
  <2> SUFFICES ASSUME NEW x \in ContentOf(m) PROVE x \in ContentOf(c)
    OBVIOUS
  <2>1. PICK q \in Files(m) : x \in Range(m[q].data)
    BY DEF ContentOf
  <2>2. q \in DOMAIN m /\ m[q].kind = "file"
    BY DEF Files
  <2>3. c[From(q)].kind # "link"
    <3>1. CASE c[From(q)].kind = "link"
      <4>1. m[q] = [kind |-> "link", target |-> MovedPath(c[From(q)].target, moves)]
        BY <1>1, <2>2, <3>1
      <4> QED BY <2>2, <4>1
    <3> QED BY <3>1
  <2>4. From(q) \in DOMAIN c /\ m[q] = c[From(q)]
    BY <1>1, <2>2, <2>3
  <2> QED BY <2>1, <2>2, <2>4 DEF ContentOf, Files
<1>7. DOMAIN rm = DOMAIN m /\ IsTree(rm)
  BY <1>5, Mapping DEF Restoration
<1>8. ASSUME NEW q \in DOMAIN m PROVE rm[q] = mr[q]
  <2>1. From(q) \in DOMAIN c /\ r[From(q)].kind = c[From(q)].kind
    BY <1>1, <1>2
  <2>2. q \in DOMAIN mr
    BY <1>1, <1>4
  <2>3. CASE c[From(q)].kind = "file"
    <3>1. m[q] = c[From(q)] /\ mr[q] = r[From(q)]
      BY <1>1, <1>4, <2>1, <2>2, <2>3
    <3>2. rm[q] = [kind |-> "file", data |-> Mapped(m[q].data,
                       [ref \in ContentOf(m) |-> table[ref].identity])]
      <4>1. q \in Files(m)
        BY <2>3, <3>1 DEF Files
      <4> DEFINE g == [ref \in ContentOf(m) |-> table[ref].identity]
      <4>2. rm = MapContent(m, g)
        BY DEF Restoration
      <4> HIDE DEF g, rm
      <4>3. rm[q] = [kind |-> "file", data |-> Mapped(m[q].data, g)]
        BY <1>5, <4>1, <4>2, Mapping
      <4> QED BY <4>3 DEF g
    <3>3. r[From(q)] = [kind |-> "file", data |-> Mapped(c[From(q)].data, f)]
      <4>1. From(q) \in Files(c)
        BY <2>1, <2>3 DEF Files
      <4>2. r = MapContent(c, f)
        BY DEF Restoration, r
      <4> HIDE DEF f
      <4> QED BY <4>1, <4>2, Mapping
    <3>4. \A k \in 1..Len(m[q].data) : m[q].data[k] \in ContentOf(m)
      BY <1>5, <2>3, <3>1, EntryShape
    <3>5. Mapped(m[q].data, [ref \in ContentOf(m) |-> table[ref].identity]) = Mapped(m[q].data, f)
      BY <1>6, <3>4 DEF Mapped
    <3> HIDE DEF rm, f
    <3> QED BY <3>1, <3>2, <3>3, <3>5
  <2>4. CASE c[From(q)].kind # "file"
    <3>1. r[From(q)] = c[From(q)]
      BY <1>2, <2>1, <2>4 DEF Files
    <3>2. mr[q] = m[q]
      <4>1. CASE c[From(q)].kind = "link"
        <5>1. m[q] = [kind |-> "link", target |-> MovedPath(c[From(q)].target, moves)]
          BY <1>1, <4>1
        <5>2. mr[q] = [kind |-> "link", target |-> MovedPath(r[From(q)].target, moves)]
          BY <1>4, <2>1, <2>2, <4>1
        <5> QED BY <3>1, <5>1, <5>2
      <4>2. CASE c[From(q)].kind # "link"
        <5>1. m[q] = c[From(q)]
          BY <1>1, <4>2
        <5>2. mr[q] = r[From(q)]
          BY <1>4, <2>1, <2>2, <4>2
        <5> QED BY <3>1, <5>1, <5>2
      <4> QED BY <4>1, <4>2
    <3>3. m[q].kind # "file"
      <4>1. CASE c[From(q)].kind = "link"
        <5>1. m[q] = [kind |-> "link", target |-> MovedPath(c[From(q)].target, moves)]
          BY <1>1, <4>1
        <5> QED BY <5>1
      <4>2. CASE c[From(q)].kind # "link"
        BY <1>1, <2>4, <4>2
      <4> QED BY <4>1, <4>2
    <3>4. rm[q] = m[q]
      BY <1>5, <3>3, Mapping DEF Restoration, Files
    <3> QED BY <3>2, <3>4
  <2> QED BY <2>3, <2>4
<1> HIDE DEF rm
<1>9. rm = mr
  BY <1>1, <1>4, <1>7, <1>8 DEF IsTree
<1> USE DEF rm, mr, r, m
<1> QED BY <1>5, <1>6, <1>9

----------------------------------------------------------------------------
(* The tables.                                                             *)

\* Every chunk is the only one of its block.
IsTable(table) ==
  /\ Len(table) \in Nat
  /\ table = [i \in 1..Len(table) |-> [identity |-> table[i].identity, block |-> i]]

\* The blocks behind a table, each sealed under its index.
BlocksOf(table) ==
  [i \in 1..Len(table) |-> [content |-> table[i].identity, sealed |-> Sealed(i)]]

\* Each block behind the table holds its chunk.
TablesMatch == IsTable(chunks) /\ blocks = BlocksOf(chunks)

\* A catalogue that refers to chunks of the table only.
CatalogueOK(c, table) ==
  IsTree(c) /\ WellFormed(c) /\ ContentOf(c) \subseteq 1..Len(table)

\* The catalogue in use, and those of the snapshots, do.
CataloguesOK ==
  /\ CatalogueOK(entries, chunks)
  /\ \A i \in 1..Len(snapshots) : CatalogueOK(snapshots[i].entries, chunks)

\* The types of what is not a table or a catalogue.
Flags ==
  /\ profile \in {"live", "snapshot"} /\ encrypted \in BOOLEAN
  /\ generation \in 0..MaxGeneration /\ locked \in BOOLEAN

\* A history of n snapshots.
IsHistory(h, n) ==
  /\ n \in Nat /\ Len(h) = n
  /\ h = [i \in 1..n |-> [name |-> h[i].name, entries |-> h[i].entries]]
  /\ \A i, j \in 1..n : h[i].name = h[j].name => i = j

\* The snapshots have names of their own; a live archive has none.
HistoryOK ==
  /\ IsHistory(snapshots, Len(snapshots))
  /\ profile = "snapshot" => Len(snapshots) > 0
  /\ profile = "live" => Len(snapshots) = 0

\* The inductive invariant: every chunk that a catalogue refers to is the only
\* one of a block that can be opened and holds it.
IInv == Flags /\ TablesMatch /\ CataloguesOK /\ HistoryOK

----------------------------------------------------------------------------
(* Capturing files.                                                        *)

\* Trees, and the catalogue without entries, can be captured.
LEMMA Capturable ==
  ASSUME NEW tree \in Trees \cup {NoEntries}
  PROVE  /\ IsTree(tree) /\ WellFormed(tree) /\ LinksResolve(tree)
         /\ IsFiniteSet(ContentOf(tree))
<1>1. CASE tree \in Trees
  BY <1>1, RepositoryAssumption
<1>2. CASE tree = NoEntries
  <2>1. DOMAIN tree = {} /\ tree = [p \in DOMAIN tree |-> tree[p]]
    BY <1>2 DEF NoEntries
  <2>2. Files(tree) = {} /\ Links(tree) = {}
    BY <2>1 DEF Files, Links
  <2>3. ContentOf(tree) = {}
    BY <2>2 DEF ContentOf
  <2>4. IsFiniteSet(ContentOf(tree))
    BY <2>3, FS_EmptySet
  <2> QED BY <2>1, <2>2, <2>4 DEF IsTree, WellFormed, LinksResolve
<1> QED BY <1>1, <1>2

\* Capturing adds to the tables what they do not know.
LEMMA Grown ==
  ASSUME TablesMatch, NEW tree, IsFiniteSet(ContentOf(tree))
  PROVE  LET table == ChunksWith(tree)
         IN  /\ IsTable(table) /\ Len(chunks) <= Len(table)
             /\ BlocksWith(tree) = BlocksOf(table)
             /\ \A i \in 1..Len(chunks) : table[i] = chunks[i]
             /\ \A id \in ContentOf(tree) : \E i \in 1..Len(table) : table[i].identity = id
<1> DEFINE S == ContentOf(tree) \ {chunks[i].identity : i \in DOMAIN chunks}
           new == SetToSeq(S)
           m == Cardinality(S)
           n == Len(chunks)
           added == [k \in DOMAIN new |-> [identity |-> new[k], block |-> Len(blocks) + k]]
           sealed == [k \in DOMAIN new |->
                        [content |-> new[k], sealed |-> Sealed(Len(blocks) + k)]]
           table == ChunksWith(tree)
<1>1. IsFiniteSet(S)
  <2>1. S \in SUBSET ContentOf(tree)
    OBVIOUS
  <2> HIDE DEF S
  <2> QED BY <2>1, FS_Subset
<1>2. /\ m \in Nat /\ new \in [1..m -> S]
      /\ \A x \in S : \E k \in 1..m : new[k] = x
  <2> HIDE DEF S
  <2> QED BY <1>1, Enumeration
<1>3. /\ n \in Nat /\ DOMAIN chunks = 1..n
      /\ chunks = [i \in 1..n |-> [identity |-> chunks[i].identity, block |-> i]]
      /\ blocks = [i \in 1..n |-> [content |-> chunks[i].identity, sealed |-> Sealed(i)]]
  BY DEF TablesMatch, IsTable, BlocksOf
<1>4. Len(blocks) = n
  BY <1>3, LenIs
<1>5. table = chunks \o added /\ BlocksWith(tree) = blocks \o sealed
  BY DEF ChunksWith, BlocksWith, NewChunks
<1> HIDE DEF S, new, n, m
<1>6. /\ added = [k \in 1..m |-> [identity |-> new[k], block |-> n + k]]
      /\ sealed = [k \in 1..m |-> [content |-> new[k], sealed |-> Sealed(n + k)]]
  BY <1>2, <1>4
<1> HIDE DEF added, sealed, table
<1>7. table = [i \in 1..(n + m) |-> IF i <= n THEN chunks[i] ELSE added[i - n]]
  <2>1. chunks = [i \in 1..n |-> chunks[i]] /\ added = [k \in 1..m |-> added[k]]
    BY <1>3, <1>6
  <2> QED BY <1>2, <1>3, <1>5, <2>1, Concatenation
<1>8. BlocksWith(tree) = [i \in 1..(n + m) |-> IF i <= n THEN blocks[i] ELSE sealed[i - n]]
  <2>1. blocks = [i \in 1..n |-> blocks[i]] /\ sealed = [k \in 1..m |-> sealed[k]]
    BY <1>3, <1>6
  <2> QED BY <1>2, <1>3, <1>5, <2>1, Concatenation
<1>9. Len(table) = n + m
  BY <1>2, <1>3, <1>7, LenIs
<1>10. \A i \in 1..n : table[i] = chunks[i]
  BY <1>2, <1>3, <1>7
<1>11. \A k \in 1..m : n + k \in 1..(n + m) /\ table[n + k] = [identity |-> new[k], block |-> n + k]
  BY <1>2, <1>3, <1>6, <1>7
<1>12. ASSUME NEW i \in 1..(n + m)
       PROVE  /\ table[i] = [identity |-> table[i].identity, block |-> i]
              /\ BlocksWith(tree)[i] = [content |-> table[i].identity, sealed |-> Sealed(i)]
  <2>1. CASE i <= n
    <3>1. i \in 1..n
      BY <1>3, <2>1
    <3>2. table[i] = chunks[i] /\ BlocksWith(tree)[i] = blocks[i]
      BY <1>8, <1>10, <3>1
    <3> QED BY <1>3, <3>1, <3>2
  <2>2. CASE ~(i <= n)
    <3>1. i - n \in 1..m /\ n + (i - n) = i
      BY <1>2, <1>3, <2>2
    <3>2. table[i] = [identity |-> new[i - n], block |-> i]
      BY <1>11, <3>1
    <3>3. BlocksWith(tree)[i] = sealed[i - n]
      BY <1>8, <2>2
    <3>4. sealed[i - n] = [content |-> new[i - n], sealed |-> Sealed(i)]
      BY <1>6, <3>1
    <3> QED BY <3>2, <3>3, <3>4
  <2> QED BY <2>1, <2>2
<1>13. IsTable(table) /\ BlocksWith(tree) = BlocksOf(table)
  <2>1. table = [i \in 1..(n + m) |-> [identity |-> table[i].identity, block |-> i]]
    BY <1>7, <1>12
  <2>2. BlocksWith(tree) = [i \in 1..(n + m) |->
                              [content |-> table[i].identity, sealed |-> Sealed(i)]]
    BY <1>8, <1>12
  <2> QED BY <1>2, <1>3, <1>9, <2>1, <2>2 DEF IsTable, BlocksOf
<1>14. ASSUME NEW id \in ContentOf(tree)
       PROVE  \E i \in 1..Len(table) : table[i].identity = id
  <2>1. CASE id \in S
    <3>1. PICK k \in 1..m : new[k] = id
      BY <1>2, <2>1
    <3>2. table[n + k] = [identity |-> new[k], block |-> n + k]
      BY <1>11
    <3>3. table[n + k].identity = id
      BY <3>1, <3>2
    <3> QED BY <1>9, <1>11, <3>3
  <2>2. CASE id \notin S
    <3>1. PICK i \in 1..n : chunks[i].identity = id
      BY <1>3, <2>2 DEF S
    <3>2. i \in 1..(n + m) /\ table[i] = chunks[i]
      BY <1>2, <1>3, <1>10
    <3> QED BY <1>9, <3>1, <3>2
  <2> QED BY <2>1, <2>2
<1>15. n <= n + m
  BY <1>2, <1>3
<1> USE DEF table, n
<1> QED BY <1>9, <1>10, <1>13, <1>14, <1>15

\* What is looked up in a table that has it reads back.
LEMMA LookedUp ==
  ASSUME NEW table, IsTable(table), NEW tree, IsTree(tree),
         \A id \in ContentOf(tree) : \E i \in 1..Len(table) : table[i].identity = id
  PROVE  LET c == MapContent(tree, [id \in ContentOf(tree) |-> Lookup(table, id)])
         IN  /\ ContentOf(c) \subseteq 1..Len(table)
             /\ Restoration(table, c) = tree
<1> DEFINE f == [id \in ContentOf(tree) |-> Lookup(table, id)]
           c == MapContent(tree, f)
           g == [ref \in ContentOf(c) |-> table[ref].identity]
           h == [id \in ContentOf(tree) |-> id]
<1>1. ASSUME NEW id \in ContentOf(tree)
      PROVE  f[id] \in 1..Len(table) /\ table[f[id]].identity = id
  <2> DEFINE S == {i \in DOMAIN table : table[i].identity = id}
  <2>1. Len(table) \in Nat /\ DOMAIN table = 1..Len(table)
    BY DEF IsTable
  <2>2. S \subseteq Nat /\ S # {}
    BY <2>1
  <2>3. Min(S) \in S
    <3> HIDE DEF S
    <3> QED BY <2>2, MinOfNumbers
  <2>4. f[id] = Min(S)
    BY DEF Lookup
  <2> QED BY <2>1, <2>3, <2>4
<1>2. ContentOf(c) = {f[x] : x \in ContentOf(tree)}
  <2> HIDE DEF f
  <2> QED BY MappedContent
<1>3. ContentOf(c) \subseteq 1..Len(table)
  <2> HIDE DEF f, c
  <2> QED BY <1>1, <1>2
<1>4. \A x \in ContentOf(tree) : g[f[x]] = h[x]
  <2> HIDE DEF f, c
  <2> QED BY <1>1, <1>2
<1>5. MapContent(c, g) = MapContent(tree, h)
  <2> HIDE DEF f, g, h
  <2> QED BY <1>4, MappingTwice
<1>6. MapContent(tree, h) = tree
  <2>1. \A x \in ContentOf(tree) : h[x] = x
    OBVIOUS
  <2> HIDE DEF h
  <2> QED BY <2>1, MappingNothing
<1>7. Restoration(table, c) = MapContent(c, g)
  BY DEF Restoration
<1> QED BY <1>3, <1>5, <1>6, <1>7

\* A captured tree can be a catalogue, and reads back.
LEMMA Capture ==
  ASSUME TablesMatch, NEW tree \in Trees \cup {NoEntries}
  PROVE  /\ CatalogueOK(Captured(tree), ChunksWith(tree))
         /\ LinksResolve(Captured(tree))
         /\ DOMAIN Captured(tree) = DOMAIN tree
         /\ Restoration(ChunksWith(tree), Captured(tree)) = tree
<1> DEFINE table == ChunksWith(tree)
           f == [id \in ContentOf(tree) |-> Lookup(table, id)]
           c == MapContent(tree, f)
<1>1. Captured(tree) = c
  BY DEF Captured
<1>2. /\ IsTree(tree) /\ WellFormed(tree) /\ LinksResolve(tree)
      /\ IsFiniteSet(ContentOf(tree))
  BY Capturable
<1>3. /\ IsTable(table)
      /\ \A id \in ContentOf(tree) : \E i \in 1..Len(table) : table[i].identity = id
  BY <1>2, Grown
<1>4. ContentOf(c) \subseteq 1..Len(table) /\ Restoration(table, c) = tree
  <2> HIDE DEF table
  <2> QED BY <1>2, <1>3, LookedUp
<1>5. IsTree(c) /\ DOMAIN c = DOMAIN tree
  <2> HIDE DEF f
  <2> QED BY <1>2, Mapping
<1>6. WellFormed(c) = WellFormed(tree) /\ LinksResolve(c) = LinksResolve(tree)
  <2> HIDE DEF f
  <2> QED BY <1>2, MappedShape
<1> QED BY <1>1, <1>2, <1>4, <1>5, <1>6 DEF CatalogueOK

\* A catalogue reads back the same when the table grows.
LEMMA GrownReads ==
  ASSUME NEW t, NEW u, NEW c, IsTree(c), ContentOf(c) \subseteq 1..Len(t),
         \A i \in 1..Len(t) : u[i] = t[i]
  PROVE  Restoration(u, c) = Restoration(t, c)
<1> DEFINE f == [ref \in ContentOf(c) |-> u[ref].identity]
           g == [ref \in ContentOf(c) |-> t[ref].identity]
<1>1. \A x \in ContentOf(c) : f[x] = g[x]
  OBVIOUS
<1> HIDE DEF f, g
<1>2. MapContent(c, f) = MapContent(c, g)
  BY <1>1, MappingSame
<1> USE DEF f, g
<1> QED BY <1>2 DEF Restoration

----------------------------------------------------------------------------
(* Histories.                                                              *)

\* A history takes one more snapshot.
LEMMA HistoryAppended ==
  ASSUME NEW n, NEW h, IsHistory(h, n), NEW name, NEW c, \A i \in 1..n : h[i].name # name
  PROVE  LET g == Append(h, [name |-> name, entries |-> c])
         IN  /\ IsHistory(g, n + 1)
             /\ g[n + 1] = [name |-> name, entries |-> c]
             /\ \A i \in 1..n : g[i] = h[i]
<1> DEFINE s == [name |-> name, entries |-> c]
           g == Append(h, s)
<1>1. n \in Nat /\ h = [i \in 1..n |-> h[i]]
  BY DEF IsHistory
<1>2. g = [i \in 1..(n + 1) |-> IF i <= n THEN h[i] ELSE s]
  <2> HIDE DEF s
  <2> QED BY <1>1, Appended
<1> HIDE DEF g
<1>3. Len(g) = n + 1
  BY <1>1, <1>2, LenIs
<1>4. g[n + 1] = s /\ \A i \in 1..n : g[i] = h[i]
  <2> HIDE DEF s
  <2> QED BY <1>1, <1>2
<1>5. \A i \in 1..(n + 1) : i \in 1..n \/ i = n + 1
  BY <1>1
<1>6. ASSUME NEW i \in 1..(n + 1) PROVE g[i] = [name |-> g[i].name, entries |-> g[i].entries]
  <2>1. CASE i = n + 1
    BY <1>4, <2>1
  <2>2. CASE i \in 1..n
    <3>1. h[i] = [name |-> h[i].name, entries |-> h[i].entries]
      BY <2>2 DEF IsHistory
    <3> QED BY <1>4, <2>2, <3>1
  <2> QED BY <1>5, <2>1, <2>2
<1>7. g = [i \in 1..(n + 1) |-> [name |-> g[i].name, entries |-> g[i].entries]]
  <2>1. g = [i \in 1..(n + 1) |-> g[i]]
    BY <1>2
  <2> QED BY <1>6, <2>1
<1>8. g[n + 1].name = name /\ \A i \in 1..n : g[i].name = h[i].name
  BY <1>4
<1>9. \A i, j \in 1..(n + 1) : g[i].name = g[j].name => i = j
  <2> SUFFICES ASSUME NEW i \in 1..(n + 1), NEW j \in 1..(n + 1), g[i].name = g[j].name
               PROVE  i = j
    OBVIOUS
  <2>1. CASE i \in 1..n /\ j \in 1..n
    BY <1>8, <2>1 DEF IsHistory
  <2>2. CASE i = n + 1 /\ j \in 1..n
    BY <1>8, <2>2
  <2>3. CASE i \in 1..n /\ j = n + 1
    BY <1>8, <2>3
  <2> QED BY <1>5, <2>1, <2>2, <2>3
<1>10. IsHistory(g, n + 1)
  BY <1>1, <1>3, <1>7, <1>9 DEF IsHistory
<1> USE DEF g
<1> QED BY <1>4, <1>10

\* A history loses snapshots, but not its newest.
LEMMA HistoryPruned ==
  ASSUME NEW n, NEW h, IsHistory(h, n), n > 0, NEW names, h[n].name \notin names
  PROVE  LET g == Without(h, names)
             kept == {i \in 1..n : h[i].name \notin names}
         IN  /\ IsHistory(g, Cardinality(kept)) /\ Cardinality(kept) > 0
             /\ \A k \in 1..Cardinality(kept) : /\ KeptAt(k, kept) \in 1..n
                                                /\ g[k] = h[KeptAt(k, kept)]
<1> DEFINE kept == {i \in 1..n : h[i].name \notin names}
           g == Without(h, names)
           m == Cardinality(kept)
<1>1. n \in Nat /\ DOMAIN h = 1..n
  BY DEF IsHistory
<1>2. g = Compacted(h, kept)
  BY <1>1 DEF Without
<1>3. kept \subseteq 1..n /\ n \in kept
  BY <1>1
<1> HIDE DEF g, kept
<1>4. /\ m \in Nat /\ g = [k \in 1..m |-> g[k]] /\ Len(g) = m
      /\ \A k \in 1..m : KeptAt(k, kept) \in kept /\ g[k] = h[KeptAt(k, kept)]
      /\ \A i \in kept : Renumbered(i, kept) \in 1..m
      /\ \A k, l \in 1..m : KeptAt(k, kept) = KeptAt(l, kept) => k = l
  BY <1>1, <1>2, <1>3, Compaction
<1>5. m > 0
  <2>1. Renumbered(n, kept) \in 1..m
    BY <1>3, <1>4
  <2> QED BY <1>4, <2>1
<1>6. \A k \in 1..m : KeptAt(k, kept) \in 1..n
  BY <1>3, <1>4
<1>7. ASSUME NEW k \in 1..m PROVE g[k] = [name |-> g[k].name, entries |-> g[k].entries]
  <2>1. KeptAt(k, kept) \in 1..n /\ g[k] = h[KeptAt(k, kept)]
    BY <1>4, <1>6
  <2> QED BY <2>1 DEF IsHistory
<1>8. \A k, l \in 1..m : g[k].name = g[l].name => k = l
  <2> SUFFICES ASSUME NEW k \in 1..m, NEW l \in 1..m, g[k].name = g[l].name PROVE k = l
    OBVIOUS
  <2>1. KeptAt(k, kept) \in 1..n /\ KeptAt(l, kept) \in 1..n
    BY <1>6
  <2>2. h[KeptAt(k, kept)].name = h[KeptAt(l, kept)].name
    BY <1>4
  <2>3. KeptAt(k, kept) = KeptAt(l, kept)
    BY <2>1, <2>2 DEF IsHistory
  <2> QED BY <1>4, <2>3
<1>9. IsHistory(g, m)
  <2>1. g = [k \in 1..m |-> [name |-> g[k].name, entries |-> g[k].entries]]
    BY <1>4, <1>7
  <2> QED BY <1>4, <1>8, <2>1 DEF IsHistory
<1> USE DEF g, kept
<1> QED BY <1>4, <1>5, <1>6, <1>9

----------------------------------------------------------------------------
(* Every operation keeps the invariant.                                    *)

\* A catalogue stays one when the tables grow.
LEMMA GrownTables ==
  ASSUME TablesMatch, NEW tree, IsFiniteSet(ContentOf(tree)),
         chunks' = ChunksWith(tree), blocks' = BlocksWith(tree), UNCHANGED encrypted
  PROVE  /\ TablesMatch'
         /\ Len(chunks) <= Len(chunks')
         /\ \A i \in 1..Len(chunks) : chunks'[i] = chunks[i]
         /\ \A c : CatalogueOK(c, chunks) => CatalogueOK(c, chunks')
<1>1. /\ IsTable(chunks') /\ Len(chunks) <= Len(chunks')
      /\ blocks' = BlocksOf(chunks')
      /\ \A i \in 1..Len(chunks) : chunks'[i] = chunks[i]
  BY Grown
<1>2. TablesMatch'
  BY <1>1 DEF TablesMatch, BlocksOf, Sealed
<1>3. 1..Len(chunks) \subseteq 1..Len(chunks')
  BY <1>1 DEF TablesMatch, IsTable
<1>4. \A c : CatalogueOK(c, chunks) => CatalogueOK(c, chunks')
  BY <1>3 DEF CatalogueOK
<1> QED BY <1>1, <1>2, <1>4

\* The initial states satisfy it.
LEMMA InitInv == Init => IInv
<1> SUFFICES ASSUME Init PROVE IInv
  OBVIOUS
<1>1. PICK tree \in Trees : Created(tree)
  BY DEF Init
<1> DEFINE S == ContentOf(tree)
           order == SetToSeq(S)
           n == Cardinality(S)
<1>2. /\ IsTree(tree) /\ WellFormed(tree) /\ LinksResolve(tree)
      /\ IsFiniteSet(S)
  BY Capturable
<1>3. /\ n \in Nat /\ order \in [1..n -> S]
      /\ \A x \in S : \E k \in 1..n : order[k] = x
  <2> HIDE DEF S
  <2> QED BY <1>2, Enumeration
<1>4. /\ blocks = [k \in 1..n |-> [content |-> order[k], sealed |-> Sealed(k)]]
      /\ chunks = [k \in 1..n |-> [identity |-> order[k], block |-> k]]
      /\ entries = MapContent(tree, [id \in S |-> Lookup(chunks, id)])
  BY <1>1, <1>3 DEF Created
<1> HIDE DEF order, n
<1>5. Len(chunks) = n
  BY <1>3, <1>4, LenIs
<1>6. \A k \in 1..n : chunks[k].identity = order[k]
  BY <1>4
<1>7. TablesMatch
  <2>1. chunks = [i \in 1..n |-> [identity |-> chunks[i].identity, block |-> i]]
    BY <1>4, <1>6
  <2>2. blocks = [i \in 1..n |-> [content |-> chunks[i].identity, sealed |-> Sealed(i)]]
    BY <1>4, <1>6
  <2> QED BY <1>3, <1>5, <2>1, <2>2 DEF TablesMatch, IsTable, BlocksOf
<1>8. \A id \in S : \E i \in 1..Len(chunks) : chunks[i].identity = id
  BY <1>3, <1>5, <1>6
<1>9. ContentOf(entries) \subseteq 1..Len(chunks)
  <2>1. IsTable(chunks)
    BY <1>7 DEF TablesMatch
  <2>2. ContentOf(MapContent(tree, [id \in ContentOf(tree) |-> Lookup(chunks, id)]))
          \subseteq 1..Len(chunks)
    BY <1>2, <1>8, <2>1, LookedUp
  <2> QED BY <1>4, <2>2
<1>10. CatalogueOK(entries, chunks)
  BY <1>2, <1>4, <1>9, Mapping, MappedShape DEF CatalogueOK
<1>11. Flags
  <2>1. MaxGeneration \in Nat
    BY RepositoryAssumption
  <2>2. /\ profile \in {"live", "snapshot"} /\ encrypted \in BOOLEAN
        /\ generation = 0 /\ locked = FALSE
    BY DEF Init
  <2>3. generation \in 0..MaxGeneration
    BY <2>1, <2>2
  <2>4. locked \in BOOLEAN
    BY <2>2
  <2> QED BY <2>2, <2>3, <2>4 DEF Flags
<1>12. CASE profile = "live"
  <2>1. snapshots = <<>>
    BY <1>12 DEF Init
  <2>2. HistoryOK /\ CataloguesOK
    BY <1>10, <1>12, <2>1 DEF HistoryOK, IsHistory, CataloguesOK
  <2> QED BY <1>7, <1>11, <2>2 DEF IInv
<1>13. CASE profile = "snapshot"
  <2>1. PICK name \in Names : snapshots = <<[name |-> name, entries |-> entries]>>
    BY <1>13 DEF Init
  <2>2. Len(snapshots) = 1 /\ snapshots[1] = [name |-> name, entries |-> entries]
    BY <2>1
  <2>3. snapshots = [i \in 1..1 |-> [name |-> snapshots[i].name, entries |-> snapshots[i].entries]]
    BY <2>1
  <2>4. \A i \in 1..1 : i = 1
    OBVIOUS
  <2>5. HistoryOK
    BY <1>13, <2>2, <2>3, <2>4 DEF HistoryOK, IsHistory
  <2>6. CataloguesOK
    BY <1>10, <2>2, <2>4 DEF CataloguesOK
  <2> QED BY <1>7, <1>11, <2>5, <2>6 DEF IInv
<1> QED BY <1>11, <1>12, <1>13 DEF Flags

\* k is what is left of c.
IsKept(k, c, kept, targets) ==
  /\ IsTree(k) /\ ContentOf(k) \subseteq ContentOf(c)
  /\ WellFormed(c) => WellFormed(k)
  /\ DOMAIN k = {p \in kept : p \in Links(c) => c[p].target \in targets}
  /\ \A p \in DOMAIN k : p \in DOMAIN c /\ k[p] = c[p]

\* What Keeping leaves of a catalogue.
LEMMA Kept ==
  ASSUME NEW c, IsTree(c), NEW kept, kept \subseteq DOMAIN c, NEW targets
  PROVE  IsKept(Keeping(c, kept, targets), c, kept, targets)
<1> DEFINE S == {p \in kept : p \in Links(c) => c[p].target \in targets}
<1>1. S \subseteq DOMAIN c /\ Keeping(c, kept, targets) = Restrict(c, S)
  BY DEF Keeping
<1> HIDE DEF S
<1>2. /\ DOMAIN Restrict(c, S) = S
      /\ \A p \in S : Restrict(c, S)[p] = c[p]
      /\ IsTree(Restrict(c, S)) /\ ContentOf(Restrict(c, S)) \subseteq ContentOf(c)
      /\ WellFormed(c) => WellFormed(Restrict(c, S))
  BY <1>1, Restricted
<1> USE DEF S
<1> QED BY <1>1, <1>2 DEF IsKept

\* Putting captured files over a catalogue.
LEMMA Added ==
  ASSUME TablesMatch, NEW items \in Trees, NEW c, CatalogueOK(c, chunks),
         WellFormed(Over(Captured(items), c))
  PROVE  CatalogueOK(Over(Captured(items), c), ChunksWith(items))
<1>1. CatalogueOK(Captured(items), ChunksWith(items))
  BY Capture
<1>2. Len(chunks) \in Nat /\ Len(ChunksWith(items)) \in Nat /\ Len(chunks) <= Len(ChunksWith(items))
  BY Capturable, Grown DEF TablesMatch, IsTable
<1>3. 1..Len(chunks) \subseteq 1..Len(ChunksWith(items))
  BY <1>2
<1>4. IsTree(Captured(items)) /\ IsTree(c)
  BY <1>1 DEF CatalogueOK
<1>5. /\ IsTree(Over(Captured(items), c))
      /\ ContentOf(Over(Captured(items), c)) \subseteq ContentOf(Captured(items)) \cup ContentOf(c)
  BY <1>4, OneOverAnother
<1> QED BY <1>1, <1>3, <1>5 DEF CatalogueOK

\* Removals: nothing is put over what is kept.
LEMMA NothingOver ==
  ASSUME TablesMatch, NEW c, IsTree(c)
  PROVE  Over(Captured(NoEntries), c) = c
<1>1. IsTree(Captured(NoEntries)) /\ DOMAIN Captured(NoEntries) = DOMAIN NoEntries
  BY Capture DEF CatalogueOK
<1>2. DOMAIN Captured(NoEntries) = {}
  BY <1>1 DEF NoEntries
<1> DEFINE n == Captured(NoEntries)
           e == Over(n, c)
<1>3. /\ IsTree(e) /\ DOMAIN e = DOMAIN n \cup DOMAIN c
      /\ \A p \in DOMAIN c \ DOMAIN n : e[p] = c[p]
  <2>1. IsTree(n)
    BY <1>1
  <2> HIDE DEF n
  <2> QED BY <2>1, OneOverAnother
<1> HIDE DEF e
<1>4. IsTree(e) /\ DOMAIN e = DOMAIN c /\ \A p \in DOMAIN c : e[p] = c[p]
  BY <1>2, <1>3
<1>5. e = c
  BY <1>4 DEF IsTree
<1> USE DEF e
<1> QED BY <1>5

\* The history of a state and that of the next are the same and refer to the
\* same chunks.
LEMMA SameHistory ==
  ASSUME IInv, UNCHANGED <<profile, encrypted, snapshots>>, TablesMatch', Flags',
         \A c : CatalogueOK(c, chunks) => CatalogueOK(c, chunks'),
         CatalogueOK(entries', chunks')
  PROVE  IInv'
<1>1. HistoryOK'
  BY DEF IInv, HistoryOK
<1>2. CataloguesOK'
  BY DEF IInv, CataloguesOK
<1> QED BY <1>1, <1>2 DEF IInv

\* A step that leaves the tables alone.
LEMMA SameTables ==
  ASSUME IInv, UNCHANGED <<profile, encrypted, blocks, chunks, snapshots>>, Flags',
         CatalogueOK(entries', chunks)
  PROVE  IInv'
<1>1. TablesMatch'
  BY DEF IInv, TablesMatch, BlocksOf, Sealed
<1> QED BY <1>1, SameHistory

\* Flags of the next state.
LEMMA NextFlags ==
  ASSUME IInv, UNCHANGED <<profile, encrypted>>, locked' \in BOOLEAN,
         \/ generation' = 0
         \/ generation < MaxGeneration /\ generation' = generation + 1
  PROVE  Flags'
<1>1. MaxGeneration \in Nat
  BY RepositoryAssumption
<1>2. generation' \in 0..MaxGeneration
  BY <1>1 DEF IInv, Flags
<1> QED BY <1>2 DEF IInv, Flags

\* AddSnapshot keeps the invariant.
LEMMA AddSnapshotInv ==
  ASSUME IInv, NEW name \in Names, NEW tree \in Trees, AddSnapshot(name, tree)
  PROVE  IInv'
<1> DEFINE n == Len(snapshots)
           c == Captured(tree)
<1>1. /\ TablesMatch' /\ CatalogueOK(c, chunks')
      /\ \A d : CatalogueOK(d, chunks) => CatalogueOK(d, chunks')
  BY Capturable, Capture, GrownTables DEF AddSnapshot, IInv
<1>2. Flags'
  <2>1. locked \in BOOLEAN
    BY DEF IInv, Flags
  <2> QED BY <2>1, NextFlags DEF AddSnapshot
<1>3. \A i \in 1..n : snapshots[i].name # name
  BY DEF AddSnapshot, SnapshotNames, IInv, HistoryOK, IsHistory
<1>4. IsHistory(snapshots, n) /\ n \in Nat /\ profile = "snapshot"
  BY DEF IInv, HistoryOK, IsHistory, AddSnapshot
<1>5. /\ IsHistory(snapshots', n + 1)
      /\ snapshots'[n + 1] = [name |-> name, entries |-> c]
      /\ \A i \in 1..n : snapshots'[i] = snapshots[i]
  <2>1. snapshots' = Append(snapshots, [name |-> name, entries |-> c])
    BY DEF AddSnapshot
  <2> HIDE DEF n, c
  <2> QED BY <1>3, <1>4, <2>1, HistoryAppended
<1>6. Len(snapshots') = n + 1
  BY <1>5 DEF IsHistory
<1>7. HistoryOK'
  BY <1>4, <1>5, <1>6 DEF HistoryOK, AddSnapshot
<1>8. ASSUME NEW i \in 1..(n + 1) PROVE CatalogueOK(snapshots'[i].entries, chunks')
  <2>1. CASE i = n + 1
    BY <1>1, <1>5, <2>1
  <2>2. CASE i # n + 1
    <3>1. i \in 1..n
      BY <1>4, <2>2
    <3>2. CatalogueOK(snapshots[i].entries, chunks)
      BY <3>1 DEF IInv, CataloguesOK
    <3> QED BY <1>1, <1>5, <3>1, <3>2
  <2> QED BY <2>1, <2>2
<1>9. CataloguesOK'
  BY <1>1, <1>6, <1>8 DEF CataloguesOK, AddSnapshot
<1> QED BY <1>1, <1>2, <1>7, <1>9 DEF IInv

\* Prune keeps the invariant.
LEMMA PruneInv ==
  ASSUME IInv, NEW names, Prune(names)
  PROVE  IInv'
<1> DEFINE n == Len(snapshots)
           kept == {i \in 1..n : snapshots[i].name \notin names}
           m == Cardinality(kept)
<1>1. IsHistory(snapshots, n) /\ n > 0 /\ snapshots[n].name \notin names /\ profile = "snapshot"
  BY DEF IInv, HistoryOK, Prune, Last
<1>2. /\ IsHistory(snapshots', m) /\ m > 0
      /\ \A k \in 1..m : KeptAt(k, kept) \in 1..n /\ snapshots'[k] = snapshots[KeptAt(k, kept)]
  <2>1. snapshots' = Without(snapshots, names)
    BY DEF Prune
  <2> QED BY <1>1, <2>1, HistoryPruned
<1>3. Len(snapshots') = m
  BY <1>2 DEF IsHistory
<1> HIDE DEF kept
<1>4. HistoryOK'
  BY <1>1, <1>2, <1>3 DEF HistoryOK, Prune
<1>5. Flags'
  <2>1. locked \in BOOLEAN
    BY DEF IInv, Flags
  <2> QED BY <2>1, NextFlags DEF Prune
<1>6. TablesMatch'
  BY DEF IInv, TablesMatch, BlocksOf, Sealed, Prune
<1>7. \A k \in 1..m : CatalogueOK(snapshots'[k].entries, chunks)
  BY <1>2 DEF IInv, CataloguesOK
<1>8. CataloguesOK'
  BY <1>3, <1>7 DEF CataloguesOK, IInv, Prune
<1> QED BY <1>4, <1>5, <1>6, <1>8 DEF IInv

\* Add keeps the invariant.
LEMMA AddInv ==
  ASSUME IInv, NEW items \in Trees, Add(items)
  PROVE  IInv'
<1>1. /\ TablesMatch'
      /\ \A d : CatalogueOK(d, chunks) => CatalogueOK(d, chunks')
  BY Capturable, GrownTables DEF Add, IInv
<1>2. Flags'
  <2>1. locked \in BOOLEAN
    BY DEF IInv, Flags
  <2> QED BY <2>1, NextFlags DEF Add
<1>3. CatalogueOK(entries', chunks')
  BY Added DEF Add, IInv, CataloguesOK
<1> QED BY <1>1, <1>2, <1>3, SameHistory DEF Add

\* What a finalization leaves of locked.
LEMMA Finalized ==
  ASSUME IInv, NEW sign \in BOOLEAN, NEW lock \in BOOLEAN, Finalize(sign, lock)
  PROVE  locked' \in BOOLEAN
  BY DEF Finalize, IInv, Flags

\* Sync keeps the invariant.
LEMMA SyncInv ==
  ASSUME IInv, NEW items \in Trees, NEW kept \in SUBSET DOMAIN entries, Sync(items, kept)
  PROVE  IInv'
<1> DEFINE k == Keeping(entries, kept, kept \cup DOMAIN items)
<1>1. /\ TablesMatch'
      /\ \A d : CatalogueOK(d, chunks) => CatalogueOK(d, chunks')
  BY Capturable, GrownTables DEF Sync, IInv
<1>2. Flags'
  <2>1. locked' \in BOOLEAN
    BY Finalized DEF Sync
  <2> QED BY <2>1, NextFlags DEF Sync
<1>3. CatalogueOK(k, chunks)
  <2>1. CatalogueOK(entries, chunks)
    BY DEF IInv, CataloguesOK
  <2> QED BY <2>1, Kept DEF CatalogueOK, IsKept
<1>4. CatalogueOK(entries', chunks')
  <2>1. /\ entries' = Over(Captured(items), k) /\ WellFormed(entries')
        /\ chunks' = ChunksWith(items)
    BY DEF Sync, Synced
  <2> HIDE DEF k
  <2> QED BY <1>3, <2>1, Added DEF IInv
<1> QED BY <1>1, <1>2, <1>4, SameHistory DEF Sync

\* SyncRemovals keeps the invariant.
LEMMA SyncRemovalsInv ==
  ASSUME IInv, NEW kept \in SUBSET DOMAIN entries, SyncRemovals(kept)
  PROVE  IInv' /\ entries' = Keeping(entries, kept, kept)
<1> DEFINE k == Keeping(entries, kept, kept)
<1>1. Flags'
  <2>1. locked' \in BOOLEAN
    BY Finalized DEF SyncRemovals
  <2> QED BY <2>1, NextFlags DEF SyncRemovals, MetadataGeneration
<1>2. CatalogueOK(k, chunks)
  <2>1. CatalogueOK(entries, chunks)
    BY DEF IInv, CataloguesOK
  <2> QED BY <2>1, Kept DEF CatalogueOK, IsKept
<1>3. entries' = k
  <2>1. kept \cup DOMAIN NoEntries = kept
    BY DEF NoEntries
  <2>2. entries' = Over(Captured(NoEntries), k)
    BY <2>1 DEF SyncRemovals, Synced
  <2>3. IsTree(k) /\ TablesMatch
    BY <1>2 DEF CatalogueOK, IInv
  <2> HIDE DEF k
  <2> QED BY <2>2, <2>3, NothingOver
<1> QED BY <1>1, <1>2, <1>3, SameTables DEF SyncRemovals

\* SetMetadata keeps the invariant.
LEMMA SetMetadataInv ==
  ASSUME IInv, NEW sign \in BOOLEAN, NEW lock \in BOOLEAN, SetMetadata(sign, lock)
  PROVE  IInv'
<1>1. Flags'
  <2>1. locked' \in BOOLEAN
    BY Finalized DEF SetMetadata
  <2> QED BY <2>1, NextFlags DEF SetMetadata, MetadataGeneration
<1>2. CatalogueOK(entries', chunks)
  BY DEF IInv, CataloguesOK, SetMetadata
<1> QED BY <1>1, <1>2, SameTables DEF SetMetadata

\* Delete keeps the invariant.
LEMMA DeleteInv ==
  ASSUME IInv, NEW targets, Delete(targets)
  PROVE  IInv'
<1>1. Flags'
  <2>1. locked \in BOOLEAN
    BY DEF IInv, Flags
  <2> QED BY <2>1, NextFlags DEF Delete
<1>2. CatalogueOK(entries', chunks)
  <2>1. CatalogueOK(entries, chunks)
    BY DEF IInv, CataloguesOK
  <2>2. KeptByDelete(targets) \subseteq DOMAIN entries
    BY DEF KeptByDelete
  <2> QED BY <2>1, <2>2, Kept DEF CatalogueOK, Delete, IsKept
<1> QED BY <1>1, <1>2, SameTables DEF Delete

\* Move keeps the invariant.
LEMMA MoveInv ==
  ASSUME IInv, NEW moves, Move(moves)
  PROVE  IInv'
<1>1. Flags'
  <2>1. locked \in BOOLEAN
    BY DEF IInv, Flags
  <2> QED BY <2>1, NextFlags DEF Move
<1>2. CatalogueOK(entries', chunks)
  <2>1. CatalogueOK(entries, chunks)
    BY DEF IInv, CataloguesOK
  <2>2. /\ IsTree(MovedTree(entries, moves))
        /\ ContentOf(MovedTree(entries, moves)) \subseteq ContentOf(entries)
    BY <2>1, MovedReads DEF CatalogueOK
  <2> QED BY <2>1, <2>2 DEF CatalogueOK, Move
<1> QED BY <1>1, <1>2, SameTables DEF Move

\* What a catalogue refers to.
LEMMA Referenced ==
  ASSUME IInv
  PROVE  /\ References \subseteq 1..Len(chunks) /\ Len(chunks) \in Nat
         /\ LiveBlocks = References /\ LiveChunks = References
         /\ ContentOf(entries) \subseteq References
         /\ \A i \in 1..Len(snapshots) : ContentOf(snapshots[i].entries) \subseteq References
<1>1. Len(chunks) \in Nat /\ DOMAIN chunks = 1..Len(chunks)
  BY DEF IInv, TablesMatch, IsTable
<1>2. \A i \in 1..Len(chunks) : chunks[i].block = i
  BY DEF IInv, TablesMatch, IsTable
<1>3. DOMAIN snapshots = 1..Len(snapshots)
  BY DEF IInv, HistoryOK, IsHistory
<1>4. \A c \in Catalogues : ContentOf(c) \subseteq 1..Len(chunks)
  BY <1>3 DEF Catalogues, IInv, CataloguesOK, CatalogueOK
<1>5. References \subseteq 1..Len(chunks)
  BY <1>4 DEF References
<1>6. LiveBlocks = References
  <2>1. \A r \in References : chunks[r].block = r
    BY <1>2, <1>5
  <2> QED BY <2>1 DEF LiveBlocks
<1>7. LiveChunks = References
  BY <1>1, <1>2, <1>5, <1>6 DEF LiveChunks
<1>8. /\ ContentOf(entries) \subseteq References
      /\ \A i \in 1..Len(snapshots) : ContentOf(snapshots[i].entries) \subseteq References
  BY <1>3 DEF References, Catalogues
<1> QED BY <1>1, <1>5, <1>6, <1>7, <1>8

\* The tables a repack leaves.
LEMMA RepackTables ==
  ASSUME IInv, Repack
  PROVE  LET K == References
             m == Cardinality(K)
         IN  /\ TablesMatch' /\ Len(chunks') = m
             /\ \A k \in 1..m : /\ KeptAt(k, K) \in K
                                /\ chunks'[k].identity = chunks[KeptAt(k, K)].identity
             /\ \A i \in K : /\ Renumbered(i, K) \in 1..m
                             /\ chunks'[Renumbered(i, K)].identity = chunks[i].identity
<1> DEFINE K == References
           m == Cardinality(K)
           n == Len(chunks)
           rc == [i \in DOMAIN chunks |-> RepackedChunk(i)]
           rb == [b \in DOMAIN blocks |-> RepackedBlock(b)]
<1>1. n \in Nat /\ K \subseteq 1..n /\ LiveBlocks = K /\ LiveChunks = K
  BY Referenced
<1>2. /\ DOMAIN chunks = 1..n /\ DOMAIN blocks = 1..n
      /\ \A i \in 1..n : /\ chunks[i] = [identity |-> chunks[i].identity, block |-> i]
                         /\ blocks[i] = [content |-> chunks[i].identity, sealed |-> Sealed(i)]
  BY DEF IInv, TablesMatch, IsTable, BlocksOf
<1>3. chunks' = Compacted(rc, K) /\ blocks' = Compacted(rb, K) /\ UNCHANGED encrypted
  BY <1>1 DEF Repack
<1> HIDE DEF n
<1>4. ASSUME NEW i \in K
      PROVE  /\ rc[i] = [identity |-> chunks[i].identity, block |-> Renumbered(i, K)]
             /\ rb[i] = [content |-> chunks[i].identity, sealed |-> Sealed(Renumbered(i, K))]
  <2>1. i \in 1..n
    BY <1>1
  <2>2. /\ chunks[i] = [identity |-> chunks[i].identity, block |-> i]
        /\ blocks[i] = [content |-> chunks[i].identity, sealed |-> Sealed(i)]
    BY <1>2, <2>1
  <2>3. rc[i] = [chunks[i] EXCEPT !.block = Renumbered(chunks[i].block, K)]
    BY <1>1, <1>2, <2>1 DEF RepackedChunk
  <2>4. rb[i] = [blocks[i] EXCEPT !.sealed = Sealed(Renumbered(i, K))]
    BY <1>1, <1>2, <2>1 DEF RepackedBlock
  <2> HIDE DEF rc, rb, K
  <2>5. chunks[i].block = i
    BY <2>2
  <2>6. rc[i] = [chunks[i] EXCEPT !.block = Renumbered(i, K)]
    BY <2>3, <2>5
  <2> QED BY <2>2, <2>4, <2>6
<1>5. DOMAIN rc = 1..n /\ DOMAIN rb = 1..n
  BY <1>2
<1> HIDE DEF rc, rb, K
<1>6. /\ m \in Nat /\ chunks' = [k \in 1..m |-> chunks'[k]] /\ Len(chunks') = m
      /\ \A k \in 1..m : KeptAt(k, K) \in K /\ chunks'[k] = rc[KeptAt(k, K)]
      /\ \A i \in K : Renumbered(i, K) \in 1..m /\ chunks'[Renumbered(i, K)] = rc[i]
  BY <1>1, <1>3, <1>5, Compaction
<1>7. /\ blocks' = [k \in 1..m |-> blocks'[k]]
      /\ \A k \in 1..m : blocks'[k] = rb[KeptAt(k, K)]
  BY <1>1, <1>3, <1>5, Compaction
<1>8. \A k \in 1..m : Renumbered(KeptAt(k, K), K) = k
  BY <1>1, Renumbering
<1> HIDE DEF m
<1>9. ASSUME NEW k \in 1..m
      PROVE  /\ chunks'[k] = [identity |-> chunks'[k].identity, block |-> k]
             /\ blocks'[k] = [content |-> chunks'[k].identity, sealed |-> Sealed(k)]
             /\ chunks'[k].identity = chunks[KeptAt(k, K)].identity
  <2> DEFINE i == KeptAt(k, K)
  <2>1. i \in K /\ Renumbered(i, K) = k
    BY <1>6, <1>8
  <2> HIDE DEF i
  <2>2. /\ rc[i] = [identity |-> chunks[i].identity, block |-> k]
        /\ rb[i] = [content |-> chunks[i].identity, sealed |-> Sealed(k)]
    BY <1>4, <2>1
  <2>3. chunks'[k] = rc[i] /\ blocks'[k] = rb[i]
    BY <1>6, <1>7 DEF i
  <2>4. chunks'[k].identity = chunks[i].identity
    BY <2>2, <2>3
  <2>5. /\ chunks'[k] = [identity |-> chunks'[k].identity, block |-> k]
        /\ blocks'[k] = [content |-> chunks'[k].identity, sealed |-> Sealed(k)]
    BY <2>2, <2>3, <2>4
  <2> QED BY <2>4, <2>5 DEF i
<1>10. TablesMatch'
  <2>1. chunks' = [k \in 1..m |-> [identity |-> chunks'[k].identity, block |-> k]]
    BY <1>6, <1>9
  <2>2. blocks' = [k \in 1..m |-> [content |-> chunks'[k].identity, sealed |-> Sealed(k)]]
    BY <1>7, <1>9
  <2> QED BY <1>3, <1>6, <2>1, <2>2 DEF TablesMatch, IsTable, BlocksOf, Sealed
<1>11. ASSUME NEW i \in K
       PROVE  /\ Renumbered(i, K) \in 1..m
              /\ chunks'[Renumbered(i, K)].identity = chunks[i].identity
  <2>1. chunks'[Renumbered(i, K)] = [identity |-> chunks[i].identity, block |-> Renumbered(i, K)]
    BY <1>4, <1>6
  <2> QED BY <1>6, <2>1
<1> USE DEF K, m
<1> QED BY <1>6, <1>9, <1>10, <1>11

\* A remapped catalogue is one of the new tables, and reads back as it did.
LEMMA RemappedReads ==
  ASSUME IInv, Repack, NEW c, CatalogueOK(c, chunks), ContentOf(c) \subseteq References
  PROVE  /\ CatalogueOK(Remapped(c), chunks')
         /\ LinksResolve(Remapped(c)) = LinksResolve(c)
         /\ Restoration(chunks', Remapped(c)) = Restoration(chunks, c)
<1> DEFINE K == References
           f == [ref \in ContentOf(c) |-> Renumbered(ref, K)]
           d == MapContent(c, f)
           g == [ref \in ContentOf(d) |-> chunks'[ref].identity]
           h == [ref \in ContentOf(c) |-> chunks[ref].identity]
<1>1. Remapped(c) = d
  BY Referenced DEF Remapped
<1>2. \A x \in ContentOf(c) : /\ f[x] \in 1..Len(chunks')
                              /\ chunks'[f[x]].identity = chunks[x].identity
  BY RepackTables
<1>3. IsTree(c) /\ WellFormed(c)
  BY DEF CatalogueOK
<1> HIDE DEF f
<1>4. IsTree(d) /\ ContentOf(d) = {f[x] : x \in ContentOf(c)}
  BY <1>3, Mapping, MappedContent
<1>5. WellFormed(d) = WellFormed(c) /\ LinksResolve(d) = LinksResolve(c)
  BY <1>3, MappedShape
<1> HIDE DEF d
<1>6. ContentOf(d) \subseteq 1..Len(chunks')
  BY <1>2, <1>4
<1>7. \A x \in ContentOf(c) : g[f[x]] = h[x]
  BY <1>2, <1>4
<1>8. MapContent(d, g) = MapContent(c, h)
  <2> HIDE DEF g, h
  <2> QED BY <1>3, <1>7, MappingTwice DEF d
<1>9. Restoration(chunks', d) = MapContent(d, g) /\ Restoration(chunks, c) = MapContent(c, h)
  BY DEF Restoration
<1> QED BY <1>1, <1>3, <1>4, <1>5, <1>6, <1>8, <1>9 DEF CatalogueOK

\* The history a repack leaves.
LEMMA RepackHistory ==
  ASSUME IInv, Repack
  PROVE  LET n == Len(snapshots)
         IN  /\ IsHistory(snapshots', n)
             /\ \A i \in 1..n : /\ snapshots'[i].name = snapshots[i].name
                                /\ snapshots'[i].entries = Remapped(snapshots[i].entries)
<1> DEFINE n == Len(snapshots)
<1>1. IsHistory(snapshots, n) /\ n \in Nat /\ DOMAIN snapshots = 1..n
  BY DEF IInv, HistoryOK, IsHistory
<1>2. snapshots' = [i \in 1..n |->
                      [snapshots[i] EXCEPT !.entries = Remapped(snapshots[i].entries)]]
  BY <1>1 DEF Repack, RemappedSnapshots
<1> HIDE DEF n
<1>3. ASSUME NEW i \in 1..n
      PROVE  snapshots'[i] = [name |-> snapshots[i].name, entries |-> Remapped(snapshots[i].entries)]
  <2>1. snapshots[i] = [name |-> snapshots[i].name, entries |-> snapshots[i].entries]
    BY <1>1 DEF IsHistory
  <2>2. snapshots'[i] = [snapshots[i] EXCEPT !.entries = Remapped(snapshots[i].entries)]
    BY <1>2
  <2> QED BY <2>1, <2>2
<1>4. ASSUME NEW i \in 1..n
      PROVE  /\ snapshots'[i].name = snapshots[i].name
             /\ snapshots'[i].entries = Remapped(snapshots[i].entries)
             /\ snapshots'[i] = [name |-> snapshots'[i].name, entries |-> snapshots'[i].entries]
  <2>1. snapshots'[i] = [name |-> snapshots[i].name, entries |-> Remapped(snapshots[i].entries)]
    BY <1>3
  <2>2. /\ snapshots'[i].name = snapshots[i].name
        /\ snapshots'[i].entries = Remapped(snapshots[i].entries)
    BY <2>1
  <2> QED BY <2>1, <2>2
<1>5. Len(snapshots') = n
  BY <1>1, <1>2, LenIs
<1>6. snapshots' = [i \in 1..n |-> [name |-> snapshots'[i].name, entries |-> snapshots'[i].entries]]
  <2>1. snapshots' = [i \in 1..n |-> snapshots'[i]]
    BY <1>2
  <2> QED BY <1>4, <2>1
<1>7. \A i, j \in 1..n : snapshots'[i].name = snapshots'[j].name => i = j
  BY <1>1, <1>4 DEF IsHistory
<1>8. IsHistory(snapshots', n)
  BY <1>1, <1>5, <1>6, <1>7 DEF IsHistory
<1> USE DEF n
<1> QED BY <1>4, <1>8

\* Repack keeps the invariant.
LEMMA RepackInv ==
  ASSUME IInv, Repack
  PROVE  IInv'
<1> DEFINE n == Len(snapshots)
<1>1. TablesMatch'
  BY RepackTables
<1>2. Flags'
  <2>1. locked \in BOOLEAN
    BY DEF IInv, Flags
  <2> QED BY <2>1, NextFlags DEF Repack
<1>3. /\ IsHistory(snapshots', n)
      /\ \A i \in 1..n : snapshots'[i].entries = Remapped(snapshots[i].entries)
  BY RepackHistory
<1>4. Len(snapshots') = n
  BY <1>3 DEF IsHistory
<1>5. HistoryOK'
  BY <1>3, <1>4 DEF HistoryOK, IInv, Repack
<1>6. CatalogueOK(entries', chunks')
  BY Referenced, RemappedReads DEF Repack, IInv, CataloguesOK
<1>7. ASSUME NEW i \in 1..n PROVE CatalogueOK(snapshots'[i].entries, chunks')
  <2>1. /\ CatalogueOK(snapshots[i].entries, chunks)
        /\ ContentOf(snapshots[i].entries) \subseteq References
    BY Referenced DEF IInv, CataloguesOK
  <2> QED BY <1>3, <2>1, RemappedReads
<1>8. CataloguesOK'
  BY <1>4, <1>6, <1>7 DEF CataloguesOK
<1> QED BY <1>1, <1>2, <1>5, <1>8 DEF IInv

\* Every step keeps the invariant.
LEMMA StepInv == IInv /\ [Next]_vars => IInv'
<1> SUFFICES ASSUME IInv, [Next]_vars PROVE IInv'
  OBVIOUS
<1>1. CASE UNCHANGED vars
  BY <1>1 DEF vars, IInv, Flags, TablesMatch, BlocksOf, Sealed, CataloguesOK, HistoryOK
<1>2. ASSUME NEW n \in Names, NEW tree \in Trees, AddSnapshot(n, tree) PROVE IInv'
  BY <1>2, AddSnapshotInv
<1>3. ASSUME NEW names \in SUBSET Names, Prune(names) PROVE IInv'
  BY <1>3, PruneInv
<1>4. ASSUME NEW items \in Trees, Add(items) PROVE IInv'
  BY <1>4, AddInv
<1>5. ASSUME NEW items \in Trees, NEW kept \in SUBSET DOMAIN entries, Sync(items, kept) PROVE IInv'
  BY <1>5, SyncInv
<1>6. ASSUME NEW kept \in SUBSET DOMAIN entries, SyncRemovals(kept) PROVE IInv'
  BY <1>6, SyncRemovalsInv
<1>7. ASSUME NEW sign \in BOOLEAN, NEW lock \in BOOLEAN, SetMetadata(sign, lock) PROVE IInv'
  BY <1>7, SetMetadataInv
<1>8. ASSUME NEW targets \in SUBSET Paths, Delete(targets) PROVE IInv'
  BY <1>8, DeleteInv
<1>9. ASSUME NEW moves \in Moves, Move(moves) PROVE IInv'
  BY <1>9, MoveInv
<1>10. CASE Repack
  BY <1>10, RepackInv
<1> QED BY <1>1, <1>2, <1>3, <1>4, <1>5, <1>6, <1>7, <1>8, <1>9, <1>10 DEF Next

\* The inductive invariant holds in every state.
THEOREM Invariance == Spec => []IInv
  BY InitInv, StepInv, PTL DEF Spec

\* Whatever sequence of operations made an archive, load_index accepts it.
THEOREM ArchivesLoad == Spec => []IndexValid
<1>1. IInv => IndexValid
  <2> SUFFICES ASSUME IInv PROVE IndexValid
    OBVIOUS
  <2>1. /\ DOMAIN chunks = 1..Len(chunks) /\ DOMAIN blocks = 1..Len(chunks)
        /\ \A i \in 1..Len(chunks) : chunks[i].block = i
    BY DEF IInv, TablesMatch, IsTable, BlocksOf
  <2>2. DOMAIN snapshots = 1..Len(snapshots) /\ Len(snapshots) \in Nat
    BY DEF IInv, HistoryOK, IsHistory
  <2>3. snapshots # <<>> <=> Len(snapshots) > 0
    <3>1. snapshots = <<>> => Len(snapshots) = 0
      OBVIOUS
    <3>2. Len(snapshots) = 0 => snapshots = <<>>
      BY DEF IInv, HistoryOK, IsHistory
    <3> QED BY <2>2, <3>1, <3>2
  <2>4. profile = "snapshot" <=> snapshots # <<>>
    BY <2>2, <2>3 DEF IInv, HistoryOK, Flags
  <2>5. \A i, j \in DOMAIN snapshots : snapshots[i].name = snapshots[j].name => i = j
    BY <2>2 DEF IInv, HistoryOK, IsHistory
  <2>6. \A c \in Catalogues : ContentOf(c) \subseteq DOMAIN chunks /\ WellFormed(c)
    BY <2>1, <2>2 DEF Catalogues, IInv, CataloguesOK, CatalogueOK
  <2>7. (profile = "snapshot") = (snapshots # <<>>)
    BY <2>4
  <2> QED BY <2>1, <2>5, <2>6, <2>7 DEF IndexValid, IInv, Flags
<1> QED BY <1>1, Invariance, PTL

----------------------------------------------------------------------------
(* Steps.                                                                  *)

\* Repacking leaves a block for each chunk still named, and nothing else.
THEOREM RepackKeepsTheReferenced == Spec => RepackReclaims
<1> DEFINE Reclaims ==
      Repack => /\ {blocks'[i].content : i \in DOMAIN blocks'} = {chunks[r].identity : r \in References}
                /\ Len(blocks') = Cardinality(References)
<1>1. IInv /\ [Next]_vars => [Reclaims]_vars
  <2> SUFFICES ASSUME IInv, Repack
               PROVE  /\ {blocks'[i].content : i \in DOMAIN blocks'}
                           = {chunks[r].identity : r \in References}
                      /\ Len(blocks') = Cardinality(References)
    OBVIOUS
  <2> DEFINE K == References
             m == Cardinality(K)
  <2>1. /\ TablesMatch' /\ Len(chunks') = m
        /\ \A k \in 1..m : KeptAt(k, K) \in K /\ chunks'[k].identity = chunks[KeptAt(k, K)].identity
        /\ \A i \in K : /\ Renumbered(i, K) \in 1..m
                        /\ chunks'[Renumbered(i, K)].identity = chunks[i].identity
    BY RepackTables
  <2> HIDE DEF m, K
  <2>2. /\ m \in Nat /\ DOMAIN blocks' = 1..m
        /\ \A k \in 1..m : blocks'[k].content = chunks'[k].identity
    BY <2>1 DEF TablesMatch, IsTable, BlocksOf
  <2>3. Len(blocks') = m
    BY <2>2, LenIs
  <2>4. {blocks'[i].content : i \in DOMAIN blocks'} = {chunks[r].identity : r \in K}
    <3>1. \A k \in 1..m : \E r \in K : blocks'[k].content = chunks[r].identity
      BY <2>1, <2>2
    <3>2. \A r \in K : \E k \in 1..m : blocks'[k].content = chunks[r].identity
      BY <2>1, <2>2
    <3> DEFINE A == {blocks'[i].content : i \in DOMAIN blocks'}
               B == {chunks[r].identity : r \in K}
    <3>3. A \subseteq B
      BY <2>2, <3>1
    <3>4. B \subseteq A
      BY <2>2, <3>2
    <3> QED BY <3>3, <3>4
  <2> QED BY <2>3, <2>4 DEF m, K
<1> QED BY <1>1, Invariance, PTL DEF Spec, RepackReclaims

\* Only the delete of a live archive leaves a signature that does not hold.
THEOREM SignaturesFollow == Spec => SignatureTracksArchive
<1> DEFINE Tracks == \/ signature' \in {<<>>, <<Digest'>>}
                     \/ \E targets \in SUBSET Paths : Delete(targets)
<1>1. [Next]_vars => [Tracks]_vars
  <2> SUFFICES ASSUME Next PROVE Tracks
    OBVIOUS
  <2>1. ASSUME NEW n \in Names, NEW tree \in Trees, AddSnapshot(n, tree) PROVE Tracks
    BY <2>1 DEF AddSnapshot
  <2>2. ASSUME NEW names \in SUBSET Names, Prune(names) PROVE Tracks
    BY <2>2 DEF Prune
  <2>3. ASSUME NEW items \in Trees, Add(items) PROVE Tracks
    BY <2>3 DEF Add
  <2>4. ASSUME NEW sign \in BOOLEAN, NEW lock \in BOOLEAN, Finalize(sign, lock) PROVE Tracks
    BY <2>4 DEF Finalize
  <2>5. ASSUME NEW items \in Trees, NEW kept \in SUBSET DOMAIN entries, Sync(items, kept)
        PROVE  Tracks
    BY <2>4, <2>5 DEF Sync
  <2>6. ASSUME NEW kept \in SUBSET DOMAIN entries, SyncRemovals(kept) PROVE Tracks
    BY <2>4, <2>6 DEF SyncRemovals
  <2>7. ASSUME NEW sign \in BOOLEAN, NEW lock \in BOOLEAN, SetMetadata(sign, lock) PROVE Tracks
    BY <2>4, <2>7 DEF SetMetadata
  <2>8. ASSUME NEW moves \in Moves, Move(moves) PROVE Tracks
    BY <2>8 DEF Move
  <2>9. CASE Repack
    BY <2>9 DEF Repack
  <2> QED BY <2>1, <2>2, <2>3, <2>5, <2>6, <2>7, <2>8, <2>9 DEF Next
<1> QED BY <1>1, PTL DEF Spec, SignatureTracksArchive

\* Keeping entries of a catalogue whose links resolve loses the target of none.
LEMMA KeptLinks ==
  ASSUME NEW c, LinksResolve(c), NEW kept, NEW targets, NEW k,
         IsKept(k, c, kept, targets), NEW p \in Links(k)
  PROVE  /\ p \in Links(c) /\ k[p] = c[p]
         /\ c[p].target \in targets
         /\ c[p].target \in kept => c[p].target \in DOMAIN k
<1>1. /\ DOMAIN k = {q \in kept : q \in Links(c) => c[q].target \in targets}
      /\ \A q \in DOMAIN k : q \in DOMAIN c /\ k[q] = c[q]
  BY DEF IsKept
<1>2. p \in DOMAIN k /\ k[p].kind = "link"
  BY DEF Links
<1>3. p \in Links(c) /\ k[p] = c[p]
  BY <1>1, <1>2 DEF Links
<1>4. c[p].target \in targets
  BY <1>1, <1>2, <1>3
<1>5. c[c[p].target].kind = "file"
  BY <1>3 DEF LinksResolve, LinkResolves
<1>6. c[p].target \in kept => c[p].target \in DOMAIN k
  BY <1>1, <1>5 DEF Links
<1> QED BY <1>3, <1>4, <1>6

\* A link loses its file only to an update that puts something else there.
LEMMA LinksLost ==
  ASSUME IInv, [Next]_vars, LinksResolve(entries), ~LinksResolve(entries')
  PROVE  \E p \in Links(entries) : /\ entries[p].target \in DOMAIN entries'
                                   /\ entries'[entries[p].target].kind # "file"
<1> DEFINE Lost == \E p \in Links(entries) : /\ entries[p].target \in DOMAIN entries'
                                             /\ entries'[entries[p].target].kind # "file"
<1>1. IsTree(entries) /\ TablesMatch /\ CatalogueOK(entries, chunks)
  BY DEF IInv, CataloguesOK, CatalogueOK
<1>2. PICK p \in Links(entries') : ~LinkResolves(entries', p)
  BY DEF LinksResolve
<1>3. p \in DOMAIN entries' /\ entries'[p].kind = "link"
  BY <1>2 DEF Links
<1>4. CASE UNCHANGED vars
  BY <1>4 DEF vars
<1>5. ASSUME NEW n \in Names, NEW tree \in Trees, AddSnapshot(n, tree) PROVE Lost
  BY <1>1, <1>5, Capture DEF AddSnapshot
<1>6. ASSUME NEW names \in SUBSET Names, Prune(names) PROVE Lost
  BY <1>6 DEF Prune
<1>7. ASSUME NEW items \in Trees, NEW d, IsTree(d), entries' = Over(Captured(items), d),
             \A q \in Links(d) :
               /\ q \in Links(entries) /\ d[q] = entries[q]
               /\ d[q].target \in DOMAIN items \/ d[q].target \in DOMAIN d
      PROVE  Lost
  <2> DEFINE c == Captured(items)
  <2>1. IsTree(c) /\ LinksResolve(c) /\ DOMAIN c = DOMAIN items
    BY <1>1, Capture DEF CatalogueOK
  <2> HIDE DEF c
  <2>2. /\ DOMAIN entries' = DOMAIN c \cup DOMAIN d
        /\ \A q \in DOMAIN c : entries'[q] = c[q]
        /\ \A q \in DOMAIN d \ DOMAIN c : entries'[q] = d[q]
    <3>1. entries' = Over(c, d) /\ IsTree(d)
      BY <1>7 DEF c
    <3>2. /\ DOMAIN Over(c, d) = DOMAIN c \cup DOMAIN d
          /\ \A q \in DOMAIN c : Over(c, d)[q] = c[q]
          /\ \A q \in DOMAIN d \ DOMAIN c : Over(c, d)[q] = d[q]
      BY <2>1, <3>1, OneOverAnother
    <3> QED BY <3>1, <3>2
  <2>3. p \notin DOMAIN c
    <3> SUFFICES ASSUME p \in DOMAIN c PROVE FALSE
      OBVIOUS
    <3>1. p \in Links(c) /\ entries'[p] = c[p]
      BY <1>3, <2>2 DEF Links
    <3>2. c[p].target \in DOMAIN c /\ c[c[p].target].kind = "file"
      BY <2>1, <3>1 DEF LinksResolve, LinkResolves
    <3> QED BY <1>2, <2>2, <3>1, <3>2 DEF LinkResolves
  <2>4. p \in Links(d) /\ entries'[p] = d[p]
    BY <1>3, <2>2, <2>3 DEF Links
  <2>5. p \in Links(entries) /\ d[p] = entries[p] /\ entries[p].target \in DOMAIN entries'
    BY <1>7, <2>1, <2>2, <2>4
  <2>6. entries'[entries[p].target].kind # "file"
    BY <1>2, <2>4, <2>5 DEF LinkResolves
  <2> QED BY <2>5, <2>6
<1>8. ASSUME NEW items \in Trees, Add(items) PROVE Lost
  <2>1. entries' = Over(Captured(items), entries)
    BY <1>8 DEF Add
  <2>2. \A q \in Links(entries) : entries[q].target \in DOMAIN entries
    BY DEF LinksResolve, LinkResolves
  <2> QED BY <1>1, <1>7, <2>1, <2>2
<1>9. ASSUME NEW items \in Trees, NEW kept \in SUBSET DOMAIN entries, Sync(items, kept) PROVE Lost
  <2> DEFINE k == Keeping(entries, kept, kept \cup DOMAIN items)
  <2>1. entries' = Over(Captured(items), k)
    BY <1>9 DEF Sync, Synced
  <2>6. IsKept(k, entries, kept, kept \cup DOMAIN items)
    BY <1>1, Kept
  <2> HIDE DEF k
  <2>2. IsTree(k)
    BY <2>6 DEF IsKept
  <2>3. \A q \in Links(k) :
          /\ q \in Links(entries) /\ k[q] = entries[q]
          /\ k[q].target \in DOMAIN items \/ k[q].target \in DOMAIN k
    BY <2>6, KeptLinks
  <2> QED BY <1>7, <2>1, <2>2, <2>3
<1>10. ASSUME NEW kept \in SUBSET DOMAIN entries, entries' = Keeping(entries, kept, kept) PROVE FALSE
  <2> DEFINE k == Keeping(entries, kept, kept)
  <2>1. entries' = k
    BY <1>10
  <2>6. IsKept(k, entries, kept, kept)
    BY <1>1, Kept
  <2> HIDE DEF k
  <2>2. p \in Links(k)
    BY <1>2, <2>1
  <2>3. p \in Links(entries) /\ k[p] = entries[p] /\ entries[p].target \in DOMAIN k
    BY <2>6, <2>2, KeptLinks
  <2>4. entries[entries[p].target].kind = "file"
    BY <2>3 DEF LinksResolve, LinkResolves
  <2>5. k[entries[p].target] = entries[entries[p].target]
    BY <2>3, <2>6 DEF IsKept
  <2> QED BY <1>2, <2>1, <2>3, <2>4, <2>5 DEF LinkResolves
<1>11. ASSUME NEW kept \in SUBSET DOMAIN entries, SyncRemovals(kept) PROVE Lost
  BY <1>10, <1>11, SyncRemovalsInv
<1>12. ASSUME NEW sign \in BOOLEAN, NEW lock \in BOOLEAN, SetMetadata(sign, lock) PROVE Lost
  BY <1>12 DEF SetMetadata
<1>13. ASSUME NEW targets \in SUBSET Paths, Delete(targets) PROVE Lost
  <2>1. KeptByDelete(targets) \in SUBSET DOMAIN entries
    BY DEF KeptByDelete
  <2> QED BY <1>10, <1>13, <2>1 DEF Delete
<1>14. ASSUME NEW moves \in Moves, Move(moves) PROVE Lost
  BY <1>14 DEF Move
<1>15. CASE Repack
  <2>1. LinksResolve(Remapped(entries)) = LinksResolve(entries)
    BY <1>1, <1>15, Referenced, RemappedReads
  <2> QED BY <1>15, <2>1 DEF Repack
<1> QED BY <1>4, <1>5, <1>6, <1>8, <1>9, <1>11, <1>12, <1>13, <1>14, <1>15 DEF Next

\* A hard link loses the file it shares bytes with only to an update.
THEOREM LinksStay == Spec => LinksLostOnlyByReplacement
<1>1. IInv /\ [Next]_vars =>
        [LinksResolve(entries) /\ ~LinksResolve(entries') =>
           \E p \in Links(entries) :
             /\ entries[p].target \in DOMAIN entries'
             /\ entries'[entries[p].target].kind # "file"]_vars
  BY LinksLost
<1> QED BY <1>1, Invariance, PTL DEF Spec, LinksLostOnlyByReplacement

----------------------------------------------------------------------------
(* What the archive shows of itself implements ContentStore.               *)

\* ContentStore's operators are the ones of ArchiveTree.
LEMMA SameOperators ==
  /\ Store!NoEntries = NoEntries
  /\ \A items, tree : Store!Over(items, tree) = Over(items, tree)
  /\ \A tree, S : Store!Restrict(tree, S) = Restrict(tree, S)
  /\ \A tree, moves : Store!MovedTree(tree, moves) = MovedTree(tree, moves)
  /\ \A h, names : Store!Without(h, names) = Without(h, names)
  /\ \A h : Store!Last(h) = Last(h)
<1>1. Store!NoEntries = NoEntries /\ \A h : Store!Last(h) = Last(h)
  BY DEF Store!NoEntries, NoEntries, Store!Last, Last
<1>2. /\ \A items, tree : Store!Over(items, tree) = Over(items, tree)
      /\ \A tree, S : Store!Restrict(tree, S) = Restrict(tree, S)
  BY DEF Store!Over, Over, Store!Restrict, Restrict
<1>3. \A tree, moves : Store!MovedTree(tree, moves) = MovedTree(tree, moves)
  BY DEF Store!MovedTree, MovedTree, Store!MovedPath, MovedPath, Store!Under, Under,
         Store!IsPrefix, IsPrefix
<1>4. \A h, names : Store!Without(h, names) = Without(h, names)
  BY DEF Store!Without, Without, Store!Compacted, Compacted, Store!KeptAt, KeptAt,
         Store!Renumbered, Renumbered, Store!Cardinality, Cardinality
<1> QED BY <1>1, <1>2, <1>3, <1>4

\* The history as ContentStore has it.
HistoryShown ==
  [i \in DOMAIN snapshots |->
     [name |-> snapshots[i].name, tree |-> Restored(snapshots[i].entries)]]

\* The same, when each chunk of the table is readable.
Shown(h, table) ==
  [i \in 1..Len(h) |-> [name |-> h[i].name, tree |-> Restoration(table, h[i].entries)]]

\* What is shown reads back.
ShownOK ==
  /\ Restored(entries) = Restoration(chunks, entries)
  /\ HistoryShown = Shown(snapshots, chunks)

\* A catalogue of an archive reads back: every block opens.
LEMMA BlocksOpen ==
  ASSUME TablesMatch, NEW c, CatalogueOK(c, chunks)
  PROVE  Restored(c) = Restoration(chunks, c)
<1> DEFINE f == [ref \in ContentOf(c) |-> Read(ref)]
           g == [ref \in ContentOf(c) |-> chunks[ref].identity]
<1>1. ASSUME NEW ref \in ContentOf(c) PROVE Read(ref) = chunks[ref].identity
  <2>1. ref \in 1..Len(chunks)
    BY DEF CatalogueOK
  <2>2. /\ chunks[ref] = [identity |-> chunks[ref].identity, block |-> ref]
        /\ blocks[ref] = [content |-> chunks[ref].identity, sealed |-> Sealed(ref)]
    BY <2>1 DEF TablesMatch, IsTable, BlocksOf
  <2>3. chunks[ref].block = ref
    BY <2>2
  <2> QED BY <2>2, <2>3 DEF Read
<1>2. f = g
  BY <1>1
<1> QED BY <1>2 DEF Restored, Restoration

\* The invariant says what is shown.
LEMMA ShownIs ==
  IInv => ShownOK
<1> SUFFICES ASSUME IInv
             PROVE  ShownOK
  OBVIOUS
<1>1. Restored(entries) = Restoration(chunks, entries)
  BY BlocksOpen DEF IInv, CataloguesOK
<1>2. \A i \in 1..Len(snapshots) :
        Restored(snapshots[i].entries) = Restoration(chunks, snapshots[i].entries)
  BY BlocksOpen DEF IInv, CataloguesOK
<1>3. DOMAIN snapshots = 1..Len(snapshots)
  BY DEF IInv, HistoryOK, IsHistory
<1> QED BY <1>1, <1>2, <1>3 DEF HistoryShown, Shown, ShownOK

\* An edit of the catalogue that puts captured files over some of it.
LEMMA EditReads ==
  ASSUME NEW t, NEW u, NEW c, NEW cap, NEW e, IsTree(c), IsTree(cap), IsTree(e),
         ContentOf(c) \subseteq 1..Len(t), \A i \in 1..Len(t) : u[i] = t[i],
         NEW items \in Trees \cup {NoEntries}, Restoration(u, cap) = items,
         DOMAIN cap \subseteq DOMAIN e, \A p \in DOMAIN cap : e[p] = cap[p],
         \A p \in DOMAIN e \ DOMAIN cap : p \in DOMAIN c /\ e[p] = c[p]
  PROVE  Store!EditOf(Restoration(t, c), Restoration(u, e))
<1> DEFINE a == Restoration(u, e)
           b == Restoration(t, c)
           kept == DOMAIN a \ DOMAIN items
           r == Restrict(b, kept)
           o == Over(items, r)
<1>1. b = Restoration(u, c)
  BY GrownReads
<1>2. /\ IsTree(a) /\ DOMAIN a = DOMAIN e /\ DOMAIN b = DOMAIN c
      /\ DOMAIN items = DOMAIN cap
  BY Mapping DEF Restoration
<1>3. \A p \in DOMAIN cap : a[p] = items[p]
  BY SameEntry
<1>4. \A p \in DOMAIN e \ DOMAIN cap : a[p] = b[p]
  BY <1>1, SameEntry
<1> HIDE DEF a, b
<1>5. kept \subseteq DOMAIN b
  BY <1>2
<1>6. DOMAIN r = kept /\ \A p \in kept : r[p] = b[p]
  BY DEF Restrict
<1> HIDE DEF r
<1>7. /\ DOMAIN o = DOMAIN items \cup kept
      /\ \A p \in DOMAIN items : o[p] = items[p]
      /\ \A p \in kept : o[p] = r[p]
      /\ o = [p \in DOMAIN o |-> o[p]]
  BY <1>6 DEF Over
<1> HIDE DEF o
<1>8. DOMAIN o = DOMAIN a
  BY <1>2, <1>7
<1>9. \A p \in DOMAIN a : o[p] = a[p]
  BY <1>2, <1>3, <1>4, <1>6, <1>7
<1>10. a = o
  BY <1>2, <1>7, <1>8, <1>9 DEF IsTree
<1>11. kept \subseteq DOMAIN b /\ a = Over(items, Restrict(b, kept))
  BY <1>5, <1>10 DEF o, r
<1>12. Store!EditOf(b, a)
  BY <1>11, SameOperators DEF Store!EditOf
<1> USE DEF a, b
<1> QED BY <1>12

\* Leaving entries out is an edit.
LEMMA RemovalReads ==
  ASSUME NEW t, NEW c, NEW e, IsTree(c), IsTree(e), ContentOf(c) \subseteq 1..Len(t),
         \A p \in DOMAIN e : p \in DOMAIN c /\ e[p] = c[p]
  PROVE  Store!EditOf(Restoration(t, c), Restoration(t, e))
<1> DEFINE n == NoEntries
<1>1. n \in Trees \cup {NoEntries} /\ IsTree(n) /\ DOMAIN n = {}
  BY Capturable DEF NoEntries
<1>2. Restoration(t, n) = n
  <2>1. IsTree(Restoration(t, n)) /\ DOMAIN Restoration(t, n) = DOMAIN n
    BY <1>1, Mapping DEF Restoration
  <2> QED BY <1>1, <2>1 DEF IsTree
<1> HIDE DEF n
<1> QED BY <1>1, <1>2, EditReads

\* The history shown does not change when the tables only grow.
LEMMA SameShown ==
  ASSUME IInv, UNCHANGED snapshots, \A i \in 1..Len(chunks) : chunks'[i] = chunks[i]
  PROVE  Shown(snapshots', chunks') = Shown(snapshots, chunks)
<1>1. ASSUME NEW i \in 1..Len(snapshots)
      PROVE  Restoration(chunks', snapshots[i].entries) = Restoration(chunks, snapshots[i].entries)
  <2>1. CatalogueOK(snapshots[i].entries, chunks)
    BY DEF IInv, CataloguesOK
  <2> QED BY <2>1, GrownReads DEF CatalogueOK
<1> QED BY <1>1 DEF Shown

\* Putting captured files over a catalogue is an edit.
LEMMA AddReads ==
  ASSUME IInv, NEW items \in Trees, chunks' = ChunksWith(items),
         NEW d, IsTree(d), \A p \in DOMAIN d : p \in DOMAIN entries /\ d[p] = entries[p],
         entries' = Over(Captured(items), d)
  PROVE  Store!EditOf(Restoration(chunks, entries), Restoration(chunks', entries'))
<1> DEFINE cap == Captured(items)
<1>1. IsTree(cap) /\ Restoration(chunks', cap) = items
  BY Capture DEF IInv, CatalogueOK
<1>2. \A i \in 1..Len(chunks) : chunks'[i] = chunks[i]
  BY Capturable, Grown DEF IInv
<1>3. IsTree(entries) /\ ContentOf(entries) \subseteq 1..Len(chunks)
  BY DEF IInv, CataloguesOK, CatalogueOK
<1>4. entries' = Over(cap, d)
  OBVIOUS
<1> HIDE DEF cap
<1>5. /\ DOMAIN Over(cap, d) = DOMAIN cap \cup DOMAIN d
      /\ \A p \in DOMAIN cap : Over(cap, d)[p] = cap[p]
      /\ \A p \in DOMAIN d \ DOMAIN cap : Over(cap, d)[p] = d[p]
      /\ IsTree(Over(cap, d))
  BY <1>1, OneOverAnother
<1>6. /\ DOMAIN cap \subseteq DOMAIN entries' /\ \A p \in DOMAIN cap : entries'[p] = cap[p]
      /\ \A p \in DOMAIN entries' \ DOMAIN cap : p \in DOMAIN entries /\ entries'[p] = entries[p]
      /\ IsTree(entries')
  BY <1>4, <1>5
<1>7. items \in Trees \cup {NoEntries}
  OBVIOUS
<1> QED BY <1>1, <1>2, <1>3, <1>6, <1>7, EditReads

\* The same of the next state.
LEMMA ShownNext == IInv' => ShownOK'
  BY ShownIs, PTL

\* The first catalogue is one that was captured.
LEMMA InitShows == Init => Store!StoreInit
<1> SUFFICES ASSUME Init PROVE Store!StoreInit
  OBVIOUS
<1>1. PICK tree \in Trees : Created(tree)
  BY DEF Init
<1>2. IInv
  BY InitInv
<1>3. /\ IsTree(tree) /\ IsFiniteSet(ContentOf(tree))
      /\ entries = MapContent(tree, [id \in ContentOf(tree) |-> Lookup(chunks, id)])
  BY <1>1, Capturable DEF Created
<1>4. IsTable(chunks) /\ \A id \in ContentOf(tree) : \E i \in 1..Len(chunks) : chunks[i].identity = id
  <2> DEFINE S == ContentOf(tree)
             order == SetToSeq(S)
             n == Cardinality(S)
  <2>1. /\ n \in Nat /\ order \in [1..n -> S]
        /\ \A x \in S : \E k \in 1..n : order[k] = x
    <3>1. IsFiniteSet(S)
      BY <1>3
    <3> HIDE DEF S
    <3> QED BY <3>1, Enumeration
  <2>2. chunks = [k \in 1..n |-> [identity |-> order[k], block |-> k]]
    BY <1>1, <2>1 DEF Created
  <2> HIDE DEF order, n
  <2>3. Len(chunks) = n
    BY <2>1, <2>2, LenIs
  <2>4. \A k \in 1..n : chunks[k].identity = order[k]
    BY <2>2
  <2> QED BY <1>2, <2>1, <2>3, <2>4 DEF IInv, TablesMatch
<1>5. Restoration(chunks, MapContent(tree, [id \in ContentOf(tree) |-> Lookup(chunks, id)])) = tree
  BY <1>3, <1>4, LookedUp
<1>6. Restored(entries) = tree
  BY <1>2, <1>3, <1>5, ShownIs DEF ShownOK
<1>7. HistoryShown \in {<<>>} \cup {<<[name |-> n, tree |-> Restored(entries)]>> : n \in Names}
  <2>1. CASE profile = "live"
    <3>1. snapshots = <<>>
      BY <2>1 DEF Init
    <3>2. HistoryShown = <<>>
      BY <3>1 DEF HistoryShown
    <3> QED BY <3>2
  <2>2. CASE profile = "snapshot"
    <3>1. PICK n \in Names : snapshots = <<[name |-> n, entries |-> entries]>>
      BY <2>2 DEF Init
    <3>2. DOMAIN snapshots = {1} /\ snapshots[1] = [name |-> n, entries |-> entries]
      BY <3>1
    <3>3. HistoryShown = [i \in {1} |-> [name |-> n, tree |-> Restored(entries)]]
      BY <3>2 DEF HistoryShown
    <3>4. HistoryShown = <<[name |-> n, tree |-> Restored(entries)]>>
      BY <3>3
    <3> QED BY <3>4
  <2> QED BY <1>2, <2>1, <2>2 DEF IInv, Flags
<1>8. locked = FALSE
  BY DEF Init
<1> QED BY <1>6, <1>7, <1>8 DEF Store!StoreInit, HistoryShown

\* A history shown has the length and the names of the history.
LEMMA ShownNames ==
  ASSUME NEW n, NEW h, IsHistory(h, n), NEW table
  PROVE  /\ Len(Shown(h, table)) = n /\ DOMAIN Shown(h, table) = 1..n
         /\ \A i \in 1..n : Shown(h, table)[i].name = h[i].name
<1>1. n \in Nat /\ Len(h) = n
  BY DEF IsHistory
<1>2. /\ DOMAIN Shown(h, table) = 1..n
      /\ \A i \in 1..n : Shown(h, table)[i] = [name |-> h[i].name,
                                               tree |-> Restoration(table, h[i].entries)]
  BY <1>1 DEF Shown
<1>3. Len(Shown(h, table)) = n
  BY <1>1, <1>2, LenIs
<1>4. ASSUME NEW i \in 1..n PROVE Shown(h, table)[i].name = h[i].name
  <2>1. Shown(h, table)[i] = [name |-> h[i].name, tree |-> Restoration(table, h[i].entries)]
    BY <1>2
  <2> QED BY <2>1
<1> QED BY <1>2, <1>3, <1>4

\* A captured snapshot is taken.
LEMMA AddSnapshotTakes ==
  ASSUME IInv, IInv', NEW name \in Names, NEW tree \in Trees, AddSnapshot(name, tree)
  PROVE  Store!Take
<1> DEFINE n == Len(snapshots)
           c == Captured(tree)
           old == Shown(snapshots, chunks)
           s == [name |-> name, tree |-> tree]
<1>1. /\ ShownOK /\ ShownOK' /\ TablesMatch
      /\ IsHistory(snapshots, n) /\ n \in Nat /\ n > 0
  BY ShownIs, ShownNext DEF IInv, HistoryOK, IsHistory, AddSnapshot
<1>2. Restoration(chunks', c) = tree /\ \A i \in 1..Len(chunks) : chunks'[i] = chunks[i]
  BY <1>1, Capture, Capturable, Grown DEF AddSnapshot
<1>3. Restored(entries)' = tree
  BY <1>1, <1>2 DEF ShownOK, AddSnapshot
<1>4. \A i \in 1..n : snapshots[i].name # name
  BY <1>1 DEF AddSnapshot, SnapshotNames, IsHistory
<1>5. /\ IsHistory(snapshots', n + 1)
      /\ snapshots'[n + 1] = [name |-> name, entries |-> c]
      /\ \A i \in 1..n : snapshots'[i] = snapshots[i]
  <2>1. snapshots' = Append(snapshots, [name |-> name, entries |-> c])
    BY DEF AddSnapshot
  <2> HIDE DEF n, c
  <2> QED BY <1>1, <1>4, <2>1, HistoryAppended
<1>6. /\ Len(old) = n /\ DOMAIN old = 1..n
      /\ \A i \in 1..n : old[i].name = snapshots[i].name
      /\ \A i \in 1..n : old[i] = [name |-> snapshots[i].name,
                                   tree |-> Restoration(chunks, snapshots[i].entries)]
  <2>1. /\ Len(old) = n /\ DOMAIN old = 1..n
        /\ \A i \in 1..n : old[i].name = snapshots[i].name
    BY <1>1, ShownNames
  <2>2. \A i \in 1..n : old[i] = [name |-> snapshots[i].name,
                                  tree |-> Restoration(chunks, snapshots[i].entries)]
    BY DEF Shown
  <2> QED BY <2>1, <2>2
<1> DEFINE new == Shown(snapshots', chunks')
<1>7. /\ DOMAIN new = 1..(n + 1) /\ new = [i \in 1..(n + 1) |-> new[i]]
      /\ \A i \in 1..(n + 1) : new[i] = [name |-> snapshots'[i].name,
                                         tree |-> Restoration(chunks', snapshots'[i].entries)]
  <2>1. Len(snapshots') = n + 1
    BY <1>5 DEF IsHistory
  <2> QED BY <2>1 DEF Shown
<1> HIDE DEF new, old, c, n
<1>8. new[n + 1] = s
  <2>1. n + 1 \in 1..(n + 1)
    BY <1>1
  <2>2. snapshots'[n + 1].name = name /\ snapshots'[n + 1].entries = c
    BY <1>5
  <2> QED BY <1>2, <1>7, <2>1, <2>2
<1>9. ASSUME NEW i \in 1..n PROVE new[i] = old[i]
  <2>1. i \in 1..(n + 1) /\ snapshots'[i] = snapshots[i]
    BY <1>1, <1>5
  <2>2. CatalogueOK(snapshots[i].entries, chunks)
    BY DEF IInv, CataloguesOK, n
  <2>3. Restoration(chunks', snapshots[i].entries) = Restoration(chunks, snapshots[i].entries)
    BY <1>2, <2>2, GrownReads DEF CatalogueOK
  <2> QED BY <1>6, <1>7, <2>1, <2>3
<1> HIDE DEF s
<1>10. new = Append(old, s)
  <2>1. old = [i \in 1..n |-> old[i]]
    BY <1>6 DEF old, Shown, n
  <2>2. Append(old, s) = [i \in 1..(n + 1) |-> IF i <= n THEN old[i] ELSE s]
    BY <1>1, <2>1, Appended
  <2>3. \A i \in 1..(n + 1) : new[i] = IF i <= n THEN old[i] ELSE s
    <3> SUFFICES ASSUME NEW i \in 1..(n + 1) PROVE new[i] = IF i <= n THEN old[i] ELSE s
      OBVIOUS
    <3>1. CASE i <= n
      <4>1. i \in 1..n
        BY <1>1, <3>1
      <4> QED BY <1>9, <3>1, <4>1
    <3>2. CASE ~(i <= n)
      <4>1. i = n + 1
        BY <1>1, <3>2
      <4> QED BY <1>8, <3>2, <4>1
    <3> QED BY <3>1, <3>2
  <2> QED BY <1>7, <2>2, <2>3
<1>11. HistoryShown = old /\ HistoryShown' = new
  BY <1>1 DEF ShownOK, old, new
<1>12. old # <<>> /\ \A i \in 1..Len(old) : old[i].name # name
  <2>1. old # <<>>
    <3>1. Len(old) > 0
      BY <1>1, <1>6
    <3> QED BY <3>1
  <2>2. \A i \in 1..n : old[i].name # name
    BY <1>4, <1>6 DEF n
  <2> QED BY <1>6, <2>1, <2>2
<1>13. ~locked /\ UNCHANGED locked
  BY DEF AddSnapshot
<1>14. /\ HistoryShown # <<>> /\ Restored(entries)' \in Trees
       /\ \A i \in 1..Len(HistoryShown) : HistoryShown[i].name # name
       /\ HistoryShown' = Append(HistoryShown, [name |-> name, tree |-> Restored(entries)'])
  BY <1>3, <1>10, <1>11, <1>12 DEF s
<1> QED BY <1>13, <1>14 DEF Store!Take, HistoryShown

\* Pruned snapshots are dropped.
LEMMA PruneDrops ==
  ASSUME IInv, IInv', NEW names \in SUBSET Names, Prune(names)
  PROVE  Store!Drop
<1> DEFINE n == Len(snapshots)
           kept == {i \in 1..n : snapshots[i].name \notin names}
           m == Cardinality(kept)
           old == Shown(snapshots, chunks)
           new == Shown(snapshots', chunks')
<1>1. /\ ShownOK /\ ShownOK' /\ TablesMatch
      /\ IsHistory(snapshots, n) /\ n \in Nat /\ n > 0
      /\ snapshots[n].name \notin names
  BY ShownIs, ShownNext DEF IInv, HistoryOK, IsHistory, Prune, Last
<1>2. /\ IsHistory(snapshots', m) /\ m \in Nat
      /\ \A k \in 1..m : /\ KeptAt(k, kept) \in 1..n
                         /\ snapshots'[k] = snapshots[KeptAt(k, kept)]
  <2>1. snapshots' = Without(snapshots, names)
    BY DEF Prune
  <2>2. /\ IsHistory(snapshots', m)
        /\ \A k \in 1..m : /\ KeptAt(k, kept) \in 1..n
                           /\ snapshots'[k] = snapshots[KeptAt(k, kept)]
    BY <1>1, <2>1, HistoryPruned
  <2>3. m \in Nat
    BY <2>2 DEF IsHistory
  <2> QED BY <2>2, <2>3
<1>3. /\ Len(old) = n /\ DOMAIN old = 1..n
      /\ \A i \in 1..n : old[i].name = snapshots[i].name
  BY <1>1, ShownNames
<1>4. \A i \in 1..n : old[i] = [name |-> snapshots[i].name,
                                tree |-> Restoration(chunks, snapshots[i].entries)]
  BY DEF Shown
<1>5. /\ new = [k \in 1..m |-> new[k]]
      /\ \A k \in 1..m : new[k] = [name |-> snapshots'[k].name,
                                   tree |-> Restoration(chunks, snapshots'[k].entries)]
  <2>1. Len(snapshots') = m /\ chunks' = chunks
    BY <1>2 DEF IsHistory, Prune
  <2> HIDE DEF m
  <2> QED BY <2>1 DEF Shown
<1>6. kept = {i \in DOMAIN old : old[i].name \notin names}
  BY <1>3
<1> HIDE DEF old, new, n, kept
<1>7. \A k \in 1..m : new[k] = old[KeptAt(k, kept)]
  BY <1>2, <1>4, <1>5
<1>8. new = Without(old, names)
  BY <1>5, <1>6, <1>7 DEF Without, Compacted
<1>9. old # <<>> /\ Last(old).name \notin names
  <2>1. Len(old) > 0
    BY <1>1, <1>3
  <2>2. old # <<>>
    BY <2>1
  <2>3. n \in 1..n
    BY <1>1
  <2> QED BY <1>1, <1>3, <2>2, <2>3 DEF Last
<1>10. HistoryShown = old /\ HistoryShown' = new
  BY <1>1 DEF ShownOK, old, new
<1>11. Restored(entries)' = Restored(entries)
  BY <1>1 DEF ShownOK, Prune
<1>12. ~locked /\ UNCHANGED locked
  BY DEF Prune
<1>13. /\ HistoryShown # <<>> /\ Last(HistoryShown).name \notin names
       /\ HistoryShown' = Without(HistoryShown, names)
  BY <1>8, <1>9, <1>10
<1> QED BY <1>11, <1>12, <1>13, SameOperators DEF Store!Drop, HistoryShown

\* A step that leaves the history alone and edits the catalogue is an edit.
LEMMA Edits ==
  ASSUME IInv, IInv', ~locked, UNCHANGED snapshots,
         \A i \in 1..Len(chunks) : chunks'[i] = chunks[i],
         Store!EditOf(Restoration(chunks, entries), Restoration(chunks', entries'))
  PROVE  Store!Edit
<1>1. ShownOK /\ ShownOK' /\ locked' \in BOOLEAN
  BY ShownIs, ShownNext DEF IInv, Flags
<1>2. HistoryShown' = HistoryShown
  BY <1>1, SameShown DEF ShownOK
<1>3. Store!EditOf(Restored(entries), Restored(entries)')
  BY <1>1 DEF ShownOK
<1> QED BY <1>1, <1>2, <1>3 DEF Store!Edit, HistoryShown

\* A move renames.
LEMMA MoveRenames ==
  ASSUME IInv, IInv', NEW moves \in Moves, Move(moves)
  PROVE  Store!Rename
<1>1. ShownOK /\ ShownOK'
  BY ShownIs, ShownNext
<1>2. HistoryShown' = HistoryShown
  BY <1>1, SameShown DEF ShownOK, Move
<1>3. IsTree(entries)
  BY DEF IInv, CataloguesOK, CatalogueOK
<1>4. Restored(entries)' = MovedTree(Restored(entries), moves)
  BY <1>1, <1>3, MovedReads DEF ShownOK, Move
<1>5. ~locked /\ UNCHANGED locked
  BY DEF Move
<1> QED BY <1>2, <1>4, <1>5, SameOperators DEF Store!Rename, HistoryShown

\* A repack does not show.
LEMMA RepackHidden ==
  ASSUME IInv, IInv', Repack
  PROVE  UNCHANGED Store!storeVars
<1>1. ShownOK /\ ShownOK'
  BY ShownIs, ShownNext
<1>2. /\ CatalogueOK(entries, chunks) /\ ContentOf(entries) \subseteq References
      /\ \A i \in 1..Len(snapshots) : /\ CatalogueOK(snapshots[i].entries, chunks)
                                      /\ ContentOf(snapshots[i].entries) \subseteq References
  BY Referenced DEF IInv, CataloguesOK
<1>3. Restored(entries)' = Restored(entries)
  BY <1>1, <1>2, RemappedReads DEF ShownOK, Repack
<1>4. /\ Len(snapshots') = Len(snapshots)
      /\ \A i \in 1..Len(snapshots) :
           /\ snapshots'[i].name = snapshots[i].name
           /\ snapshots'[i].entries = Remapped(snapshots[i].entries)
  BY RepackHistory DEF IsHistory
<1>5. \A i \in 1..Len(snapshots) :
        Restoration(chunks', snapshots'[i].entries) = Restoration(chunks, snapshots[i].entries)
  BY <1>2, <1>4, RemappedReads
<1>6. Shown(snapshots', chunks') = Shown(snapshots, chunks)
  BY <1>4, <1>5 DEF Shown
<1>7. HistoryShown' = HistoryShown
  BY <1>1, <1>6 DEF ShownOK
<1>8. UNCHANGED locked
  BY DEF Repack
<1> QED BY <1>3, <1>7, <1>8 DEF Store!storeVars, HistoryShown

\* Every step is a step of ContentStore or does not show.
LEMMA StepRefines ==
  ASSUME IInv, IInv', [Next]_vars
  PROVE  [Store!StoreNext]_(Store!storeVars)
<1> DEFINE Goal == [Store!StoreNext]_(Store!storeVars)
<1>1. /\ CatalogueOK(entries, chunks) /\ IsTree(entries) /\ IsTree(entries')
      /\ ContentOf(entries) \subseteq 1..Len(chunks)
  BY DEF IInv, CataloguesOK, CatalogueOK
<1>2. CASE UNCHANGED vars
  <2>1. ShownOK /\ ShownOK'
    BY ShownIs, ShownNext
  <2>2. Restored(entries)' = Restored(entries) /\ HistoryShown' = HistoryShown /\ UNCHANGED locked
    BY <1>2, <2>1 DEF ShownOK, vars
  <2> QED BY <2>2 DEF Store!storeVars, HistoryShown
<1>3. ASSUME NEW n \in Names, NEW tree \in Trees, AddSnapshot(n, tree) PROVE Store!StoreNext
  BY <1>3, AddSnapshotTakes DEF Store!StoreNext
<1>4. ASSUME NEW names \in SUBSET Names, Prune(names) PROVE Store!StoreNext
  BY <1>4, PruneDrops DEF Store!StoreNext
<1>5. ASSUME NEW items \in Trees, Add(items) PROVE Store!StoreNext
  <2>1. Store!EditOf(Restoration(chunks, entries), Restoration(chunks', entries'))
    BY <1>1, <1>5, AddReads DEF Add
  <2>2. \A i \in 1..Len(chunks) : chunks'[i] = chunks[i]
    BY <1>5, Capturable, Grown DEF IInv, Add
  <2> QED BY <1>5, <2>1, <2>2, Edits DEF Add, Store!StoreNext
<1>6. ASSUME NEW items \in Trees, NEW kept \in SUBSET DOMAIN entries, Sync(items, kept)
      PROVE  Store!StoreNext
  <2> DEFINE d == Keeping(entries, kept, kept \cup DOMAIN items)
  <2>1. IsKept(d, entries, kept, kept \cup DOMAIN items)
    BY <1>1, Kept
  <2>2. entries' = Over(Captured(items), d) /\ chunks' = ChunksWith(items)
    BY <1>6 DEF Sync, Synced
  <2> HIDE DEF d
  <2>3. IsTree(d) /\ \A p \in DOMAIN d : p \in DOMAIN entries /\ d[p] = entries[p]
    BY <2>1 DEF IsKept
  <2>4. Store!EditOf(Restoration(chunks, entries), Restoration(chunks', entries'))
    BY <2>2, <2>3, AddReads
  <2>5. \A i \in 1..Len(chunks) : chunks'[i] = chunks[i]
    BY <2>2, Capturable, Grown DEF IInv
  <2> QED BY <1>6, <2>4, <2>5, Edits DEF Sync, Store!StoreNext
<1>7. ASSUME ~locked, UNCHANGED <<chunks, snapshots>>,
             \A p \in DOMAIN entries' : p \in DOMAIN entries /\ entries'[p] = entries[p]
      PROVE  Store!StoreNext
  <2>1. Store!EditOf(Restoration(chunks, entries), Restoration(chunks, entries'))
    BY <1>1, <1>7, RemovalReads
  <2>2. Store!EditOf(Restoration(chunks, entries), Restoration(chunks', entries'))
    BY <1>7, <2>1
  <2> QED BY <1>7, <2>2, Edits DEF Store!StoreNext
<1>8. ASSUME NEW kept \in SUBSET DOMAIN entries, SyncRemovals(kept) PROVE Store!StoreNext
  <2> DEFINE d == Keeping(entries, kept, kept)
  <2>1. IsKept(d, entries, kept, kept)
    BY <1>1, Kept
  <2>2. entries' = d
    BY <1>8, SyncRemovalsInv
  <2> HIDE DEF d
  <2>3. \A p \in DOMAIN entries' : p \in DOMAIN entries /\ entries'[p] = entries[p]
    BY <2>1, <2>2 DEF IsKept
  <2> QED BY <1>7, <1>8, <2>3 DEF SyncRemovals
<1>9. ASSUME NEW sign \in BOOLEAN, NEW lock \in BOOLEAN, SetMetadata(sign, lock)
      PROVE  Store!StoreNext
  BY <1>7, <1>9 DEF SetMetadata
<1>10. ASSUME NEW targets \in SUBSET Paths, Delete(targets) PROVE Store!StoreNext
  <2> DEFINE kept == KeptByDelete(targets)
             d == Keeping(entries, kept, kept)
  <2>1. kept \subseteq DOMAIN entries /\ entries' = d
    BY <1>10 DEF KeptByDelete, Delete
  <2> HIDE DEF kept
  <2>2. IsKept(d, entries, kept, kept)
    BY <1>1, <2>1, Kept
  <2> HIDE DEF d
  <2>3. \A p \in DOMAIN entries' : p \in DOMAIN entries /\ entries'[p] = entries[p]
    BY <2>1, <2>2 DEF IsKept
  <2> QED BY <1>7, <1>10, <2>3 DEF Delete
<1>11. ASSUME NEW moves \in Moves, Move(moves) PROVE Store!StoreNext
  BY <1>11, MoveRenames DEF Store!StoreNext
<1>12. CASE Repack
  BY <1>12, RepackHidden
<1> QED BY <1>2, <1>3, <1>4, <1>5, <1>6, <1>8, <1>9, <1>10, <1>11, <1>12 DEF Next

\* What the archive shows through every operation is what ContentStore says.
THEOREM ArchiveIsAStore == Spec => ImplementsStore
<1>1. IInv /\ IInv' /\ [Next]_vars => [Store!StoreNext]_(Store!storeVars)
  BY StepRefines
<1> QED BY <1>1, InitShows, Invariance, PTL DEF Spec, ImplementsStore, Store!StoreSpec
=============================================================================
