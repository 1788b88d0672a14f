---------------------- MODULE ArchiveGenerations_proofs ----------------------
(***************************************************************************)
(* Proofs about ArchiveGenerations for any files, parity and number of     *)
(* operations.                                                             *)
(*                                                                         *)
(* The first part: whatever is appended to an archive, signed, protected,  *)
(* interrupted and rolled back, no step of it touches a segment of the     *)
(* generation it found.  An append cuts the file back twice, to sign it    *)
(* and to add recovery data, at a place it finds by reading the file it    *)
(* has just written.  So the proof is about what that reading finds.       *)
(*                                                                         *)
(* The second part: what the file holds.  Behind every footer there is a   *)
(* whole generation; the ones an update adds are those asked for; and the  *)
(* signature, the history and the recovery service of each are of that     *)
(* generation.                                                             *)
(***************************************************************************)
EXTENDS ArchiveGenerations, NumberSets, SequenceTheorems, TLAPS

\* Files are sequences; of their segments only what positions depend on matters.
IsSeq(f) == \E S : f \in Seq(S)

Readable(s, p) ==
  /\ s.kind # "damaged"
  /\ s.kind = "footer" => s.directory \in Nat \ {0}
  /\ s.kind = "extension" => s.generation \in Nat
  /\ s.kind = "directory" => s.blocks \subseteq 1..p
  /\ s.kind = "recovery" => s = [kind |-> "recovery", protected |-> s.protected,
                                 parity |-> s.parity]

Segment(s, p) == \/ Readable(s, p)
                 \/ s.kind = "damaged" /\ Readable(s.was, p)

FileOK(f) == IsSeq(f) /\ \A p \in 1..Len(f) : Segment(f[p], p)

FilesOK == FileOK(disk) /\ FileOK(temp)

\* l is the layout of the generation that ends at l.footer.
LayoutOf(l, f) ==
  /\ l.footer \in 1..Len(f) /\ FooterShaped(f, l.footer)
  /\ l.directory = NamedDirectory(f, l.footer)
  /\ l.directory \in 1..(l.footer - 1)
  /\ l.extension = ExtensionAt(f, l.directory, l.footer)
  /\ l.generation = IF l.extension = 0 THEN 0 ELSE f[l.extension].generation
  /\ l.generation \in Nat

\* The operation is a record of which these fields are used here.
OpFields == {"mode", "layout", "adds", "blocks", "files", "signature", "sign",
             "recovery", "request", "before"}

OpShape == OpFields \subseteq DOMAIN op

\* The places of an operation that writes a new generation.
Building == {"blocks", "directory", "extension", "footer", "sign", "truncate",
             "recovery", "recovering", "last"}

Modes ==
  /\ pc \in Building \cup {"stage"} => op.mode \in {"append", "rewrite"}
  /\ pc = "protect" => op.mode = "protect"
  /\ pc = "replace" => ~InPlace
  /\ pc = "rollback" => InPlace

\* The generation an append found is there until the append is over.
LayoutKept ==
  pc \in {"stage", "protect"} \/ (InPlace /\ pc # "idle") => LayoutOf(op.layout, disk)

\* The block table names segments of the file in front of the new directory.
BlocksPlaced ==
  /\ pc = "stage" => op.blocks \subseteq 1..op.layout.footer
  /\ pc \in {"blocks", "directory"} => op.blocks \subseteq 1..Len(Staged)

\* Segments between the directory and what follows it.
Behind == IF InPlace THEN 1 ELSE 0

\* The new directory is at d, behind the previous generation, and so is the
\* extension of an append.
DirectoryAt(d) ==
  /\ d \in 1..(Len(Staged) - Behind) /\ Staged[d].kind = "directory"
  /\ op.blocks \subseteq 1..(d - 1)
  /\ InPlace => /\ op.layout.footer < d
                /\ Staged[d + 1] = Extension(op.layout.generation + 1, op.layout)

\* Where the directory is, counted from the end of the file.
TrailerPlaced ==
  LET n == Len(Staged)
  IN  /\ pc = "extension" => /\ InPlace /\ Staged[n].kind = "directory"
                             /\ op.layout.footer < n /\ op.blocks \subseteq 1..(n - 1)
      /\ pc = "footer" => DirectoryAt(n - Behind)
      /\ pc \in {"sign", "truncate", "recovery"} =>
           DirectoryAt(n - Behind - 1) /\ Staged[n] = Footer(n - Behind - 1)
      /\ pc = "truncate" => op.signature[1].prefix = n - Behind - 1
      /\ pc \in {"recovering", "last"} => DirectoryAt(n - Behind - 1)

\* The inductive invariant.
IInv == FilesOK /\ OpShape /\ Modes /\ LayoutKept /\ BlocksPlaced /\ TrailerPlaced

\* What PreviousKept says of a step.
Kept ==
  op'.mode = "append" =>
    /\ Len(disk') >= op'.layout.footer
    /\ Prefix(disk', op'.layout.footer) = Prefix(disk, op'.layout.footer)

----------------------------------------------------------------------------
(* Sequences.                                                              *)

\* A function over 1..n is a sequence of length n.
LEMMA SeqOfFunction ==
  ASSUME NEW f, NEW n \in Nat, f = [p \in 1..n |-> f[p]]
  PROVE  IsSeq(f) /\ Len(f) = n
<1>1. f \in Seq({f[p] : p \in 1..n}) /\ Len(f) = n
  OBVIOUS
<1> QED BY <1>1 DEF IsSeq

\* A sequence is a function over 1..Len.
LEMMA SeqLen ==
  ASSUME NEW f, IsSeq(f)
  PROVE  Len(f) \in Nat /\ DOMAIN f = 1..Len(f) /\ f = [p \in 1..Len(f) |-> f[p]]
  BY DEF IsSeq

\* What Append returns.
LEMMA AppendSeq ==
  ASSUME NEW f, NEW x, IsSeq(f)
  PROVE  /\ IsSeq(Append(f, x))
         /\ Len(Append(f, x)) = Len(f) + 1
         /\ \A p \in 1..Len(f) : Append(f, x)[p] = f[p]
         /\ Append(f, x)[Len(f) + 1] = x
<1>1. PICK S : f \in Seq(S)
  BY DEF IsSeq
<1>2. f \in Seq(S \cup {x}) /\ x \in S \cup {x}
  BY <1>1
<1> QED BY <1>2 DEF IsSeq

\* What Prefix returns.
LEMMA PrefixSeq ==
  ASSUME NEW f, IsSeq(f), NEW n \in 0..Len(f)
  PROVE  /\ IsSeq(Prefix(f, n))
         /\ Len(Prefix(f, n)) = n
         /\ \A p \in 1..n : Prefix(f, n)[p] = f[p]
<1>1. PICK S : f \in Seq(S)
  BY DEF IsSeq
<1>2. Prefix(f, n) \in Seq(S)
  BY <1>1 DEF Prefix
<1> QED BY <1>1, <1>2 DEF IsSeq, Prefix

\* Sequences that agree up to n have the same prefix of n.
LEMMA SamePrefix ==
  ASSUME NEW f, NEW g, IsSeq(f), IsSeq(g), NEW n \in Nat, n <= Len(f), n <= Len(g),
         \A p \in 1..n : f[p] = g[p]
  PROVE  Prefix(f, n) = Prefix(g, n)
<1>1. IsSeq(Prefix(f, n)) /\ IsSeq(Prefix(g, n)) /\ Len(Prefix(f, n)) = n
      /\ Len(Prefix(g, n)) = n /\ \A p \in 1..n : Prefix(f, n)[p] = Prefix(g, n)[p]
  BY PrefixSeq, SeqLen
<1> QED BY <1>1, SeqLen

\* Every element of a file is a segment of its place.
LEMMA SegmentAt ==
  ASSUME NEW f, FileOK(f), NEW p \in 1..Len(f)
  PROVE  Segment(f[p], p)
  BY DEF FileOK

\* Which segments need nothing but their fields' types.
LEMMA SegmentKinds ==
  ASSUME NEW s, NEW p
  PROVE  /\ s.kind \in {"header", "block", "torn"} => Segment(s, p)
         /\ s.kind = "footer" /\ s.directory \in Nat \ {0} => Segment(s, p)
         /\ s.kind = "extension" /\ s.generation \in Nat => Segment(s, p)
         /\ s.kind = "directory" /\ s.blocks \subseteq 1..p => Segment(s, p)
<1>1. s.kind \in {"header", "block", "torn"} => Readable(s, p)
  BY DEF Readable
<1>2. s.kind = "footer" /\ s.directory \in Nat \ {0} => Readable(s, p)
  BY DEF Readable
<1>3. s.kind = "extension" /\ s.generation \in Nat => Readable(s, p)
  BY DEF Readable
<1>4. s.kind = "directory" /\ s.blocks \subseteq 1..p => Readable(s, p)
  BY DEF Readable
<1> QED BY <1>1, <1>2, <1>3, <1>4 DEF Segment

\* The segments an operation writes are segments.
LEMMA NewSegments ==
  ASSUME NEW n \in Nat, NEW p \in Nat
  PROVE  /\ \A i : Segment(Block(i), p)
         /\ Segment(Header, p) /\ Segment(Torn, p) /\ Segment(Recovery(n), p)
         /\ n # 0 => Segment(Footer(n), p)
         /\ \A b, f, s : b \subseteq 1..p => Segment(Directory(b, f, s), p)
         /\ \A l : Segment(Extension(n, l), p)
<1>1. Segment(Recovery(n), p)
  <2>1. /\ Recovery(n).kind = "recovery" /\ Recovery(n).protected = n
        /\ Recovery(n).parity = Parity
        /\ Recovery(n) = [kind |-> "recovery", protected |-> n, parity |-> Parity]
    BY DEF Recovery
  <2>2. Readable(Recovery(n), p)
    BY <2>1 DEF Readable
  <2> QED BY <2>2 DEF Segment
<1>2. Segment(Header, p) /\ Segment(Torn, p) /\ \A i : Segment(Block(i), p)
  <2>1. Header.kind = "header" /\ Torn.kind = "torn" /\ \A i : Block(i).kind = "block"
    BY DEF Header, Torn, Block
  <2> QED BY <2>1, SegmentKinds
<1>3. n # 0 => Segment(Footer(n), p)
  <2>1. Footer(n).kind = "footer" /\ Footer(n).directory = n
    BY DEF Footer
  <2> QED BY <2>1, SegmentKinds
<1>4. \A b, f, s : b \subseteq 1..p => Segment(Directory(b, f, s), p)
  <2> SUFFICES ASSUME NEW b, NEW f, NEW s, b \subseteq 1..p
               PROVE  Segment(Directory(b, f, s), p)
    OBVIOUS
  <2>1. Directory(b, f, s).kind = "directory" /\ Directory(b, f, s).blocks = b
    BY DEF Directory
  <2> QED BY <2>1, SegmentKinds
<1>5. \A l : Segment(Extension(n, l), p)
  <2> SUFFICES ASSUME NEW l PROVE Segment(Extension(n, l), p)
    OBVIOUS
  <2>1. Extension(n, l).kind = "extension" /\ Extension(n, l).generation = n
    BY DEF Extension
  <2> QED BY <2>1, SegmentKinds
<1> QED BY <1>1, <1>2, <1>3, <1>4, <1>5

\* Recovery data is a segment wherever it is.
LEMMA RecoverySegment == \A n, p : Segment(Recovery(n), p)
<1> SUFFICES ASSUME NEW n, NEW p PROVE Segment(Recovery(n), p)
  OBVIOUS
<1>1. /\ Recovery(n).kind = "recovery" /\ Recovery(n).protected = n
      /\ Recovery(n).parity = Parity
      /\ Recovery(n) = [kind |-> "recovery", protected |-> n, parity |-> Parity]
  BY DEF Recovery
<1>2. Readable(Recovery(n), p)
  BY <1>1 DEF Readable
<1> QED BY <1>2 DEF Segment

\* What a segment was is a segment, and what goes bad was one.
LEMMA SoundSegment ==
  ASSUME NEW s, NEW p, Segment(s, p)
  PROVE  Segment(Sound(s), p)
<1>1. CASE s.kind = "damaged"
  BY <1>1 DEF Sound, Segment, Readable
<1>2. CASE s.kind = "recovery"
  BY <1>2, RecoverySegment DEF Sound
<1>3. CASE s.kind \notin {"damaged", "recovery"}
  BY <1>3 DEF Sound
<1> QED BY <1>1, <1>2, <1>3

\* What becomes of a sound segment that goes bad is a segment.
LEMMA DamagedSegment ==
  ASSUME NEW s, NEW p, Segment(s, p), s = Sound(s)
  PROVE  /\ Segment(Damaged(s), p)
         /\ s.kind = "recovery" => Segment([s EXCEPT !.parity = @ - 1], p)
<1>1. Readable(s, p)
  BY DEF Segment, Sound, Readable
<1>2. Segment(Damaged(s), p)
  <2>1. Damaged(s).kind = "damaged" /\ Damaged(s).was = s
    BY DEF Damaged
  <2> QED BY <1>1, <2>1 DEF Segment
<1>3. ASSUME s.kind = "recovery" PROVE Segment([s EXCEPT !.parity = @ - 1], p)
  <2> DEFINE r == [s EXCEPT !.parity = @ - 1]
  <2>1. s = [kind |-> "recovery", protected |-> s.protected, parity |-> s.parity]
    BY <1>1, <1>3 DEF Readable
  <2>2. r = [kind |-> "recovery", protected |-> s.protected, parity |-> s.parity - 1]
    BY <2>1
  <2>3. /\ r.kind = "recovery"
        /\ r = [kind |-> "recovery", protected |-> r.protected, parity |-> r.parity]
    BY <2>2
  <2> HIDE DEF r
  <2>4. Readable(r, p)
    BY <2>3 DEF Readable
  <2>5. Segment(r, p)
    BY <2>4 DEF Segment
  <2> QED BY <2>5 DEF r
<1> QED BY <1>2, <1>3

\* A file with a segment appended is a file.
LEMMA FileAppend ==
  ASSUME NEW f, NEW x, FileOK(f), Segment(x, Len(f) + 1)
  PROVE  FileOK(Append(f, x))
  BY AppendSeq, SeqLen DEF FileOK

\* The beginning of a file is a file.
LEMMA FilePrefix ==
  ASSUME NEW f, FileOK(f), NEW n \in 0..Len(f)
  PROVE  FileOK(Prefix(f, n))
  BY PrefixSeq, SeqLen DEF FileOK

\* Concatenation with a sequence of one or no element.
LEMMA AppendOne ==
  ASSUME NEW f, NEW x, IsSeq(f)
  PROVE  f \o <<x>> = Append(f, x) /\ f \o <<>> = f
<1>1. PICK S : f \in Seq(S)
  BY DEF IsSeq
<1>2. f \in Seq(S \cup {x}) /\ <<x>> \in Seq(S \cup {x})
  BY <1>1
<1>3. f \o <<x>> = Append(f, x)
  BY <1>2, AppendIsConcat
<1> QED BY <1>1, <1>3, ConcatEmptySeq

\* A file continued by segments of the places they get is a file.
LEMMA FileConcat ==
  ASSUME NEW f, NEW g, FileOK(f), IsSeq(g),
         \A p \in 1..Len(g) : Segment(g[p], Len(f) + p)
  PROVE  /\ FileOK(f \o g) /\ Len(f \o g) = Len(f) + Len(g)
         /\ \A p \in 1..Len(f) : (f \o g)[p] = f[p]
<1>1. PICK S : f \in Seq(S)
  BY DEF FileOK, IsSeq
<1>2. PICK T : g \in Seq(T)
  BY DEF IsSeq
<1>3. f \in Seq(S \cup T) /\ g \in Seq(S \cup T)
  BY <1>1, <1>2
<1>4. /\ f \o g \in Seq(S \cup T) /\ Len(f \o g) = Len(f) + Len(g)
      /\ \A p \in 1..(Len(f) + Len(g)) :
           (f \o g)[p] = IF p <= Len(f) THEN f[p] ELSE g[p - Len(f)]
  BY <1>3, ConcatProperties
<1>5. Len(f) \in Nat /\ Len(g) \in Nat
  BY <1>3
<1>6. ASSUME NEW p \in 1..(Len(f) + Len(g)) PROVE Segment((f \o g)[p], p)
  <2>1. CASE p <= Len(f)
    BY <1>4, <1>5, <2>1, SegmentAt
  <2>2. CASE p > Len(f)
    <3> DEFINE q == p - Len(f)
    <3>1. q \in 1..Len(g) /\ p = Len(f) + q
      BY <1>5, <2>2
    <3>2. (f \o g)[p] = g[q]
      BY <1>4, <1>5, <2>2
    <3> HIDE DEF q
    <3> QED BY <3>1, <3>2
  <2> QED BY <1>5, <2>1, <2>2
<1>7. IsSeq(f \o g)
  BY <1>4 DEF IsSeq
<1> QED BY <1>4, <1>5, <1>6, <1>7 DEF FileOK

\* The empty sequence and the sequence of one element.
LEMMA ShortSeqs ==
  ASSUME NEW a
  PROVE  /\ IsSeq(<<>>) /\ Len(<<>>) = 0
         /\ IsSeq(<<a>>) /\ Len(<<a>>) = 1 /\ <<a>>[1] = a
<1>1. <<>> \in Seq({a}) /\ <<a>> \in Seq({a})
  OBVIOUS
<1> QED BY <1>1 DEF IsSeq

\* Three segments in a row.
LEMMA ThreeSegments ==
  ASSUME NEW a, NEW b, NEW c, NEW n,
         Segment(a, n + 1), Segment(b, n + 2), Segment(c, n + 3)
  PROVE  /\ IsSeq(<<a, b, c>>) /\ Len(<<a, b, c>>) = 3
         /\ \A p \in 1..Len(<<a, b, c>>) : Segment(<<a, b, c>>[p], n + p)
<1> DEFINE f == <<a, b, c>>
<1>1. f \in Seq({a, b, c}) /\ Len(f) = 3 /\ f[1] = a /\ f[2] = b /\ f[3] = c
  OBVIOUS
<1> HIDE DEF f
<1>2. \A p \in 1..3 : p = 1 \/ p = 2 \/ p = 3
  OBVIOUS
<1>3. \A p \in 1..3 : Segment(f[p], n + p)
  BY <1>1, <1>2
<1>4. IsSeq(f)
  BY <1>1 DEF IsSeq
<1>5. Len(f) = 3 /\ \A p \in 1..Len(f) : Segment(f[p], n + p)
  BY <1>1, <1>3
<1> QED BY <1>4, <1>5 DEF f

\* Two segments in a row.
LEMMA TwoSegments ==
  ASSUME NEW a, NEW b, NEW n, Segment(a, n + 1), Segment(b, n + 2)
  PROVE  IsSeq(<<a, b>>) /\ \A p \in 1..Len(<<a, b>>) : Segment(<<a, b>>[p], n + p)
<1> DEFINE f == <<a, b>>
<1>1. f \in Seq({a, b}) /\ Len(f) = 2 /\ f[1] = a /\ f[2] = b
  OBVIOUS
<1> HIDE DEF f
<1>2. \A p \in 1..2 : p = 1 \/ p = 2
  OBVIOUS
<1>3. \A p \in 1..2 : Segment(f[p], n + p)
  BY <1>1, <1>2
<1>4. IsSeq(f)
  BY <1>1 DEF IsSeq
<1>5. \A p \in 1..Len(f) : Segment(f[p], n + p)
  BY <1>1, <1>3
<1> QED BY <1>4, <1>5 DEF f

\* An absent temporary file.
LEMMA EmptyFile == FileOK(<<>>)
<1>1. <<>> \in Seq({})
  OBVIOUS
<1> QED BY <1>1 DEF FileOK, IsSeq

----------------------------------------------------------------------------
(* What reading a file finds.                                              *)

\* The layout read from a file is that of a generation in it.
LEMMA ReadsLayout ==
  ASSUME NEW f, FileOK(f), LayoutReadable(f)
  PROVE  LayoutOf(ReadLayout(f), f)
<1> DEFINE found == {p \in 1..Len(f) : FooterShaped(f, p) /\ ExtensionValid(f, p)}
           l == ReadLayout(f)
           p == LatestFooter(f)
<1>1. Len(f) \in Nat
  BY SeqLen DEF FileOK
<1>2. p \in found
  <2>1. found \cup {0} \subseteq 0..Len(f) /\ found \cup {0} # {}
    BY <1>1
  <2>2. p = Max(found \cup {0}) /\ p # 0
    BY DEF LayoutReadable, LatestFooter
  <2> HIDE DEF found, p
  <2> QED BY <1>1, <2>1, <2>2, MaxOfNumbers
<1>3. p \in 1..Len(f) /\ FooterShaped(f, p) /\ f[1] = Header
  BY <1>2 DEF LayoutReadable
<1> HIDE DEF found, p
<1>4. NamedDirectory(f, p) \in 1..(p - 1)
  <2>1. p # 1
    BY <1>3 DEF FooterShaped, Header
  <2>2. CASE f[p].kind = "footer"
    <3>1. f[p].directory \in Nat \ {0}
      BY <1>3, <2>2, SegmentAt DEF Segment, Readable
    <3>2. f[p].directory < p
      BY <1>3, <2>2 DEF FooterShaped
    <3> QED BY <1>1, <1>3, <2>2, <3>1, <3>2 DEF NamedDirectory
  <2>3. CASE f[p].kind # "footer"
    BY <1>1, <1>3, <2>1, <2>3 DEF NamedDirectory
  <2> QED BY <2>2, <2>3
<1>5. /\ l.footer = p /\ l.directory = NamedDirectory(f, p)
      /\ l.extension = ExtensionAt(f, NamedDirectory(f, p), p)
      /\ l.generation = IF l.extension = 0 THEN 0 ELSE f[l.extension].generation
  BY DEF ReadLayout, p
<1>6. l.generation \in Nat
  <2>1. CASE l.extension = 0
    BY <1>5, <2>1
  <2>2. CASE l.extension # 0
    <3>1. l.extension \in 1..Len(f) /\ f[l.extension].kind = "extension"
      BY <1>1, <1>3, <1>4, <1>5, <2>2 DEF ExtensionAt
    <3>2. f[l.extension].generation \in Nat
      BY <3>1, SegmentAt DEF Segment, Readable
    <3> QED BY <1>5, <2>2, <3>2
  <2> QED BY <2>1, <2>2
<1>7. LayoutOf(l, f)
  <2> HIDE DEF l
  <2> QED BY <1>3, <1>4, <1>5, <1>6 DEF LayoutOf
<1> QED BY <1>7

\* A generation stays where it is while nothing in it changes.
LEMMA LayoutStays ==
  ASSUME NEW f, NEW g, NEW l, IsSeq(f), IsSeq(g), LayoutOf(l, f),
         l.footer <= Len(g), \A p \in 1..l.footer : g[p] = f[p]
  PROVE  LayoutOf(l, g)
<1>1. Len(f) \in Nat /\ Len(g) \in Nat
  BY SeqLen
<1>2. l.footer \in 1..Len(g) /\ g[l.footer] = f[l.footer]
  BY <1>1 DEF LayoutOf
<1>3. FooterShaped(g, l.footer) /\ NamedDirectory(g, l.footer) = NamedDirectory(f, l.footer)
  BY <1>2 DEF FooterShaped, NamedDirectory, LayoutOf
<1>4. ExtensionAt(g, l.directory, l.footer) = ExtensionAt(f, l.directory, l.footer)
  BY <1>1 DEF ExtensionAt, LayoutOf
<1>5. l.extension # 0 => l.extension \in 1..l.footer
  BY <1>1 DEF ExtensionAt, LayoutOf
<1> QED BY <1>2, <1>3, <1>4, <1>5 DEF LayoutOf

\* A file that ends with a directory and its footer is read from there.
LEMMA ReadsRewritten ==
  ASSUME NEW f, FileOK(f), Len(f) >= 2, f[Len(f)] = Footer(Len(f) - 1)
  PROVE  /\ ReadLayout(f).directory = Len(f) - 1
         /\ ReadLayout(f).extension = 0
<1> DEFINE n == Len(f)
           found == {p \in 1..n : FooterShaped(f, p) /\ ExtensionValid(f, p)}
<1>1. n \in Nat /\ n >= 2
  BY SeqLen DEF FileOK
<1>2. FooterShaped(f, n) /\ NamedDirectory(f, n) = n - 1 /\ ExtensionAt(f, n - 1, n) = 0
  BY <1>1 DEF FooterShaped, NamedDirectory, Footer, ExtensionAt
<1>3. n \in found
  BY <1>1, <1>2 DEF ExtensionValid
<1>4. LatestFooter(f) = n
  <2>1. found \cup {0} \subseteq Nat /\ \A y \in found \cup {0} : y <= n
    BY <1>1
  <2>2. n \in found \cup {0}
    BY <1>3
  <2>3. LatestFooter(f) = Max(found \cup {0})
    BY DEF LatestFooter
  <2> HIDE DEF found, n
  <2> QED BY <2>1, <2>2, <2>3, MaxIs
<1> HIDE DEF n
<1> QED BY <1>2, <1>4 DEF ReadLayout, n

\* A file that ends with a directory, an extension that names an earlier
\* generation of the file, and its footer is read from there.
LEMMA ReadsAppended ==
  ASSUME NEW f, NEW l, FileOK(f), LayoutOf(l, f), l.footer < Len(f) - 2,
         f[Len(f)] = Footer(Len(f) - 2),
         f[Len(f) - 1] = Extension(l.generation + 1, l)
  PROVE  /\ ReadLayout(f).directory = Len(f) - 2
         /\ ReadLayout(f).extension = Len(f) - 1
<1> DEFINE n == Len(f)
           found == {p \in 1..n : FooterShaped(f, p) /\ ExtensionValid(f, p)}
           x == f[n - 1]
<1>1. n \in Nat /\ n >= 4 /\ l.footer \in 1..(n - 3)
  BY SeqLen DEF FileOK, LayoutOf
<1>2. FooterShaped(f, n) /\ NamedDirectory(f, n) = n - 2
  BY <1>1 DEF FooterShaped, NamedDirectory, Footer
<1>3. ExtensionAt(f, n - 2, n) = n - 1
  BY <1>1 DEF ExtensionAt, Extension
<1>4. x.prevFooter = l.footer /\ x.prevDirectory = l.directory
      /\ x.prevExtension = l.extension /\ x.generation = l.generation + 1
  BY DEF Extension
<1>5. ExtensionValid(f, n)
  <2>1. x.prevFooter < n - 2 /\ FooterShaped(f, x.prevFooter)
        /\ NamedDirectory(f, x.prevFooter) = x.prevDirectory
    BY <1>1, <1>4 DEF LayoutOf
  <2>2. CASE l.extension = 0
    <3>1. l.generation = 0
      BY <2>2 DEF LayoutOf
    <3> QED BY <1>1, <1>2, <1>3, <1>4, <2>1, <2>2, <3>1 DEF ExtensionValid
  <2>3. CASE l.extension # 0
    <3>1. l.extension = l.directory + 1 /\ f[l.extension].kind = "extension"
          /\ f[l.extension].generation = l.generation
      BY <2>3 DEF LayoutOf, ExtensionAt
    <3> QED BY <1>1, <1>2, <1>3, <1>4, <2>1, <2>3, <3>1 DEF ExtensionValid
  <2> QED BY <2>2, <2>3
<1>6. LatestFooter(f) = n
  <2>1. found \cup {0} \subseteq Nat /\ \A y \in found \cup {0} : y <= n
    BY <1>1
  <2>2. n \in found \cup {0}
    BY <1>1, <1>2, <1>5
  <2>3. LatestFooter(f) = Max(found \cup {0})
    BY DEF LatestFooter
  <2> HIDE DEF found, n
  <2> QED BY <2>1, <2>2, <2>3, MaxIs
<1> HIDE DEF n, x
<1> QED BY <1>2, <1>3, <1>6 DEF ReadLayout, n

\* The file an operation works on, and the archive, are files.
LEMMA StagedOK ==
  ASSUME IInv
  PROVE  /\ FileOK(Staged) /\ IsSeq(Staged) /\ Len(Staged) \in Nat
         /\ FileOK(disk) /\ IsSeq(disk) /\ Len(disk) \in Nat
  BY SeqLen DEF IInv, FilesOK, FileOK, Staged

\* The staged archive is read from where it was just finished.
LEMMA ReadsStaged ==
  ASSUME IInv, pc \in {"sign", "recovery"}
  PROVE  /\ ReadLayout(Staged).directory = Len(Staged) - Behind - 1
         /\ ProtectedEnd(ReadLayout(Staged)) = Len(Staged) - 1
<1> USE DEF IInv, Modes
<1>1. Len(Staged) \in Nat /\ FileOK(Staged)
  BY SeqLen DEF FilesOK, Staged, FileOK
<1>2. DirectoryAt(Len(Staged) - Behind - 1)
      /\ Staged[Len(Staged)] = Footer(Len(Staged) - Behind - 1)
  BY DEF TrailerPlaced
<1>3. CASE InPlace
  <2>1. Staged = disk /\ Behind = 1 /\ LayoutOf(op.layout, Staged)
    BY <1>3 DEF Staged, Behind, LayoutKept
  <2> QED BY <1>1, <1>2, <1>3, <2>1, ReadsAppended DEF DirectoryAt, ProtectedEnd
<1>4. CASE ~InPlace
  <2>1. Behind = 0
    BY <1>4 DEF Behind
  <2> QED BY <1>1, <1>2, <2>1, ReadsRewritten DEF DirectoryAt, ProtectedEnd
<1> QED BY <1>3, <1>4

----------------------------------------------------------------------------
(* Steps that build a generation.                                          *)

\* Putting f in place of the staged archive.
LEMMA PutKeeps ==
  ASSUME NEW f, IInv, pc \in Building, Put(f), FileOK(f),
         op'.mode = op.mode, op'.layout = op.layout,
         InPlace => /\ op.layout.footer <= Len(f)
                    /\ \A p \in 1..op.layout.footer : f[p] = disk[p]
  PROVE  /\ FilesOK' /\ Staged' = f /\ Kept
         /\ InPlace => LayoutOf(op'.layout, disk')
<1> USE DEF IInv, Building, InPlace
<1>1. FilesOK' /\ Staged' = f
  BY DEF Put, FilesOK, Staged
<1>2. CASE InPlace
  <2>1. disk' = f /\ IsSeq(f) /\ IsSeq(disk)
    BY <1>2 DEF Put, FilesOK, FileOK
  <2>2. LayoutOf(op.layout, disk)
    BY <1>2 DEF LayoutKept
  <2>3. LayoutOf(op.layout, f)
    BY <1>2, <2>1, <2>2, LayoutStays
  <2>4. op.layout.footer \in Nat /\ op.layout.footer <= Len(disk) /\ Len(f) \in Nat
    BY <2>1, <2>2, SeqLen DEF LayoutOf
  <2>5. Prefix(f, op.layout.footer) = Prefix(disk, op.layout.footer)
    BY <1>2, <2>1, <2>4, SamePrefix
  <2>6. Kept
    BY <1>2, <2>1, <2>4, <2>5 DEF Kept
  <2> QED BY <1>1, <2>1, <2>3, <2>6
<1>3. CASE ~InPlace
  BY <1>1, <1>3 DEF Kept
<1> QED BY <1>2, <1>3

\* Appending one segment to it.
LEMMA AppendKeeps ==
  ASSUME NEW x, IInv, pc \in Building, Put(Append(Staged, x)),
         Segment(x, Len(Staged) + 1), op'.mode = op.mode, op'.layout = op.layout
  PROVE  /\ FilesOK' /\ Kept
         /\ InPlace => LayoutOf(op'.layout, disk')
         /\ Len(Staged) \in Nat /\ Len(Staged') = Len(Staged) + 1
         /\ \A p \in 1..Len(Staged) : Staged'[p] = Staged[p]
         /\ Staged'[Len(Staged) + 1] = x
<1> DEFINE f == Append(Staged, x)
<1>1. IsSeq(Staged) /\ FileOK(Staged)
  BY DEF IInv, FilesOK, FileOK, Staged
<1>2. /\ FileOK(f) /\ Len(Staged) \in Nat /\ Len(f) = Len(Staged) + 1
      /\ \A p \in 1..Len(Staged) : f[p] = Staged[p]
      /\ f[Len(Staged) + 1] = x
  BY <1>1, FileAppend, AppendSeq, SeqLen
<1> HIDE DEF f
<1>3. InPlace => /\ op.layout.footer <= Len(f)
                 /\ \A p \in 1..op.layout.footer : f[p] = disk[p]
  BY <1>2 DEF IInv, LayoutKept, LayoutOf, Staged, Building
<1>4. Put(f)
  BY DEF f
<1> QED BY <1>2, <1>3, <1>4, PutKeeps

\* Cutting it back, behind the previous generation.
LEMMA CutKeeps ==
  ASSUME NEW n \in 0..Len(Staged), IInv, pc \in Building,
         InPlace => op.layout.footer <= n
  PROVE  /\ FileOK(Prefix(Staged, n)) /\ Len(Prefix(Staged, n)) = n
         /\ \A p \in 1..n : Prefix(Staged, n)[p] = Staged[p]
         /\ InPlace => \A p \in 1..op.layout.footer : Prefix(Staged, n)[p] = disk[p]
<1>1. IsSeq(Staged) /\ FileOK(Staged) /\ Len(Staged) \in Nat
  BY SeqLen DEF IInv, FilesOK, FileOK, Staged
<1>2. /\ FileOK(Prefix(Staged, n)) /\ Len(Prefix(Staged, n)) = n
      /\ \A p \in 1..n : Prefix(Staged, n)[p] = Staged[p]
  BY <1>1, FilePrefix, PrefixSeq
<1>3. InPlace => op.layout.footer \in 1..n /\ Staged = disk
  BY DEF IInv, LayoutKept, LayoutOf, Building, Staged
<1> QED BY <1>2, <1>3

\* The directory is found where it was written.
LEMMA FindsDirectory ==
  ASSUME IInv, pc \in {"footer", "last"}
  PROVE  /\ DirectoryWritten \in 1..Len(Staged)
         /\ pc = "footer" => DirectoryWritten = Len(Staged) - Behind
<1> DEFINE n == Len(Staged)
           D == {p \in DOMAIN Staged : Staged[p].kind = "directory"}
           d == IF pc = "footer" THEN n - Behind ELSE n - Behind - 1
<1>1. n \in Nat /\ DOMAIN Staged = 1..n
  BY SeqLen DEF IInv, FilesOK, FileOK, Staged
<1>2. DirectoryAt(d)
  BY DEF IInv, TrailerPlaced
<1>3. d \in D /\ D \subseteq 0..n /\ D \subseteq 1..n /\ D \subseteq Nat
  BY <1>1, <1>2 DEF DirectoryAt, Behind
<1>4. pc = "footer" => \A p \in D : p <= d
  <2> SUFFICES ASSUME pc = "footer", NEW p \in D, p > d PROVE FALSE
    BY <1>1, <1>3
  <2>1. d \in 1..n /\ p \in 1..n /\ d = n - Behind /\ Behind \in {0, 1}
    BY <1>3 DEF Behind
  <2>2. Behind = 1 /\ p = n /\ p = d + 1
    BY <1>1, <2>1
  <2>3. Staged[p].kind = "extension"
    BY <1>2, <2>2 DEF DirectoryAt, Behind, Extension
  <2> QED BY <2>3
<1>5. DirectoryWritten = Max(D)
  BY DEF DirectoryWritten
<1> HIDE DEF D, n, d
<1>6. Max(D) \in D
  BY <1>1, <1>3, MaxOfNumbers
<1>7. pc = "footer" => Max(D) = d
  BY <1>3, <1>4, MaxIs
<1> QED BY <1>3, <1>5, <1>6, <1>7 DEF n, d

\* A new block goes behind all others.
LEMMA WriteBlockInv ==
  ASSUME IInv, NEW i \in Item, WriteBlock(i)
  PROVE  IInv' /\ Kept
<1> DEFINE x == Block(i)
<1>1. Segment(x, Len(Staged) + 1)
  BY NewSegments, StagedOK
<1>2. /\ op'.mode = op.mode /\ op'.layout = op.layout /\ DOMAIN op' = DOMAIN op
      /\ op'.blocks = op.blocks \cup {Len(Staged) + 1} /\ pc = "blocks" /\ pc' = pc
      /\ Put(Append(Staged, x))
  BY DEF WriteBlock, IInv, OpShape, OpFields
<1> HIDE DEF x
<1>3. /\ FilesOK' /\ Kept
      /\ InPlace => LayoutOf(op'.layout, disk')
      /\ Len(Staged) \in Nat /\ Len(Staged') = Len(Staged) + 1
  BY <1>1, <1>2, AppendKeeps DEF Building
<1>4. BlocksPlaced'
  BY <1>2, <1>3 DEF IInv, BlocksPlaced
<1>5. InPlace' = InPlace
  BY <1>2 DEF InPlace
<1>6. OpShape' /\ Modes'
  BY <1>2, <1>5 DEF IInv, OpShape, OpFields, Modes, Building
<1>7. LayoutKept' /\ TrailerPlaced'
  BY <1>2, <1>3, <1>5 DEF LayoutKept, TrailerPlaced
<1> QED BY <1>3, <1>4, <1>6, <1>7 DEF IInv

\* The directory is the last segment, and names blocks in front of it.
LEMMA WriteDirectoryInv ==
  ASSUME IInv, WriteDirectory
  PROVE  IInv' /\ Kept
<1> DEFINE x == Directory(op.blocks, op.files, op.signature)
           n == Len(Staged)
<1>1. n \in Nat /\ op.blocks \subseteq 1..n
  BY SeqLen DEF IInv, FilesOK, FileOK, Staged, WriteDirectory, BlocksPlaced
<1>2. Segment(x, n + 1) /\ x.kind = "directory"
  BY <1>1, NewSegments DEF Directory
<1>3. /\ op' = op /\ pc \in {"blocks", "directory"} /\ Put(Append(Staged, x))
      /\ pc' = IF InPlace THEN "extension" ELSE "footer"
  BY DEF WriteDirectory
<1> HIDE DEF x
<1>4. /\ FilesOK' /\ Kept
      /\ InPlace => LayoutOf(op'.layout, disk')
      /\ Len(Staged') = n + 1 /\ Staged'[n + 1] = x
  BY <1>2, <1>3, AppendKeeps DEF Building
<1>5. InPlace => op.layout.footer < n + 1
  BY <1>1, <1>3 DEF IInv, LayoutKept, LayoutOf, Staged
<1>6. InPlace' = InPlace /\ Behind' = Behind /\ (~InPlace => Behind = 0)
  BY <1>3 DEF InPlace, Behind
<1>7. TrailerPlaced'
  BY <1>1, <1>2, <1>3, <1>4, <1>5, <1>6 DEF TrailerPlaced, DirectoryAt
<1>8. OpShape' /\ Modes'
  BY <1>3, <1>6 DEF IInv, OpShape, OpFields, Modes, Building
<1>9. LayoutKept' /\ BlocksPlaced'
  BY <1>3, <1>4, <1>6 DEF LayoutKept, BlocksPlaced
<1> QED BY <1>4, <1>7, <1>8, <1>9 DEF IInv

\* The extension follows the directory of an append.
LEMMA WriteExtensionInv ==
  ASSUME IInv, WriteExtension
  PROVE  IInv' /\ Kept
<1> DEFINE x == Extension(op.layout.generation + 1, op.layout)
           n == Len(Staged)
<1>1. InPlace /\ LayoutOf(op.layout, disk)
  BY DEF IInv, WriteExtension, TrailerPlaced, LayoutKept
<1>2. Segment(x, n + 1)
  <2>1. op.layout.generation + 1 \in Nat /\ n + 1 \in Nat
    BY <1>1, StagedOK DEF LayoutOf
  <2> HIDE DEF n
  <2> QED BY <2>1, NewSegments
<1>3. op' = op /\ pc = "extension" /\ pc' = "footer" /\ Put(Append(Staged, x))
  BY DEF WriteExtension
<1> HIDE DEF x
<1>4. /\ FilesOK' /\ Kept /\ LayoutOf(op'.layout, disk')
      /\ n \in Nat /\ Len(Staged') = n + 1
      /\ \A p \in 1..n : Staged'[p] = Staged[p]
      /\ Staged'[n + 1] = x
  BY <1>1, <1>2, <1>3, AppendKeeps DEF Building
<1>5. InPlace' /\ Behind' = 1
  BY <1>1, <1>3 DEF InPlace, Behind
<1>6. n \in 1..n /\ Staged[n].kind = "directory" /\ op.layout.footer < n
      /\ op.blocks \subseteq 1..(n - 1)
  BY <1>1, <1>3, <1>4 DEF IInv, TrailerPlaced, LayoutOf
<1>7. TrailerPlaced'
  BY <1>3, <1>4, <1>5, <1>6 DEF TrailerPlaced, DirectoryAt, x
<1>8. OpShape' /\ Modes'
  BY <1>3, <1>5 DEF IInv, OpShape, OpFields, Modes, Building
<1>9. LayoutKept' /\ BlocksPlaced'
  BY <1>3, <1>4, <1>5 DEF LayoutKept, BlocksPlaced
<1> QED BY <1>4, <1>7, <1>8, <1>9 DEF IInv

\* The footer names the directory that was just written.
LEMMA WriteFooterInv ==
  ASSUME IInv, WriteFooter
  PROVE  IInv' /\ Kept
<1> DEFINE x == Footer(DirectoryWritten)
           n == Len(Staged)
<1>1. DirectoryWritten = n - Behind /\ DirectoryWritten \in 1..n /\ DirectoryAt(n - Behind)
  BY FindsDirectory DEF WriteFooter, IInv, TrailerPlaced
<1>2. Segment(x, n + 1)
  BY <1>1, StagedOK, NewSegments
<1>3. /\ op' = op /\ pc = "footer" /\ Put(Append(Staged, x))
      /\ pc' \in {"sign", "recovery", "report", "replace"}
      /\ pc' = "replace" => ~InPlace
  BY DEF WriteFooter, AfterFooter, Finished
<1> HIDE DEF x
<1>4. /\ FilesOK' /\ Kept
      /\ InPlace => LayoutOf(op'.layout, disk')
      /\ n \in Nat /\ Len(Staged') = n + 1
      /\ \A p \in 1..n : Staged'[p] = Staged[p]
      /\ Staged'[n + 1] = x
  BY <1>2, <1>3, AppendKeeps DEF Building
<1>5. InPlace' = InPlace /\ Behind' = Behind /\ Behind = IF InPlace THEN 1 ELSE 0
  BY <1>3 DEF InPlace, Behind
<1> DEFINE d == n - Behind
<1>6. d \in 1..n /\ Len(Staged') - Behind' - 1 = d
  BY <1>1, <1>4, <1>5
<1>7. TrailerPlaced'
  <2>1. /\ d \in 1..(Len(Staged') - Behind') /\ Staged'[d].kind = "directory"
        /\ op'.blocks \subseteq 1..(d - 1)
    <3>1. Staged[d].kind = "directory" /\ op.blocks \subseteq 1..(d - 1)
      BY <1>1 DEF DirectoryAt
    <3>2. d \in 1..(Len(Staged') - Behind')
      BY <1>4, <1>5, <1>6
    <3> HIDE DEF d
    <3> QED BY <1>3, <1>4, <1>6, <3>1, <3>2
  <2>2. InPlace => op.layout.footer < d /\ d + 1 \in 1..n
                   /\ Staged[d + 1] = Extension(op.layout.generation + 1, op.layout)
    BY <1>1, <1>4, <1>5 DEF DirectoryAt
  <2>3. DirectoryAt(Len(Staged) - Behind - 1)'
    <3> HIDE DEF d
    <3> QED BY <1>3, <1>4, <1>5, <1>6, <2>1, <2>2 DEF DirectoryAt
  <2>4. Staged'[Len(Staged')] = Footer(Len(Staged') - Behind' - 1)
    BY <1>1, <1>4, <1>6 DEF x
  <2> QED BY <1>3, <2>3, <2>4 DEF TrailerPlaced
<1>8. OpShape' /\ Modes'
  BY <1>3, <1>5 DEF IInv, OpShape, OpFields, Modes, Building
<1>9. LayoutKept' /\ BlocksPlaced'
  BY <1>3, <1>4, <1>5 DEF LayoutKept, BlocksPlaced
<1> QED BY <1>4, <1>7, <1>8, <1>9 DEF IInv

\* The signature's prefix ends where the directory is.
LEMMA SignInv ==
  ASSUME IInv, Sign
  PROVE  IInv' /\ Kept
<1>1. /\ pc = "sign" /\ pc' = "truncate" /\ disk' = disk /\ temp' = temp
      /\ op'.mode = op.mode /\ op'.layout = op.layout /\ op'.blocks = op.blocks
      /\ DOMAIN op' = DOMAIN op
      /\ op'.signature[1].prefix = ReadLayout(Staged).directory
  BY DEF Sign, Digest, IInv, OpShape, OpFields
<1>2. InPlace' = InPlace /\ Behind' = Behind /\ Staged' = Staged
  BY <1>1 DEF InPlace, Behind, Staged
<1>3. Kept
  BY <1>1, <1>2, StagedOK DEF Kept, IInv, LayoutKept, LayoutOf, InPlace
<1>4. FilesOK' /\ OpShape' /\ Modes'
  BY <1>1, <1>2 DEF IInv, FilesOK, OpShape, OpFields, Modes, Building
<1>5. LayoutKept' /\ BlocksPlaced'
  BY <1>1, <1>2 DEF IInv, LayoutKept, BlocksPlaced
<1>6. TrailerPlaced'
  BY <1>1, <1>2, ReadsStaged DEF IInv, TrailerPlaced, DirectoryAt
<1> QED BY <1>3, <1>4, <1>5, <1>6 DEF IInv

\* Cutting at the directory leaves the previous generation alone.
LEMMA TruncateInv ==
  ASSUME IInv, Truncate
  PROVE  IInv' /\ Kept
<1> DEFINE d == Len(Staged) - Behind - 1
           f == Prefix(Staged, d - 1)
<1>1. /\ pc = "truncate" /\ pc' = "directory" /\ op' = op
      /\ op.signature[1].prefix = d /\ Put(f)
  BY DEF Truncate, IInv, TrailerPlaced
<1>2. /\ d \in 1..Len(Staged) /\ op.blocks \subseteq 1..(d - 1)
      /\ InPlace => op.layout.footer < d
  <2>1. DirectoryAt(d)
    BY <1>1 DEF IInv, TrailerPlaced
  <2>2. Len(Staged) \in Nat /\ Behind \in {0, 1}
    BY StagedOK DEF Behind
  <2> QED BY <2>1, <2>2 DEF DirectoryAt
<1> HIDE DEF d
<1>3. /\ d - 1 \in 0..Len(Staged)
      /\ InPlace => op.layout.footer <= d - 1
  BY <1>1, <1>2, StagedOK DEF IInv, LayoutKept, LayoutOf
<1>4. /\ FileOK(f) /\ Len(f) = d - 1
      /\ InPlace => \A p \in 1..op.layout.footer : f[p] = disk[p]
  BY <1>1, <1>3, CutKeeps DEF Building
<1> HIDE DEF f
<1>5. /\ FilesOK' /\ Staged' = f /\ Kept
      /\ InPlace => LayoutOf(op'.layout, disk')
  BY <1>1, <1>3, <1>4, PutKeeps DEF Building
<1>6. InPlace' = InPlace
  BY <1>1 DEF InPlace
<1>7. OpShape' /\ Modes'
  BY <1>1, <1>6 DEF IInv, OpShape, OpFields, Modes, Building
<1>8. LayoutKept' /\ BlocksPlaced' /\ TrailerPlaced'
  BY <1>1, <1>2, <1>4, <1>5, <1>6 DEF LayoutKept, BlocksPlaced, TrailerPlaced
<1> QED BY <1>5, <1>7, <1>8 DEF IInv

\* The footer, then the unfinished service, makes way for a new segment.
LEMMA ReplaceLast ==
  ASSUME NEW x, IInv, op' = op, Segment(x, Len(Staged)),
         Put(Append(Prefix(Staged, Len(Staged) - 1), x)),
         \/ pc = "recovery" /\ pc' = "recovering"
         \/ pc = "recovering" /\ pc' = "last"
  PROVE  IInv' /\ Kept
<1> DEFINE n == Len(Staged)
           d == n - Behind - 1
           g == Prefix(Staged, n - 1)
           f == Append(g, x)
<1>1. n \in Nat /\ Behind \in {0, 1} /\ pc \in Building /\ Put(f)
  BY StagedOK DEF Behind, Building
<1>2. DirectoryAt(d)
  BY DEF IInv, TrailerPlaced
<1>3. /\ d \in 1..n /\ d + Behind = n - 1 /\ n - 1 \in 0..n
      /\ Staged[d].kind = "directory" /\ op.blocks \subseteq 1..(d - 1)
  BY <1>1, <1>2 DEF DirectoryAt
<1>4. InPlace => /\ op.layout.footer \in Nat /\ op.layout.footer < d /\ Behind = 1
                 /\ Staged[d + 1] = Extension(op.layout.generation + 1, op.layout)
  BY <1>1, <1>2 DEF DirectoryAt, IInv, LayoutKept, LayoutOf, Building, Behind
<1> HIDE DEF d
<1>5. InPlace => op.layout.footer <= n - 1
  BY <1>1, <1>3, <1>4
<1>6. /\ FileOK(g) /\ Len(g) = n - 1 /\ \A p \in 1..(n - 1) : g[p] = Staged[p]
      /\ InPlace => \A p \in 1..op.layout.footer : g[p] = disk[p]
  BY <1>1, <1>3, <1>5, CutKeeps
<1> HIDE DEF g
<1>7. /\ FileOK(f) /\ Len(f) = n /\ \A p \in 1..(n - 1) : f[p] = g[p]
  <2>1. Len(g) + 1 = n
    BY <1>1, <1>6
  <2> QED BY <1>6, <2>1, FileAppend, AppendSeq DEF FileOK
<1> HIDE DEF f
<1>8. InPlace => /\ op.layout.footer <= Len(f)
                 /\ \A p \in 1..op.layout.footer : f[p] = disk[p]
  BY <1>1, <1>4, <1>5, <1>6, <1>7
<1>9. /\ FilesOK' /\ Staged' = f /\ Kept
      /\ InPlace => LayoutOf(op'.layout, disk')
  BY <1>1, <1>7, <1>8, PutKeeps
<1>10. InPlace' = InPlace /\ Behind' = Behind
  BY DEF InPlace, Behind
<1>11. OpShape' /\ Modes'
  BY <1>10 DEF IInv, OpShape, OpFields, Modes, Building
<1>12. LayoutKept' /\ BlocksPlaced'
  BY <1>9, <1>10 DEF LayoutKept, BlocksPlaced
<1>13. TrailerPlaced'
  <2>1. d \in 1..(n - 1) /\ f[d] = Staged[d] /\ d \in 1..(n - Behind)
        /\ (InPlace => d + 1 \in 1..(n - 1) /\ f[d + 1] = Staged[d + 1])
    BY <1>1, <1>3, <1>4, <1>6, <1>7
  <2>2. Len(Staged') - Behind' - 1 = d
    BY <1>7, <1>9, <1>10 DEF d
  <2>3. DirectoryAt(Len(Staged) - Behind - 1)'
    BY <1>3, <1>4, <1>7, <1>9, <1>10, <2>1, <2>2 DEF DirectoryAt
  <2> QED BY <2>3 DEF TrailerPlaced
<1> QED BY <1>9, <1>11, <1>12, <1>13 DEF IInv

\* The service overwrites the new footer, nothing in front of it.
LEMMA StartRecoveryInv ==
  ASSUME IInv, StartRecovery
  PROVE  IInv' /\ Kept
  BY ReadsStaged, StagedOK, NewSegments, ReplaceLast DEF StartRecovery

\* Completing the service replaces the one unfinished segment.
LEMMA WriteRecoveryInv ==
  ASSUME IInv, WriteRecovery
  PROVE  IInv' /\ Kept
<1>1. DirectoryAt(Len(Staged) - Behind - 1)
  BY DEF IInv, TrailerPlaced, WriteRecovery
<1>2. Len(Staged) - 1 \in Nat /\ Len(Staged) \in Nat
  BY <1>1, StagedOK DEF DirectoryAt, Behind
<1> QED BY <1>2, NewSegments, ReplaceLast DEF WriteRecovery

\* The footer behind the service finishes the file.
LEMMA WriteLastFooterInv ==
  ASSUME IInv, WriteLastFooter
  PROVE  IInv' /\ Kept
<1> DEFINE x == Footer(DirectoryWritten)
<1>1. Segment(x, Len(Staged) + 1)
  BY FindsDirectory, StagedOK, NewSegments DEF WriteLastFooter
<1>2. /\ op' = op /\ pc = "last" /\ Put(Append(Staged, x))
      /\ pc' \in {"report", "replace"} /\ (pc' = "replace" => ~InPlace)
  BY DEF WriteLastFooter, Finished
<1> HIDE DEF x
<1>3. /\ FilesOK' /\ Kept
      /\ InPlace => LayoutOf(op'.layout, disk')
  BY <1>1, <1>2, AppendKeeps DEF Building
<1>4. InPlace' = InPlace
  BY <1>2 DEF InPlace
<1> QED BY <1>2, <1>3, <1>4 DEF IInv, OpShape, OpFields, Modes, Building, LayoutKept,
                               BlocksPlaced, TrailerPlaced

----------------------------------------------------------------------------
(* Steps that do not.                                                      *)

\* An archive as created is a file.
LEMMA CreatedOK == \A recovery \in BOOLEAN : FileOK(Created(recovery))
<1> SUFFICES ASSUME NEW recovery \in BOOLEAN PROVE FileOK(Created(recovery))
  OBVIOUS
<1> DEFINE D == Directory({2}, [i \in {Base} |-> 2], <<>>)
           f == <<Header, Block(Base), D>>
           g == IF recovery THEN <<Recovery(3)>> ELSE <<>>
<1>1. FileOK(f) /\ Len(f) = 3
  <2> DEFINE z == 0
  <2>1. Segment(Header, z + 1) /\ Segment(Block(Base), z + 2) /\ Segment(D, z + 3)
    BY NewSegments
  <2>2. z = 0
    OBVIOUS
  <2> HIDE DEF D, z
  <2>3. IsSeq(f) /\ Len(f) = 3 /\ \A p \in 1..Len(f) : Segment(f[p], z + p)
    BY <2>1, ThreeSegments
  <2> HIDE DEF f
  <2>4. \A p \in 1..Len(f) : z + p = p
    BY <2>2, <2>3
  <2> QED BY <2>3, <2>4 DEF FileOK
<1>2. IsSeq(g) /\ Len(g) \in Nat /\ \A p \in 1..Len(g) : Segment(g[p], 3 + p)
  <2>1. CASE recovery
    <3>1. Segment(Recovery(3), 4)
      BY NewSegments
    <3>2. g = <<Recovery(3)>>
      BY <2>1
    <3>3. \A p \in 1..1 : p = 1
      OBVIOUS
    <3> HIDE DEF g
    <3> QED BY <3>1, <3>2, <3>3, ShortSeqs
  <2>2. CASE ~recovery
    <3>1. g = <<>>
      BY <2>2
    <3>2. IsSeq(g) /\ Len(g) = 0
      BY <3>1, ShortSeqs
    <3> HIDE DEF g
    <3> QED BY <3>2
  <2> QED BY <2>1, <2>2
<1> HIDE DEF f, g
<1> DEFINE h == f \o g
<1>3. FileOK(h) /\ Len(h) \in Nat /\ IsSeq(h)
  <2>1. \A p \in 1..Len(g) : Segment(g[p], Len(f) + p)
    BY <1>1, <1>2
  <2>2. FileOK(h)
    BY <1>1, <1>2, <2>1, FileConcat
  <2> HIDE DEF h
  <2> QED BY <2>2, SeqLen DEF FileOK
<1> HIDE DEF h
<1>4. FileOK(h \o <<Footer(3)>>)
  <2>1. Segment(Footer(3), Len(h) + 1)
    BY <1>3, NewSegments
  <2>2. h \o <<Footer(3)>> = Append(h, Footer(3))
    BY <1>3, AppendOne
  <2> QED BY <1>3, <2>1, <2>2, FileAppend
<1> QED BY <1>4 DEF Created, f, g, h

\* The invariant holds of every archive the behaviours begin with.
LEMMA InvInit == Init => IInv
<1> SUFFICES ASSUME Init PROVE IInv
  OBVIOUS
<1> DEFINE first == Created(FALSE)
           D == Directory({2}, [i \in {Base} |-> 2], <<>>)
<1>1. FileOK(first) /\ Len(first) \in Nat /\ IsSeq(first)
  BY CreatedOK, SeqLen DEF FileOK
<1>2. first[3] = D
  BY DEF Created, Directory
<1>3. Len(first) >= 3
  BY DEF Created
<1> HIDE DEF first
<1>4. FileOK(Appended)
  <2> DEFINE X == Extension(1, ReadLayout(first))
  <2>1. Segment(D, Len(first) + 1) /\ Segment(X, Len(first) + 2)
        /\ Segment(Footer(5), Len(first) + 3)
    <3>1. {2} \subseteq 1..(Len(first) + 1)
      BY <1>1, <1>3
    <3> QED BY <1>1, <3>1, NewSegments
  <2> HIDE DEF D, X
  <2>2. FileOK(first \o <<D, X, Footer(5)>>)
    <3> DEFINE g == <<D, X, Footer(5)>>
    <3>1. IsSeq(g) /\ \A p \in 1..Len(g) : Segment(g[p], Len(first) + p)
      BY <2>1, ThreeSegments
    <3> HIDE DEF g
    <3>2. FileOK(first \o g)
      BY <1>1, <3>1, FileConcat
    <3> QED BY <3>2 DEF g
  <2> QED BY <1>2, <2>2 DEF Appended, first, X
<1>5. FilesOK
  BY <1>4, CreatedOK, EmptyFile DEF Init, FilesOK
<1> QED BY <1>5 DEF Init, NoOp, IInv, OpShape, OpFields, Modes, Building, LayoutKept,
                    BlocksPlaced, TrailerPlaced, InPlace

\* An operation starts from a layout that is there.
LEMMA BeginInv ==
  ASSUME IInv, Begin
  PROVE  IInv' /\ Kept
<1> DEFINE l == ReadLayout(disk)
<1>1. LayoutOf(l, disk)
  BY StagedOK, ReadsLayout DEF Begin, Opens
<1>2. Index(disk).blocks \subseteq 1..l.footer
  <2>1. l.directory \in 1..Len(disk) /\ l.directory \in 1..l.footer
        /\ disk[l.directory].kind = "directory"
    BY <1>1, StagedOK DEF LayoutOf, Begin, Opens
  <2>2. disk[l.directory].blocks \subseteq 1..l.directory
    BY <2>1, StagedOK, SegmentAt DEF Segment, Readable
  <2>3. Index(disk) = disk[l.directory]
    BY DEF Index
  <2>4. l.directory \in Nat /\ l.footer \in Nat /\ l.directory <= l.footer
    BY <1>1 DEF LayoutOf
  <2> HIDE DEF l
  <2>5. 1..l.directory \subseteq 1..l.footer
    BY <2>4
  <2> QED BY <2>2, <2>3, <2>5
<1>3. /\ pc' \in {"stage", "protect"} /\ disk' = disk /\ temp' = temp
      /\ op'.mode \in {"append", "rewrite", "protect"}
      /\ pc' = "protect" <=> op'.mode = "protect"
      /\ op'.layout = l /\ op'.blocks = Index(disk).blocks
      /\ OpFields \subseteq DOMAIN op'
  BY DEF Begin, OpFields
<1> HIDE DEF l
<1>4. Kept
  BY <1>1, <1>3, StagedOK DEF Kept, LayoutOf
<1>5. FilesOK' /\ OpShape' /\ Modes'
  BY <1>3 DEF IInv, FilesOK, OpShape, OpFields, Modes, Building
<1>6. LayoutKept' /\ BlocksPlaced' /\ TrailerPlaced'
  BY <1>1, <1>2, <1>3 DEF LayoutKept, BlocksPlaced, TrailerPlaced
<1> QED BY <1>4, <1>5, <1>6 DEF IInv

\* Trimming cuts behind the footer of the layout.
LEMMA TrimInv ==
  ASSUME IInv, Trim
  PROVE  IInv' /\ Kept
<1> DEFINE n == op.layout.footer
<1>1. /\ pc = "stage" /\ pc' = "blocks" /\ InPlace /\ op' = op /\ temp' = temp
      /\ disk' = Prefix(disk, n)
  BY DEF Trim
<1>2. LayoutOf(op.layout, disk) /\ op.blocks \subseteq 1..n /\ n \in 0..Len(disk)
  BY <1>1, StagedOK DEF IInv, LayoutKept, BlocksPlaced, LayoutOf
<1>3. /\ FileOK(disk') /\ IsSeq(disk') /\ Len(disk') = n
      /\ \A p \in 1..n : disk'[p] = disk[p]
  BY <1>1, <1>2, StagedOK, FilePrefix, PrefixSeq
<1>4. LayoutOf(op.layout, disk') /\ Kept
  BY <1>1, <1>2, <1>3, StagedOK, LayoutStays, SamePrefix DEF Kept
<1>5. FilesOK' /\ OpShape' /\ Modes'
  BY <1>1, <1>3 DEF IInv, FilesOK, OpShape, OpFields, Modes, Building, InPlace
<1>6. LayoutKept' /\ BlocksPlaced' /\ TrailerPlaced'
  BY <1>1, <1>2, <1>3, <1>4 DEF LayoutKept, BlocksPlaced, TrailerPlaced, Staged, InPlace
<1> QED BY <1>4, <1>5, <1>6 DEF IInv

\* A rewrite copies all blocks of the table.
LEMMA CopyInv ==
  ASSUME IInv, Copy
  PROVE  IInv' /\ Kept
<1> DEFINE n == BlockRegionEnd(op.blocks)
           B == op.blocks \cup {1}
<1>1. /\ pc = "stage" /\ pc' = "blocks" /\ ~InPlace /\ op' = op /\ disk' = disk
      /\ temp' = Prefix(disk, n) /\ op.mode = "rewrite"
  BY DEF Copy, InPlace
<1>2. op.layout.footer \in 1..Len(disk) /\ op.blocks \subseteq 1..op.layout.footer
  BY <1>1, StagedOK DEF IInv, LayoutKept, BlocksPlaced, LayoutOf
<1>3. n \in B /\ \A p \in B : p <= n
  <2>1. B \subseteq 0..op.layout.footer /\ B # {} /\ op.layout.footer \in Nat
    BY <1>2
  <2>2. n = Max(B)
    BY DEF BlockRegionEnd
  <2> HIDE DEF B, n
  <2> QED BY <2>1, <2>2, MaxOfNumbers
<1>4. n \in 0..Len(disk) /\ op.blocks \subseteq 1..n
  BY <1>2, <1>3, StagedOK
<1> HIDE DEF n
<1>5. FileOK(temp') /\ Len(temp') = n
  BY <1>1, <1>4, StagedOK, FilePrefix, PrefixSeq
<1>6. FilesOK' /\ OpShape' /\ Modes' /\ Kept
  BY <1>1, <1>5 DEF IInv, FilesOK, OpShape, OpFields, Modes, Building, InPlace, Kept
<1>7. LayoutKept' /\ BlocksPlaced' /\ TrailerPlaced'
  BY <1>1, <1>4, <1>5 DEF LayoutKept, BlocksPlaced, TrailerPlaced, Staged, InPlace
<1> QED BY <1>6, <1>7 DEF IInv

\* A rewritten recovery service makes a whole temporary file.
LEMMA ProtectInv ==
  ASSUME IInv, Protect
  PROVE  IInv' /\ Kept
<1> DEFINE end == ProtectedEnd(op.layout)
           f == Prefix(disk, end)
           g == IF op.recovery THEN <<Recovery(end)>> ELSE <<>>
           x == Footer(op.layout.directory)
<1>1. /\ pc = "protect" /\ pc' = "replace" /\ op' = op /\ disk' = disk
      /\ temp' = f \o g \o <<x>> /\ ~InPlace
  BY DEF Protect, IInv, Modes, InPlace
<1>2. end \in 0..Len(disk) /\ op.layout.directory \in Nat \ {0}
  BY <1>1, StagedOK DEF IInv, LayoutKept, LayoutOf, ProtectedEnd, ExtensionAt
<1> HIDE DEF end
<1>3. FileOK(f) /\ IsSeq(f) /\ Len(f) \in Nat
  BY <1>2, StagedOK, FilePrefix, SeqLen DEF FileOK
<1> HIDE DEF f
<1>4. FileOK(f \o g)
  <2>1. CASE op.recovery
    <3>1. f \o g = Append(f, Recovery(end))
      BY <1>3, <2>1, AppendOne
    <3> QED BY <1>3, <3>1, RecoverySegment, FileAppend
  <2>2. CASE ~op.recovery
    BY <1>3, <2>2, AppendOne
  <2> QED BY <2>1, <2>2
<1> DEFINE h == f \o g
<1>5. FileOK(h) /\ IsSeq(h) /\ Len(h) \in Nat /\ temp' = h \o <<x>>
  BY <1>1, <1>4, SeqLen DEF FileOK
<1> HIDE DEF h, g
<1>6. FileOK(temp')
  <2>1. Segment(x, Len(h) + 1)
    BY <1>2, <1>5, NewSegments
  <2> HIDE DEF x
  <2>2. temp' = Append(h, x)
    BY <1>5, AppendOne
  <2> QED BY <1>5, <2>1, <2>2, FileAppend
<1>7. FilesOK' /\ OpShape' /\ Modes' /\ Kept
  BY <1>1, <1>6 DEF IInv, FilesOK, OpShape, OpFields, Modes, Building, InPlace, Kept
<1>8. LayoutKept' /\ BlocksPlaced' /\ TrailerPlaced'
  BY <1>1 DEF LayoutKept, BlocksPlaced, TrailerPlaced, InPlace
<1> QED BY <1>7, <1>8 DEF IInv

\* Only operations on a temporary file replace the archive.
LEMMA ReplaceInv ==
  ASSUME IInv, Replace
  PROVE  IInv' /\ Kept
<1>1. /\ pc = "replace" /\ pc' = "report" /\ op' = op
      /\ disk' = temp /\ temp' = <<>> /\ op.mode # "append"
  BY DEF Replace, IInv, Modes, InPlace
<1> QED BY <1>1, EmptyFile DEF IInv, FilesOK, OpShape, OpFields, Modes, Building, InPlace, Kept,
                              LayoutKept, BlocksPlaced, TrailerPlaced

\* Returning changes no file.
LEMMA ReturnInv ==
  ASSUME IInv, Return
  PROVE  IInv' /\ Kept
<1>1. pc = "report" /\ pc' = "idle" /\ op' = op /\ disk' = disk /\ temp' = temp
  BY DEF Return
<1>2. Kept
  BY <1>1, StagedOK DEF Kept, IInv, LayoutKept, LayoutOf, InPlace
<1> QED BY <1>1, <1>2 DEF IInv, FilesOK, OpShape, OpFields, Modes, Building, InPlace,
                         LayoutKept, BlocksPlaced, TrailerPlaced

\* A torn write only adds to the file.
LEMMA Tears ==
  ASSUME NEW tail \in {<<>>, <<Torn>>}, FileOK(disk), Tear(tail)
  PROVE  /\ FileOK(disk') /\ Len(disk) <= Len(disk')
         /\ \A p \in 1..Len(disk) : disk'[p] = disk[p]
<1>1. IsSeq(disk) /\ Len(disk) \in Nat
  BY SeqLen DEF FileOK
<1>2. CASE disk' = disk
  BY <1>1, <1>2
<1>3. CASE disk' = disk \o tail
  <2>1. disk' = disk \/ disk' = Append(disk, Torn)
    BY <1>1, <1>3, AppendOne
  <2>2. CASE disk' = Append(disk, Torn)
    BY <1>1, <2>2, NewSegments, FileAppend, AppendSeq
  <2> QED BY <1>2, <2>1, <2>2
<1> QED BY <1>2, <1>3 DEF Tear

\* What is left of an operation that did not return.
LEMMA Forgets ==
  ASSUME op' = Forgotten
  PROVE  /\ op'.mode = op.mode /\ op'.layout = op.layout
         /\ OpFields \subseteq DOMAIN op'
  BY DEF Forgotten, NoOp, OpFields

\* A failed step may add a torn write, and no more.
LEMMA FailInv ==
  ASSUME IInv, Fail
  PROVE  IInv' /\ Kept
<1>1. PICK tail \in {<<>>, <<Torn>>} : Tear(tail)
  BY DEF Fail
<1>2. /\ pc # "idle" /\ temp' = <<>> /\ op' = Forgotten
      /\ pc' = IF InPlace THEN "rollback" ELSE "idle"
  BY DEF Fail
<1>3. /\ op'.mode = op.mode /\ op'.layout = op.layout
      /\ OpFields \subseteq DOMAIN op'
  BY <1>2, Forgets
<1>4. /\ FileOK(disk') /\ Len(disk) <= Len(disk')
      /\ \A p \in 1..Len(disk) : disk'[p] = disk[p]
  BY <1>1, StagedOK, Tears
<1>5. FilesOK' /\ OpShape' /\ Modes'
  BY <1>2, <1>3, <1>4, EmptyFile DEF FilesOK, OpShape, OpFields, Modes, Building, InPlace
<1>6. CASE InPlace
  <2>1. LayoutOf(op.layout, disk)
    BY <1>2, <1>6 DEF IInv, LayoutKept
  <2>2. /\ op.layout.footer \in Nat /\ op.layout.footer <= Len(disk)
        /\ op.layout.footer <= Len(disk') /\ IsSeq(disk') /\ Len(disk') \in Nat
        /\ \A p \in 1..op.layout.footer : disk'[p] = disk[p]
    BY <1>4, <2>1, StagedOK, SeqLen DEF LayoutOf, FileOK
  <2>3. LayoutOf(op.layout, disk')
    BY <2>1, <2>2, StagedOK, LayoutStays
  <2>4. Kept
    BY <1>3, <2>2, StagedOK, SamePrefix DEF Kept
  <2> QED BY <1>2, <1>3, <1>5, <1>6, <2>3, <2>4
          DEF IInv, LayoutKept, BlocksPlaced, TrailerPlaced
<1>7. CASE ~InPlace
  BY <1>2, <1>3, <1>5, <1>7 DEF IInv, Kept, LayoutKept, BlocksPlaced, TrailerPlaced, InPlace
<1> QED BY <1>6, <1>7

\* The rollback cuts at the footer of the layout, or does nothing.
LEMMA RollbackInv ==
  ASSUME IInv, Rollback
  PROVE  IInv' /\ Kept
<1> DEFINE n == op.layout.footer
<1>1. /\ pc = "rollback" /\ pc' = "idle" /\ op' = op /\ temp' = temp
      /\ disk' = Prefix(disk, n) \/ disk' = disk
  BY DEF Rollback
<1>2. LayoutOf(op.layout, disk) /\ n \in 0..Len(disk)
  BY <1>1, StagedOK DEF IInv, Modes, LayoutKept, LayoutOf
<1>3. /\ FileOK(disk') /\ IsSeq(disk') /\ Len(disk') \in Nat /\ n <= Len(disk')
      /\ \A p \in 1..n : disk'[p] = disk[p]
  <2>1. CASE disk' = disk
    BY <1>2, <2>1, StagedOK
  <2>2. CASE disk' = Prefix(disk, n)
    BY <1>2, <2>2, StagedOK, FilePrefix, PrefixSeq
  <2> QED BY <1>1, <2>1, <2>2
<1>4. Kept
  BY <1>1, <1>2, <1>3, StagedOK, SamePrefix DEF Kept
<1> QED BY <1>1, <1>3, <1>4 DEF IInv, FilesOK, OpShape, OpFields, Modes, Building,
                               LayoutKept, BlocksPlaced, TrailerPlaced, InPlace

\* A crash may add a torn write, and no more.
LEMMA CrashInv ==
  ASSUME IInv, Crash
  PROVE  IInv' /\ Kept
<1>1. PICK tail \in {<<>>, <<Torn>>} : Tear(tail)
  BY DEF Crash
<1>2. pc # "idle" /\ temp' = <<>> /\ op' = Forgotten /\ pc' = "idle"
  BY DEF Crash
<1>3. /\ op'.mode = op.mode /\ op'.layout = op.layout
      /\ OpFields \subseteq DOMAIN op'
  BY <1>2, Forgets
<1>4. /\ FileOK(disk') /\ Len(disk) <= Len(disk')
      /\ \A p \in 1..Len(disk) : disk'[p] = disk[p]
  BY <1>1, StagedOK, Tears
<1>5. Kept
  <2>1. CASE InPlace
    <3>1. LayoutOf(op.layout, disk)
      BY <1>2, <2>1 DEF IInv, LayoutKept
    <3>2. /\ op.layout.footer \in Nat /\ op.layout.footer <= Len(disk)
          /\ op.layout.footer <= Len(disk') /\ IsSeq(disk')
          /\ \A p \in 1..op.layout.footer : disk'[p] = disk[p]
      BY <1>4, <3>1, StagedOK, SeqLen DEF LayoutOf, FileOK
    <3> QED BY <1>3, <3>2, StagedOK, SamePrefix DEF Kept
  <2>2. CASE ~InPlace
    BY <1>3, <2>2 DEF Kept, InPlace
  <2> QED BY <2>1, <2>2
<1> QED BY <1>2, <1>3, <1>4, <1>5, EmptyFile
        DEF IInv, FilesOK, OpShape, OpFields, Modes, Building, InPlace,
            LayoutKept, BlocksPlaced, TrailerPlaced

\* Damage changes segments in place, while no operation runs.
LEMMA DamageInv ==
  ASSUME IInv, Damage
  PROVE  IInv' /\ Kept
<1>1. PICK from, to \in 1..LatestFooter(disk), slightly \in BOOLEAN :
        disk' = [p \in DOMAIN disk |->
                   IF p \notin from..to THEN disk[p]
                   ELSE IF slightly /\ disk[p].kind = "recovery"
                   THEN [disk[p] EXCEPT !.parity = @ - 1]
                   ELSE Damaged(disk[p])]
  BY DEF Damage
<1>2. pc = "idle" /\ pc' = pc /\ op' = NoOp /\ temp' = temp /\ Whole(disk)
  BY DEF Damage
<1>3. Len(disk) \in Nat /\ DOMAIN disk = 1..Len(disk) /\ FileOK(disk)
  BY StagedOK, SeqLen
<1>4. ASSUME NEW p \in 1..Len(disk) PROVE Segment(disk'[p], p)
  <2>1. Segment(disk[p], p) /\ disk[p] = Sound(disk[p])
    BY <1>2, <1>3, SegmentAt DEF Whole, Lost
  <2>2. \/ disk'[p] = disk[p] \/ disk'[p] = Damaged(disk[p])
        \/ disk[p].kind = "recovery" /\ disk'[p] = [disk[p] EXCEPT !.parity = @ - 1]
    BY <1>1, <1>3
  <2> QED BY <2>1, <2>2, DamagedSegment
<1>5. disk' = [p \in 1..Len(disk) |-> disk'[p]]
  BY <1>1, <1>3
<1>6. FileOK(disk')
  <2>1. IsSeq(disk') /\ Len(disk') = Len(disk)
    BY <1>3, <1>5, SeqOfFunction
  <2> QED BY <1>4, <2>1 DEF FileOK
<1>7. op'.mode = "none" /\ OpFields \subseteq DOMAIN op'
  BY <1>2 DEF NoOp, OpFields
<1> QED BY <1>2, <1>6, <1>7 DEF IInv, FilesOK, OpShape, OpFields, Modes, Building, InPlace, Kept,
                               LayoutKept, BlocksPlaced, TrailerPlaced

\* What a repair makes of the protected bytes is a file.
LEMMA ReconstructsFile ==
  ASSUME NEW f, FileOK(f), NEW n \in 0..Len(f), NEW parity
  PROVE  FileOK(Reconstructed(f, n, parity)) /\ Len(Reconstructed(f, n, parity)) = n
<1>1. IsSeq(f) /\ Len(f) \in Nat /\ DOMAIN f = 1..Len(f)
  BY SeqLen DEF FileOK
<1> DEFINE g == AsWritten(f)
<1>2. g = [p \in 1..Len(f) |-> Sound(f[p])]
  BY <1>1 DEF AsWritten
<1> HIDE DEF g
<1>3. IsSeq(g) /\ Len(g) = Len(f)
  <2>1. g = [p \in 1..Len(f) |-> g[p]]
    BY <1>2
  <2> QED BY <1>1, <2>1, SeqOfFunction
<1>4. \A p \in 1..Len(g) : Segment(g[p], p)
  BY <1>2, <1>3, SegmentAt, SoundSegment
<1>5. FileOK(g)
  BY <1>3, <1>4 DEF FileOK
<1>6. /\ FileOK(Prefix(g, n)) /\ Len(Prefix(g, n)) = n
      /\ FileOK(Prefix(f, n)) /\ Len(Prefix(f, n)) = n
  BY <1>1, <1>3, <1>5, FilePrefix, PrefixSeq
<1> QED BY <1>6 DEF Reconstructed, g

\* A repair makes a file, and leaves the archive to the replacement.
LEMMA RepairInv ==
  ASSUME IInv, Repair
  PROVE  IInv' /\ Kept
<1> DEFINE l == ReadLayout(disk)
           end == ProtectedEnd(l)
           f == Reconstructed(disk, end, disk[l.footer - 1].parity)
           g == <<Recovery(end), Footer(l.directory)>>
<1>1. /\ pc = "idle" /\ disk' = disk
      /\ \/ LayoutReadable(disk) /\ temp' = f \o g /\ pc' = "replace"
         \/ temp' = temp /\ pc' = pc
  BY DEF Repair
<1>2. /\ op'.mode = "repair"
      /\ OpFields \subseteq DOMAIN op'
  BY DEF Repair, NoOp, OpFields
<1>3. FileOK(temp')
  <2>1. CASE LayoutReadable(disk) /\ temp' = f \o g
    <3>1. LayoutOf(l, disk)
      BY <2>1, StagedOK, ReadsLayout
    <3> HIDE DEF l
    <3>2. end \in 0..Len(disk) /\ l.directory \in Nat \ {0}
      BY <3>1, StagedOK DEF LayoutOf, ProtectedEnd, ExtensionAt
    <3> HIDE DEF end
    <3>3. FileOK(f) /\ Len(f) \in Nat
      BY <3>2, StagedOK, ReconstructsFile
    <3> HIDE DEF f
    <3>4. Segment(Recovery(end), Len(f) + 1) /\ Segment(Footer(l.directory), Len(f) + 2)
      BY <3>2, <3>3, RecoverySegment, NewSegments
    <3>5. IsSeq(g) /\ \A p \in 1..Len(g) : Segment(g[p], Len(f) + p)
      BY <3>4, TwoSegments
    <3> HIDE DEF g
    <3> QED BY <2>1, <3>3, <3>5, FileConcat
  <2>2. CASE temp' = temp
    BY <2>2 DEF IInv, FilesOK
  <2> QED BY <1>1, <2>1, <2>2
<1> HIDE DEF f, g
<1> QED BY <1>1, <1>2, <1>3 DEF IInv, FilesOK, OpShape, OpFields, Modes, Building, InPlace, Kept,
                               LayoutKept, BlocksPlaced, TrailerPlaced

----------------------------------------------------------------------------
(* The theorems.                                                           *)

\* Every step of every operation keeps the invariant, and leaves the generation
\* that an append found as it was.
LEMMA NextInv ==
  ASSUME IInv, Next
  PROVE  IInv' /\ Kept
<1>1. \A i \in Item : WriteBlock(i) => IInv' /\ Kept
  BY WriteBlockInv
<1> QED BY <1>1, BeginInv, TrimInv, CopyInv, WriteDirectoryInv, WriteExtensionInv,
           WriteFooterInv, SignInv, TruncateInv, StartRecoveryInv, WriteRecoveryInv,
           WriteLastFooterInv, ProtectInv, ReplaceInv, ReturnInv, FailInv, RollbackInv,
           CrashInv, DamageInv, RepairInv
        DEF Next

\* The invariant only depends on the variables.
LEMMA StutterInv ==
  ASSUME IInv, UNCHANGED vars
  PROVE  IInv'
  BY DEF vars, IInv, FilesOK, OpShape, OpFields, Modes, LayoutKept, BlocksPlaced, TrailerPlaced,
         DirectoryAt, InPlace, Staged, Behind, Building

\* Whatever is appended, signed, protected, torn, rolled back, damaged and
\* repaired: the file is made of segments, the generation an append found is
\* still there, and the new one is where the next step looks for it.
THEOREM GenerationsInvariance == Spec => []IInv
<1>1. IInv /\ [Next]_vars => IInv'
  BY NextInv, StutterInv
<1> QED BY InvInit, <1>1, PTL DEF Spec

\* No step of an append changes a segment of the generation it found, recovery
\* data and footer included (append_archive_items, its signing and recovery
\* steps, and the catch blocks that cut the file back).
THEOREM PreviousGenerationKept == Spec => PreviousKept
<1>1. IInv /\ [Next]_vars => [Kept]_vars
  BY NextInv
<1>2. Spec => [][Kept]_vars
  BY <1>1, GenerationsInvariance, PTL DEF Spec
<1> QED BY <1>2 DEF PreviousKept, Kept

----------------------------------------------------------------------------
(* What every archive on disk is, but for damage.                          *)

\* The layout a footer at p leads to.
LayoutAt(f, p) ==
  LET d == NamedDirectory(f, p)
      x == ExtensionAt(f, d, p)
  IN  [footer |-> p, directory |-> d, extension |-> x,
       generation |-> IF x = 0 THEN 0 ELSE f[x].generation]

\* A directory lists blocks in front of it that hold what it says.
DirectoryOK(f, d) ==
  /\ f[d] = Directory(f[d].blocks, f[d].files, f[d].signature)
  /\ 2 \in f[d].blocks /\ f[d].blocks \subseteq 1..(d - 1)
  /\ DOMAIN f[d].files \subseteq Item
  /\ \A i \in DOMAIN f[d].files :
       f[d].files[i] \in f[d].blocks /\ f[f[d].files[i]] = Block(i)

\* The extension at x follows the generation whose footer it names.
ExtensionOK(f, d, x) ==
  LET q == f[x].prevFooter
  IN  /\ q \in 1..(d - 1) /\ f[q].kind = "footer"
      /\ f[x] = Extension(LayoutAt(f, q).generation + 1, LayoutAt(f, q))

\* What the footer at p leads to is whole: its directory, the signature in it, and
\* the generation before it.
FooterOK(f, p) ==
  LET l == LayoutAt(f, p)
  IN  /\ f[p] = Footer(l.directory) /\ l.directory \in 3..(p - 1)
      /\ l.generation \in Nat
      /\ DirectoryOK(f, l.directory)
      /\ f[l.directory].signature \in {<<>>, <<Digest(f, l)>>}
      /\ l.extension # 0 => ExtensionOK(f, l.directory, l.extension)

\* So is what every footer in the file leads to, and services protect what is in
\* front of them.
Sane(f) ==
  /\ Len(f) >= 2 /\ f[1] = Header /\ f[2].kind = "block"
  /\ \A p \in 1..Len(f) : /\ f[p].kind = "footer" => FooterOK(f, p)
                          /\ f[p].kind = "recovery" => f[p] = Recovery(p - 1)

SoundFile(f) == \A p \in 1..Len(f) : f[p] = Sound(f[p])

ParityKnown(f) == \A p \in 1..Len(f) : f[p].kind = "recovery" => f[p].parity \in Int

FilesSane ==
  /\ Sane(AsWritten(disk)) /\ ParityKnown(disk) /\ (Updating => SoundFile(disk))
  /\ temp # <<>> => Sane(temp) /\ SoundFile(temp)
  /\ pc \in Building /\ ~InPlace => temp # <<>>

\* HoldsNew, of the entries of a directory.
New(files) ==
  /\ DOMAIN files = op.request.keep \cup op.request.adds
  /\ \A i \in op.request.keep : files[i] = op.before[i]
  /\ \A i \in op.request.adds \cap DOMAIN op.before : files[i] # op.before[i]

Running == pc \in Building \cup {"stage", "protect"}

\* TypeOK, but for what is said of the files.
Typed ==
  /\ pc \in Steps
  /\ outcome \in {"none", "running", "ok", "threw", "stuck", "crashed", "damaged",
                  "refused"}
  /\ ops \in 0..MaxOps /\ op.sign \in BOOLEAN /\ op.recovery \in BOOLEAN
  /\ op.adds \subseteq Item
  /\ \A i \in DOMAIN op.files : i \in Item /\ op.files[i] \in op.blocks

\* What the operation has made of its request so far.
Progress ==
  /\ Running =>
       /\ op.request.keep \subseteq DOMAIN op.before
       /\ op.request.keep \cap op.request.adds = {} /\ op.adds \subseteq op.request.adds
       /\ DOMAIN op.files = op.request.keep \cup (op.request.adds \ op.adds)
       /\ \A i \in op.request.keep : op.files[i] = op.before[i]
       /\ \A i \in (op.request.adds \ op.adds) \cap DOMAIN op.before : op.files[i] # op.before[i]
       /\ 2 \in op.blocks
       /\ \A i \in DOMAIN op.before : op.before[i] \in op.blocks
  /\ pc \in {"stage", "blocks", "protect", "sign"} => op.signature = <<>>
  /\ pc \in Building \ {"blocks"} => op.adds = {}
  /\ pc = "protect" => op.adds = {} /\ op.request.keep = DOMAIN op.before
                       /\ op.request.adds = {} /\ ~op.sign
  /\ pc \in {"sign", "truncate"} => op.sign
  /\ pc \in {"recovery", "recovering", "last"} =>
       op.recovery /\ (op.sign => op.signature # <<>>)

\* Its entries lead to their blocks.
EntriesPlaced ==
  /\ pc = "stage" => \A i \in DOMAIN op.files : disk[op.files[i]] = Block(i)
  /\ pc \in Building => \A i \in DOMAIN op.files : Staged[op.files[i]] = Block(i)

\* Where the new directory is, or is going to be.
Place ==
  LET n == Len(Staged)
  IN  CASE pc = "directory" -> n + 1
        [] pc = "extension" -> n
        [] pc = "footer" -> n - Behind
        [] OTHER -> n - Behind - 1

NewExtension == Extension(op.layout.generation + 1, op.layout)

\* The digest of the new generation with its directory at d.
NewDigest(d) ==
  [prefix |-> d, files |-> op.files,
   history |-> IF InPlace THEN <<NewExtension>> ELSE <<>>]

DirectoryNew ==
  /\ pc \in {"extension", "footer", "sign", "recovery", "recovering", "last"} =>
       Staged[Place] = Directory(op.blocks, op.files, op.signature)
  /\ pc = "truncate" => Staged[Place] = Directory(op.blocks, op.files, <<>>)
  /\ pc \in Building /\ op.signature # <<>> => op.signature = <<NewDigest(Place)>>
  /\ pc = "recovering" => Staged[Len(Staged)] = Torn
  /\ pc = "last" => Staged[Len(Staged)] = Recovery(Len(Staged) - 1)

\* The generation the operation found, and what it held.
Found(f) ==
  /\ op.layout.footer \in 1..Len(f) /\ f[op.layout.footer].kind = "footer"
  /\ LayoutAt(f, op.layout.footer) = op.layout
  /\ f[op.layout.directory].files = op.before

\* The footers behind it in f: none, or those of the new generation.
NewBehind(f) ==
  \A q \in (op.layout.footer + 1)..Len(f) :
    f[q].kind = "footer" => New(f[f[q].directory].files)

NoFooterBehind == \A q \in (op.layout.footer + 1)..Len(disk) : disk[q].kind # "footer"

\* A file that ends in a footer, with the entries asked for behind it.
Renewed(f) == LET n == Len(f) IN f[n].kind = "footer" /\ New(f[f[n].directory].files)

\* All that was asked for is in f.
Result(f) ==
  LET n == Len(f)
  IN  /\ Renewed(f)
      /\ op.sign => f[f[n].directory].signature # <<>>
      /\ (f[n - 1].kind = "recovery") = op.recovery
      /\ op.recovery => f[n - 1].protected = ProtectedEnd(LayoutAt(f, n))

Outcomes ==
  /\ pc \in {"stage", "protect"} => Found(disk) /\ NoFooterBehind
  /\ InPlace => Found(disk) /\ NewBehind(disk)
  /\ op.mode \in {"rewrite", "protect"} =>
       \/ Found(disk) /\ NoFooterBehind
       \/ pc \in {"idle", "report"} /\ Renewed(disk)
  /\ Updating /\ pc = "replace" => temp # <<>> /\ Result(temp)
  /\ Updating /\ (pc = "report" \/ (pc = "idle" /\ outcome = "ok")) => Result(disk)
  /\ InPlace /\ pc = "idle" /\ outcome = "threw" => Len(disk) = op.layout.footer
  /\ pc \in {"replace", "report", "rollback"} => Updating \/ op.mode = "repair"

Repairing ==
  op.mode = "repair" =>
    LET made == Prefix(AsWritten(op.before), LatestFooter(op.before))
    IN  /\ pc = "replace" => disk = op.before /\ temp = made /\ temp # <<>>
        /\ pc = "report" \/ (pc = "idle" /\ outcome = "ok") => disk = made
        /\ pc = "idle" /\ outcome \in {"threw", "refused"} => disk = op.before

SInv == Typed /\ FilesSane /\ Progress /\ EntriesPlaced /\ DirectoryNew /\ Outcomes /\ Repairing

----------------------------------------------------------------------------
(* What an undamaged file holds.                                           *)

\* A layout depends on what is in front of its footer.
LEMMA LayoutSame ==
  ASSUME NEW f, NEW g, NEW p \in Nat \ {0}, NamedDirectory(f, p) \in 1..p,
         \A q \in 1..p : g[q] = f[q]
  PROVE  /\ LayoutAt(g, p) = LayoutAt(f, p)
         /\ LayoutAt(f, p).extension = 0 \/ LayoutAt(f, p).extension \in 1..p
<1> DEFINE d == NamedDirectory(f, p)
           x == ExtensionAt(f, d, p)
<1>1. NamedDirectory(g, p) = d
  BY DEF NamedDirectory
<1>2. ExtensionAt(g, d, p) = x /\ (x = 0 \/ x \in 1..p)
  BY DEF ExtensionAt
<1>3. x # 0 => g[x] = f[x]
  BY <1>2
<1> HIDE DEF d, x
<1> QED BY <1>1, <1>2, <1>3 DEF LayoutAt, d, x

\* The fields of a layout.
LEMMA LayoutFields ==
  ASSUME NEW f, NEW p
  PROVE  LET l == LayoutAt(f, p)
         IN  /\ l.footer = p /\ l.directory = NamedDirectory(f, p)
             /\ l.extension = ExtensionAt(f, l.directory, p)
             /\ l.generation = IF l.extension = 0 THEN 0 ELSE f[l.extension].generation
             /\ f[p].kind = "footer" => l.directory = f[p].directory
  BY DEF LayoutAt, NamedDirectory

\* A footer stays whole while nothing in front of it changes.
LEMMA FooterSame ==
  ASSUME NEW f, NEW g, NEW p \in Nat \ {0}, f[p].kind = "footer",
         \A q \in 1..p : f[q].kind = "footer" => FooterOK(f, q),
         \A q \in 1..p : g[q] = f[q]
  PROVE  FooterOK(g, p) /\ LayoutAt(g, p) = LayoutAt(f, p)
<1> DEFINE l == LayoutAt(f, p)
           d == l.directory
<1>1. /\ f[p] = Footer(d) /\ d \in 3..(p - 1) /\ l.generation \in Nat
      /\ DirectoryOK(f, d)
      /\ f[d].signature \in {<<>>, <<Digest(f, l)>>}
      /\ l.extension # 0 => ExtensionOK(f, d, l.extension)
  BY DEF FooterOK
<1>2. d = NamedDirectory(f, p)
  BY LayoutFields
<1>3. LayoutAt(g, p) = l /\ (l.extension = 0 \/ l.extension \in 1..p)
  BY <1>1, <1>2, LayoutSame
<1> HIDE DEF l
<1>4. \A i \in 1..d : g[i] = f[i]
  BY <1>1
<1>5. DirectoryOK(g, d)
  <2>1. g[d] = f[d]
    BY <1>1, <1>4
  <2>2. \A i \in DOMAIN f[d].files : f[d].files[i] \in 1..d
    BY <1>1 DEF DirectoryOK
  <2> QED BY <1>1, <1>4, <2>1, <2>2 DEF DirectoryOK
<1>6. Digest(g, l) = Digest(f, l)
  BY <1>1, <1>3, <1>4 DEF Digest
<1>7. l.extension # 0 => ExtensionOK(g, d, l.extension)
  <2> SUFFICES ASSUME l.extension # 0 PROVE ExtensionOK(g, d, l.extension)
    OBVIOUS
  <2> DEFINE x == l.extension
             q == f[x].prevFooter
  <2>1. /\ q \in 1..(d - 1) /\ f[q].kind = "footer"
        /\ f[x] = Extension(LayoutAt(f, q).generation + 1, LayoutAt(f, q))
    BY <1>1 DEF ExtensionOK
  <2>2. x \in 1..p /\ g[x] = f[x]
    BY <1>3
  <2> HIDE DEF x, q
  <2>3. q \in 1..p /\ q \in Nat \ {0} /\ (\A r \in 1..q : r \in 1..p)
    BY <1>1, <2>1
  <2>4. LayoutAt(g, q) = LayoutAt(f, q)
    <3>1. FooterOK(f, q)
      BY <2>1, <2>3
    <3>2. NamedDirectory(f, q) \in 1..q
      BY <2>3, <3>1, LayoutFields DEF FooterOK
    <3>3. \A r \in 1..q : g[r] = f[r]
      BY <2>3
    <3> QED BY <2>3, <3>2, <3>3, LayoutSame
  <2> QED BY <2>1, <2>2, <2>3, <2>4 DEF ExtensionOK, x, q
<1>8. g[p] = f[p] /\ g[d] = f[d]
  BY <1>1, <1>4
<1> QED BY <1>1, <1>3, <1>5, <1>6, <1>7, <1>8 DEF FooterOK, l

\* The beginning of a sane file is sane.
LEMMA SanePrefix ==
  ASSUME NEW f, Sane(f), IsSeq(f), NEW n \in 2..Len(f)
  PROVE  Sane(Prefix(f, n))
<1> DEFINE g == Prefix(f, n)
<1>1. Len(f) \in Nat /\ Len(g) = n /\ \A p \in 1..n : g[p] = f[p] /\ p \in 1..Len(f)
  BY SeqLen, PrefixSeq
<1> HIDE DEF g
<1>2. ASSUME NEW p \in 1..n, g[p].kind = "footer" PROVE FooterOK(g, p)
  <2>1. p \in Nat \ {0} /\ \A q \in 1..p : q \in 1..n
    OBVIOUS
  <2>2. f[p].kind = "footer" /\ \A q \in 1..p : f[q].kind = "footer" => FooterOK(f, q)
    BY <1>1, <1>2, <2>1 DEF Sane
  <2> QED BY <1>1, <2>1, <2>2, FooterSame
<1>3. ASSUME NEW p \in 1..n, g[p].kind = "recovery" PROVE g[p] = Recovery(p - 1)
  BY <1>1, <1>3 DEF Sane
<1>4. n >= 2 /\ g[1] = f[1] /\ g[2] = f[2]
  BY <1>1
<1> QED BY <1>1, <1>2, <1>3, <1>4 DEF Sane, g

\* A file that continues a sane one is sane if its new footers and services are.
LEMMA SaneContinues ==
  ASSUME NEW f, NEW g, Sane(f), IsSeq(f), IsSeq(g), Len(f) <= Len(g),
         \A p \in 1..Len(f) : g[p] = f[p],
         \A p \in (Len(f) + 1)..Len(g) : /\ g[p].kind = "footer" => FooterOK(g, p)
                                         /\ g[p].kind = "recovery" => g[p] = Recovery(p - 1)
  PROVE  Sane(g)
<1>1. Len(f) \in Nat /\ Len(g) \in Nat
  BY SeqLen
<1>2. ASSUME NEW p \in 1..Len(g), g[p].kind = "footer" PROVE FooterOK(g, p)
  <2>1. CASE p \in 1..Len(f)
    <3>1. p \in Nat \ {0} /\ \A q \in 1..p : q \in 1..Len(f)
      BY <1>1, <2>1
    <3>2. f[p].kind = "footer" /\ \A q \in 1..p : f[q].kind = "footer" => FooterOK(f, q)
      BY <1>2, <2>1, <3>1 DEF Sane
    <3>3. \A q \in 1..p : g[q] = f[q]
      BY <3>1
    <3> QED BY <3>1, <3>2, <3>3, FooterSame
  <2>2. CASE p \in (Len(f) + 1)..Len(g)
    BY <1>2, <2>2
  <2> QED BY <1>1, <2>1, <2>2
<1>3. ASSUME NEW p \in 1..Len(g), g[p].kind = "recovery" PROVE g[p] = Recovery(p - 1)
  <2>1. CASE p \in 1..Len(f)
    BY <1>3, <2>1 DEF Sane
  <2>2. CASE p \in (Len(f) + 1)..Len(g)
    BY <1>3, <2>2
  <2> QED BY <1>1, <2>1, <2>2
<1>4. Len(g) >= 2 /\ g[1] = f[1] /\ g[2] = f[2]
  BY <1>1 DEF Sane
<1> QED BY <1>2, <1>3, <1>4 DEF Sane

\* So is it with one segment appended, unless that is a footer or a service of
\* something else.
LEMMA SaneAppend ==
  ASSUME NEW f, NEW x, Sane(f), IsSeq(f),
         x.kind = "footer" => FooterOK(Append(f, x), Len(f) + 1),
         x.kind = "recovery" => x = Recovery(Len(f))
  PROVE  Sane(Append(f, x))
<1> DEFINE g == Append(f, x)
           n == Len(f)
<1>1. n \in Nat /\ IsSeq(g) /\ Len(g) = n + 1 /\ g[n + 1] = x
      /\ \A p \in 1..n : g[p] = f[p]
  BY SeqLen, AppendSeq
<1>2. \A p \in (n + 1)..Len(g) : p = n + 1 /\ p - 1 = n
  BY <1>1
<1>3. x.kind = "footer" => FooterOK(g, n + 1)
  OBVIOUS
<1> HIDE DEF g
<1>4. \A p \in (n + 1)..Len(g) : /\ g[p].kind = "footer" => FooterOK(g, p)
                                 /\ g[p].kind = "recovery" => g[p] = Recovery(p - 1)
  BY <1>1, <1>2, <1>3
<1>5. Len(f) <= Len(g)
  BY <1>1
<1>6. Sane(g)
  BY <1>1, <1>4, <1>5, SaneContinues
<1> QED BY <1>6 DEF g

\* The fields of an extension.
LEMMA ExtensionFields ==
  ASSUME NEW g, NEW l, NEW x, x = Extension(g, l)
  PROVE  /\ x.kind = "extension" /\ x.generation = g /\ x.prevFooter = l.footer
         /\ x.prevDirectory = l.directory /\ x.prevExtension = l.extension
  BY DEF Extension

\* Every footer of a sane file is one a reader accepts.
LEMMA FooterFits ==
  ASSUME NEW f, Sane(f), IsSeq(f), NEW p \in 1..Len(f), f[p].kind = "footer"
  PROVE  FooterShaped(f, p) /\ ExtensionValid(f, p)
<1> DEFINE l == LayoutAt(f, p)
           d == l.directory
           x == l.extension
<1>1. FooterOK(f, p) /\ Len(f) \in Nat
  BY SeqLen DEF Sane
<1>2. d \in 3..(p - 1) /\ d = f[p].directory /\ d = NamedDirectory(f, p)
      /\ x = ExtensionAt(f, d, p)
  <2>1. /\ d = f[p].directory /\ d = NamedDirectory(f, p) /\ x = ExtensionAt(f, d, p)
    BY LayoutFields
  <2> HIDE DEF x
  <2> QED BY <1>1, <2>1 DEF FooterOK
<1>3. x # 0 => ExtensionOK(f, d, x)
  BY <1>1 DEF FooterOK
<1> HIDE DEF l, d, x
<1>4. FooterShaped(f, p)
  BY <1>2 DEF FooterShaped
<1>5. ExtensionValid(f, p)
  <2>1. CASE x = 0
    BY <1>2, <2>1 DEF ExtensionValid
  <2>2. CASE x # 0
    <3> DEFINE q == f[x].prevFooter
               m == LayoutAt(f, q)
    <3>1. q \in 1..(d - 1) /\ f[q].kind = "footer" /\ f[x] = Extension(m.generation + 1, m)
      BY <1>3, <2>2 DEF ExtensionOK
    <3>2. q \in 1..Len(f) /\ FooterOK(f, q)
      BY <1>1, <1>2, <3>1 DEF Sane
    <3>3. /\ m.footer = q /\ m.directory = NamedDirectory(f, q) /\ m.directory = f[q].directory
          /\ m.extension = ExtensionAt(f, m.directory, q)
          /\ m.generation = IF m.extension = 0 THEN 0 ELSE f[m.extension].generation
          /\ m.directory \in 3..(q - 1) /\ m.generation \in Nat
      <4>1. /\ m.footer = q /\ m.directory = NamedDirectory(f, q) /\ m.directory = f[q].directory
            /\ m.extension = ExtensionAt(f, m.directory, q)
            /\ m.generation = IF m.extension = 0 THEN 0 ELSE f[m.extension].generation
        BY <3>1, LayoutFields
      <4>2. m.directory \in 3..(q - 1) /\ m.generation \in Nat
        BY <3>2 DEF FooterOK
      <4> HIDE DEF m, q
      <4> QED BY <4>1, <4>2
    <3>4. /\ f[x].prevDirectory = m.directory /\ f[x].prevExtension = m.extension
          /\ f[x].generation = m.generation + 1
      <4> HIDE DEF m, q
      <4>1. f[x] = Extension(m.generation + 1, m)
        BY <3>1
      <4> QED BY <4>1, ExtensionFields
    <3>5. FooterShaped(f, q)
      <4> HIDE DEF m, q
      <4> QED BY <3>1, <3>3 DEF FooterShaped
    <3>6. m.extension = 0 \/ /\ m.extension = m.directory + 1
                             /\ f[m.extension].kind = "extension"
      BY <3>3 DEF ExtensionAt
    <3>7. q < d
      BY <1>2, <3>1
    <3> HIDE DEF q, m
    <3>8. m.extension = 0 => m.generation = 0
      BY <3>3
    <3>9. m.extension # 0 => f[m.extension].generation + 1 = m.generation + 1
      BY <3>3
    <3>10. IF f[x].prevExtension = 0 THEN f[x].generation = 1
           ELSE /\ f[x].prevExtension = f[x].prevDirectory + 1
                /\ f[f[x].prevExtension].kind = "extension"
                /\ f[f[x].prevExtension].generation + 1 = f[x].generation
      BY <3>3, <3>4, <3>6, <3>8, <3>9
    <3> QED BY <1>2, <3>3, <3>4, <3>5, <3>7, <3>10 DEF ExtensionValid, q
  <2> QED BY <2>1, <2>2
<1> QED BY <1>4, <1>5

\* The latest footer is the last candidate.
LEMMA LatestIs ==
  ASSUME NEW f, IsSeq(f)
  PROVE  /\ LatestFooter(f) \in 0..Len(f)
         /\ LatestFooter(f) # 0 => /\ FooterShaped(f, LatestFooter(f))
                                   /\ ExtensionValid(f, LatestFooter(f))
         /\ \A p \in 1..Len(f) : FooterShaped(f, p) /\ ExtensionValid(f, p) =>
              p <= LatestFooter(f)
<1> DEFINE found == {p \in 1..Len(f) : FooterShaped(f, p) /\ ExtensionValid(f, p)}
<1>1. Len(f) \in Nat
  BY SeqLen
<1>2. found \cup {0} \subseteq 0..Len(f) /\ found \cup {0} # {}
  BY <1>1
<1>3. LatestFooter(f) = Max(found \cup {0})
  BY DEF LatestFooter
<1>4. \A p \in 1..Len(f) : FooterShaped(f, p) /\ ExtensionValid(f, p) => p \in found \cup {0}
  OBVIOUS
<1>5. \A p \in found \cup {0} : p # 0 => FooterShaped(f, p) /\ ExtensionValid(f, p)
  <2>1. \A p : p \in found \cup {0} /\ p # 0 => p \in found
    BY Zenon
  <2>2. \A p : p \in found => FooterShaped(f, p) /\ ExtensionValid(f, p)
    BY Zenon
  <2> QED BY <2>1, <2>2, Zenon
<1> HIDE DEF found
<1> DEFINE m == Max(found \cup {0})
<1>6. m \in found \cup {0} /\ \A p \in found \cup {0} : p <= m
  BY <1>1, <1>2, MaxOfNumbers
<1> HIDE DEF m
<1> QED BY <1>2, <1>3, <1>4, <1>5, <1>6 DEF m

\* In a sane file no footer lies behind the latest.
LEMMA LatestOfSane ==
  ASSUME NEW f, Sane(f), IsSeq(f)
  PROVE  \A p \in 1..Len(f) : f[p].kind = "footer" => p <= LatestFooter(f)
  BY LatestIs, FooterFits

\* One that ends in a footer is read from there.
LEMMA LatestAtEnd ==
  ASSUME NEW f, Sane(f), IsSeq(f), f[Len(f)].kind = "footer"
  PROVE  LatestFooter(f) = Len(f) /\ ReadLayout(f) = LayoutAt(f, Len(f))
<1>1. Len(f) \in Nat /\ Len(f) >= 2
  BY SeqLen DEF Sane
<1>2. LatestFooter(f) = Len(f)
  BY <1>1, LatestIs, LatestOfSane
<1> QED BY <1>2 DEF ReadLayout, LayoutAt

\* If the latest is a footer, the archive opens, and its entries are intact.
LEMMA FooterOpens ==
  ASSUME NEW f, Sane(f), IsSeq(f), LatestFooter(f) # 0, f[LatestFooter(f)].kind = "footer"
  PROVE  /\ Opens(f) /\ Intact(f)
         /\ LatestFooter(f) \in 1..Len(f) /\ FooterOK(f, LatestFooter(f))
         /\ ReadLayout(f) = LayoutAt(f, LatestFooter(f))
         /\ Index(f) = f[f[LatestFooter(f)].directory]
<1> DEFINE p == LatestFooter(f)
           l == LayoutAt(f, p)
<1>1. p \in 1..Len(f) /\ FooterOK(f, p) /\ ReadLayout(f) = l
  BY LatestIs, SeqLen DEF Sane, ReadLayout, LayoutAt
<1>2. l.directory = f[p].directory /\ DirectoryOK(f, l.directory)
  BY <1>1, LayoutFields DEF FooterOK
<1>3. f[l.directory].kind = "directory"
  BY <1>2 DEF DirectoryOK, Directory
<1>4. Opens(f)
  BY <1>1, <1>3 DEF Opens, LayoutReadable, Sane
<1>5. Index(f) = f[l.directory]
  BY <1>1 DEF Index
<1>6. Intact(f)
  BY <1>2, <1>4, <1>5 DEF Intact, DirectoryOK
<1> QED BY <1>1, <1>2, <1>4, <1>5, <1>6

\* And only then.
LEMMA OpensAtFooter ==
  ASSUME NEW f, Sane(f), IsSeq(f), Opens(f)
  PROVE  LatestFooter(f) # 0 /\ f[LatestFooter(f)].kind = "footer"
<1> DEFINE p == LatestFooter(f)
<1>1. p # 0 /\ FooterShaped(f, p) /\ f[ReadLayout(f).directory].kind = "directory"
  BY LatestIs DEF Opens, LayoutReadable
<1>2. ReadLayout(f).directory = NamedDirectory(f, p)
  BY DEF ReadLayout
<1>3. f[1].kind = "header"
  BY DEF Sane, Header
<1> HIDE DEF p
<1>4. f[p].kind # "footer" => FALSE
  BY <1>1, <1>2, <1>3 DEF NamedDirectory
<1> QED BY <1>1, <1>4 DEF p

\* An undamaged file is as it was written.
LEMMA WholeFile ==
  ASSUME NEW f, IsSeq(f)
  PROVE  (Whole(f) <=> SoundFile(f)) /\ (SoundFile(f) => AsWritten(f) = f)
<1>1. f = [p \in 1..Len(f) |-> f[p]] /\ DOMAIN f = 1..Len(f)
  BY SeqLen
<1>2. Whole(f) <=> SoundFile(f)
  BY DEF Whole, Lost, SoundFile
<1>3. ASSUME SoundFile(f) PROVE AsWritten(f) = f
  <2>1. \A p \in 1..Len(f) : Sound(f[p]) = f[p]
    BY <1>3 DEF SoundFile
  <2>2. AsWritten(f) = [p \in 1..Len(f) |-> Sound(f[p])]
    BY <1>1 DEF AsWritten
  <2>3. [p \in 1..Len(f) |-> Sound(f[p])] = [p \in 1..Len(f) |-> f[p]]
    BY <2>1
  <2> QED BY <1>1, <2>2, <2>3
<1> QED BY <1>2, <1>3

\* What was written of a file.
LEMMA AsWrittenFile ==
  ASSUME NEW f, FileOK(f)
  PROVE  /\ FileOK(AsWritten(f)) /\ IsSeq(AsWritten(f)) /\ Len(AsWritten(f)) = Len(f)
         /\ \A p \in 1..Len(f) : AsWritten(f)[p] = Sound(f[p])
<1>1. IsSeq(f) /\ Len(f) \in Nat /\ DOMAIN f = 1..Len(f)
  BY SeqLen DEF FileOK
<1> DEFINE g == AsWritten(f)
<1>2. g = [p \in 1..Len(f) |-> Sound(f[p])]
  BY <1>1 DEF AsWritten
<1> HIDE DEF g
<1>3. IsSeq(g) /\ Len(g) = Len(f)
  <2>1. g = [p \in 1..Len(f) |-> g[p]]
    BY <1>2
  <2> QED BY <1>1, <2>1, SeqOfFunction
<1>4. \A p \in 1..Len(g) : Segment(g[p], p)
  BY <1>2, <1>3, SegmentAt, SoundSegment
<1> QED BY <1>2, <1>3, <1>4 DEF FileOK, g

\* It is not damaged.
LEMMA AsWrittenSound ==
  ASSUME NEW f, FileOK(f), Sane(AsWritten(f))
  PROVE  SoundFile(AsWritten(f))
<1> DEFINE g == AsWritten(f)
<1>1. Len(g) = Len(f) /\ \A p \in 1..Len(f) : g[p] = Sound(f[p])
  BY AsWrittenFile
<1> HIDE DEF g
<1>2. ASSUME NEW p \in 1..Len(g) PROVE Sound(g[p]) = g[p]
  <2>1. g[p].kind # "damaged"
    <3> DEFINE s == f[p]
    <3>1. g[p] = Sound(s) /\ Segment(s, p)
      BY <1>1, SegmentAt
    <3> HIDE DEF s
    <3>2. CASE s.kind = "damaged"
      BY <3>1, <3>2 DEF Sound, Segment, Readable
    <3>3. CASE s.kind = "recovery"
      BY <3>1, <3>3 DEF Sound, Recovery
    <3>4. CASE s.kind \notin {"damaged", "recovery"}
      BY <3>1, <3>4 DEF Sound
    <3> QED BY <3>2, <3>3, <3>4
  <2>2. CASE g[p].kind = "recovery"
    <3>1. g[p] = Recovery(p - 1)
      BY <2>2 DEF Sane, g
    <3> QED BY <3>1 DEF Sound, Recovery
  <2>3. CASE g[p].kind # "recovery"
    BY <2>1, <2>3 DEF Sound
  <2> QED BY <2>2, <2>3
<1> QED BY <1>2 DEF SoundFile, g

----------------------------------------------------------------------------
(* What the operation's steps have in common.                              *)

\* What is asked for does not change.
SameRequest ==
  /\ op'.mode = op.mode /\ op'.layout = op.layout /\ op'.before = op.before
  /\ op'.request = op.request

\* The archive of a running update is sane and undamaged.
LEMMA DiskSane ==
  ASSUME IInv, FilesSane, Updating
  PROVE  Sane(disk) /\ SoundFile(disk)
<1>1. SoundFile(disk) /\ AsWritten(disk) = disk
  BY StagedOK, WholeFile DEF FilesSane
<1> QED BY <1>1 DEF FilesSane

\* So is the file it builds.
LEMMA StagedSane ==
  ASSUME IInv, FilesSane, pc \in Building
  PROVE  Sane(Staged) /\ SoundFile(Staged) /\ Updating /\ op.mode \in {"append", "rewrite"}
<1>1. op.mode \in {"append", "rewrite"} /\ Updating
  BY DEF IInv, Modes, Updating
<1>2. CASE InPlace
  BY <1>1, <1>2, DiskSane DEF Staged
<1>3. CASE ~InPlace
  BY <1>1, <1>3 DEF Staged, FilesSane
<1> QED BY <1>1, <1>2, <1>3

\* In an undamaged file every parity count is the full one.
LEMMA SoundParity ==
  ASSUME NEW f, SoundFile(f)
  PROVE  ParityKnown(f)
<1> SUFFICES ASSUME NEW p \in 1..Len(f), f[p].kind = "recovery" PROVE f[p].parity \in Int
  BY DEF ParityKnown
<1>1. f[p] = Recovery(f[p].protected)
  BY DEF SoundFile, Sound
<1>2. f[p].parity = Parity
  BY <1>1 DEF Recovery
<1> QED BY <1>2, GenerationsAssumption

\* The segments an operation writes are not damaged.
LEMMA SoundSegments ==
  /\ \A i : Sound(Block(i)) = Block(i)
  /\ Sound(Header) = Header /\ Sound(Torn) = Torn
  /\ \A n : Sound(Recovery(n)) = Recovery(n) /\ Sound(Footer(n)) = Footer(n)
  /\ \A b, f, s : Sound(Directory(b, f, s)) = Directory(b, f, s)
  /\ \A n, l : Sound(Extension(n, l)) = Extension(n, l)
<1>1. \A i : Sound(Block(i)) = Block(i)
  BY DEF Sound, Block
<1>2. Sound(Header) = Header /\ Sound(Torn) = Torn
  BY DEF Sound, Header, Torn
<1>3. \A n : Sound(Recovery(n)) = Recovery(n)
  BY DEF Sound, Recovery
<1>4. \A n : Sound(Footer(n)) = Footer(n)
  BY DEF Sound, Footer
<1>5. \A b, f, s : Sound(Directory(b, f, s)) = Directory(b, f, s)
  BY DEF Sound, Directory
<1>6. \A n, l : Sound(Extension(n, l)) = Extension(n, l)
  BY DEF Sound, Extension
<1> QED BY <1>1, <1>2, <1>3, <1>4, <1>5, <1>6

\* An undamaged file stays so when such a segment is appended.
LEMMA SoundAppend ==
  ASSUME NEW f, NEW x, IsSeq(f), SoundFile(f), Sound(x) = x
  PROVE  SoundFile(Append(f, x))
<1> DEFINE g == Append(f, x)
           n == Len(f)
<1>1. n \in Nat /\ Len(g) = n + 1 /\ (\A p \in 1..n : g[p] = f[p]) /\ g[n + 1] = x
  BY SeqLen, AppendSeq
<1>2. \A p \in 1..n : f[p] = Sound(f[p])
  BY DEF SoundFile
<1> HIDE DEF g, n
<1>3. ASSUME NEW p \in 1..Len(g) PROVE g[p] = Sound(g[p])
  <2>1. CASE p \in 1..n
    BY <1>1, <1>2, <2>1
  <2>2. CASE p = n + 1
    BY <1>1, <2>2
  <2> QED BY <1>1, <2>1, <2>2
<1> QED BY <1>3 DEF SoundFile, g

\* The beginning of an undamaged file is undamaged.
LEMMA SoundPrefix ==
  ASSUME NEW f, IsSeq(f), SoundFile(f), NEW n \in 0..Len(f)
  PROVE  SoundFile(Prefix(f, n))
<1>1. Len(f) \in Nat /\ Len(Prefix(f, n)) = n
      /\ \A p \in 1..n : Prefix(f, n)[p] = f[p] /\ p \in 1..Len(f)
  BY SeqLen, PrefixSeq
<1> QED BY <1>1 DEF SoundFile

\* Both files are sane when f, sane and undamaged, is put in place of the staged one.
LEMMA PutSane ==
  ASSUME IInv, FilesSane, pc \in Building, NEW f, Put(f), IsSeq(f), Sane(f), SoundFile(f),
         op'.mode = op.mode
  PROVE  FilesSane'
<1>1. op.mode \in {"append", "rewrite"} /\ Updating /\ Updating' /\ InPlace' = InPlace
  BY StagedSane DEF Updating, InPlace
<1>2. AsWritten(f) = f /\ ParityKnown(f) /\ f # <<>>
  <2>1. Len(f) # 0
    BY DEF Sane
  <2>2. Len(<<>>) = 0
    BY ShortSeqs
  <2> QED BY <2>1, <2>2, WholeFile, SoundParity
<1>3. CASE InPlace
  BY <1>1, <1>2, <1>3 DEF FilesSane, Put
<1>4. CASE ~InPlace
  BY <1>1, <1>2, <1>4 DEF FilesSane, Put
<1> QED BY <1>3, <1>4

\* The generation found is found in any file that continues it.
LEMMA FoundStays ==
  ASSUME NEW f, NEW g, IsSeq(f), IsSeq(g), Found(f), LayoutOf(op.layout, f),
         op.layout.footer <= Len(g), \A q \in 1..op.layout.footer : g[q] = f[q]
  PROVE  Found(g) /\ LayoutOf(op.layout, g)
<1> DEFINE l == op.layout
           p == l.footer
<1>1. Len(f) \in Nat /\ Len(g) \in Nat /\ p \in 1..Len(g) /\ p \in Nat \ {0} /\ g[p] = f[p]
  BY SeqLen DEF LayoutOf
<1>2. l.directory \in 1..p /\ l.directory = NamedDirectory(f, p)
  BY <1>1 DEF LayoutOf
<1>3. LayoutAt(g, p) = LayoutAt(f, p)
  BY <1>1, <1>2, LayoutSame
<1>4. LayoutOf(l, g)
  BY LayoutStays
<1>5. g[l.directory] = f[l.directory]
  BY <1>2
<1> QED BY <1>1, <1>3, <1>4, <1>5 DEF Found

\* The new footers of a file, as far as another agrees with it.
LEMMA NewStays ==
  ASSUME NEW f, NEW g, Sane(f), IsSeq(f), NEW n \in 0..Len(f), op.layout.footer \in Nat,
         NewBehind(f), \A q \in 1..n : g[q] = f[q]
  PROVE  \A q \in (op.layout.footer + 1)..n :
           g[q].kind = "footer" => New(g[g[q].directory].files)
<1> SUFFICES ASSUME NEW q \in (op.layout.footer + 1)..n, g[q].kind = "footer"
             PROVE  New(g[g[q].directory].files)
  OBVIOUS
<1>1. Len(f) \in Nat /\ q \in 1..n /\ q \in 1..Len(f) /\ g[q] = f[q]
      /\ q \in (op.layout.footer + 1)..Len(f)
  BY SeqLen
<1>2. FooterOK(f, q)
  BY <1>1 DEF Sane
<1>3. f[q].directory \in 1..n
  <2>1. LayoutAt(f, q).directory = f[q].directory /\ LayoutAt(f, q).directory \in 3..(q - 1)
    BY <1>1, <1>2, LayoutFields DEF FooterOK
  <2> QED BY <1>1, <2>1
<1>4. New(f[f[q].directory].files)
  BY <1>1 DEF NewBehind
<1> QED BY <1>1, <1>3, <1>4

\* What New says depends on the request alone.
LEMMA NewSame ==
  ASSUME SameRequest
  PROVE  \A files : New(files) <=> New(files)'
  BY DEF SameRequest, New

\* What a step that builds does to the outcomes.
LEMMA BuildOutcomes ==
  ASSUME IInv, FilesSane, Outcomes, pc \in Building, pc' \in Building \cup {Finished},
         NEW f, Put(f), IsSeq(f), SameRequest,
         InPlace => /\ op.layout.footer <= Len(f)
                    /\ \A q \in 1..op.layout.footer : f[q] = disk[q]
                    /\ NewBehind(f),
         pc' = Finished => op' = op /\ f # <<>> /\ Result(f)
  PROVE  Outcomes' /\ Repairing'
<1>1. /\ op.mode \in {"append", "rewrite"} /\ Updating /\ Updating' /\ InPlace' = InPlace
      /\ op'.mode = op.mode
  BY StagedSane DEF Updating, InPlace, SameRequest
<1>2. pc' \in Building \cup {"report", "replace"} /\ pc \notin {"idle", "report"}
      /\ pc' \notin {"stage", "protect", "idle", "rollback"}
      /\ (pc' = "report" => pc' = Finished /\ InPlace)
      /\ (pc' = "replace" => pc' = Finished /\ ~InPlace)
  BY DEF Building, Finished
<1>3. \A g : (Found(g) <=> Found(g)') /\ (NewBehind(g) <=> NewBehind(g)')
  <2>1. \A files : New(files) <=> New(files)'
    BY NewSame
  <2>2. \A g : Found(g) <=> Found(g)'
    BY DEF SameRequest, Found
  <2>3. \A g : NewBehind(g) <=> NewBehind(g)'
    <3> SUFFICES ASSUME NEW g PROVE NewBehind(g) <=> NewBehind(g)'
      OBVIOUS
    <3>1. op'.layout = op.layout
      BY DEF SameRequest
    <3> HIDE DEF New
    <3> QED BY <2>1, <3>1 DEF NewBehind
  <2> QED BY <2>2, <2>3
<1> DEFINE done == pc' = Finished => f # <<>> /\ Result(f)'
<1>4. done
  BY DEF Result, Renewed, New
<1> HIDE DEF done
<1>5. CASE InPlace
  <2>1. disk' = f /\ Found(disk) /\ LayoutOf(op.layout, disk)
    BY <1>1, <1>2, <1>5 DEF Put, Outcomes, IInv, LayoutKept
  <2>2. Found(f)
    BY <1>5, <2>1, StagedOK, FoundStays
  <2>3. Found(f)' /\ NewBehind(f)'
    BY <1>3, <1>5, <2>2
  <2>4. Found(disk)' /\ NewBehind(disk)' /\ (pc' = Finished => Result(disk)')
    BY <1>4, <2>1, <2>3 DEF done
  <2>5. op.mode = "append"
    BY <1>5 DEF InPlace
  <2> HIDE DEF Found, NewBehind, Result
  <2> QED BY <1>1, <1>2, <1>5, <2>4, <2>5 DEF Outcomes, Repairing
<1>6. CASE ~InPlace
  <2>1. disk' = disk /\ temp' = f /\ op.mode = "rewrite"
    BY <1>1, <1>6 DEF Put, InPlace
  <2>2. Found(disk) /\ NoFooterBehind
    BY <1>2, <2>1 DEF Outcomes
  <2>3. Found(disk)' /\ NoFooterBehind'
    <3>1. op'.layout = op.layout
      BY DEF SameRequest
    <3>2. Found(disk)'
      BY <1>3, <2>1, <2>2
    <3> QED BY <2>1, <2>2, <3>1, <3>2 DEF NoFooterBehind
  <2>4. pc' = Finished => temp' # <<>> /\ Result(temp)'
    BY <1>4, <2>1 DEF done
  <2> HIDE DEF Found, NoFooterBehind, Result
  <2> QED BY <1>1, <1>2, <1>6, <2>1, <2>3, <2>4 DEF Outcomes, Repairing
<1> QED BY <1>5, <1>6

\* Appending a segment that is not a footer.
LEMMA AppendStep ==
  ASSUME IInv, SInv, pc \in Building, pc' \in Building,
         NEW x, Put(Append(Staged, x)), SameRequest,
         x.kind \notin {"footer", "recovery"}, Sound(x) = x
  PROVE  FilesSane' /\ Outcomes' /\ Repairing'
<1> DEFINE f == Append(Staged, x)
           n == Len(Staged)
<1>1. Sane(Staged) /\ SoundFile(Staged) /\ IsSeq(Staged) /\ n \in Nat
  BY StagedSane, StagedOK DEF SInv
<1>2. IsSeq(f) /\ Sane(f) /\ SoundFile(f)
  BY <1>1, AppendSeq, SaneAppend, SoundAppend
<1>3. Len(f) = n + 1 /\ (\A q \in 1..n : f[q] = Staged[q]) /\ f[n + 1] = x
  BY <1>1, AppendSeq
<1>4. ASSUME InPlace
      PROVE  /\ op.layout.footer <= Len(f)
             /\ \A q \in 1..op.layout.footer : f[q] = disk[q]
             /\ NewBehind(f)
  <2> HIDE DEF f
  <2>1. Staged = disk /\ op.layout.footer \in 1..n /\ NewBehind(Staged)
    BY <1>4 DEF Staged, IInv, LayoutKept, LayoutOf, Building, SInv, Outcomes
  <2>2. \A q \in (op.layout.footer + 1)..n :
           f[q].kind = "footer" => New(f[f[q].directory].files)
    <3>1. n \in 0..Len(Staged) /\ op.layout.footer \in Nat
      BY <1>1, <2>1
    <3> HIDE DEF n
    <3> QED BY <1>1, <1>3, <2>1, <3>1, NewStays
  <2>3. NewBehind(f)
    <3>1. \A q \in (op.layout.footer + 1)..Len(f) :
            q \in (op.layout.footer + 1)..n \/ f[q].kind # "footer"
      BY <1>1, <1>3, <2>1
    <3> QED BY <2>2, <3>1 DEF NewBehind
  <2> QED BY <1>1, <1>3, <2>1, <2>3
<1>5. pc' # Finished
  BY DEF Building, Finished
<1>6. Put(f) /\ op'.mode = op.mode
  BY DEF SameRequest
<1> HIDE DEF f
<1>7. FilesSane'
  BY <1>2, <1>6, PutSane DEF SInv
<1>8. Outcomes' /\ Repairing'
  BY <1>2, <1>4, <1>5, <1>6, BuildOutcomes DEF SInv
<1> QED BY <1>7, <1>8

\* The entries of the operation lie in the part of the staged file that its block
\* table covers.
LEMMA EntriesStay ==
  ASSUME IInv, SInv, pc \in Building, NEW n \in Nat, op.blocks \subseteq 1..n,
         \A p \in 1..n : Staged'[p] = Staged[p], op'.files = op.files
  PROVE  \A i \in DOMAIN op'.files : Staged'[op'.files[i]] = Block(i)
  BY DEF SInv, Typed, EntriesPlaced

\* A new block, and its entry.
LEMMA WriteBlockSInv ==
  ASSUME IInv, SInv, NEW i \in Item, WriteBlock(i)
  PROVE  SInv'
<1> DEFINE n == Len(Staged)
           x == Block(i)
<1>1. /\ pc = "blocks" /\ pc' = "blocks" /\ i \in op.adds /\ Put(Append(Staged, x))
      /\ outcome' = outcome /\ ops' = ops
      /\ SameRequest /\ op'.sign = op.sign /\ op'.recovery = op.recovery
      /\ op'.signature = op.signature
      /\ op'.adds = op.adds \ {i} /\ op'.blocks = op.blocks \cup {n + 1}
      /\ op'.files = [j \in DOMAIN op.files \cup {i} |->
                        IF j = i THEN n + 1 ELSE op.files[j]]
  BY DEF WriteBlock, SameRequest, IInv, OpShape, OpFields
<1>2. x.kind = "block" /\ Sound(x) = x /\ Segment(x, n + 1)
  BY SoundSegments, StagedOK, NewSegments DEF Block
<1>3. /\ Len(Staged) \in Nat /\ Len(Staged') = n + 1
      /\ \A p \in 1..n : Staged'[p] = Staged[p]
      /\ Staged'[n + 1] = x
  BY <1>1, <1>2, AppendKeeps DEF SameRequest, Building
<1>4. FilesSane' /\ Outcomes' /\ Repairing'
  <2>1. x.kind \notin {"footer", "recovery"}
    BY <1>2
  <2> HIDE DEF x
  <2> QED BY <1>1, <1>2, <2>1, AppendStep DEF Building
<1>5. op.blocks \subseteq 1..n /\ n \in Nat
  BY <1>1, <1>3 DEF IInv, BlocksPlaced
<1>6. Typed'
  <2>1. \A j \in DOMAIN op'.files : j \in Item /\ op'.files[j] \in op'.blocks
    BY <1>1 DEF SInv, Typed
  <2> QED BY <1>1, <2>1 DEF SInv, Typed
<1>7. Progress'
  <2>1. i \in op.request.adds /\ i \notin op.request.keep
    BY <1>1 DEF SInv, Progress, Running, Building
  <2>2. op'.request = op.request /\ op'.before = op.before
    BY <1>1 DEF SameRequest
  <2>3. DOMAIN op'.files = op.request.keep \cup (op.request.adds \ op'.adds)
    <3>1. DOMAIN op.files = op.request.keep \cup (op.request.adds \ op.adds)
      BY <1>1 DEF SInv, Progress, Running, Building
    <3> QED BY <1>1, <2>1, <3>1
  <2>4. \A j \in op.request.keep : op'.files[j] = op.before[j]
    <3>1. \A j \in op.request.keep : j \in DOMAIN op.files /\ op.files[j] = op.before[j]
      BY <1>1 DEF SInv, Progress, Running, Building
    <3> QED BY <1>1, <2>1, <3>1
  <2>5. \A j \in (op.request.adds \ op'.adds) \cap DOMAIN op.before :
          op'.files[j] # op.before[j]
    <3> SUFFICES ASSUME NEW j \in op.request.adds, j \notin op'.adds, j \in DOMAIN op.before
                 PROVE  op'.files[j] # op.before[j]
      OBVIOUS
    <3>1. CASE j = i
      <4>1. op'.files[j] = n + 1
        BY <1>1, <3>1
      <4>2. op.before[j] \in op.blocks
        BY <1>1 DEF SInv, Progress, Running, Building
      <4>3. op.before[j] \in 1..n
        BY <1>5, <4>2
      <4> HIDE DEF n
      <4> QED BY <1>5, <4>1, <4>3
    <3>2. CASE j # i
      <4>1. j \in op.request.adds \ op.adds
        BY <1>1, <3>2
      <4>2. j \in DOMAIN op.files /\ op.files[j] # op.before[j]
        BY <1>1, <4>1 DEF SInv, Progress, Running, Building
      <4> QED BY <1>1, <3>2, <4>2
    <3> QED BY <3>1, <3>2
  <2>6. /\ op.request.keep \subseteq DOMAIN op.before
        /\ op.request.keep \cap op.request.adds = {} /\ op'.adds \subseteq op.request.adds
        /\ 2 \in op'.blocks
        /\ \A j \in DOMAIN op.before : op.before[j] \in op'.blocks
        /\ op.signature = <<>>
    BY <1>1 DEF SInv, Progress, Running, Building
  <2> QED BY <1>1, <2>2, <2>3, <2>4, <2>5, <2>6 DEF Progress, Building
<1>8. EntriesPlaced'
  <2>1. \A j \in DOMAIN op.files : op.files[j] \in 1..n /\ Staged[op.files[j]] = Block(j)
    BY <1>1, <1>5 DEF SInv, Typed, EntriesPlaced, Building
  <2>2. \A j \in DOMAIN op'.files : Staged'[op'.files[j]] = Block(j)
    BY <1>1, <1>3, <2>1
  <2> QED BY <1>1, <2>2 DEF EntriesPlaced
<1>9. DirectoryNew'
  BY <1>1 DEF SInv, Progress, DirectoryNew
<1> QED BY <1>4, <1>6, <1>7, <1>8, <1>9 DEF SInv

\* The directory, in the place it is expected.
LEMMA WriteDirectorySInv ==
  ASSUME IInv, SInv, WriteDirectory
  PROVE  SInv'
<1> DEFINE n == Len(Staged)
           x == Directory(op.blocks, op.files, op.signature)
<1>1. /\ pc \in {"blocks", "directory"} /\ (pc = "blocks" => op.adds = {})
      /\ op' = op /\ outcome' = outcome /\ ops' = ops
      /\ Put(Append(Staged, x)) /\ pc' = IF InPlace THEN "extension" ELSE "footer"
  BY DEF WriteDirectory
<1>2. n \in Nat /\ op.blocks \subseteq 1..n
  BY <1>1, StagedOK DEF IInv, BlocksPlaced
<1>3. x.kind = "directory" /\ Sound(x) = x /\ Segment(x, n + 1)
  <2>1. op.blocks \subseteq 1..(n + 1) /\ n + 1 \in Nat
    BY <1>2
  <2> QED BY <2>1, SoundSegments, NewSegments, <1>2 DEF Directory
<1> HIDE DEF x
<1>4. SameRequest /\ InPlace' = InPlace /\ Behind' = Behind
  BY <1>1 DEF SameRequest, InPlace, Behind
<1>5. /\ Len(Staged') = n + 1 /\ (\A p \in 1..n : Staged'[p] = Staged[p])
      /\ Staged'[n + 1] = x
  BY <1>1, <1>3, AppendKeeps DEF Building
<1>6. FilesSane' /\ Outcomes' /\ Repairing'
  BY <1>1, <1>3, <1>4, AppendStep DEF Building
<1>7. Typed' /\ Progress'
  BY <1>1 DEF SInv, Typed, Steps, Progress, Running, Building
<1>8. EntriesPlaced'
  BY <1>1, <1>2, <1>5, EntriesStay DEF EntriesPlaced, Building
<1>9. DirectoryNew'
  <2>1. Place' = n + 1
    BY <1>1, <1>2, <1>4, <1>5 DEF Place, Behind
  <2>2. op.signature # <<>> => op.signature = <<NewDigest(n + 1)>>
    BY <1>1 DEF SInv, Progress, DirectoryNew, Place, Building
  <2>3. \A d : NewDigest(d)' = NewDigest(d)
    BY <1>1, <1>4 DEF NewDigest, NewExtension
  <2>4. Staged'[Place'] = Directory(op'.blocks, op'.files, op'.signature)
    BY <1>1, <1>5, <2>1 DEF x
  <2>5. op'.signature # <<>> => op'.signature = <<NewDigest(Place)'>>
    BY <1>1, <2>1, <2>2, <2>3
  <2> QED BY <1>1, <2>4, <2>5 DEF DirectoryNew
<1> QED BY <1>6, <1>7, <1>8, <1>9 DEF SInv

\* The extension, behind it.
LEMMA WriteExtensionSInv ==
  ASSUME IInv, SInv, WriteExtension
  PROVE  SInv'
<1> DEFINE n == Len(Staged)
           x == Extension(op.layout.generation + 1, op.layout)
<1>1. /\ pc = "extension" /\ pc' = "footer"
      /\ op' = op /\ outcome' = outcome /\ ops' = ops
      /\ Put(Append(Staged, x))
  BY DEF WriteExtension
<1>2. n \in Nat /\ op.blocks \subseteq 1..(n - 1) /\ InPlace /\ n \in 1..n
  <2>1. op.layout.footer \in Nat
    BY <1>1 DEF IInv, LayoutKept, TrailerPlaced, LayoutOf
  <2> QED BY <1>1, <2>1, StagedOK DEF IInv, TrailerPlaced
<1>3. x.kind = "extension" /\ Sound(x) = x /\ Segment(x, n + 1)
  <2>1. op.layout.generation + 1 \in Nat
    BY <1>1, <1>2 DEF IInv, LayoutKept, LayoutOf
  <2>2. n + 1 \in Nat
    BY <1>2
  <2> HIDE DEF n
  <2> QED BY <2>1, <2>2, SoundSegments, NewSegments DEF Extension
<1> HIDE DEF x
<1>4. SameRequest /\ InPlace' = InPlace /\ Behind' = 1
  BY <1>1, <1>2 DEF SameRequest, InPlace, Behind
<1>5. /\ Len(Staged') = n + 1 /\ (\A p \in 1..n : Staged'[p] = Staged[p])
  BY <1>1, <1>3, AppendKeeps DEF Building
<1>6. FilesSane' /\ Outcomes' /\ Repairing'
  BY <1>1, <1>3, <1>4, AppendStep DEF Building
<1>7. Typed' /\ Progress'
  BY <1>1 DEF SInv, Typed, Steps, Progress, Running, Building
<1>8. EntriesPlaced'
  <2>1. op.blocks \subseteq 1..n
    BY <1>2
  <2> QED BY <1>1, <1>2, <1>5, <2>1, EntriesStay DEF EntriesPlaced, Building
<1>9. DirectoryNew'
  <2>1. Place' = n /\ Place = n
    BY <1>1, <1>2, <1>4, <1>5 DEF Place
  <2>2. op.signature # <<>> => op.signature = <<NewDigest(n)>>
    BY <1>1, <2>1 DEF SInv, DirectoryNew, Building
  <2>3. \A d : NewDigest(d)' = NewDigest(d)
    BY <1>1, <1>4 DEF NewDigest, NewExtension
  <2>4. Staged'[Place'] = Directory(op'.blocks, op'.files, op'.signature)
    BY <1>1, <1>2, <1>5, <2>1 DEF SInv, DirectoryNew
  <2>5. op'.signature # <<>> => op'.signature = <<NewDigest(Place)'>>
    BY <1>1, <2>1, <2>2, <2>3
  <2> QED BY <1>1, <2>4, <2>5 DEF DirectoryNew
<1> QED BY <1>6, <1>7, <1>8, <1>9 DEF SInv

\* The footer of the new generation, behind its directory at d.
LEMMA NewFooter ==
  ASSUME IInv, SInv, pc \in Building \ {"blocks"},
         NEW f, IsSeq(f), NEW d \in Nat,
         d < Len(f), f[Len(f)] = Footer(d),
         f[d] = Directory(op.blocks, op.files, op.signature), op.blocks \subseteq 1..(d - 1),
         \A i \in DOMAIN op.files : f[op.files[i]] = Block(i),
         op.signature \in {<<>>, <<NewDigest(d)>>},
         IF InPlace THEN /\ f[d + 1] = NewExtension /\ d + 1 < Len(f)
                         /\ LayoutOf(op.layout, f) /\ Found(f) /\ op.layout.footer < d
         ELSE d + 1 < Len(f) => f[d + 1].kind # "extension"
  PROVE  /\ FooterOK(f, Len(f)) /\ Renewed(f)
         /\ LET l == LayoutAt(f, Len(f))
            IN  l.directory = d /\ l.extension = IF InPlace THEN d + 1 ELSE 0
<1> DEFINE n == Len(f)
           l == LayoutAt(f, n)
<1>1. /\ n \in Nat /\ f[n].kind = "footer" /\ f[n].directory = d
      /\ f[d].blocks = op.blocks /\ f[d].files = op.files /\ f[d].signature = op.signature
  BY SeqLen DEF Footer, Directory
<1>2. 2 \in op.blocks /\ d \in 3..(n - 1)
  <2>1. 2 \in op.blocks
    BY DEF SInv, Progress, Running
  <2>2. 2 \in 1..(d - 1)
    BY <2>1
  <2> QED BY <1>1, <2>1, <2>2
<1>3. /\ l.footer = n /\ l.directory = d /\ l.extension = ExtensionAt(f, d, n)
      /\ l.generation = IF l.extension = 0 THEN 0 ELSE f[l.extension].generation
  BY <1>1, LayoutFields
<1>4. l.extension = IF InPlace THEN d + 1 ELSE 0
  BY <1>1, <1>2, <1>3 DEF ExtensionAt, NewExtension, Extension
<1> HIDE DEF l, n
<1>5. DirectoryOK(f, d)
  <2>1. \A i \in DOMAIN op.files : i \in Item /\ op.files[i] \in op.blocks
    BY DEF SInv, Typed
  <2> QED BY <1>1, <1>2, <2>1 DEF DirectoryOK
<1>6. l.generation \in Nat /\ (InPlace => ExtensionOK(f, d, l.extension))
  <2>1. CASE InPlace
    <3> DEFINE k == op.layout
    <3>1. /\ k.generation \in Nat /\ k.footer \in 1..Len(f) /\ f[k.footer].kind = "footer"
          /\ LayoutAt(f, k.footer) = k /\ k.footer < d
      BY <2>1 DEF LayoutOf, Found
    <3>2. f[d + 1] = Extension(k.generation + 1, k)
      BY <2>1 DEF NewExtension
    <3> HIDE DEF k
    <3>3. f[d + 1].prevFooter = k.footer /\ f[d + 1].generation = k.generation + 1
      BY <3>2 DEF Extension
    <3>4. l.generation = k.generation + 1
      BY <1>2, <1>3, <1>4, <2>1, <3>3
    <3>5. k.footer \in 1..(d - 1)
      BY <1>2, <3>1
    <3>6. ExtensionOK(f, d, d + 1)
      BY <3>1, <3>2, <3>3, <3>5 DEF ExtensionOK
    <3> QED BY <1>4, <2>1, <3>1, <3>4, <3>6
  <2>2. CASE ~InPlace
    BY <1>3, <1>4, <2>2
  <2> QED BY <2>1, <2>2
<1>7. Digest(f, l) = NewDigest(d)
  BY <1>1, <1>2, <1>3, <1>4 DEF Digest, NewDigest
<1>8. FooterOK(f, n)
  <2>1. f[n] = Footer(d)
    BY DEF n
  <2>2. l.extension # 0 => InPlace
    BY <1>4
  <2> QED BY <1>1, <1>2, <1>3, <1>5, <1>6, <1>7, <2>1, <2>2 DEF FooterOK, l
<1>9. Renewed(f)
  <2>1. New(op.files)
    BY DEF SInv, Progress, Running, New
  <2> HIDE DEF New
  <2> QED BY <1>1, <2>1 DEF Renewed, n
<1> QED BY <1>3, <1>4, <1>8, <1>9 DEF l, n

\* Appending it.
LEMMA FooterStep ==
  ASSUME IInv, SInv, pc \in {"footer", "last"}, op' = op, NEW d \in Nat \ {0},
         d <= Len(Staged), Put(Append(Staged, Footer(d))), pc' \in Building \cup {Finished},
         Staged[d] = Directory(op.blocks, op.files, op.signature),
         op.blocks \subseteq 1..(d - 1), op.signature \in {<<>>, <<NewDigest(d)>>},
         IF InPlace THEN /\ Staged[d + 1] = NewExtension /\ d + 1 <= Len(Staged)
                         /\ op.layout.footer < d
         ELSE d + 1 <= Len(Staged) => Staged[d + 1].kind # "extension",
         pc' = Finished =>
           /\ op.sign => op.signature # <<>>
           /\ Staged[Len(Staged)].kind = "recovery" <=> op.recovery
           /\ op.recovery =>
                Staged[Len(Staged)].protected = IF InPlace THEN d + 1 ELSE d
  PROVE  FilesSane' /\ Outcomes' /\ Repairing'
<1> DEFINE n == Len(Staged)
           x == Footer(d)
           f == Append(Staged, x)
<1>1. Sane(Staged) /\ SoundFile(Staged) /\ IsSeq(Staged) /\ n \in Nat /\ pc \in Building
  BY StagedSane, StagedOK DEF SInv, Building
<1>2. /\ IsSeq(f) /\ SoundFile(f)
      /\ Len(f) = n + 1 /\ (\A q \in 1..n : f[q] = Staged[q]) /\ f[n + 1] = x
  BY <1>1, AppendSeq, SoundAppend, SoundSegments
<1>3. x.kind = "footer" /\ Put(f)
  BY DEF Footer
<1> HIDE DEF f, x
<1>4. InPlace => /\ op.layout.footer \in 1..n /\ op.layout.footer <= Len(f)
                 /\ \A q \in 1..op.layout.footer : f[q] = disk[q]
                 /\ LayoutOf(op.layout, f) /\ Found(f) /\ disk = Staged
  <2> SUFFICES ASSUME InPlace
               PROVE  /\ op.layout.footer \in 1..n /\ op.layout.footer <= Len(f)
                      /\ \A q \in 1..op.layout.footer : f[q] = disk[q]
                      /\ LayoutOf(op.layout, f) /\ Found(f) /\ disk = Staged
    OBVIOUS
  <2>1. Staged = disk /\ op.layout.footer \in 1..n /\ LayoutOf(op.layout, disk) /\ Found(disk)
    BY DEF Staged, IInv, LayoutKept, LayoutOf, SInv, Outcomes
  <2>2. op.layout.footer <= Len(f) /\ \A q \in 1..op.layout.footer : f[q] = disk[q]
    BY <1>1, <1>2, <2>1
  <2>3. IsSeq(disk)
    BY StagedOK
  <2> QED BY <1>2, <2>1, <2>2, <2>3, FoundStays
<1>5. /\ FooterOK(f, Len(f)) /\ Renewed(f)
      /\ LayoutAt(f, Len(f)).directory = d
      /\ LayoutAt(f, Len(f)).extension = IF InPlace THEN d + 1 ELSE 0
  <2>1. d < Len(f) /\ f[Len(f)] = Footer(d) /\ f[d] = Staged[d]
    BY <1>1, <1>2 DEF x
  <2>2. \A i \in DOMAIN op.files : f[op.files[i]] = Block(i)
    <3>1. \A i \in DOMAIN op.files : op.files[i] \in 1..n /\ Staged[op.files[i]] = Block(i)
      BY <1>1 DEF SInv, Typed, EntriesPlaced
    <3> QED BY <1>2, <3>1
  <2>3. IF InPlace THEN /\ f[d + 1] = NewExtension /\ d + 1 < Len(f)
                        /\ LayoutOf(op.layout, f) /\ Found(f) /\ op.layout.footer < d
        ELSE d + 1 < Len(f) => f[d + 1].kind # "extension"
    <3>1. d + 1 <= n => f[d + 1] = Staged[d + 1] /\ d + 1 < Len(f)
      BY <1>1, <1>2
    <3>2. d + 1 < Len(f) => d + 1 <= n
      BY <1>1, <1>2
    <3> QED BY <1>4, <3>1, <3>2
  <2>4. pc \in Building \ {"blocks"} /\ d \in Nat
    BY <1>1
  <2> QED BY <1>2, <2>1, <2>2, <2>3, <2>4, NewFooter
<1>6. Sane(f)
  <2>1. x.kind = "footer" => FooterOK(Append(Staged, x), Len(Staged) + 1)
    BY <1>2, <1>5 DEF f
  <2>2. x.kind # "recovery"
    BY <1>3
  <2> HIDE DEF n
  <2> QED BY <1>1, <2>1, <2>2, SaneAppend DEF f
<1>7. FilesSane'
  <2>1. op'.mode = op.mode
    OBVIOUS
  <2> QED BY <1>1, <1>2, <1>3, <1>6, <2>1, PutSane DEF SInv
<1>8. InPlace => NewBehind(f)
  <2> SUFFICES ASSUME InPlace PROVE NewBehind(f)
    OBVIOUS
  <2>1. NewBehind(Staged) /\ op.layout.footer \in Nat /\ n \in 0..Len(Staged)
    BY <1>1, <1>4 DEF SInv, Outcomes
  <2>2. \A q \in (op.layout.footer + 1)..n :
          f[q].kind = "footer" => New(f[f[q].directory].files)
    <3>1. Sane(Staged) /\ IsSeq(Staged) /\ \A q \in 1..n : f[q] = Staged[q]
      BY <1>1, <1>2
    <3> HIDE DEF n
    <3> QED BY <2>1, <3>1, NewStays
  <2>3. New(f[f[Len(f)].directory].files)
    BY <1>5 DEF Renewed
  <2>4. \A q \in (op.layout.footer + 1)..Len(f) :
          q \in (op.layout.footer + 1)..n \/ q = Len(f)
    BY <1>1, <1>2, <2>1
  <2> QED BY <2>2, <2>3, <2>4 DEF NewBehind
<1>9. pc' = Finished => op' = op /\ f # <<>> /\ Result(f)
  <2> SUFFICES ASSUME pc' = Finished PROVE f # <<>> /\ Result(f)
    OBVIOUS
  <2>1. f # <<>>
    <3>1. Len(<<>>) = 0
      BY ShortSeqs
    <3> QED BY <1>1, <1>2, <3>1
  <2>2. f[Len(f)].directory = d /\ f[d].signature = op.signature
    <3>1. f[d] = Staged[d]
      BY <1>1, <1>2
    <3> QED BY <1>2, <3>1 DEF x, Footer, Directory
  <2>3. Len(f) - 1 = n /\ f[n] = Staged[n]
    BY <1>1, <1>2
  <2>4. ProtectedEnd(LayoutAt(f, Len(f))) = IF InPlace THEN d + 1 ELSE d
    BY <1>5 DEF ProtectedEnd
  <2>5. op.recovery \in BOOLEAN
    BY DEF SInv, Typed
  <2>6. (f[Len(f) - 1].kind = "recovery") = op.recovery
    BY <2>3, <2>5
  <2>7. Result(f)
    BY <1>5, <2>2, <2>3, <2>4, <2>6 DEF Result
  <2> QED BY <2>1, <2>7
<1>10. SameRequest
  BY DEF SameRequest
<1>11. Outcomes' /\ Repairing'
  BY <1>1, <1>2, <1>3, <1>4, <1>8, <1>9, <1>10, BuildOutcomes DEF SInv
<1> QED BY <1>7, <1>11

\* The footer of the new generation, or its provisional one.
LEMMA WriteFooterSInv ==
  ASSUME IInv, SInv, WriteFooter
  PROVE  SInv'
<1> DEFINE n == Len(Staged)
           d == n - Behind
<1>1. /\ pc = "footer" /\ pc' = AfterFooter
      /\ op' = op /\ outcome' = outcome /\ ops' = ops
      /\ Put(Append(Staged, Footer(d))) /\ DirectoryAt(d)
  BY FindsDirectory DEF WriteFooter, IInv, TrailerPlaced
<1>2. /\ n \in Nat /\ d \in Nat \ {0} /\ d <= n /\ d = Place
      /\ op.blocks \subseteq 1..(d - 1)
  BY <1>1, StagedOK DEF DirectoryAt, Place, Behind
<1>3. IF InPlace THEN d + 1 = n /\ Behind = 1 ELSE d = n /\ Behind = 0
  BY <1>2 DEF Behind
<1>4. InPlace => Staged[d + 1] = NewExtension /\ op.layout.footer < d
  BY <1>1 DEF DirectoryAt, NewExtension
<1>5. /\ Staged[d] = Directory(op.blocks, op.files, op.signature)
      /\ op.signature \in {<<>>, <<NewDigest(d)>>}
  BY <1>1, <1>2 DEF SInv, DirectoryNew, Building
<1>6. /\ pc' \in {"sign", "recovery"} \cup {Finished} /\ pc' \in Steps
      /\ pc' = "sign" => op.sign /\ op.signature = <<>>
      /\ pc' = "recovery" => op.recovery /\ (op.sign => op.signature # <<>>)
      /\ pc' = Finished => ~op.recovery /\ (op.sign => op.signature # <<>>)
  BY <1>1 DEF AfterFooter, Finished, Steps
<1> HIDE DEF d
<1>7. FilesSane' /\ Outcomes' /\ Repairing'
  <2>1. Staged[n].kind # "recovery"
    <3>1. CASE InPlace
      BY <1>3, <1>4, <3>1 DEF NewExtension, Extension
    <3>2. CASE ~InPlace
      BY <1>3, <1>5, <3>2 DEF Directory
    <3> QED BY <3>1, <3>2
  <2>2. pc' \in Building \cup {Finished}
    BY <1>6 DEF Building
  <2>3. pc' = Finished =>
           /\ op.sign => op.signature # <<>>
           /\ Staged[Len(Staged)].kind = "recovery" <=> op.recovery
           /\ op.recovery =>
                Staged[Len(Staged)].protected = IF InPlace THEN d + 1 ELSE d
    BY <1>6, <2>1
  <2>4. IF InPlace THEN /\ Staged[d + 1] = NewExtension /\ d + 1 <= Len(Staged)
                        /\ op.layout.footer < d
        ELSE d + 1 <= Len(Staged) => Staged[d + 1].kind # "extension"
    BY <1>2, <1>3, <1>4
  <2>5. d <= Len(Staged) /\ pc \in {"footer", "last"}
    BY <1>1, <1>2
  <2> HIDE DEF n
  <2> QED BY <1>1, <1>2, <1>5, <2>2, <2>3, <2>4, <2>5, FooterStep
<1>8. Segment(Footer(d), n + 1)
  BY <1>2, NewSegments
<1>9. /\ Len(Staged') = n + 1 /\ (\A p \in 1..n : Staged'[p] = Staged[p])
      /\ InPlace' = InPlace /\ Behind' = Behind
  BY <1>1, <1>8, AppendKeeps DEF Building, InPlace, Behind
<1>10. Typed'
  BY <1>1, <1>6 DEF SInv, Typed
<1>11. Progress'
  <2>1. Finished \in {"report", "replace"}
    BY DEF Finished
  <2> QED BY <1>1, <1>6, <2>1 DEF SInv, Progress, Running, Building
<1>12. EntriesPlaced'
  <2>1. op.blocks \subseteq 1..n
    BY <1>2
  <2> QED BY <1>1, <1>2, <1>6, <1>9, <2>1, EntriesStay DEF EntriesPlaced, Building, Finished
<1>13. DirectoryNew'
  <2>1. pc' \in Building => Place' = d /\ pc' \in {"sign", "recovery"}
    BY <1>2, <1>3, <1>6, <1>9 DEF Place, Building, Finished, d
  <2>2. \A e : NewDigest(e)' = NewDigest(e)
    BY <1>1, <1>9 DEF NewDigest, NewExtension
  <2>3. Staged'[d] = Directory(op.blocks, op.files, op.signature)
    BY <1>2, <1>5, <1>9
  <2>4. pc' \in Building /\ op.signature # <<>> => op.signature = <<NewDigest(Place)'>>
    BY <1>5, <2>1, <2>2
  <2> QED BY <1>1, <1>6, <2>1, <2>3, <2>4 DEF DirectoryNew, Building, Finished
<1> QED BY <1>7, <1>10, <1>11, <1>12, <1>13 DEF SInv

\* Cutting the staged file behind the previous generation, and going on with a
\* segment that is not a footer, or with none.
LEMMA CutStep ==
  ASSUME IInv, SInv, pc \in Building, pc' \in Building, SameRequest,
         NEW k \in 2..Len(Staged), InPlace => op.layout.footer <= k,
         NEW f, Put(f),
         \/ f = Prefix(Staged, k)
         \/ \E x \in {Torn, Recovery(k)} : f = Append(Prefix(Staged, k), x)
  PROVE  FilesSane' /\ Outcomes' /\ Repairing'
<1> DEFINE n == Len(Staged)
           g == Prefix(Staged, k)
<1>1. Sane(Staged) /\ SoundFile(Staged) /\ IsSeq(Staged) /\ n \in Nat
  BY StagedSane, StagedOK DEF SInv
<1>2. IsSeq(g) /\ Sane(g) /\ SoundFile(g) /\ Len(g) = k /\ \A q \in 1..k : g[q] = Staged[q]
  BY <1>1, PrefixSeq, SanePrefix, SoundPrefix
<1> HIDE DEF g
<1>3. /\ IsSeq(f) /\ Sane(f) /\ SoundFile(f)
      /\ \A q \in 1..k : f[q] = Staged[q]
      /\ Len(f) = k \/ (Len(f) = k + 1 /\ f[k + 1].kind # "footer")
  <2>1. CASE f = g
    BY <1>2, <2>1
  <2>2. ASSUME NEW x \in {Torn, Recovery(k)}, f = Append(g, x)
        PROVE  /\ IsSeq(f) /\ Sane(f) /\ SoundFile(f)
               /\ \A q \in 1..k : f[q] = Staged[q]
               /\ Len(f) = k + 1 /\ f[k + 1].kind # "footer"
    <3>1. /\ x.kind # "footer" /\ Sound(x) = x
          /\ x.kind = "recovery" => x = Recovery(Len(g))
      BY <1>2, SoundSegments DEF Torn, Recovery
    <3>2. IsSeq(f) /\ Sane(f) /\ SoundFile(f)
      BY <1>2, <2>2, <3>1, AppendSeq, SaneAppend, SoundAppend
    <3>3. Len(f) = k + 1 /\ (\A q \in 1..k : f[q] = g[q]) /\ f[k + 1] = x
      BY <1>2, <2>2, AppendSeq
    <3> QED BY <1>2, <3>1, <3>2, <3>3
  <2> QED BY <2>1, <2>2 DEF g
<1>4. ASSUME InPlace
      PROVE  /\ op.layout.footer <= Len(f)
             /\ \A q \in 1..op.layout.footer : f[q] = disk[q]
             /\ NewBehind(f)
  <2>1. Staged = disk /\ op.layout.footer \in 1..k /\ NewBehind(Staged) /\ k \in 0..n
    BY <1>1, <1>4 DEF Staged, IInv, LayoutKept, LayoutOf, Building, SInv, Outcomes
  <2>2. \A q \in (op.layout.footer + 1)..k :
           f[q].kind = "footer" => New(f[f[q].directory].files)
    <3>1. op.layout.footer \in Nat
      BY <2>1
    <3> QED BY <1>1, <1>3, <2>1, <3>1, NewStays
  <2>3. NewBehind(f)
    <3>1. \A q \in (op.layout.footer + 1)..Len(f) :
            q \in (op.layout.footer + 1)..k \/ f[q].kind # "footer"
      BY <1>3, <2>1
    <3> QED BY <2>2, <3>1 DEF NewBehind
  <2> QED BY <1>3, <2>1, <2>3
<1>5. pc' # Finished /\ op'.mode = op.mode
  BY DEF Building, Finished, SameRequest
<1>6. FilesSane'
  BY <1>3, <1>5, PutSane DEF SInv
<1>7. Outcomes' /\ Repairing'
  BY <1>3, <1>4, <1>5, BuildOutcomes DEF SInv
<1> QED BY <1>6, <1>7

\* The signature digests what a reader of the finished generation will digest.
LEMMA SignSInv ==
  ASSUME IInv, SInv, Sign
  PROVE  SInv'
<1> DEFINE n == Len(Staged)
           d == n - Behind - 1
           l == ReadLayout(Staged)
<1>1. /\ pc = "sign" /\ pc' = "truncate" /\ disk' = disk /\ temp' = temp
      /\ outcome' = outcome /\ ops' = ops
      /\ op' = [op EXCEPT !.signature = <<Digest(Staged, l)>>]
  BY DEF Sign
<1>2. /\ SameRequest /\ op'.sign = op.sign /\ op'.recovery = op.recovery
      /\ op'.adds = op.adds /\ op'.blocks = op.blocks /\ op'.files = op.files
      /\ op'.signature = <<Digest(Staged, l)>>
  BY <1>1 DEF SameRequest, IInv, OpShape, OpFields
<1>3. InPlace' = InPlace /\ Behind' = Behind /\ Staged' = Staged
  BY <1>1, <1>2 DEF SameRequest, InPlace, Behind, Staged
<1>4. /\ op.sign /\ op.adds = {} /\ op.signature = <<>>
      /\ Staged[d] = Directory(op.blocks, op.files, <<>>)
      /\ DirectoryAt(d) /\ Staged[n] = Footer(d)
  BY <1>1 DEF SInv, Progress, DirectoryNew, Place, Building, IInv, TrailerPlaced
<1>5. Digest(Staged, l) = NewDigest(d)
  <2>1. Sane(Staged) /\ IsSeq(Staged) /\ n \in Nat
    BY <1>1, StagedSane, StagedOK DEF SInv, Building
  <2>2. Staged[n].kind = "footer" /\ Staged[n].directory = d
    BY <1>4 DEF Footer
  <2>3. l = LayoutAt(Staged, n)
    BY <2>1, <2>2, LatestAtEnd
  <2>4. l.directory = d /\ l.extension = ExtensionAt(Staged, d, n)
    BY <2>2, <2>3, LayoutFields
  <2>5. d \in 1..n /\ IF InPlace THEN d + 1 < n /\ Staged[d + 1] = NewExtension
                      ELSE d + 1 = n
    BY <1>4, <2>1 DEF DirectoryAt, Behind, NewExtension
  <2>6. l.extension = IF InPlace THEN d + 1 ELSE 0
    BY <2>1, <2>4, <2>5 DEF ExtensionAt, NewExtension, Extension
  <2>7. Staged[d].files = op.files
    BY <1>4 DEF Directory
  <2> HIDE DEF l, d, n
  <2> QED BY <2>4, <2>5, <2>6, <2>7 DEF Digest, NewDigest
<1>6. Typed'
  BY <1>1, <1>2 DEF SInv, Typed, Steps
<1>7. FilesSane'
  BY <1>1, <1>2, <1>3 DEF SInv, FilesSane, Building, Updating, SameRequest
<1>8. Progress'
  BY <1>1, <1>2 DEF SInv, Progress, Running, Building, SameRequest
<1>9. EntriesPlaced'
  BY <1>1, <1>2, <1>3 DEF SInv, EntriesPlaced, Building
<1>10. DirectoryNew'
  <2>1. Place' = d
    BY <1>1, <1>3 DEF Place
  <2>2. \A e : NewDigest(e)' = NewDigest(e)
    BY <1>2, <1>3 DEF NewDigest, NewExtension, SameRequest
  <2>3. Staged'[Place'] = Directory(op'.blocks, op'.files, <<>>)
    BY <1>2, <1>3, <1>4, <2>1
  <2>4. op'.signature = <<NewDigest(Place)'>>
    BY <1>2, <1>5, <2>1, <2>2
  <2> QED BY <1>1, <2>3, <2>4 DEF DirectoryNew
<1>11. Outcomes' /\ Repairing'
  <2>1. pc' \in Building \cup {Finished} /\ pc \in Building /\ pc' # Finished
    BY <1>1 DEF Building, Finished
  <2>2. Put(Staged) /\ IsSeq(Staged)
    BY <1>1, StagedOK DEF Put, Staged
  <2>3. InPlace => /\ op.layout.footer <= Len(Staged)
                   /\ \A q \in 1..op.layout.footer : Staged[q] = disk[q]
                   /\ NewBehind(Staged)
    BY <1>1 DEF SInv, Outcomes, Staged, IInv, LayoutKept, LayoutOf
  <2> QED BY <1>2, <2>1, <2>2, <2>3, BuildOutcomes DEF SInv
<1> QED BY <1>6, <1>7, <1>8, <1>9, <1>10, <1>11 DEF SInv

\* Cut at its directory, the generation is going to end where it did.
LEMMA TruncateSInv ==
  ASSUME IInv, SInv, Truncate
  PROVE  SInv'
<1> DEFINE n == Len(Staged)
           d == n - Behind - 1
           f == Prefix(Staged, d - 1)
<1>1. /\ pc = "truncate" /\ pc' = "directory"
      /\ op' = op /\ outcome' = outcome /\ ops' = ops
      /\ op.signature[1].prefix = d /\ Put(f)
  BY DEF Truncate, IInv, TrailerPlaced
<1>2. /\ DirectoryAt(d) /\ n \in Nat /\ d \in 1..n /\ 2 \in op.blocks
      /\ op.blocks \subseteq 1..(d - 1) /\ d = Place
      /\ InPlace => op.layout.footer < d /\ op.layout.footer \in Nat
  <2>1. DirectoryAt(d) /\ n \in Nat /\ Behind \in {0, 1} /\ 2 \in op.blocks
    BY <1>1, StagedOK DEF IInv, TrailerPlaced, Behind, SInv, Progress, Running, Building
  <2>2. InPlace => op.layout.footer \in Nat
    BY <1>1 DEF IInv, LayoutKept, LayoutOf
  <2> QED BY <1>1, <2>1, <2>2 DEF DirectoryAt, Place
<1> HIDE DEF d
<1>3. /\ d - 1 \in 2..n
      /\ InPlace => op.layout.footer <= d - 1
  <2>1. 2 \in 1..(d - 1)
    BY <1>2
  <2> QED BY <1>2, <2>1
<1>4. SameRequest /\ InPlace' = InPlace /\ Behind' = Behind
  BY <1>1 DEF SameRequest, InPlace, Behind
<1>5. /\ Staged' = f /\ Len(f) = d - 1 /\ \A p \in 1..(d - 1) : f[p] = Staged[p]
  <2>1. d - 1 \in 0..n
    BY <1>2, <1>3
  <2> QED BY <1>1, <1>4, <2>1, PrefixSeq, StagedOK DEF Put, Staged
<1>6. FilesSane' /\ Outcomes' /\ Repairing'
  BY <1>1, <1>3, <1>4, CutStep DEF Building
<1> HIDE DEF f
<1>7. Typed' /\ Progress'
  BY <1>1 DEF SInv, Typed, Steps, Progress, Running, Building
<1>8. EntriesPlaced'
  <2>1. d - 1 \in Nat
    BY <1>2
  <2> QED BY <1>1, <1>2, <1>5, <2>1, EntriesStay DEF EntriesPlaced, Building
<1>9. DirectoryNew'
  <2>1. Place' = d
    BY <1>1, <1>2, <1>5 DEF Place
  <2>2. \A e : NewDigest(e)' = NewDigest(e)
    BY <1>1, <1>4 DEF NewDigest, NewExtension
  <2>3. op.signature # <<>> => op.signature = <<NewDigest(Place)'>>
    BY <1>1, <1>2, <2>1, <2>2 DEF SInv, DirectoryNew, Building
  <2> QED BY <1>1, <2>3 DEF DirectoryNew
<1> QED BY <1>6, <1>7, <1>8, <1>9 DEF SInv

\* The footer, then the unfinished service, makes way for a new segment.
LEMMA ReplaceLastSInv ==
  ASSUME IInv, SInv, op' = op, outcome' = outcome, ops' = ops,
         NEW x, Put(Append(Prefix(Staged, Len(Staged) - 1), x)),
         \/ pc = "recovery" /\ pc' = "recovering" /\ x = Torn
         \/ pc = "recovering" /\ pc' = "last" /\ x = Recovery(Len(Staged) - 1)
  PROVE  SInv'
<1> DEFINE n == Len(Staged)
           d == n - Behind - 1
           g == Prefix(Staged, n - 1)
           f == Append(g, x)
<1>1. pc \in Building /\ pc' \in Building /\ Put(f)
  BY DEF Building
<1>2. /\ DirectoryAt(d) /\ n \in Nat /\ d \in 1..(n - 1) /\ op.blocks \subseteq 1..(d - 1)
      /\ 2 \in op.blocks /\ d = Place
      /\ InPlace => op.layout.footer < d /\ op.layout.footer \in Nat
  <2>1. DirectoryAt(d) /\ n \in Nat /\ Behind \in {0, 1} /\ 2 \in op.blocks
    BY StagedOK DEF IInv, TrailerPlaced, Behind, SInv, Progress, Running, Building
  <2>2. InPlace => op.layout.footer \in Nat
    BY DEF IInv, LayoutKept, LayoutOf
  <2> QED BY <2>1, <2>2 DEF DirectoryAt, Place
<1> HIDE DEF d
<1>3. n - 1 \in 2..n /\ (InPlace => op.layout.footer <= n - 1)
  <2>1. 2 \in 1..(d - 1)
    BY <1>2
  <2> QED BY <1>2, <2>1
<1>4. SameRequest /\ InPlace' = InPlace /\ Behind' = Behind
  BY DEF SameRequest, InPlace, Behind
<1>5. /\ Staged' = f /\ Len(f) = n /\ f[n] = x
      /\ \A p \in 1..(n - 1) : f[p] = Staged[p]
  <2>1. n - 1 \in 0..n
    BY <1>2, <1>3
  <2>2. IsSeq(g) /\ Len(g) = n - 1 /\ \A p \in 1..(n - 1) : g[p] = Staged[p]
    BY <2>1, PrefixSeq, StagedOK
  <2> HIDE DEF g
  <2>3. Len(f) = n /\ f[n] = x /\ \A p \in 1..(n - 1) : f[p] = g[p]
    BY <1>2, <2>2, AppendSeq
  <2>4. Staged' = f
    BY <1>1, <1>4 DEF Put, Staged
  <2> QED BY <2>2, <2>3, <2>4
<1>6. FilesSane' /\ Outcomes' /\ Repairing'
  <2> DEFINE k == n - 1
  <2>1. k \in 2..Len(Staged) /\ (InPlace => op.layout.footer <= k)
    BY <1>3
  <2>2. x \in {Torn, Recovery(k)} /\ f = Append(Prefix(Staged, k), x)
    OBVIOUS
  <2> HIDE DEF k, f, n
  <2> QED BY <1>1, <1>4, <2>1, <2>2, CutStep
<1> HIDE DEF f
<1>7. Typed' /\ Progress'
  BY DEF SInv, Typed, Steps, Progress, Running, Building
<1>8. EntriesPlaced'
  <2>1. n - 1 \in Nat /\ op.blocks \subseteq 1..(n - 1)
    BY <1>2
  <2> QED BY <1>1, <1>5, <2>1, EntriesStay DEF EntriesPlaced
<1>9. DirectoryNew'
  <2>1. Place' = d
    BY <1>2, <1>4, <1>5 DEF Place, d
  <2>2. \A e : NewDigest(e)' = NewDigest(e)
    BY <1>4 DEF NewDigest, NewExtension
  <2>3. Staged[d] = Directory(op.blocks, op.files, op.signature)
        /\ (op.signature # <<>> => op.signature = <<NewDigest(d)>>)
    BY <1>1, <1>2 DEF SInv, DirectoryNew
  <2>4. Staged'[Place'] = Directory(op'.blocks, op'.files, op'.signature)
    BY <1>2, <1>5, <2>1, <2>3
  <2>5. op'.signature # <<>> => op'.signature = <<NewDigest(Place)'>>
    BY <2>1, <2>2, <2>3
  <2>6. Staged'[Len(Staged')] = x /\ Len(Staged') = n
    BY <1>5
  <2>7. pc' = "recovering" => Staged'[Len(Staged')] = Torn
    BY <2>6
  <2>8. pc' = "last" => Staged'[Len(Staged')] = Recovery(Len(Staged') - 1)
    BY <2>6
  <2>9. pc' \in {"recovering", "last"}
    OBVIOUS
  <2> QED BY <2>4, <2>5, <2>7, <2>8, <2>9 DEF DirectoryNew
<1> QED BY <1>6, <1>7, <1>8, <1>9 DEF SInv

\* The service protects what is in front of it.
LEMMA RecoverySInv ==
  ASSUME IInv, SInv, StartRecovery \/ WriteRecovery
  PROVE  SInv'
  BY ReadsStaged, ReplaceLastSInv DEF StartRecovery, WriteRecovery

\* The last footer finishes what was asked for.
LEMMA WriteLastFooterSInv ==
  ASSUME IInv, SInv, WriteLastFooter
  PROVE  SInv'
<1> DEFINE n == Len(Staged)
           d == n - Behind - 1
           D == {p \in DOMAIN Staged : Staged[p].kind = "directory"}
<1>1. /\ pc = "last" /\ pc' = Finished /\ op' = op /\ outcome' = outcome /\ ops' = ops
      /\ Put(Append(Staged, Footer(DirectoryWritten)))
  BY DEF WriteLastFooter
<1>2. DirectoryAt(d) /\ n \in Nat /\ IsSeq(Staged) /\ d \in Nat \ {0} /\ DOMAIN Staged = 1..n
  <2>1. DirectoryAt(d)
    BY <1>1 DEF IInv, TrailerPlaced
  <2> QED BY <2>1, StagedOK, SeqLen DEF DirectoryAt
<1>3. /\ Staged[d] = Directory(op.blocks, op.files, op.signature)
      /\ op.signature \in {<<>>, <<NewDigest(d)>>}
      /\ Staged[n] = Recovery(n - 1)
      /\ op.recovery /\ (op.sign => op.signature # <<>>)
  BY <1>1 DEF SInv, Progress, DirectoryNew, Place, Building
<1>4. /\ op.blocks \subseteq 1..(d - 1) /\ d <= n /\ d \in D
      /\ IF InPlace THEN /\ Staged[d + 1] = NewExtension /\ d + 1 = n - 1
                         /\ op.layout.footer < d
         ELSE d + 1 = n
  BY <1>2 DEF DirectoryAt, Behind, NewExtension
<1> HIDE DEF d
<1>5. DirectoryWritten = d
  <2>1. \A p \in D : p <= d
    <3> SUFFICES ASSUME NEW p \in 1..n, Staged[p].kind = "directory", p > d PROVE FALSE
      BY <1>2
    <3>1. p = n \/ (InPlace /\ p = d + 1)
      <4>1. n \in Nat /\ d \in Nat /\ p \in 1..n /\ p > d
        BY <1>2
      <4>2. d + 1 = n \/ (InPlace /\ d + 1 = n - 1)
        BY <1>4
      <4> HIDE DEF n
      <4> QED BY <4>1, <4>2
    <3>2. Staged[n].kind = "recovery" /\ NewExtension.kind = "extension"
      BY <1>3 DEF Recovery, NewExtension, Extension
    <3> QED BY <1>4, <3>1, <3>2
  <2>2. D \subseteq Nat /\ d \in D
    <3>1. D \subseteq 1..n /\ n \in Nat
      BY <1>2
    <3> HIDE DEF D, n
    <3> QED BY <1>4, <3>1
  <2>3. DirectoryWritten = Max(D)
    BY DEF DirectoryWritten
  <2> HIDE DEF D
  <2> QED BY <2>1, <2>2, <2>3, MaxIs
<1> HIDE DEF D
<1>6. FilesSane' /\ Outcomes' /\ Repairing'
  <2>1. Put(Append(Staged, Footer(d))) /\ pc' \in Building \cup {Finished}
        /\ pc \in {"footer", "last"} /\ d <= Len(Staged)
    BY <1>1, <1>4, <1>5
  <2>2. IF InPlace THEN /\ Staged[d + 1] = NewExtension /\ d + 1 <= Len(Staged)
                        /\ op.layout.footer < d
        ELSE d + 1 <= Len(Staged) => Staged[d + 1].kind # "extension"
    <3>1. Staged[n].kind = "recovery"
      BY <1>3 DEF Recovery
    <3>2. n \in Nat /\ d \in Nat
      BY <1>2
    <3> HIDE DEF n
    <3>3. CASE InPlace
      <4>1. Staged[d + 1] = NewExtension /\ op.layout.footer < d /\ d + 1 = n - 1
        BY <1>4, <3>3
      <4>2. d + 1 <= n
        BY <3>2, <4>1
      <4> QED BY <3>3, <4>1, <4>2 DEF n
    <3>4. CASE ~InPlace
      <4>1. d + 1 = n
        BY <1>4, <3>4
      <4>2. Staged[d + 1].kind # "extension"
        BY <3>1, <4>1
      <4> QED BY <3>4, <4>2
    <3> QED BY <3>3, <3>4
  <2>3. /\ Staged[n].kind = "recovery" /\ Staged[n].protected = n - 1
        /\ n - 1 = IF InPlace THEN d + 1 ELSE d
    <3>1. Staged[n].kind = "recovery" /\ Staged[n].protected = n - 1
      <4> HIDE DEF n
      <4>1. Staged[n] = Recovery(n - 1)
        BY <1>3, Zenon
      <4> QED BY <4>1 DEF Recovery
    <3>2. n \in Nat /\ d \in Nat
          /\ (InPlace => d + 1 = n - 1) /\ (~InPlace => d + 1 = n)
      BY <1>2, <1>4
    <3> HIDE DEF n
    <3> QED BY <3>1, <3>2
  <2>4. /\ op.sign => op.signature # <<>>
        /\ Staged[Len(Staged)].kind = "recovery" <=> op.recovery
        /\ op.recovery =>
             Staged[Len(Staged)].protected = IF InPlace THEN d + 1 ELSE d
    BY <1>3, <2>3
  <2> HIDE DEF n
  <2> QED BY <1>1, <1>2, <1>3, <1>4, <2>1, <2>2, <2>4, FooterStep
<1>7. pc' \in {"report", "replace"}
  BY <1>1 DEF Finished
<1>8. Typed' /\ Progress' /\ EntriesPlaced' /\ DirectoryNew'
  BY <1>1, <1>7 DEF SInv, Typed, Steps, Progress, Running, Building, EntriesPlaced, DirectoryNew
<1> QED BY <1>6, <1>8 DEF SInv

\* An operation starts from what an undamaged archive holds.
LEMMA BeginSInv ==
  ASSUME IInv, SInv, Begin
  PROVE  SInv'
<1> DEFINE p == LatestFooter(disk)
           l == ReadLayout(disk)
           old == Index(disk)
<1>1. /\ pc = "idle" /\ ops < MaxOps /\ Opens(disk) /\ Whole(disk)
      /\ disk' = disk /\ temp' = temp /\ outcome' = "running" /\ ops' = ops + 1
      /\ pc' \in {"stage", "protect"} /\ (pc' = "protect" <=> op'.mode = "protect")
  BY DEF Begin
<1>2. /\ op'.mode \in {"append", "rewrite", "protect"}
      /\ op'.layout = l /\ op'.before = old.files /\ op'.blocks = old.blocks
      /\ op'.signature = <<>> /\ op'.sign \in BOOLEAN /\ op'.recovery \in BOOLEAN
      /\ op'.request.keep \subseteq DOMAIN old.files
      /\ op'.request.keep \cap op'.request.adds = {}
      /\ op'.adds = op'.request.adds /\ op'.adds \subseteq Item
      /\ op'.files = [i \in op'.request.keep |-> old.files[i]]
      /\ op'.mode = "protect" => /\ op'.adds = {} /\ op'.request.keep = DOMAIN old.files
                                 /\ ~op'.sign
  BY DEF Begin
<1>3. Sane(disk) /\ SoundFile(disk) /\ IsSeq(disk) /\ Len(disk) \in Nat
  BY <1>1, StagedOK, WholeFile DEF SInv, FilesSane
<1>4. /\ p \in 1..Len(disk) /\ disk[p].kind = "footer" /\ FooterOK(disk, p)
      /\ l = LayoutAt(disk, p) /\ old = disk[disk[p].directory]
  BY <1>1, <1>3, OpensAtFooter, FooterOpens
<1>5. \A q \in (p + 1)..Len(disk) : disk[q].kind # "footer"
  BY <1>3, <1>4, LatestOfSane
<1> HIDE DEF p, l, old
<1>6. l.footer = p /\ l.directory = disk[p].directory /\ DirectoryOK(disk, l.directory)
  BY <1>4, LayoutFields DEF FooterOK
<1>7. /\ 2 \in old.blocks /\ DOMAIN old.files \subseteq Item
      /\ \A i \in DOMAIN old.files : old.files[i] \in old.blocks /\ disk[old.files[i]] = Block(i)
  BY <1>4, <1>6 DEF DirectoryOK
<1>8. Typed'
  <2>1. ops' \in 0..MaxOps /\ pc' \in Steps
    BY <1>1, GenerationsAssumption DEF SInv, Typed, Steps
  <2> QED BY <1>1, <1>2, <1>7, <2>1 DEF Typed
<1>9. FilesSane'
  BY <1>1, <1>3 DEF SInv, FilesSane, Building
<1>10. Progress'
  BY <1>1, <1>2, <1>7 DEF Progress, Running, Building
<1>11. EntriesPlaced' /\ DirectoryNew' /\ Repairing'
  BY <1>1, <1>2, <1>7 DEF EntriesPlaced, DirectoryNew, Repairing, Building
<1>12. Outcomes'
  <2>1. Found(disk)' /\ NoFooterBehind' /\ NewBehind(disk)'
    BY <1>1, <1>2, <1>4, <1>5, <1>6 DEF Found, NoFooterBehind, NewBehind
  <2> HIDE DEF Found, NoFooterBehind, NewBehind
  <2> QED BY <1>1, <1>2, <2>1 DEF Outcomes, Updating
<1> QED BY <1>8, <1>9, <1>10, <1>11, <1>12 DEF SInv

\* The footer an operation found is that of a whole generation.
LEMMA FoundWhole ==
  ASSUME NEW f, Sane(f), Found(f), LayoutOf(op.layout, f)
  PROVE  /\ FooterOK(f, op.layout.footer) /\ op.layout.footer >= 2
         /\ op.layout.footer \in 1..Len(f) /\ op.layout.footer \in Nat
<1>1. FooterOK(f, op.layout.footer) /\ op.layout.footer \in 1..Len(f)
  BY DEF Found, Sane
<1>2. op.layout.directory \in 3..(op.layout.footer - 1)
  BY <1>1 DEF FooterOK, Found
<1> QED BY <1>1, <1>2 DEF LayoutOf

\* Cut at the footer found.
LEMMA CutAtFound ==
  ASSUME IInv, SInv, Updating, Found(disk), LayoutOf(op.layout, disk),
         NEW f, f = Prefix(disk, op.layout.footer)
  PROVE  /\ Sane(f) /\ SoundFile(f) /\ IsSeq(f) /\ Len(f) = op.layout.footer
         /\ \A q \in 1..op.layout.footer : f[q] = disk[q]
         /\ Found(f) /\ AsWritten(f) = f /\ ParityKnown(f) /\ NewBehind(f)
<1> DEFINE p == op.layout.footer
<1>1. Sane(disk) /\ SoundFile(disk) /\ IsSeq(disk) /\ Len(disk) \in Nat
  BY DiskSane, StagedOK DEF SInv
<1>2. p \in 2..Len(disk) /\ p \in 0..Len(disk) /\ p \in Nat
  BY <1>1, FoundWhole
<1> HIDE DEF p
<1>3. Sane(f) /\ SoundFile(f) /\ IsSeq(f) /\ Len(f) = p /\ \A q \in 1..p : f[q] = disk[q]
  BY <1>1, <1>2, PrefixSeq, SanePrefix, SoundPrefix DEF p
<1>4. Found(f)
  <2>1. op.layout.footer <= Len(f) /\ \A q \in 1..op.layout.footer : f[q] = disk[q]
    BY <1>2, <1>3 DEF p
  <2> QED BY <1>1, <1>3, <2>1, FoundStays
<1>5. AsWritten(f) = f /\ ParityKnown(f)
  BY <1>3, WholeFile, SoundParity
<1>6. NewBehind(f)
  <2>1. (op.layout.footer + 1)..Len(f) = {}
    BY <1>2, <1>3 DEF p
  <2> QED BY <2>1 DEF NewBehind
<1> QED BY <1>3, <1>4, <1>5, <1>6 DEF p

\* Trimming leaves the generation found.
LEMMA TrimSInv ==
  ASSUME IInv, SInv, Trim
  PROVE  SInv'
<1>1. /\ pc = "stage" /\ pc' = "blocks" /\ InPlace /\ op' = op /\ temp' = temp
      /\ outcome' = outcome /\ ops' = ops
      /\ disk' = Prefix(disk, op.layout.footer) /\ op.mode = "append"
  BY DEF Trim, InPlace
<1>2. /\ LayoutOf(op.layout, disk) /\ op.blocks \subseteq 1..op.layout.footer
      /\ Found(disk) /\ Updating
  BY <1>1 DEF IInv, LayoutKept, BlocksPlaced, SInv, Outcomes, Updating
<1>3. /\ Sane(disk') /\ SoundFile(disk') /\ ParityKnown(disk') /\ AsWritten(disk') = disk'
      /\ \A q \in 1..op.layout.footer : disk'[q] = disk[q]
      /\ Found(disk') /\ NewBehind(disk')
  BY <1>1, <1>2, CutAtFound
<1>4. FilesSane'
  BY <1>1, <1>3 DEF SInv, FilesSane, InPlace
<1>5. Found(disk)' /\ NewBehind(disk)'
  <2>1. Found(disk)'
    <3> HIDE DEF NewBehind
    <3> QED BY <1>1, <1>3 DEF Found
  <2>2. NewBehind(disk)'
    <3>1. NewBehind(disk')
      BY <1>3
    <3> QED BY <1>1, <3>1 DEF NewBehind, New
  <2> QED BY <2>1, <2>2
<1>6. Outcomes' /\ Repairing'
  <2> HIDE DEF Found, NewBehind
  <2> QED BY <1>1, <1>2, <1>5 DEF Outcomes, Repairing, Updating, InPlace
<1>7. EntriesPlaced'
  <2>1. \A i \in DOMAIN op.files : op.files[i] \in 1..op.layout.footer
                                  /\ disk[op.files[i]] = Block(i)
    BY <1>1, <1>2 DEF SInv, Typed, EntriesPlaced
  <2> QED BY <1>1, <1>3, <2>1 DEF EntriesPlaced, Staged, InPlace
<1>8. Typed' /\ Progress' /\ DirectoryNew'
  BY <1>1 DEF SInv, Typed, Steps, Progress, Running, Building, DirectoryNew
<1> QED BY <1>4, <1>6, <1>7, <1>8 DEF SInv

\* Copying brings all blocks along.
LEMMA CopySInv ==
  ASSUME IInv, SInv, Copy
  PROVE  SInv'
<1> DEFINE n == BlockRegionEnd(op.blocks)
           B == op.blocks \cup {1}
<1>1. /\ pc = "stage" /\ pc' = "blocks" /\ ~InPlace /\ op' = op /\ disk' = disk
      /\ outcome' = outcome /\ ops' = ops
      /\ temp' = Prefix(disk, n) /\ op.mode = "rewrite"
  BY DEF Copy, InPlace
<1>2. /\ op.layout.footer \in 1..Len(disk) /\ op.blocks \subseteq 1..op.layout.footer
      /\ 2 \in op.blocks
  BY <1>1, StagedOK DEF IInv, LayoutKept, BlocksPlaced, LayoutOf, SInv, Progress, Running
<1>3. n \in B /\ \A p \in B : p <= n
  <2>1. B \subseteq 0..op.layout.footer /\ B # {} /\ op.layout.footer \in Nat
    BY <1>2
  <2>2. n = Max(B)
    BY DEF BlockRegionEnd
  <2> HIDE DEF B, n
  <2> QED BY <2>1, <2>2, MaxOfNumbers
<1>4. n \in 2..Len(disk) /\ n \in 0..Len(disk) /\ op.blocks \subseteq 1..n
  BY <1>2, <1>3, StagedOK
<1> HIDE DEF n
<1>5. Sane(disk) /\ SoundFile(disk) /\ IsSeq(disk) /\ Updating
  BY <1>1, DiskSane, StagedOK DEF SInv, Updating
<1>6. /\ Sane(temp') /\ SoundFile(temp') /\ Len(temp') = n
      /\ \A q \in 1..n : temp'[q] = disk[q]
  BY <1>1, <1>4, <1>5, PrefixSeq, SanePrefix, SoundPrefix
<1>7. FilesSane'
  <2>1. temp' # <<>>
    <3>1. Len(<<>>) = 0
      BY ShortSeqs
    <3> QED BY <1>4, <1>6, <3>1
  <2> QED BY <1>1, <1>6, <2>1 DEF SInv, FilesSane, Updating
<1>8. Outcomes' /\ Repairing'
  <2>1. Found(disk)' /\ NoFooterBehind'
    BY <1>1 DEF SInv, Outcomes, Found, NoFooterBehind
  <2> HIDE DEF Found, NoFooterBehind
  <2> QED BY <1>1, <2>1 DEF Outcomes, Repairing, Updating, InPlace
<1>9. EntriesPlaced'
  <2>1. \A i \in DOMAIN op.files : op.files[i] \in 1..n /\ disk[op.files[i]] = Block(i)
    BY <1>1, <1>4 DEF SInv, Typed, EntriesPlaced
  <2> QED BY <1>1, <1>6, <2>1 DEF EntriesPlaced, Staged, InPlace
<1>10. Typed' /\ Progress' /\ DirectoryNew'
  BY <1>1 DEF SInv, Typed, Steps, Progress, Running, Building, DirectoryNew
<1> QED BY <1>7, <1>8, <1>9, <1>10 DEF SInv

\* The footer of a generation stands as well behind what its service protects.
LEMMA ServiceFooter ==
  ASSUME NEW f, Sane(f), IsSeq(f), NEW l, l.footer \in 1..Len(f),
         f[l.footer].kind = "footer", LayoutAt(f, l.footer) = l, NEW g, NEW n \in Nat,
         ProtectedEnd(l) <= n, g[n + 1] = Footer(l.directory),
         \A q \in 1..ProtectedEnd(l) : g[q] = f[q],
         ProtectedEnd(l) < n => g[ProtectedEnd(l) + 1].kind = "recovery"
  PROVE  /\ FooterOK(g, n + 1) /\ g[l.directory] = f[l.directory]
         /\ ProtectedEnd(LayoutAt(g, n + 1)) = ProtectedEnd(l)
         /\ ProtectedEnd(l) \in 2..Len(f) /\ f[ProtectedEnd(l)].kind # "recovery"
<1> DEFINE d == l.directory
           x == l.extension
           end == ProtectedEnd(l)
           p == l.footer
<1>0. p \in 1..Len(f) /\ f[p].kind = "footer" /\ LayoutAt(f, p) = l
  OBVIOUS
<1> HIDE DEF p
<1>1. /\ FooterOK(f, p) /\ Len(f) \in Nat /\ d \in 3..(p - 1) /\ DirectoryOK(f, d)
      /\ x = ExtensionAt(f, d, p) /\ l.generation \in Nat
      /\ l.generation = IF x = 0 THEN 0 ELSE f[x].generation
  <2>1. FooterOK(f, p) /\ Len(f) \in Nat
    BY <1>0, SeqLen DEF Sane
  <2>2. /\ d \in 3..(p - 1) /\ DirectoryOK(f, d) /\ l.generation \in Nat
    BY <1>0, <2>1 DEF FooterOK
  <2>3. /\ x = ExtensionAt(f, d, p)
        /\ l.generation = IF x = 0 THEN 0 ELSE f[x].generation
    BY <1>0, LayoutFields
  <2> QED BY <2>1, <2>2, <2>3
<1>2. /\ end = IF x = 0 THEN d ELSE x
      /\ x = 0 \/ (x = d + 1 /\ d + 1 < p /\ f[d + 1].kind = "extension")
  BY <1>1 DEF ProtectedEnd, ExtensionAt
<1>3. /\ end \in 2..Len(f) /\ end \in Nat /\ d \in 1..end /\ end < p
      /\ x # 0 => x \in 1..end
  BY <1>0, <1>1, <1>2
<1>4. f[end].kind # "recovery"
  <2>1. f[d].kind = "directory"
    BY <1>1 DEF DirectoryOK, Directory
  <2> QED BY <1>2, <2>1
<1>5. /\ end <= n /\ g[n + 1] = Footer(d) /\ (\A q \in 1..end : g[q] = f[q])
      /\ end < n => g[end + 1].kind = "recovery"
  OBVIOUS
<1> HIDE DEF d, x, end
<1>6. /\ Footer(d).kind = "footer" /\ Footer(d).directory = d
  BY DEF Footer
<1> DEFINE k == LayoutAt(g, n + 1)
<1>7. k.directory = d /\ k.extension = ExtensionAt(g, d, n + 1)
       /\ k.generation = IF k.extension = 0 THEN 0 ELSE g[k.extension].generation
  BY <1>5, <1>6, LayoutFields
<1>8. k.extension = x
  <2>1. CASE x = 0
    <3>1. end = d
      BY <1>2, <2>1
    <3>2. d + 1 < n + 1 => g[d + 1].kind = "recovery"
      BY <1>3, <1>5, <3>1
    <3> QED BY <1>7, <2>1, <3>2 DEF ExtensionAt
  <2>2. CASE x # 0
    <3>1. x = d + 1 /\ x \in 1..end /\ f[x].kind = "extension" /\ x < n + 1
      BY <1>2, <1>3, <1>5, <2>2
    <3>2. g[d + 1] = f[x]
      BY <1>5, <3>1
    <3> QED BY <1>7, <3>1, <3>2 DEF ExtensionAt
  <2> QED BY <2>1, <2>2
<1> HIDE DEF k
<1>9. k.generation = l.generation
  BY <1>1, <1>3, <1>5, <1>7, <1>8
<1>10. g[d] = f[d] /\ DirectoryOK(g, d)
  <2>1. g[d] = f[d]
    BY <1>3, <1>5
  <2>2. \A i \in DOMAIN f[d].files : f[d].files[i] \in 1..end
    BY <1>1, <1>3 DEF DirectoryOK
  <2> QED BY <1>1, <1>5, <2>1, <2>2 DEF DirectoryOK
<1>11. x # 0 => ExtensionOK(g, d, x)
  <2> SUFFICES ASSUME x # 0 PROVE ExtensionOK(g, d, x)
    OBVIOUS
  <2> DEFINE q == f[x].prevFooter
  <2>1. /\ q \in 1..(d - 1) /\ f[q].kind = "footer"
        /\ f[x] = Extension(LayoutAt(f, q).generation + 1, LayoutAt(f, q))
    BY <1>0, <1>1 DEF FooterOK, ExtensionOK, x, d
  <2>2. g[x] = f[x]
    BY <1>3, <1>5
  <2> HIDE DEF q
  <2>3. q \in 1..end /\ q \in Nat \ {0} /\ (\A s \in 1..q : s \in 1..end) /\ q \in 1..Len(f)
    BY <1>1, <1>3, <2>1
  <2>4. LayoutAt(g, q) = LayoutAt(f, q)
    <3>1. FooterOK(f, q)
      BY <2>1, <2>3 DEF Sane
    <3>2. NamedDirectory(f, q) \in 1..q
      BY <2>3, <3>1, LayoutFields DEF FooterOK
    <3>3. \A s \in 1..q : g[s] = f[s]
      BY <1>5, <2>3
    <3> QED BY <2>3, <3>2, <3>3, LayoutSame
  <2>5. g[q].kind = "footer" /\ g[x].prevFooter = q
    BY <1>5, <2>1, <2>2, <2>3 DEF q
  <2> QED BY <2>1, <2>2, <2>4, <2>5 DEF ExtensionOK
<1>12. FooterOK(g, n + 1)
  <2>1. Digest(g, k) = Digest(f, l)
    <3>1. x # 0 => g[x] = f[x]
      BY <1>3, <1>5
    <3> QED BY <1>7, <1>8, <1>10, <3>1 DEF Digest, d, x
  <2>2. f[d].signature \in {<<>>, <<Digest(f, l)>>}
    BY <1>0, <1>1 DEF FooterOK, d
  <2>3. d \in 3..(n + 1 - 1)
    BY <1>1, <1>3, <1>5
  <2> QED BY <1>1, <1>5, <1>7, <1>8, <1>9, <1>10, <1>11, <2>1, <2>2, <2>3 DEF FooterOK, k
<1>13. ProtectedEnd(k) = end
  BY <1>2, <1>7, <1>8 DEF ProtectedEnd
<1> QED BY <1>3, <1>4, <1>10, <1>12, <1>13 DEF k, d, end

\* g is sane and ends as the generation of layout l does in f, with a service or
\* without.
Served(f, l, r, g) ==
  /\ Sane(g) /\ SoundFile(g) /\ g # <<>>
  /\ g[Len(g)] = Footer(l.directory) /\ g[l.directory] = f[l.directory]
  /\ ProtectedEnd(LayoutAt(g, Len(g))) = ProtectedEnd(l)
  /\ IF r THEN g[Len(g) - 1] = Recovery(ProtectedEnd(l)) ELSE g[Len(g) - 1].kind # "recovery"

\* A generation up to what its service protects, a service or not, and a footer.
LEMMA ServiceFile ==
  ASSUME NEW f, Sane(f), SoundFile(f), IsSeq(f), NEW l, l.footer \in 1..Len(f),
         f[l.footer].kind = "footer", LayoutAt(f, l.footer) = l, NEW r \in BOOLEAN
  PROVE  LET a == Prefix(f, ProtectedEnd(l))
             b == IF r THEN Append(a, Recovery(ProtectedEnd(l))) ELSE a
         IN  IsSeq(a) /\ IsSeq(b) /\ Served(f, l, r, Append(b, Footer(l.directory)))
<1> DEFINE end == ProtectedEnd(l)
           a == Prefix(f, end)
           c == Append(a, Recovery(end))
           x == Footer(l.directory)
           b == IF r THEN c ELSE a
           h == Append(b, x)
           p == l.footer
           n == Len(b)
<1>1. end \in 2..Len(f) /\ end \in Nat /\ end \in 0..Len(f)
  <2>1. FooterOK(f, p) /\ Len(f) \in Nat
    BY SeqLen DEF Sane
  <2>2. l.directory \in 3..(p - 1) /\ l.extension = ExtensionAt(f, l.directory, p)
    BY <2>1, LayoutFields DEF FooterOK
  <2>3. l.extension = 0 \/ (l.extension = l.directory + 1 /\ l.directory + 1 < p)
    BY <2>2 DEF ExtensionAt
  <2> QED BY <2>1, <2>2, <2>3 DEF ProtectedEnd
<1> HIDE DEF end, p
<1>2. IsSeq(a) /\ Sane(a) /\ SoundFile(a) /\ Len(a) = end /\ \A q \in 1..end : a[q] = f[q]
  BY <1>1, PrefixSeq, SanePrefix, SoundPrefix
<1> HIDE DEF a
<1>3. /\ IsSeq(c) /\ Sane(c) /\ SoundFile(c) /\ Len(c) = end + 1 /\ c[end + 1] = Recovery(end)
      /\ \A q \in 1..end : c[q] = f[q]
  <2>1. Recovery(end).kind # "footer"
    BY DEF Recovery
  <2>2. Sane(c) /\ SoundFile(c)
    BY <1>2, <2>1, SaneAppend, SoundAppend, SoundSegments
  <2>3. /\ IsSeq(c) /\ Len(c) = end + 1 /\ c[end + 1] = Recovery(end)
        /\ \A q \in 1..end : c[q] = a[q]
    BY <1>2, AppendSeq
  <2> HIDE DEF c
  <2> QED BY <1>2, <2>2, <2>3
<1>4. Recovery(end).kind = "recovery" /\ x.kind = "footer"
  BY DEF Recovery, Footer
<1>5. (r => b = c) /\ (~r => b = a)
  OBVIOUS
<1> HIDE DEF b, c
<1>6. /\ IsSeq(b) /\ Sane(b) /\ SoundFile(b) /\ n \in Nat
      /\ \A q \in 1..end : b[q] = f[q]
      /\ \/ n = end /\ ~r
         \/ n = end + 1 /\ b[end + 1] = Recovery(end) /\ r
  <2>1. CASE ~r
    BY <1>1, <1>2, <1>5, <2>1
  <2>2. CASE r
    BY <1>1, <1>3, <1>5, <2>2
  <2> QED BY <2>1, <2>2
<1>7. IsSeq(h) /\ Len(h) = n + 1 /\ h[n + 1] = x /\ \A q \in 1..n : h[q] = b[q]
  BY <1>6, AppendSeq
<1> HIDE DEF h, n
<1>8. end <= n /\ \A q \in 1..end : h[q] = f[q]
  BY <1>1, <1>6, <1>7
<1>9. /\ FooterOK(h, n + 1) /\ h[l.directory] = f[l.directory]
      /\ ProtectedEnd(LayoutAt(h, n + 1)) = end /\ f[end].kind # "recovery"
  <2>1. end < n => h[end + 1].kind = "recovery"
    BY <1>1, <1>4, <1>6, <1>7
  <2>2. /\ n \in Nat /\ ProtectedEnd(l) <= n /\ h[n + 1] = Footer(l.directory)
        /\ \A q \in 1..ProtectedEnd(l) : h[q] = f[q]
        /\ ProtectedEnd(l) < n => h[ProtectedEnd(l) + 1].kind = "recovery"
    BY <1>6, <1>7, <1>8, <2>1 DEF end, x
  <2>3. /\ FooterOK(h, n + 1) /\ h[l.directory] = f[l.directory]
        /\ ProtectedEnd(LayoutAt(h, n + 1)) = ProtectedEnd(l)
        /\ f[ProtectedEnd(l)].kind # "recovery"
    BY <2>2, ServiceFooter
  <2> QED BY <2>3 DEF end
<1>10. Sane(h) /\ SoundFile(h)
  <2>1. FooterOK(Append(b, x), Len(b) + 1) /\ x.kind # "recovery"
    BY <1>4, <1>9 DEF h, n
  <2>2. Sound(x) = x
    BY SoundSegments
  <2> HIDE DEF x
  <2> QED BY <1>6, <2>1, <2>2, SaneAppend, SoundAppend DEF h
<1>11. h # <<>> /\ Len(h) - 1 = n
  <2>1. Len(<<>>) = 0
    BY ShortSeqs
  <2> QED BY <1>6, <1>7, <2>1
<1>12. IF r THEN h[n] = Recovery(end) ELSE h[n].kind # "recovery"
  <2>1. CASE ~r
    <3>1. n = end /\ h[end] = f[end]
      BY <1>1, <1>6, <1>8, <2>1
    <3> QED BY <1>9, <2>1, <3>1
  <2>2. CASE r
    <3>1. n = end + 1 /\ h[n] = b[n] /\ b[n] = Recovery(end)
      BY <1>1, <1>6, <1>7, <2>2
    <3> QED BY <2>2, <3>1
  <2> QED BY <2>1, <2>2
<1>13. Served(f, l, r, h)
  BY <1>6, <1>7, <1>9, <1>10, <1>11, <1>12 DEF Served, x, end
<1> QED BY <1>2, <1>6, <1>13 DEF h, x, b, c, a, end

\* A rewritten service changes nothing else.
LEMMA ProtectSInv ==
  ASSUME IInv, SInv, Protect
  PROVE  SInv'
<1> DEFINE l == op.layout
           end == ProtectedEnd(l)
           a == Prefix(disk, end)
           t == IF op.recovery THEN <<Recovery(end)>> ELSE <<>>
           b == IF op.recovery THEN Append(a, Recovery(end)) ELSE a
           f == Append(b, Footer(l.directory))
<1>1. /\ pc = "protect" /\ pc' = "replace" /\ op' = op /\ disk' = disk /\ op.mode = "protect"
      /\ outcome' = outcome /\ ops' = ops
      /\ temp' = (a \o t) \o <<Footer(l.directory)>>
  BY DEF Protect, IInv, Modes
<1>2. Sane(disk) /\ SoundFile(disk) /\ IsSeq(disk) /\ Updating /\ op.recovery \in BOOLEAN
  BY <1>1, DiskSane, StagedOK DEF SInv, Updating, Typed
<1>3. Found(disk) /\ NoFooterBehind
  BY <1>1 DEF SInv, Outcomes
<1>4. /\ l.footer \in 1..Len(disk) /\ disk[l.footer].kind = "footer"
      /\ l = LayoutAt(disk, l.footer) /\ disk[l.directory].files = op.before
  BY <1>3 DEF Found
<1>5. Served(disk, l, op.recovery, f) /\ temp' = f
  <2> HIDE DEF l
  <2>1. IsSeq(a) /\ IsSeq(b) /\ Served(disk, l, op.recovery, f)
    BY <1>2, <1>4, ServiceFile
  <2>2. a \o t = b
    <3> HIDE DEF a
    <3> QED BY <2>1, AppendOne
  <2> HIDE DEF a, t, b
  <2> QED BY <1>1, <2>1, <2>2, AppendOne
<1> HIDE DEF b, f
<1>6. Result(f)
  <2>1. /\ f[Len(f)] = Footer(l.directory) /\ f[l.directory] = disk[l.directory]
        /\ ProtectedEnd(LayoutAt(f, Len(f))) = ProtectedEnd(l)
        /\ IF op.recovery THEN f[Len(f) - 1] = Recovery(ProtectedEnd(l))
           ELSE f[Len(f) - 1].kind # "recovery"
    BY <1>5 DEF Served
  <2>2. New(op.before) /\ ~op.sign
    BY <1>1 DEF SInv, Progress, Running, New
  <2>3. /\ f[Len(f)].kind = "footer" /\ f[Len(f)].directory = l.directory
        /\ (f[Len(f) - 1].kind = "recovery") = op.recovery
        /\ op.recovery => f[Len(f) - 1].protected = ProtectedEnd(l)
    <3>1. f[Len(f)].kind = "footer" /\ f[Len(f)].directory = l.directory
      BY <2>1 DEF Footer
    <3>2. op.recovery => f[Len(f) - 1] = Recovery(ProtectedEnd(l))
      BY <2>1
    <3>3. op.recovery => /\ f[Len(f) - 1].kind = "recovery"
                         /\ f[Len(f) - 1].protected = ProtectedEnd(l)
      BY <3>2 DEF Recovery
    <3>4. ~op.recovery => f[Len(f) - 1].kind # "recovery"
      BY <2>1
    <3>5. op.recovery \in BOOLEAN
      BY <1>2
    <3> QED BY <3>1, <3>3, <3>4, <3>5, Zenon
  <2> HIDE DEF New
  <2> QED BY <1>4, <2>1, <2>2, <2>3 DEF Result, Renewed
<1>7. FilesSane'
  BY <1>1, <1>2, <1>5 DEF SInv, FilesSane, Building, Updating, Served
<1>8. Outcomes' /\ Repairing'
  <2>1. Result(temp)'
    <3>1. temp' = f /\ op' = op
      BY <1>1, <1>5
    <3> QED BY <1>6, <3>1 DEF Result, Renewed, New
  <2>2. Found(disk)' /\ NoFooterBehind'
    BY <1>1, <1>3 DEF Found, NoFooterBehind
  <2>3. temp' # <<>>
    BY <1>5 DEF Served
  <2> HIDE DEF Found, NoFooterBehind, Result
  <2> QED BY <1>1, <2>1, <2>2, <2>3 DEF Outcomes, Repairing, Updating, InPlace
<1>9. Typed' /\ Progress' /\ EntriesPlaced' /\ DirectoryNew'
  BY <1>1 DEF SInv, Typed, Steps, Progress, Running, Building, EntriesPlaced, DirectoryNew
<1> QED BY <1>7, <1>8, <1>9 DEF SInv

\* The rename makes the new archive the archive.
LEMMA ReplaceSInv ==
  ASSUME IInv, SInv, Replace
  PROVE  SInv'
<1>1. /\ pc = "replace" /\ pc' = "report" /\ op' = op /\ outcome' = outcome /\ ops' = ops
      /\ disk' = temp /\ temp' = <<>> /\ op.mode # "append"
  BY DEF Replace, IInv, Modes, InPlace
<1>2. Updating \/ op.mode = "repair"
  BY <1>1 DEF SInv, Outcomes
<1>3. Updating => op.mode \in {"rewrite", "protect"}
  BY <1>1 DEF Updating
<1>4. /\ temp # <<>> /\ (Updating => Result(temp))
      /\ op.mode = "repair" => temp = Prefix(AsWritten(op.before), LatestFooter(op.before))
  BY <1>1, <1>2 DEF SInv, Outcomes, Repairing
<1>5. Sane(temp) /\ SoundFile(temp) /\ IsSeq(temp)
  BY <1>4 DEF SInv, FilesSane, IInv, FilesOK, FileOK
<1>6. FilesSane'
  BY <1>1, <1>5, WholeFile, SoundParity DEF FilesSane, Building
<1>7. Outcomes'
  <2>1. Updating => Result(disk)'
    BY <1>1, <1>4 DEF Result, Renewed, New
  <2>2. Updating => Renewed(disk)'
    BY <2>1 DEF Result
  <2> HIDE DEF Result, Renewed
  <2> QED BY <1>1, <1>2, <1>3, <2>1, <2>2 DEF Outcomes, Updating, InPlace
<1>8. Repairing'
  BY <1>1, <1>4 DEF Repairing
<1>9. Typed' /\ Progress' /\ EntriesPlaced' /\ DirectoryNew'
  BY <1>1 DEF SInv, Typed, Steps, Progress, Running, Building, EntriesPlaced, DirectoryNew
<1> QED BY <1>6, <1>7, <1>8, <1>9 DEF SInv

\* What is true of the report is true of the return.
LEMMA ReturnSInv ==
  ASSUME IInv, SInv, Return
  PROVE  SInv'
<1>1. /\ pc = "report" /\ pc' = "idle" /\ op' = op /\ disk' = disk /\ temp' = temp
      /\ outcome' = "ok" /\ ops' = ops
  BY DEF Return
<1>2. FilesSane'
  BY <1>1 DEF SInv, FilesSane, Building, Updating
<1>3. Outcomes'
  <2>1. /\ InPlace => Found(disk) /\ NewBehind(disk)
        /\ op.mode \in {"rewrite", "protect"} => (Found(disk) /\ NoFooterBehind) \/ Renewed(disk)
        /\ Updating => Result(disk)
    BY <1>1 DEF SInv, Outcomes
  <2>2. NoFooterBehind => NoFooterBehind'
    BY <1>1 DEF NoFooterBehind
  <2>3. /\ InPlace => Found(disk)' /\ NewBehind(disk)'
        /\ op.mode \in {"rewrite", "protect"} =>
             (Found(disk)' /\ NoFooterBehind') \/ Renewed(disk)'
        /\ Updating => Result(disk)'
    BY <1>1, <2>1, <2>2 DEF Found, NewBehind, Result, Renewed, New
  <2> HIDE DEF Found, NewBehind, NoFooterBehind, Result, Renewed
  <2> QED BY <1>1, <2>3 DEF Outcomes, Updating, InPlace
<1>4. Repairing'
  BY <1>1 DEF SInv, Repairing
<1>5. Typed' /\ Progress' /\ EntriesPlaced' /\ DirectoryNew'
  BY <1>1 DEF SInv, Typed, Steps, Progress, Running, Building, EntriesPlaced, DirectoryNew
<1> QED BY <1>2, <1>3, <1>4, <1>5 DEF SInv

\* What is left of an operation that stops before its return.
Stopped ==
  /\ op' = Forgotten /\ temp' = <<>>
  /\ pc # "idle" /\ pc' \in {"idle", "rollback"}
  /\ outcome' \in {"none", "running", "ok", "threw", "stuck", "crashed", "damaged",
                   "refused"}
  /\ pc' = "idle" => outcome' # "ok"
  /\ pc' = "rollback" => InPlace
  /\ pc' = "idle" /\ InPlace => outcome' # "threw"
  /\ op.mode = "repair" /\ pc' = "idle" /\ outcome' \in {"threw", "refused"} => pc # "report"
  /\ ops' = ops

\* A stop in the middle of a write leaves a torn segment behind, nothing else.
LEMMA StopSInv ==
  ASSUME IInv, SInv, Stopped, NEW tail \in {<<>>, <<Torn>>}, Tear(tail)
  PROVE  SInv'
<1>1. /\ op'.mode = op.mode /\ op'.layout = op.layout /\ op'.request = op.request
      /\ op'.before = op.before
      /\ op'.adds = {} /\ op'.files = <<>> /\ op'.signature = <<>>
      /\ op'.sign = FALSE /\ op'.recovery = FALSE
  BY DEF Stopped, Forgotten, NoOp
<1>2. SameRequest /\ InPlace' = InPlace /\ (Updating' <=> Updating)
  BY <1>1 DEF SameRequest, InPlace, Updating
<1>3. IsSeq(disk) /\ Len(disk) \in Nat
  BY StagedOK
<1>4. Typed'
  <2>1. DOMAIN op'.files = {} /\ op'.adds = {}
    BY <1>1
  <2> QED BY <1>1, <2>1 DEF Stopped, SInv, Typed, Steps
<1>5. Progress' /\ EntriesPlaced' /\ DirectoryNew'
  <2>1. pc' \in {"idle", "rollback"}
    BY DEF Stopped
  <2> QED BY <1>1, <2>1 DEF Progress, Running, Building, EntriesPlaced, DirectoryNew
<1>6. CASE disk' = disk
  <2>1. FilesSane'
    BY <1>2, <1>6 DEF Stopped, SInv, FilesSane, Building
  <2>2. Outcomes'
    <3>1. \A f : /\ (Found(f) <=> Found(f)') /\ (NewBehind(f) <=> NewBehind(f)')
                 /\ (Renewed(f) <=> Renewed(f)')
      BY <1>1 DEF Found, NewBehind, Renewed, New
    <3>2. NoFooterBehind <=> NoFooterBehind'
      BY <1>1, <1>6 DEF NoFooterBehind
    <3>3. /\ (Found(disk) <=> Found(disk)') /\ (NewBehind(disk) <=> NewBehind(disk)')
          /\ (Renewed(disk) <=> Renewed(disk)')
      BY <1>1, <1>6 DEF Found, NewBehind, Renewed, New
    <3>4. /\ pc' \in {"idle", "rollback"} /\ (pc' = "rollback" => InPlace)
          /\ pc' = "idle" => outcome' # "ok"
          /\ pc' = "idle" /\ InPlace => outcome' # "threw"
          /\ pc # "idle"
      BY DEF Stopped
    <3>5. /\ InPlace => Found(disk) /\ NewBehind(disk)
          /\ op.mode \in {"rewrite", "protect"} =>
               \/ Found(disk) /\ NoFooterBehind
               \/ Renewed(disk)
      BY DEF SInv, Outcomes
    <3>6. op.mode \in {"rewrite", "protect"} => pc' = "idle"
      BY <3>4 DEF InPlace
    <3> HIDE DEF Found, NewBehind, NoFooterBehind, Renewed, Result
    <3> QED BY <1>1, <1>2, <3>2, <3>3, <3>4, <3>5, <3>6 DEF Outcomes, Updating, InPlace
  <2>3. Repairing'
    <3> SUFFICES ASSUME op.mode = "repair" PROVE Repairing'
      BY <1>1 DEF Repairing
    <3>1. pc' = "idle" /\ outcome' # "ok"
      BY DEF Stopped, InPlace
    <3>2. ASSUME outcome' \in {"threw", "refused"} PROVE disk = op.before
      <4>1. pc # "report" /\ pc # "idle"
        BY <3>1, <3>2 DEF Stopped
      <4>2. pc = "replace"
        BY <4>1 DEF SInv, Typed, Steps, IInv, Modes, Building, InPlace
      <4> QED BY <4>2 DEF SInv, Repairing
    <3> QED BY <1>1, <1>6, <3>1, <3>2 DEF Repairing
  <2> QED BY <1>4, <1>5, <2>1, <2>2, <2>3 DEF SInv
<1>7. CASE disk' # disk
  <2>1. InPlace /\ pc \in Building /\ disk' = disk \o tail /\ op.mode = "append" /\ Updating
    BY <1>7 DEF Tear, Building, InPlace, Updating
  <2>2. disk' = Append(disk, Torn)
    BY <1>3, <1>7, <2>1, AppendOne
  <2>3. /\ Sane(disk) /\ SoundFile(disk)
        /\ Torn.kind \notin {"footer", "recovery"} /\ Sound(Torn) = Torn
    BY <2>1, DiskSane, SoundSegments DEF SInv, Torn
  <2>4. Sane(disk') /\ SoundFile(disk') /\ IsSeq(disk')
    BY <1>3, <2>2, <2>3, SaneAppend, SoundAppend, AppendSeq
  <2>5. /\ Len(disk') = Len(disk) + 1 /\ disk'[Len(disk) + 1] = Torn
        /\ \A q \in 1..Len(disk) : disk'[q] = disk[q]
    BY <1>3, <2>2, AppendSeq
  <2>6. FilesSane'
    BY <2>4, WholeFile, SoundParity DEF FilesSane, Stopped, Building
  <2>7. /\ Found(disk) /\ NewBehind(disk) /\ LayoutOf(op.layout, disk)
        /\ op.layout.footer \in 1..Len(disk)
    BY <2>1 DEF SInv, Outcomes, IInv, LayoutKept, LayoutOf, Building
  <2>8. Found(disk') /\ NewBehind(disk')
    <3>1. op.layout.footer <= Len(disk') /\ op.layout.footer \in Nat
          /\ \A q \in 1..op.layout.footer : disk'[q] = disk[q]
      BY <1>3, <2>5, <2>7
    <3>2. Found(disk')
      BY <1>3, <2>4, <2>7, <3>1, FoundStays
    <3>3. \A q \in (op.layout.footer + 1)..Len(disk) :
            disk'[q].kind = "footer" => New(disk'[disk'[q].directory].files)
      <4>1. Len(disk) \in 0..Len(disk)
        BY <1>3
      <4> QED BY <1>3, <2>3, <2>5, <2>7, <3>1, <4>1, NewStays
    <3>4. \A q \in (op.layout.footer + 1)..Len(disk') :
            q \in (op.layout.footer + 1)..Len(disk) \/ disk'[q].kind # "footer"
      BY <1>3, <2>3, <2>5, <3>1
    <3>5. NewBehind(disk')
      BY <3>3, <3>4 DEF NewBehind
    <3> QED BY <3>2, <3>5
  <2>9. Outcomes' /\ Repairing'
    <3>1. Found(disk)' /\ NewBehind(disk)'
      BY <1>1, <2>8 DEF Found, NewBehind, New
    <3> HIDE DEF Found, NewBehind
    <3> QED BY <1>1, <1>2, <2>1, <3>1 DEF Outcomes, Repairing, Updating, InPlace, Stopped
  <2> QED BY <1>4, <1>5, <2>6, <2>9 DEF SInv
<1> QED BY <1>6, <1>7

\* An exception or a crash.
LEMMA FailOrCrashSInv ==
  ASSUME IInv, SInv, Fail \/ Crash
  PROVE  SInv'
<1>1. PICK tail \in {<<>>, <<Torn>>} : Tear(tail)
  BY DEF Fail, Crash
<1>2. Stopped
  <2>1. outcome \in {"none", "running", "ok", "threw", "stuck", "crashed", "damaged",
                     "refused"}
    BY DEF SInv, Typed
  <2> QED BY <2>1 DEF Fail, Crash, Stopped
<1> QED BY <1>1, <1>2, StopSInv

\* The rollback leaves the generation found, or everything.
LEMMA RollbackSInv ==
  ASSUME IInv, SInv, Rollback
  PROVE  SInv'
<1>1. /\ pc = "rollback" /\ pc' = "idle" /\ op' = op /\ temp' = temp /\ ops' = ops
      /\ \/ disk' = Prefix(disk, op.layout.footer) /\ outcome' = "threw"
         \/ disk' = disk /\ outcome' = "stuck"
  BY DEF Rollback
<1>2. /\ InPlace /\ op.mode = "append" /\ Updating /\ LayoutOf(op.layout, disk)
      /\ Found(disk) /\ NewBehind(disk)
  BY <1>1 DEF IInv, Modes, LayoutKept, SInv, Outcomes, InPlace, Updating
<1>3. /\ Sane(AsWritten(disk')) /\ SoundFile(disk') /\ ParityKnown(disk')
      /\ Found(disk') /\ NewBehind(disk')
      /\ outcome' = "threw" => Len(disk') = op.layout.footer
  <2>1. CASE disk' = disk /\ outcome' = "stuck"
    BY <1>2, <2>1, DiskSane DEF SInv, FilesSane
  <2>2. CASE disk' = Prefix(disk, op.layout.footer)
    <3>1. /\ Sane(disk') /\ SoundFile(disk') /\ ParityKnown(disk') /\ AsWritten(disk') = disk'
          /\ Len(disk') = op.layout.footer /\ Found(disk') /\ NewBehind(disk')
      BY <1>2, <2>2, CutAtFound
    <3> QED BY <3>1
  <2> QED BY <1>1, <2>1, <2>2
<1>4. FilesSane'
  BY <1>1, <1>3 DEF SInv, FilesSane, Building
<1>5. Found(disk)' /\ NewBehind(disk)'
  BY <1>1, <1>3 DEF Found, NewBehind, New
<1>6. Outcomes' /\ Repairing'
  <2> HIDE DEF Found, NewBehind
  <2> QED BY <1>1, <1>2, <1>3, <1>5 DEF Outcomes, Repairing, Updating, InPlace
<1>7. Typed' /\ Progress' /\ EntriesPlaced' /\ DirectoryNew'
  BY <1>1 DEF SInv, Typed, Steps, Progress, Running, Building, EntriesPlaced, DirectoryNew
<1> QED BY <1>4, <1>6, <1>7 DEF SInv

\* An undamaged file stands behind every damaged one.
LEMMA DamageSInv ==
  ASSUME IInv, SInv, Damage
  PROVE  SInv'
<1>1. PICK from, to \in 1..LatestFooter(disk), slightly \in BOOLEAN :
        disk' = [p \in DOMAIN disk |->
                   IF p \notin from..to THEN disk[p]
                   ELSE IF slightly /\ disk[p].kind = "recovery"
                   THEN [disk[p] EXCEPT !.parity = @ - 1]
                   ELSE Damaged(disk[p])]
  BY DEF Damage
<1>2. /\ pc = "idle" /\ pc' = pc /\ op' = NoOp /\ temp' = temp /\ Whole(disk)
      /\ outcome' = "damaged" /\ ops' = ops
  BY DEF Damage
<1>3. Len(disk) \in Nat /\ DOMAIN disk = 1..Len(disk) /\ IsSeq(disk)
  BY StagedOK, SeqLen
<1>4. Sane(disk) /\ SoundFile(disk) /\ AsWritten(disk) = disk
  BY <1>2, <1>3, WholeFile DEF SInv, FilesSane
<1>5. ASSUME NEW p \in 1..Len(disk)
      PROVE  /\ Sound(disk'[p]) = disk[p]
             /\ disk'[p].kind = "recovery" => disk'[p].parity \in Int
  <2>1. disk[p] = Sound(disk[p]) /\ (disk[p].kind = "recovery" => disk[p] = Recovery(p - 1))
    BY <1>4 DEF SoundFile, Sane
  <2>2. CASE disk'[p] = disk[p]
    BY <2>1, <2>2, GenerationsAssumption DEF Recovery
  <2>3. CASE disk'[p] = Damaged(disk[p])
    BY <2>3 DEF Damaged, Sound
  <2>4. CASE disk[p].kind = "recovery" /\ disk'[p] = [disk[p] EXCEPT !.parity = @ - 1]
    <3>1. disk[p] = Recovery(p - 1)
      BY <2>1, <2>4
    <3>2. /\ disk'[p].kind = "recovery" /\ disk'[p].protected = p - 1
          /\ disk'[p].parity = Parity - 1
      BY <2>4, <3>1 DEF Recovery
    <3>3. Parity - 1 \in Int
      BY GenerationsAssumption
    <3> QED BY <3>1, <3>2, <3>3 DEF Sound
  <2> QED BY <1>1, <1>3, <2>2, <2>3, <2>4
<1>6. DOMAIN disk' = 1..Len(disk) /\ disk' = [p \in 1..Len(disk) |-> disk'[p]]
  BY <1>1, <1>3
<1>7. Len(disk') = Len(disk)
  BY <1>3, <1>6, SeqOfFunction
<1>8. AsWritten(disk') = disk
  <2>1. AsWritten(disk') = [p \in 1..Len(disk) |-> Sound(disk'[p])]
    BY <1>6 DEF AsWritten
  <2>2. disk = [p \in 1..Len(disk) |-> disk[p]]
    BY <1>3, SeqLen
  <2> QED BY <1>5, <2>1, <2>2
<1>9. /\ op'.mode = "none" /\ op'.adds = {} /\ op'.files = <<>> /\ op'.signature = <<>>
      /\ op'.sign = FALSE /\ op'.recovery = FALSE
  BY <1>2 DEF NoOp
<1>10. FilesSane'
  <2>1. Sane(AsWritten(disk'))
    BY <1>4, <1>8
  <2>2. ParityKnown(disk')
    BY <1>5, <1>7 DEF ParityKnown
  <2> QED BY <1>2, <1>9, <2>1, <2>2 DEF SInv, FilesSane, Building, Updating
<1>11. Typed'
  <2>1. DOMAIN op'.files = {} /\ op'.adds = {}
    BY <1>9
  <2> QED BY <1>2, <1>9, <2>1 DEF SInv, Typed, Steps
<1>12. Progress' /\ EntriesPlaced' /\ DirectoryNew'
  BY <1>2, <1>9 DEF Progress, Running, Building, EntriesPlaced, DirectoryNew
<1>13. Outcomes' /\ Repairing'
  BY <1>2, <1>9 DEF Outcomes, Repairing, Updating, InPlace
<1> QED BY <1>10, <1>11, <1>12, <1>13 DEF SInv

----------------------------------------------------------------------------
(* What a repair makes.                                                    *)

\* A prefix is the one before it and one segment more.
LEMMA PrefixNext ==
  ASSUME NEW f, IsSeq(f), NEW n \in Nat, n + 1 <= Len(f)
  PROVE  Prefix(f, n + 1) = Append(Prefix(f, n), f[n + 1])
<1> DEFINE g == Prefix(f, n)
           h == Append(g, f[n + 1])
           k == Prefix(f, n + 1)
<1>1. Len(f) \in Nat /\ n \in 0..Len(f) /\ n + 1 \in 0..Len(f)
  BY SeqLen
<1>2. /\ IsSeq(g) /\ Len(g) = n /\ (\A p \in 1..n : g[p] = f[p])
      /\ IsSeq(k) /\ Len(k) = n + 1 /\ \A p \in 1..(n + 1) : k[p] = f[p]
  BY <1>1, PrefixSeq
<1> HIDE DEF g, k
<1>3. IsSeq(h) /\ Len(h) = n + 1 /\ (\A p \in 1..n : h[p] = g[p]) /\ h[n + 1] = f[n + 1]
  BY <1>2, AppendSeq
<1> HIDE DEF h
<1>4. \A p \in 1..(n + 1) : h[p] = k[p]
  BY <1>2, <1>3
<1>5. /\ h = [p \in 1..(n + 1) |-> h[p]] /\ k = [p \in 1..(n + 1) |-> k[p]]
  <2>1. h = [p \in 1..Len(h) |-> h[p]] /\ k = [p \in 1..Len(k) |-> k[p]]
    BY <1>2, <1>3, SeqLen
  <2> QED BY <1>2, <1>3, <2>1
<1> QED BY <1>4, <1>5 DEF h, k, g

\* Concatenation with two segments appends them.
LEMMA AppendTwo ==
  ASSUME NEW f, NEW x, NEW y, IsSeq(f)
  PROVE  f \o <<x, y>> = Append(Append(f, x), y)
<1> DEFINE g == <<x, y>>
           c == f \o g
           a == Append(f, x)
           h == Append(a, y)
           n == Len(f)
<1>1. PICK S : f \in Seq(S)
  BY DEF IsSeq
<1>2. f \in Seq(S \cup {x, y}) /\ g \in Seq(S \cup {x, y})
      /\ Len(g) = 2 /\ g[1] = x /\ g[2] = y
  BY <1>1
<1> HIDE DEF g
<1>3. /\ c \in Seq(S \cup {x, y}) /\ Len(c) = n + 2 /\ n \in Nat
      /\ \A p \in 1..(n + 2) : c[p] = IF p <= n THEN f[p] ELSE g[p - n]
  <2>1. /\ f \o g \in Seq(S \cup {x, y}) /\ Len(f \o g) = Len(f) + Len(g)
        /\ \A p \in 1..(Len(f) + Len(g)) :
             (f \o g)[p] = IF p <= Len(f) THEN f[p] ELSE g[p - Len(f)]
    <3> DEFINE U == S \cup {x, y}
    <3>1. f \in Seq(U) /\ g \in Seq(U)
      BY <1>2
    <3> HIDE DEF U
    <3>2. /\ f \o g \in Seq(U) /\ Len(f \o g) = Len(f) + Len(g)
          /\ \A p \in 1..(Len(f) + Len(g)) :
               (f \o g)[p] = IF p <= Len(f) THEN f[p] ELSE g[p - Len(f)]
      BY <3>1, ConcatProperties
    <3> QED BY <3>2 DEF U
  <2>2. Len(f) \in Nat
    BY <1>1
  <2> QED BY <1>2, <2>1, <2>2
<1>4. /\ IsSeq(a) /\ Len(a) = n + 1 /\ (\A p \in 1..n : a[p] = f[p]) /\ a[n + 1] = x
  BY AppendSeq
<1>5. IsSeq(c)
  BY <1>3 DEF IsSeq
<1> HIDE DEF a, c, n
<1>6. /\ IsSeq(h) /\ Len(h) = n + 2 /\ (\A p \in 1..(n + 1) : h[p] = a[p]) /\ h[n + 2] = y
  <2>1. IsSeq(h) /\ Len(h) = Len(a) + 1 /\ (\A p \in 1..Len(a) : h[p] = a[p])
        /\ h[Len(a) + 1] = y
    BY <1>4, AppendSeq
  <2>2. Len(a) + 1 = n + 2
    BY <1>3, <1>4
  <2> HIDE DEF h
  <2> QED BY <1>4, <2>1, <2>2
<1> HIDE DEF h
<1>7. \A p \in 1..(n + 2) : c[p] = h[p]
  <2> TAKE p \in 1..(n + 2)
  <2>1. CASE p <= n
    BY <1>3, <1>4, <1>6, <2>1
  <2>2. CASE p = n + 1
    BY <1>2, <1>3, <1>4, <1>6, <2>2
  <2>3. CASE p = n + 2
    BY <1>2, <1>3, <1>6, <2>3
  <2> QED BY <1>3, <2>1, <2>2, <2>3
<1>8. c = [p \in 1..(n + 2) |-> c[p]] /\ h = [p \in 1..(n + 2) |-> h[p]]
  <2>1. c = [p \in 1..Len(c) |-> c[p]] /\ h = [p \in 1..Len(h) |-> h[p]]
    BY <1>5, <1>6, SeqLen
  <2> QED BY <1>3, <1>6, <2>1
<1> QED BY <1>7, <1>8 DEF c, h, a, g

\* And so with three.
LEMMA AppendThree ==
  ASSUME NEW f, NEW x, NEW y, NEW z, IsSeq(f)
  PROVE  f \o <<x, y, z>> = Append(Append(Append(f, x), y), z)
<1>1. PICK S : f \in Seq(S)
  BY DEF IsSeq
<1> DEFINE U == S \cup {x, y, z}
<1>2. f \in Seq(U) /\ <<x, y>> \in Seq(U) /\ <<z>> \in Seq(U)
  BY <1>1
<1>3. <<x, y, z>> = <<x, y>> \o <<z>>
  OBVIOUS
<1>4. f \o (<<x, y>> \o <<z>>) = (f \o <<x, y>>) \o <<z>>
  BY <1>2, ConcatAssociative
<1>5. f \o <<x, y>> \in Seq(U)
  BY <1>2, ConcatProperties
<1>6. IsSeq(f \o <<x, y>>)
  BY <1>5 DEF IsSeq
<1>7. (f \o <<x, y>>) \o <<z>> = Append(f \o <<x, y>>, z)
  BY <1>6, AppendOne
<1>8. f \o <<x, y>> = Append(Append(f, x), y)
  BY AppendTwo
<1> QED BY <1>3, <1>4, <1>7, <1>8

\* A service that a repair accepts is the one written in front of the footer it
\* found, and that footer is one of the archive's own.
LEMMA RepairableAt ==
  ASSUME NEW f, FileOK(f), Sane(AsWritten(f)), LayoutReadable(f), HasRecovery(f), Repairable(f)
  PROVE  LET p == LatestFooter(f)
             l == ReadLayout(f)
             end == ProtectedEnd(l)
             w == AsWritten(f)
         IN  /\ l.footer = p /\ p \in 2..Len(f) /\ end \in Nat /\ p = end + 2
             /\ w[end + 1] = Recovery(end) /\ w[p] = Footer(l.directory)
<1> DEFINE p == LatestFooter(f)
           l == ReadLayout(f)
           end == ProtectedEnd(l)
           w == AsWritten(f)
           d == NamedDirectory(f, p)
           x == ExtensionAt(f, d, p)
<1>1. IsSeq(f) /\ Len(f) \in Nat /\ IsSeq(w) /\ Len(w) = Len(f)
      /\ \A q \in 1..Len(f) : w[q] = Sound(f[q])
  BY AsWrittenFile, SeqLen DEF FileOK
<1>2. p \in 1..Len(f) /\ FooterShaped(f, p)
  BY <1>1, LatestIs DEF LayoutReadable
<1>3. /\ l.footer = p /\ l.directory = d /\ l.extension = x
      /\ end = IF x = 0 THEN d ELSE x
  BY DEF ReadLayout, ProtectedEnd
<1>4. /\ f[p - 1].kind = "recovery" /\ f[p - 1].protected = end
  BY <1>3 DEF HasRecovery, Repairable
<1>5. x = 0 \/ (x = d + 1 /\ d + 1 < p /\ f[d + 1].kind = "extension")
  BY DEF ExtensionAt
<1>6. /\ f[p].kind = "footer" => d = f[p].directory
      /\ f[p].kind # "footer" => d = 1 /\ f[p].kind = "block"
  BY <1>2 DEF NamedDirectory, FooterShaped
<1>7. Sane(w)
  OBVIOUS
<1> HIDE DEF p, l, end, w, d, x
<1>8. /\ Len(w) >= 2 /\ w[1] = Header /\ w[2].kind = "block"
      /\ \A q \in 1..Len(w) : /\ w[q].kind = "footer" => FooterOK(w, q)
                              /\ w[q].kind = "recovery" => w[q] = Recovery(q - 1)
  BY <1>7 DEF Sane
<1>9. ASSUME NEW q \in 1..Len(f)
      PROVE  /\ f[q].kind \in {"footer", "block", "extension"} => w[q] = f[q]
             /\ f[q].kind = "recovery" => f[q].protected = q - 1 /\ w[q] = Recovery(q - 1)
  <2>1. w[q] = Sound(f[q])
    BY <1>1
  <2>2. f[q].kind \in {"footer", "block", "extension"} => w[q] = f[q]
    BY <2>1 DEF Sound
  <2>3. ASSUME f[q].kind = "recovery"
        PROVE  f[q].protected = q - 1 /\ w[q] = Recovery(q - 1)
    <3>1. w[q] = Recovery(f[q].protected)
      BY <2>1, <2>3 DEF Sound
    <3>2. w[q].kind = "recovery" /\ w[q].protected = f[q].protected
      BY <3>1 DEF Recovery
    <3>3. w[q] = Recovery(q - 1)
      BY <1>1, <1>8, <3>2
    <3> QED BY <3>2, <3>3 DEF Recovery
  <2> QED BY <2>2, <2>3
<1>10. p # 1
  <2>1. ASSUME p = 1 PROVE FALSE
    <3>1. f[1].kind \in {"footer", "block"} /\ 1 \in 1..Len(f)
      BY <1>2, <1>6, <2>1
    <3>2. w[1] = f[1]
      BY <1>9, <3>1
    <3> QED BY <1>8, <3>1, <3>2 DEF Header
  <2> QED BY <2>1
<1>11. p - 1 \in 1..Len(f) /\ end = p - 2 /\ w[p - 1] = Recovery(p - 2)
  <2>1. p - 1 \in 1..Len(f) /\ (p - 1) - 1 = p - 2
    BY <1>1, <1>2, <1>10
  <2> QED BY <1>4, <1>9, <2>1
<1>12. f[p].kind = "footer"
  <2>1. ASSUME f[p].kind # "footer" PROVE FALSE
    <3>1. d = 1 /\ 2 \in 1..Len(f)
      BY <1>1, <1>6, <1>8, <2>1
    <3>2. f[2].kind # "extension"
      BY <1>8, <1>9, <3>1
    <3>3. end = 1
      BY <1>3, <1>5, <3>1, <3>2
    <3>4. p - 1 = 2
      BY <1>2, <1>11, <3>3
    <3>5. w[2].kind = "recovery"
      BY <1>11, <3>4 DEF Recovery
    <3> QED BY <1>8, <3>5
  <2> QED BY <2>1
<1>13. w[p] = Footer(d) /\ d \in Nat
  <2>1. w[p] = f[p]
    BY <1>2, <1>9, <1>12
  <2>2. FooterOK(w, p)
    BY <1>1, <1>2, <1>8, <1>12, <2>1
  <2>3. LayoutAt(w, p).directory = d
    BY <1>6, <1>12, <2>1, LayoutFields
  <2> QED BY <2>2, <2>3 DEF FooterOK
<1>14. end \in Nat /\ p = end + 2 /\ p \in 2..Len(f) /\ end + 1 = p - 1
  BY <1>1, <1>2, <1>3, <1>5, <1>11, <1>13
<1>15. w[end + 1] = Recovery(end)
  BY <1>11, <1>14
<1> QED BY <1>3, <1>13, <1>14, <1>15 DEF p, l, end, w

\* Lost segments can be counted.
LEMMA LostFinite ==
  ASSUME NEW f, NEW n \in Nat
  PROVE  Cardinality(Lost(f, n)) \in Nat
<1>1. IsFiniteSet(1..n)
  BY FS_Interval
<1>2. Lost(f, n) \in SUBSET (1..n)
  BY DEF Lost
<1> QED BY <1>1, <1>2, FS_Subset, FS_CardinalityType

\* A repair that goes ahead makes of the file what it was up to that footer.
LEMMA RepairMakes ==
  ASSUME NEW f, FileOK(f), Sane(AsWritten(f)), ParityKnown(f),
         LayoutReadable(f), HasRecovery(f), Repairable(f)
  PROVE  LET l == ReadLayout(f)
             end == ProtectedEnd(l)
             made == Prefix(AsWritten(f), LatestFooter(f))
         IN  /\ Reconstructed(f, end, f[l.footer - 1].parity)
                  \o <<Recovery(end), Footer(l.directory)>> = made
             /\ Sane(made) /\ SoundFile(made) /\ made # <<>>
<1> DEFINE p == LatestFooter(f)
           l == ReadLayout(f)
           end == ProtectedEnd(l)
           w == AsWritten(f)
           made == Prefix(w, p)
           parity == f[l.footer - 1].parity
<1>1. /\ l.footer = p /\ p \in 2..Len(f) /\ end \in Nat /\ p = end + 2
      /\ w[end + 1] = Recovery(end) /\ w[p] = Footer(l.directory)
  BY RepairableAt
<1>2. IsSeq(f) /\ Len(f) \in Nat /\ IsSeq(w) /\ Len(w) = Len(f) /\ Sane(w) /\ SoundFile(w)
  BY AsWrittenFile, AsWrittenSound, SeqLen DEF FileOK
<1>3. Cardinality(Lost(f, end)) <= parity
  <2>1. Cardinality(Lost(f, end)) + (Parity - parity) <= Parity
    BY DEF Repairable
  <2>2. f[l.footer - 1].kind = "recovery"
    BY DEF HasRecovery
  <2> HIDE DEF end, l, p
  <2>3. Cardinality(Lost(f, end)) \in Nat
    BY <1>1, LostFinite
  <2>4. parity \in Int
    <3>1. l.footer - 1 \in 1..Len(f)
      BY <1>1, <1>2
    <3> QED BY <2>2, <3>1 DEF ParityKnown
  <2>5. Parity \in Nat
    BY GenerationsAssumption
  <2> HIDE DEF parity
  <2> QED BY <2>1, <2>3, <2>4, <2>5
<1>4. Reconstructed(f, end, parity) = Prefix(w, end)
  BY <1>3 DEF Reconstructed
<1> HIDE DEF end, l, p, w, parity
<1>5. made = Append(Append(Prefix(w, end), Recovery(end)), Footer(l.directory))
  <2>1. end + 1 <= Len(w) /\ end + 1 \in Nat /\ (end + 1) + 1 = p /\ (end + 1) + 1 <= Len(w)
    BY <1>1, <1>2
  <2>2. Prefix(w, end + 1) = Append(Prefix(w, end), w[end + 1])
    BY <1>1, <1>2, <2>1, PrefixNext
  <2>3. Prefix(w, (end + 1) + 1) = Append(Prefix(w, end + 1), w[(end + 1) + 1])
    BY <1>2, <2>1, PrefixNext
  <2> QED BY <1>1, <2>1, <2>2, <2>3
<1>6. Prefix(w, end) \o <<Recovery(end), Footer(l.directory)>> = made
  <2>1. end \in 0..Len(w)
    BY <1>1, <1>2
  <2>2. IsSeq(Prefix(w, end))
    BY <1>2, <2>1, PrefixSeq
  <2> QED BY <1>5, <2>2, AppendTwo
<1>7. Sane(made) /\ SoundFile(made) /\ made # <<>>
  <2>1. p \in 2..Len(w) /\ p \in 0..Len(w)
    BY <1>1, <1>2
  <2>2. Sane(made) /\ SoundFile(made)
    BY <1>2, <2>1, SanePrefix, SoundPrefix
  <2>3. Len(made) >= 2
    BY <2>2 DEF Sane
  <2>4. Len(<<>>) = 0
    BY ShortSeqs
  <2> HIDE DEF made
  <2> QED BY <2>2, <2>3, <2>4
<1> QED BY <1>4, <1>6, <1>7 DEF end, l, p, w, parity

\* A repair leaves the archive to the replacement, or leaves everything as it is.
LEMMA RepairSInv ==
  ASSUME IInv, SInv, Repair
  PROVE  SInv'
<1> DEFINE able == LayoutReadable(disk) /\ HasRecovery(disk) /\ Repairable(disk)
           made == Prefix(AsWritten(disk), LatestFooter(disk))
<1>1. /\ pc = "idle" /\ disk' = disk /\ ops' = ops
      /\ op' = [NoOp EXCEPT !.mode = "repair", !.before = disk]
  BY DEF Repair
<1>2. /\ op'.mode = "repair" /\ op'.before = disk /\ op'.adds = {} /\ op'.files = <<>>
      /\ op'.signature = <<>> /\ op'.sign = FALSE /\ op'.recovery = FALSE
  BY <1>1 DEF NoOp
<1>3. FileOK(disk) /\ Sane(AsWritten(disk)) /\ ParityKnown(disk)
  BY StagedOK DEF SInv, FilesSane
<1>4. \/ /\ pc' = "replace" /\ outcome' = "running" /\ temp' = made
         /\ Sane(temp') /\ SoundFile(temp') /\ temp' # <<>>
      \/ pc' = "idle" /\ outcome' \in {"refused", "threw"} /\ temp' = temp
  <2>1. CASE able
    <3>1. /\ pc' = "replace" /\ outcome' = "running"
          /\ temp' = Reconstructed(disk, ProtectedEnd(ReadLayout(disk)),
                                   disk[ReadLayout(disk).footer - 1].parity)
                     \o <<Recovery(ProtectedEnd(ReadLayout(disk))),
                          Footer(ReadLayout(disk).directory)>>
      BY <2>1 DEF Repair
    <3> QED BY <1>3, <2>1, <3>1, RepairMakes
  <2>2. CASE ~able
    BY <1>1, <2>2 DEF Repair
  <2> QED BY <2>1, <2>2
<1> HIDE DEF able
<1>5. FilesSane'
  <2>1. ~Updating' /\ pc' \notin Building
    BY <1>2, <1>4 DEF Updating, Building
  <2> QED BY <1>1, <1>3, <1>4, <2>1 DEF SInv, FilesSane
<1>6. Typed'
  <2>1. DOMAIN op'.files = {}
    <3>1. op'.files = <<>>
      BY <1>2
    <3> QED BY <3>1
  <2>2. pc' \in {"replace", "idle"} /\ outcome' \in {"running", "refused", "threw"}
    BY <1>4
  <2> HIDE DEF made
  <2> QED BY <1>1, <1>2, <2>1, <2>2 DEF SInv, Typed, Steps
<1>7. Progress' /\ EntriesPlaced' /\ DirectoryNew'
  <2>1. pc' \in {"replace", "idle"}
    BY <1>4
  <2> QED BY <1>2, <2>1 DEF Progress, Running, Building, EntriesPlaced, DirectoryNew
<1>8. Outcomes'
  BY <1>2, <1>4 DEF Outcomes, Updating, InPlace
<1>9. Repairing'
  BY <1>1, <1>2, <1>4 DEF Repairing
<1> QED BY <1>5, <1>6, <1>7, <1>8, <1>9 DEF SInv

----------------------------------------------------------------------------
(* The archives the behaviours begin with.                                 *)

FirstDirectory == Directory({2}, [i \in {Base} |-> 2], <<>>)

\* It is a segment, and not damaged.
LEMMA FirstDirectorySound ==
  FirstDirectory.kind = "directory" /\ Sound(FirstDirectory) = FirstDirectory
<1>1. FirstDirectory.kind = "directory"
  BY DEF FirstDirectory, Directory
<1> QED BY <1>1, SoundSegments DEF FirstDirectory

\* g is f and x behind it.
Continues(f, x, g) == g = Append(f, x)

\* What it is then.
LEMMA ContinuesBy ==
  ASSUME NEW f, NEW x, NEW g, IsSeq(f), Continues(f, x, g)
  PROVE  /\ IsSeq(g) /\ Len(g) = Len(f) + 1 /\ (\A p \in 1..Len(f) : g[p] = f[p])
         /\ g[Len(f) + 1] = x
  BY AppendSeq DEF Continues

\* The directory of an archive as created, behind its only block.
FirstAt(f, d) ==
  /\ d \in 3..Len(f) /\ f[d] = FirstDirectory /\ f[2] = Block(Base)

\* It says what is so.
LEMMA FirstDirectoryOK ==
  ASSUME NEW f, NEW d, IsSeq(f), FirstAt(f, d)
  PROVE  DirectoryOK(f, d) /\ f[d].signature = <<>> /\ f[d].kind = "directory"
<1> DEFINE files == [i \in {Base} |-> 2]
<1>1. /\ f[d].blocks = {2} /\ f[d].files = files /\ f[d].signature = <<>>
      /\ f[d].kind = "directory" /\ f[d] = Directory(f[d].blocks, f[d].files, f[d].signature)
  BY DEF FirstAt, FirstDirectory, Directory
<1>2. DOMAIN files = {Base} /\ \A i \in DOMAIN files : files[i] = 2 /\ f[2] = Block(i)
  BY DEF FirstAt
<1>3. 2 \in 1..(d - 1) /\ Base \in Item
  BY SeqLen, GenerationsAssumption DEF FirstAt
<1> HIDE DEF files
<1> QED BY <1>1, <1>2, <1>3 DEF DirectoryOK

\* Closed with a footer it is the archive's first generation.
LEMMA FirstGeneration ==
  ASSUME NEW f, Sane(f), SoundFile(f), IsSeq(f), FirstAt(f, 3),
         Len(f) >= 4 => f[4].kind # "extension"
  PROVE  LET g == Append(f, Footer(3))
             n == Len(f) + 1
         IN  /\ Sane(g) /\ SoundFile(g) /\ IsSeq(g) /\ Len(g) = n /\ FirstAt(g, 3)
             /\ g[n] = Footer(3)
             /\ LayoutAt(g, n) = [footer |-> n, directory |-> 3, extension |-> 0, generation |-> 0]
<1> DEFINE x == Footer(3)
           g == Append(f, x)
           n == Len(f) + 1
<1>1. x.kind = "footer" /\ x.directory = 3 /\ Sound(x) = x
  BY SoundSegments DEF Footer
<1>2. Len(f) \in Nat /\ Len(f) >= 3
  BY SeqLen DEF FirstAt
<1>3. IsSeq(g) /\ Len(g) = n /\ (\A p \in 1..Len(f) : g[p] = f[p]) /\ g[n] = x
  BY AppendSeq
<1>4. SoundFile(g)
  BY <1>1, SoundAppend
<1> HIDE DEF g, x
<1>5. FirstAt(g, 3)
  BY <1>2, <1>3 DEF FirstAt
<1>6. NamedDirectory(g, n) = 3 /\ ExtensionAt(g, 3, n) = 0
  BY <1>1, <1>2, <1>3 DEF NamedDirectory, ExtensionAt
<1>7. LayoutAt(g, n) = [footer |-> n, directory |-> 3, extension |-> 0, generation |-> 0]
  BY <1>6 DEF LayoutAt
<1>8. FooterOK(g, n)
  <2>1. 3 \in 3..(n - 1)
    BY <1>2
  <2>2. DirectoryOK(g, 3) /\ g[3].signature = <<>>
    BY <1>3, <1>5, FirstDirectoryOK
  <2>3. LayoutAt(g, n).directory = 3 /\ LayoutAt(g, n).extension = 0
        /\ LayoutAt(g, n).generation = 0
    BY <1>7
  <2> QED BY <1>3, <2>1, <2>2, <2>3 DEF FooterOK, x
<1>9. Sane(g)
  BY <1>1, <1>8, SaneAppend DEF g
<1> QED BY <1>3, <1>4, <1>5, <1>7, <1>9 DEF g, x

\* An archive as created, with its service or without.
LEMMA CreatedSane ==
  /\ \A recovery \in BOOLEAN :
       Sane(Created(recovery)) /\ SoundFile(Created(recovery)) /\ IsSeq(Created(recovery))
  /\ LET f == Created(FALSE)
     IN  /\ Len(f) = 4 /\ FirstAt(f, 3) /\ f[4] = Footer(3)
         /\ LayoutAt(f, 4) = [footer |-> 4, directory |-> 3, extension |-> 0, generation |-> 0]
<1> DEFINE D == FirstDirectory
           f == <<Header, Block(Base), D>>
           g == Append(f, Recovery(3))
<1>1. IsSeq(f) /\ Len(f) = 3 /\ f[1] = Header /\ f[2] = Block(Base) /\ f[3] = D
  <2>1. f \in Seq({Header, Block(Base), D})
    OBVIOUS
  <2> QED BY <2>1 DEF IsSeq
<1>2. /\ Header.kind = "header" /\ Block(Base).kind = "block" /\ D.kind = "directory"
      /\ Recovery(3).kind = "recovery"
  BY FirstDirectorySound DEF Header, Block, Recovery
<1>3. Sound(D) = D
  BY FirstDirectorySound
<1> HIDE DEF f, D
<1>4. \A p \in 1..3 : p = 1 \/ p = 2 \/ p = 3
  OBVIOUS
<1>5. Sane(f) /\ SoundFile(f) /\ FirstAt(f, 3)
  <2>1. \A p \in 1..3 : f[p].kind \notin {"footer", "recovery"}
    BY <1>1, <1>2, <1>4
  <2>2. \A p \in 1..3 : f[p] = Sound(f[p])
    BY <1>1, <1>3, <1>4, SoundSegments
  <2> QED BY <1>1, <1>2, <2>1, <2>2 DEF Sane, SoundFile, FirstAt, D
<1>6. IsSeq(g) /\ Len(g) = 4 /\ (\A p \in 1..3 : g[p] = f[p]) /\ g[4] = Recovery(3)
  <2>1. IsSeq(g) /\ Len(g) = Len(f) + 1 /\ (\A p \in 1..Len(f) : g[p] = f[p])
        /\ g[Len(f) + 1] = Recovery(3)
    <3>1. Continues(f, Recovery(3), g)
      BY DEF Continues
    <3>2. IsSeq(f)
      BY <1>1
    <3> HIDE DEF g
    <3> QED BY <3>1, <3>2, ContinuesBy
  <2> HIDE DEF g
  <2> QED BY <1>1, <2>1
<1>7. Sane(g) /\ SoundFile(g)
  BY <1>1, <1>2, <1>5, SaneAppend, SoundAppend, SoundSegments
<1> HIDE DEF g
<1>8. FirstAt(g, 3)
  BY <1>1, <1>5, <1>6 DEF FirstAt
<1>9. Created(FALSE) = Append(f, Footer(3)) /\ Created(TRUE) = Append(g, Footer(3))
  <2>1. f \o <<>> = f /\ f \o <<Recovery(3)>> = g
    BY <1>1, AppendOne DEF g
  <2>2. f \o <<Footer(3)>> = Append(f, Footer(3)) /\ g \o <<Footer(3)>> = Append(g, Footer(3))
    BY <1>1, <1>6, AppendOne
  <2> QED BY <2>1, <2>2 DEF Created, f, D, FirstDirectory
<1>10. Len(f) + 1 = 4 /\ ~(Len(f) >= 4)
  BY <1>1
<1>11. Len(g) >= 4 => g[4].kind # "extension"
  BY <1>2, <1>6
<1>12. /\ Sane(Created(FALSE)) /\ SoundFile(Created(FALSE)) /\ IsSeq(Created(FALSE))
       /\ Len(Created(FALSE)) = 4 /\ FirstAt(Created(FALSE), 3)
       /\ Created(FALSE)[4] = Footer(3)
       /\ LayoutAt(Created(FALSE), 4)
            = [footer |-> 4, directory |-> 3, extension |-> 0, generation |-> 0]
  BY <1>1, <1>5, <1>9, <1>10, FirstGeneration
<1>13. Sane(Created(TRUE)) /\ SoundFile(Created(TRUE)) /\ IsSeq(Created(TRUE))
  BY <1>6, <1>7, <1>8, <1>9, <1>11, FirstGeneration
<1> QED BY <1>12, <1>13

\* A created archive with a generation behind it.
LEMMA AppendedSane == Sane(Appended) /\ SoundFile(Appended) /\ IsSeq(Appended)
<1> DEFINE f == Created(FALSE)
           l == LayoutAt(f, 4)
           x == Extension(1, l)
           a == Append(f, FirstDirectory)
           b == Append(a, x)
           c == Append(b, Footer(5))
<1>1. /\ Sane(f) /\ SoundFile(f) /\ IsSeq(f) /\ Len(f) = 4 /\ FirstAt(f, 3)
      /\ f[3] = FirstDirectory /\ f[4] = Footer(3)
      /\ l = [footer |-> 4, directory |-> 3, extension |-> 0, generation |-> 0]
  <2>1. /\ Sane(f) /\ SoundFile(f) /\ IsSeq(f) /\ Len(f) = 4 /\ FirstAt(f, 3)
        /\ f[4] = Footer(3)
        /\ l = [footer |-> 4, directory |-> 3, extension |-> 0, generation |-> 0]
    BY CreatedSane
  <2> HIDE DEF f, l
  <2> QED BY <2>1 DEF FirstAt
<1>2. /\ FirstDirectory.kind = "directory" /\ Sound(FirstDirectory) = FirstDirectory
      /\ x.kind = "extension" /\ x.prevFooter = 4 /\ x.generation = 1 /\ Sound(x) = x
      /\ \A n : Footer(n).kind = "footer" /\ Footer(n).directory = n /\ Sound(Footer(n)) = Footer(n)
  <2>1. FirstDirectory.kind = "directory" /\ Sound(FirstDirectory) = FirstDirectory
    BY FirstDirectorySound, Zenon
  <2>2. l.footer = 4
    <3> HIDE DEF l
    <3> QED BY <1>1
  <2> HIDE DEF l
  <2>3. x.kind = "extension" /\ x.prevFooter = 4 /\ x.generation = 1 /\ Sound(x) = x
    <3>1. x.kind = "extension" /\ x.prevFooter = 4 /\ x.generation = 1
      BY <2>2 DEF Extension
    <3>2. Sound(x) = x
      BY SoundSegments
    <3> QED BY <3>1, <3>2
  <2>4. \A n : Footer(n).kind = "footer" /\ Footer(n).directory = n /\ Sound(Footer(n)) = Footer(n)
    <3>1. \A n : Footer(n).kind = "footer" /\ Footer(n).directory = n
      BY DEF Footer
    <3> QED BY <3>1, SoundSegments
  <2> QED BY <2>1, <2>3, <2>4
<1>3. ReadLayout(f) = l
  <2> HIDE DEF f, x
  <2>1. f[Len(f)].kind = "footer"
    BY <1>1, <1>2
  <2> QED BY <1>1, <2>1, LatestAtEnd DEF l
<1>4. f \o <<f[3], Extension(1, ReadLayout(f)), Footer(5)>> = Appended
  BY DEF Appended
<1> HIDE DEF f, l
<1>5. /\ IsSeq(a) /\ Sane(a) /\ SoundFile(a) /\ Len(a) = 5 /\ a[5] = FirstDirectory
      /\ \A p \in 1..4 : a[p] = f[p]
  <2>1. IsSeq(a) /\ Len(a) = Len(f) + 1 /\ (\A p \in 1..Len(f) : a[p] = f[p])
        /\ a[Len(f) + 1] = FirstDirectory
    <3>1. Continues(f, FirstDirectory, a)
      BY DEF Continues
    <3>2. IsSeq(f)
      BY <1>1
    <3> HIDE DEF a
    <3> QED BY <3>1, <3>2, ContinuesBy
  <2>2. Sane(a) /\ SoundFile(a)
    BY <1>1, <1>2, SaneAppend, SoundAppend
  <2> HIDE DEF a
  <2> QED BY <1>1, <2>1, <2>2
<1> HIDE DEF a, x
<1>6. /\ IsSeq(b) /\ Sane(b) /\ SoundFile(b) /\ Len(b) = 6 /\ b[6] = x
      /\ \A p \in 1..5 : b[p] = a[p]
  <2>1. IsSeq(b) /\ Len(b) = Len(a) + 1 /\ (\A p \in 1..Len(a) : b[p] = a[p])
        /\ b[Len(a) + 1] = x
    <3>1. Continues(a, x, b)
      BY DEF Continues
    <3>2. IsSeq(a)
      BY <1>5
    <3> HIDE DEF b
    <3> QED BY <3>1, <3>2, ContinuesBy
  <2>2. Sane(b) /\ SoundFile(b)
    BY <1>2, <1>5, SaneAppend, SoundAppend
  <2> HIDE DEF b
  <2> QED BY <1>5, <2>1, <2>2
<1> HIDE DEF b
<1>7. /\ IsSeq(c) /\ SoundFile(c) /\ Len(c) = 7 /\ c[7] = Footer(5)
      /\ \A p \in 1..6 : c[p] = b[p]
  <2>1. IsSeq(c) /\ Len(c) = Len(b) + 1 /\ (\A p \in 1..Len(b) : c[p] = b[p])
        /\ c[Len(b) + 1] = Footer(5)
    <3>1. Continues(b, Footer(5), c)
      BY DEF Continues
    <3>2. IsSeq(b)
      BY <1>6
    <3> HIDE DEF c
    <3> QED BY <3>1, <3>2, ContinuesBy
  <2>2. SoundFile(c)
    BY <1>2, <1>6, SoundAppend
  <2> HIDE DEF c
  <2> QED BY <1>6, <2>1, <2>2
<1> HIDE DEF c
<1>8. /\ c[2] = Block(Base) /\ c[4] = Footer(3) /\ c[5] = FirstDirectory /\ c[6] = x
      /\ \A p \in 1..4 : c[p] = f[p]
  BY <1>1, <1>5, <1>6, <1>7 DEF FirstAt
<1>9. LayoutAt(c, 4) = l
  <2>1. NamedDirectory(f, 4) \in 1..4
    BY <1>1, <1>2 DEF NamedDirectory
  <2> QED BY <1>8, <2>1, LayoutSame DEF l
<1>10. /\ LayoutAt(c, 7).directory = 5 /\ LayoutAt(c, 7).extension = 6
       /\ LayoutAt(c, 7).generation = 1
  <2>1. NamedDirectory(c, 7) = 5 /\ ExtensionAt(c, 5, 7) = 6
    BY <1>2, <1>7, <1>8 DEF NamedDirectory, ExtensionAt
  <2> QED BY <1>2, <1>8, <2>1, LayoutFields
<1>11. ExtensionOK(c, 5, 6)
  <2>1. c[6].prevFooter = 4 /\ 4 \in 1..(5 - 1) /\ c[4].kind = "footer"
    BY <1>2, <1>8
  <2>2. LayoutAt(c, 4).generation + 1 = 1
    BY <1>1, <1>9
  <2>3. c[6] = Extension(LayoutAt(c, 4).generation + 1, LayoutAt(c, 4))
    BY <1>8, <1>9, <2>2 DEF x
  <2> QED BY <2>1, <2>3 DEF ExtensionOK
<1>12. FooterOK(c, 7)
  <2>1. DirectoryOK(c, 5) /\ c[5].signature = <<>>
    <3>1. FirstAt(c, 5)
      BY <1>7, <1>8 DEF FirstAt
    <3> QED BY <1>7, <3>1, FirstDirectoryOK
  <2>2. 5 \in 3..(7 - 1) /\ 1 \in Nat
    OBVIOUS
  <2> QED BY <1>7, <1>10, <1>11, <2>1, <2>2 DEF FooterOK
<1>13. Sane(c)
  <2>1. FooterOK(Append(b, Footer(5)), Len(b) + 1)
    <3>1. Len(b) + 1 = 7
      BY <1>6
    <3> QED BY <1>12, <3>1 DEF c
  <2>2. Footer(5).kind = "footer"
    BY <1>2
  <2> QED BY <1>6, <2>1, <2>2, SaneAppend DEF c
<1>14. Appended = c
  <2>1. f \o <<FirstDirectory, x, Footer(5)>> = Appended
    BY <1>1, <1>3, <1>4 DEF x
  <2>2. f \o <<FirstDirectory, x, Footer(5)>> = c
    BY <1>1, AppendThree DEF a, b, c
  <2> QED BY <2>1, <2>2
<1> QED BY <1>7, <1>13, <1>14

\* The invariant holds of all of them.
LEMMA InitSInv == Init => SInv
<1> SUFFICES ASSUME Init PROVE SInv
  OBVIOUS
<1>1. Sane(disk) /\ SoundFile(disk) /\ IsSeq(disk)
  BY CreatedSane, AppendedSane DEF Init
<1>2. /\ temp = <<>> /\ pc = "idle" /\ outcome = "none" /\ ops = 0
      /\ op.mode = "none" /\ op.adds = {} /\ op.files = <<>> /\ op.signature = <<>>
      /\ op.sign = FALSE /\ op.recovery = FALSE
  BY DEF Init, NoOp
<1>3. FilesSane
  BY <1>1, <1>2, WholeFile, SoundParity DEF FilesSane, Building
<1>4. Typed
  <2>1. DOMAIN op.files = {}
    BY <1>2
  <2>2. ops \in 0..MaxOps
    BY <1>2, GenerationsAssumption
  <2> QED BY <1>2, <2>1, <2>2 DEF Typed, Steps
<1>5. Progress /\ EntriesPlaced /\ DirectoryNew
  BY <1>2 DEF Progress, Running, Building, EntriesPlaced, DirectoryNew
<1>6. Outcomes /\ Repairing
  BY <1>2 DEF Outcomes, Repairing, Updating, InPlace
<1> QED BY <1>3, <1>4, <1>5, <1>6 DEF SInv

----------------------------------------------------------------------------
(* What the invariant says of an archive.                                  *)

\* Every step of every operation keeps it.
LEMMA NextSInv ==
  ASSUME IInv, SInv, Next
  PROVE  SInv'
<1>1. \A i \in Item : WriteBlock(i) => SInv'
  BY WriteBlockSInv
<1> QED BY <1>1, BeginSInv, TrimSInv, CopySInv, WriteDirectorySInv, WriteExtensionSInv,
           WriteFooterSInv, SignSInv, TruncateSInv, RecoverySInv, WriteLastFooterSInv,
           ProtectSInv, ReplaceSInv, ReturnSInv, FailOrCrashSInv, RollbackSInv,
           DamageSInv, RepairSInv
        DEF Next

\* It only depends on the variables.
LEMMA StutterSInv ==
  ASSUME SInv, UNCHANGED vars
  PROVE  SInv'
<1>1. op' = op /\ disk' = disk /\ temp' = temp /\ pc' = pc /\ outcome' = outcome /\ ops' = ops
  BY DEF vars
<1>2. Typed' /\ FilesSane' /\ Progress'
  BY <1>1 DEF SInv, Typed, FilesSane, Progress, Running, Building, InPlace, Updating
<1>3. EntriesPlaced' /\ DirectoryNew'
  BY <1>1 DEF SInv, EntriesPlaced, DirectoryNew, Building, InPlace, Staged, Place, Behind,
              NewDigest, NewExtension
<1>4. Outcomes'
  <2>1. /\ Found(disk)' <=> Found(disk)
        /\ NewBehind(disk)' <=> NewBehind(disk)
        /\ NoFooterBehind' <=> NoFooterBehind
        /\ Renewed(disk)' <=> Renewed(disk)
        /\ Result(disk)' <=> Result(disk)
        /\ Result(temp)' <=> Result(temp)
    BY <1>1 DEF Found, NewBehind, NoFooterBehind, Renewed, Result, New
  <2> HIDE DEF Found, NewBehind, NoFooterBehind, Renewed, Result
  <2> QED BY <1>1, <2>1 DEF SInv, Outcomes, InPlace, Updating
<1>5. Repairing'
  BY <1>1 DEF SInv, Repairing
<1> QED BY <1>2, <1>3, <1>4, <1>5 DEF SInv

\* A file whose last footer is found or new holds the old entries or the new.
LEMMA HoldsEither ==
  ASSUME IInv, SInv, Updating,
         LatestFooter(disk) = 0 \/ disk[LatestFooter(disk)].kind = "footer"
  PROVE  Intact(disk) /\ (HoldsOld(disk) \/ HoldsNew(disk))
<1> DEFINE p == LatestFooter(disk)
<1>1. Sane(disk) /\ IsSeq(disk) /\ Len(disk) \in Nat
  BY DiskSane, StagedOK DEF SInv
<1>2. \/ Found(disk) /\ NewBehind(disk)
      \/ Renewed(disk)
  <2>1. NoFooterBehind => NewBehind(disk)
    BY DEF NoFooterBehind, NewBehind
  <2>2. op.mode = "append" \/ op.mode \in {"rewrite", "protect"}
    BY DEF Updating
  <2> HIDE DEF Found, NewBehind, NoFooterBehind, Renewed
  <2> QED BY <2>1, <2>2 DEF SInv, Outcomes, InPlace
<1>3. \A q \in 1..Len(disk) : disk[q].kind = "footer" => q <= p
  BY <1>1, LatestOfSane
<1>4. p \in 0..Len(disk)
  BY <1>1, LatestIs
<1>5. Len(disk) \in 1..Len(disk)
  BY <1>1 DEF Sane
<1>6. p # 0 /\ disk[p].kind = "footer"
  <2>1. \E q \in 1..Len(disk) : disk[q].kind = "footer"
    BY <1>2, <1>5 DEF Found, Renewed
  <2> QED BY <1>3, <1>4, <2>1
<1>7. Intact(disk) /\ Index(disk) = disk[disk[p].directory]
  BY <1>1, <1>6, FooterOpens
<1> HIDE DEF p
<1>8. Index(disk).files = op.before \/ New(Index(disk).files)
  <2>1. CASE Found(disk) /\ NewBehind(disk)
    <3>1. op.layout.footer <= p /\ op.layout.footer \in Nat
      BY <1>3, <2>1 DEF Found
    <3>2. CASE p = op.layout.footer
      <4>1. op.layout.directory = disk[p].directory
        BY <1>6, <2>1, <3>2, LayoutFields DEF Found
      <4> QED BY <1>7, <2>1, <4>1 DEF Found
    <3>3. CASE p # op.layout.footer
      <4>1. p \in (op.layout.footer + 1)..Len(disk)
        BY <1>1, <1>4, <3>1, <3>3
      <4> QED BY <1>6, <1>7, <2>1, <4>1 DEF NewBehind
    <3> QED BY <3>2, <3>3
  <2>2. CASE Renewed(disk)
    <3>1. p = Len(disk)
      BY <1>1, <1>3, <1>4, <1>5, <2>2 DEF Renewed
    <3> QED BY <1>7, <2>2, <3>1 DEF Renewed
  <2> QED BY <1>2, <2>1, <2>2
<1> QED BY <1>7, <1>8 DEF HoldsOld, HoldsNew, New

\* What an operation says when it is over.
LEMMA SaysSo ==
  ASSUME IInv, SInv
  PROVE  ReturnsTruthfully
<1>1. ASSUME pc = "idle", outcome = "ok", Updating
      PROVE  LET l == ReadLayout(disk)
             IN  /\ Intact(disk) /\ HoldsNew(disk)
                 /\ op.sign => Index(disk).signature # <<>>
                 /\ HasRecovery(disk) = op.recovery
                 /\ op.recovery => disk[l.footer - 1].protected = ProtectedEnd(l)
  <2> DEFINE n == Len(disk)
  <2>1. Sane(disk) /\ IsSeq(disk) /\ n \in Nat
    BY <1>1, DiskSane, StagedOK DEF SInv
  <2>2. Result(disk)
    BY <1>1 DEF SInv, Outcomes
  <2>3. /\ disk[n].kind = "footer" /\ New(disk[disk[n].directory].files)
        /\ op.sign => disk[disk[n].directory].signature # <<>>
        /\ (disk[n - 1].kind = "recovery") = op.recovery
        /\ op.recovery => disk[n - 1].protected = ProtectedEnd(LayoutAt(disk, n))
    BY <2>2 DEF Result, Renewed
  <2>4. LatestFooter(disk) = n /\ ReadLayout(disk) = LayoutAt(disk, n)
    BY <2>1, <2>3, LatestAtEnd
  <2>5. n # 0
    BY <2>1 DEF Sane
  <2>6. Intact(disk) /\ Index(disk) = disk[disk[n].directory]
    BY <2>1, <2>3, <2>4, <2>5, FooterOpens
  <2>7. ReadLayout(disk).footer = n
    BY <2>4, LayoutFields
  <2> HIDE DEF n
  <2>8. HoldsNew(disk)
    BY <2>3, <2>6 DEF HoldsNew, New
  <2>9. HasRecovery(disk) = op.recovery
    BY <2>3, <2>7 DEF HasRecovery
  <2> QED BY <2>3, <2>4, <2>6, <2>7, <2>8, <2>9
<1>2. ASSUME pc = "idle", outcome = "threw", InPlace
      PROVE  Len(disk) = op.layout.footer /\ HoldsOld(disk)
  <2>1. Sane(disk) /\ IsSeq(disk)
    BY <1>2, DiskSane, StagedOK DEF SInv, Updating, InPlace
  <2>2. Len(disk) = op.layout.footer /\ Found(disk)
    BY <1>2 DEF SInv, Outcomes
  <2>3. /\ disk[Len(disk)].kind = "footer" /\ Len(disk) # 0
        /\ LayoutAt(disk, Len(disk)) = op.layout
        /\ disk[op.layout.directory].files = op.before
    BY <2>2 DEF Found
  <2>4. LatestFooter(disk) = Len(disk)
    BY <2>1, <2>3, LatestAtEnd
  <2>5. Index(disk) = disk[disk[Len(disk)].directory]
    BY <2>1, <2>3, <2>4, FooterOpens
  <2>6. op.layout.directory = disk[Len(disk)].directory
    BY <2>3, LayoutFields
  <2> QED BY <2>2, <2>3, <2>5, <2>6 DEF HoldsOld
<1>3. ASSUME pc = "idle", op.mode = "repair"
      PROVE  /\ outcome = "ok" =>
                  disk = Prefix(AsWritten(op.before), LatestFooter(op.before))
             /\ outcome \in {"threw", "refused"} => disk = op.before
  BY <1>3 DEF SInv, Repairing
<1> QED BY <1>1, <1>2, <1>3 DEF ReturnsTruthfully

\* What can be said of an undamaged archive that opens.
LEMMA OpenWhole ==
  ASSUME IInv, SInv, Opens(disk), Whole(disk)
  PROVE  /\ Sane(disk) /\ IsSeq(disk)
         /\ LatestFooter(disk) \in 1..Len(disk) /\ FooterOK(disk, LatestFooter(disk))
         /\ ReadLayout(disk) = LayoutAt(disk, LatestFooter(disk))
         /\ Index(disk) = disk[ReadLayout(disk).directory]
<1>1. IsSeq(disk) /\ AsWritten(disk) = disk
  BY StagedOK, WholeFile
<1>2. Sane(disk)
  BY <1>1 DEF SInv, FilesSane
<1> QED BY <1>1, <1>2, OpensAtFooter, FooterOpens DEF Index

\* The generation before the latest can be opened.
LEMMA PastOpens ==
  ASSUME IInv, SInv
  PROVE  HistoryReachable
<1> SUFFICES ASSUME Opens(disk), Whole(disk), ReadLayout(disk).extension # 0
             PROVE  LET l == ReadLayout(disk)
                        past == Prefix(disk, disk[l.extension].prevFooter)
                    IN  /\ Intact(past)
                        /\ ReadLayout(past).footer = Len(past)
                        /\ ReadLayout(past).generation + 1 = l.generation
  BY DEF HistoryReachable
<1> DEFINE p == LatestFooter(disk)
           l == ReadLayout(disk)
           x == l.extension
           q == disk[x].prevFooter
           past == Prefix(disk, q)
<1>1. Sane(disk) /\ IsSeq(disk) /\ p \in 1..Len(disk) /\ FooterOK(disk, p) /\ l = LayoutAt(disk, p)
  BY OpenWhole
<1>2. /\ q \in 1..(l.directory - 1) /\ disk[q].kind = "footer"
      /\ disk[x] = Extension(LayoutAt(disk, q).generation + 1, LayoutAt(disk, q))
      /\ l.directory \in 3..(p - 1)
  <2>1. x # 0
    OBVIOUS
  <2> HIDE DEF l
  <2>2. l.directory \in 3..(p - 1) /\ ExtensionOK(disk, l.directory, x)
    BY <1>1, <2>1 DEF FooterOK
  <2> QED BY <2>2 DEF ExtensionOK
<1>3. l.generation = disk[x].generation
  BY <1>1, LayoutFields
<1> HIDE DEF p, l, x
<1>4. Len(disk) \in Nat /\ q \in 1..Len(disk)
  BY <1>1, <1>2, SeqLen
<1>5. FooterOK(disk, q)
  BY <1>1, <1>2, <1>4 DEF Sane
<1>6. /\ q \in 2..Len(disk) /\ q \in 0..Len(disk) /\ q \in Nat \ {0}
      /\ NamedDirectory(disk, q) \in 1..q
  <2>1. NamedDirectory(disk, q) \in 3..(q - 1)
    BY <1>5, LayoutFields DEF FooterOK
  <2> QED BY <1>4, <2>1
<1>7. Sane(past) /\ IsSeq(past) /\ Len(past) = q /\ \A r \in 1..q : past[r] = disk[r]
  BY <1>1, <1>6, SanePrefix, PrefixSeq
<1> HIDE DEF past
<1>8. LayoutAt(past, q) = LayoutAt(disk, q)
  BY <1>6, <1>7, LayoutSame
<1>9. past[Len(past)].kind = "footer"
  BY <1>2, <1>6, <1>7
<1>10. LatestFooter(past) = Len(past) /\ ReadLayout(past) = LayoutAt(past, q)
  BY <1>7, <1>9, LatestAtEnd
<1>11. Intact(past)
  BY <1>6, <1>7, <1>9, <1>10, FooterOpens
<1>12. ReadLayout(past).footer = Len(past)
  BY <1>7, <1>10, LayoutFields
<1>13. ReadLayout(past).generation + 1 = l.generation
  <2>1. disk[x].generation = LayoutAt(disk, q).generation + 1
    BY <1>2 DEF Extension
  <2> QED BY <1>3, <1>8, <1>10, <2>1
<1> QED BY <1>11, <1>12, <1>13 DEF past, q, x, l

\* A signature is the digest of what a reader digests.
LEMMA SignatureDigests ==
  ASSUME IInv, SInv
  PROVE  SignatureVerifies
<1> SUFFICES ASSUME Opens(disk), Whole(disk), Index(disk).signature # <<>>
             PROVE  Index(disk).signature = <<Digest(disk, ReadLayout(disk))>>
  BY DEF SignatureVerifies
<1>1. /\ FooterOK(disk, LatestFooter(disk))
      /\ ReadLayout(disk) = LayoutAt(disk, LatestFooter(disk))
      /\ Index(disk) = disk[ReadLayout(disk).directory]
  BY OpenWhole
<1>2. Index(disk).signature \in {<<>>, <<Digest(disk, ReadLayout(disk))>>}
  BY <1>1 DEF FooterOK
<1> QED BY <1>2

\* The invariant types the state.
LEMMA TypesIt ==
  ASSUME IInv, SInv
  PROVE  TypeOK
<1>1. disk # <<>> /\ Sound(disk[1]) = Header
  <2>1. /\ Len(AsWritten(disk)) = Len(disk) /\ Len(disk) \in Nat
        /\ \A p \in 1..Len(disk) : AsWritten(disk)[p] = Sound(disk[p])
    BY StagedOK, AsWrittenFile
  <2>2. Len(AsWritten(disk)) >= 2 /\ AsWritten(disk)[1] = Header
    BY DEF SInv, FilesSane, Sane
  <2>3. Len(<<>>) = 0
    BY ShortSeqs
  <2> QED BY <2>1, <2>2, <2>3
<1>2. pc \in {"extension", "footer", "sign", "recovery"} =>
        \A i \in DOMAIN op.files : Staged[op.files[i]] = Block(i)
  BY DEF SInv, EntriesPlaced, Building
<1> QED BY <1>1, <1>2 DEF SInv, Typed, TypeOK

\* At every moment the archive on disk is, but for damage, a chain of whole
\* generations, each with its blocks, entries, signature and history, and so is
\* what an update stages.
THEOREM GenerationsSane == Spec => []SInv
<1>1. IInv /\ SInv /\ [Next]_vars => SInv'
  BY NextSInv, StutterSInv
<1>2. Init => SInv
  BY InitSInv
<1> QED BY <1>1, <1>2, GenerationsInvariance, PTL DEF Spec

\* The variables have their types, and the entries of a new directory lie where
\* it says (compress_items_into, write_directory_and_footer).
THEOREM GenerationsTypeCorrect == Spec => []TypeOK
<1>1. IInv /\ SInv => TypeOK
  BY TypesIt
<1> QED BY <1>1, GenerationsInvariance, GenerationsSane, PTL

\* Whatever interrupts an update, and whenever: an archive whose last footer is
\* no file's stored bytes opens, with what it held before or with all that was
\* asked for.
THEOREM UpdateIsAllOrNothing == Spec => []SurvivesPlainTail
<1>1. IInv /\ SInv => SurvivesPlainTail
  BY HoldsEither DEF SurvivesPlainTail
<1> QED BY <1>1, GenerationsInvariance, GenerationsSane, PTL

\* An update that returns has done what was asked, one that throws has undone
\* it, and a repair says truly which it did.
THEOREM ReturnsTell == Spec => []ReturnsTruthfully
<1>1. IInv /\ SInv => ReturnsTruthfully
  BY SaysSo
<1> QED BY <1>1, GenerationsInvariance, GenerationsSane, PTL

\* Cut where its extension says, an archive is the generation before.
THEOREM HistoryIsThere == Spec => []HistoryReachable
<1>1. IInv /\ SInv => HistoryReachable
  BY PastOpens
<1> QED BY <1>1, GenerationsInvariance, GenerationsSane, PTL

\* The signature made of a staged archive, which is then cut back and finished
\* again, is that of the archive a reader opens (archive_signature_digest).
THEOREM SignaturesVerify == Spec => []SignatureVerifies
<1>1. IInv /\ SInv => SignatureVerifies
  BY SignatureDigests
<1> QED BY <1>1, GenerationsInvariance, GenerationsSane, PTL
=============================================================================
