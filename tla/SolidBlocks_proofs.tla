------------------------- MODULE SolidBlocks_proofs -------------------------
(***************************************************************************)
(* What the writer of solid archives promises, for any operation: any      *)
(* items, files that change under the reader, archive to extend, workers   *)
(* and limits.                                                             *)
(*                                                                         *)
(* The inductive invariant, IInv, has a part for each of                   *)
(*   ControlSane     where the threads are                                 *)
(*   PipeSane        which block index is where: queued, held, completed,  *)
(*                   in the writer's hand or in the archive                *)
(*   ReadSane        what the reader knows of the file in hand             *)
(*   CaptureSane     entries, hard links, and the items still to come      *)
(*   ProgressSane    the two counters of which the shown progress is a sum *)
(*   StreamSane      one sequence of all block contents exists that the    *)
(*                   blocks agree with, wherever they are (Agree), in      *)
(*                   which every range on record leads to its content      *)
(*                   (Lead), and which the completed bytes count (Complete)*)
(* The reader interrupts a file to flush a block; Goal is what it is at,   *)
(* such flushes aside.  Each part has lemmas for the steps that leave it   *)
(* alone and for those that do not.                                        *)
(***************************************************************************)
EXTENDS SolidBlocks, NumberSets

Ending == {"throw", "stopped", "joinFailed", "failed"}
Final == {"finish", "finished", "finalDrain", "settle", "finalAwait", "join", "complete"}
Flush == {"drain", "admit", "await", "admitted", "swap"}
Draining == {"taken", "write"}
InFile == {"hash", "verify", "hashed", "verified", "read"}
Places == Ending \cup Final \cup Flush \cup Draining \cup InFile \cup {"compare", "next", "open"}

Flushing == pc \in Flush \/ (pc \in Draining /\ ~writing.final)
Finishing == pc \in Final \/ (pc \in Draining /\ writing.final)

\* What the reader is at, flushes and the end of the pipeline aside.
Goal == IF Flushing THEN resume ELSE IF Finishing THEN "finish" ELSE pc

Scanning == {"compress", "publishTick", "raiseTick", "subtract"}
Publishing == {"publishDone", "raiseDone"}
HasBlock == {"popped", "add", "emplace"} \cup Scanning \cup Publishing
WorkerPlaces == HasBlock \cup {"check", "emplaced", "broken", "exited"}

Busy == {w \in Threads : worker[w] \in HasBlock}

\* The first block no worker has taken.
Ahead == current - Len(pending)

ControlSane ==
  /\ job \in Cases
  /\ pc \in Places /\ resume \in {"next", "open", "read", "finish"}
  /\ Flushing => resume # "next"
  /\ Finishing => buffer = <<>>
  /\ worker \in [Threads -> WorkerPlaces]
  /\ error \in BOOLEAN /\ \A w \in Threads : worker[w] = "broken" => error
  /\ pc \in {"join", "complete"} => inflight = 0 /\ ~error
  /\ pc = "complete" => \A w \in Threads : worker[w] = "exited"

PipeSane ==
  /\ current \in Nat /\ nextWrite \in Nat /\ Len(job.base) < nextWrite
  /\ inflight = current - nextWrite
  /\ pc \in Draining => writing.index = nextWrite - 1 /\ writing.final \in BOOLEAN
  /\ IsSequence(pending) /\ nextWrite <= Ahead
  /\ \A k \in DOMAIN pending : pending[k].index = Ahead + k - 1
  /\ DOMAIN completed \subseteq nextWrite..(Ahead - 1)
  /\ DOMAIN block = Threads
  /\ \A w \in Busy : block[w].index \in (nextWrite..(Ahead - 1)) \ DOMAIN completed
  /\ \A v, w \in Busy : block[v].index = block[w].index => v = w
  /\ IsSequence(archive) /\ \A i \in DOMAIN archive : archive[i].index = i
  /\ Len(archive) \in (nextWrite - 2)..(nextWrite - 1)
  /\ pc \notin Ending => Len(archive) = IF pc \in Draining THEN nextWrite - 2 ELSE nextWrite - 1

Stamped(e) ==
  /\ e.node \in DOMAIN disk
  /\ e.stamp \in Nat /\ Second <= e.stamp /\ e.stamp <= disk[e.node].stamp
  /\ e.mtime = Seconds(e.stamp)

Unmoved(e) == disk[e.node].stamp = e.stamp

IsEntry(e) == DOMAIN e = {"path", "node", "stamp", "mtime", "size", "first", "offset"}

ReadSane ==
  /\ DOMAIN disk = DOMAIN job.disk
  /\ \A n \in DOMAIN disk :
       /\ disk[n].content \in Content /\ disk[n].stamp \in Nat /\ disk[n].stamp >= Second
       /\ disk[n].stamp = Second => disk[n].content = job.disk[n]
  /\ buffer \in Content
  /\ at \in 0..Len(job.items)
  /\ Goal = "finish" => at = Len(job.items)
  /\ Goal \in {"open"} \cup InFile => at < Len(job.items)
  /\ Goal \in InFile => /\ IsEntry(entry) /\ Stamped(entry) /\ Item.kind = "file"
                        /\ entry.path = Item.path /\ entry.node = Item.node
  /\ Goal \in {"hashed", "verified", "read"} =>
       \/ hashed = Nil
       \/ hashed \in Content /\ (Unmoved(entry) => hashed = disk[entry.node].content)
  /\ Goal \in {"verify", "verified"} => candidate.content \in Content
  /\ Goal = "read" =>
       /\ taken \in Content
       /\ Unmoved(entry) => /\ Len(taken) <= Len(disk[entry.node].content)
                            /\ \A i \in 1..Len(taken) : taken[i] = disk[entry.node].content[i]

StoredAt(k, path, node) ==
  entries[k].type = "file" /\ entries[k].path = path /\ entries[k].node = node

CaptureSane ==
  /\ IsSequence(entries)
  /\ \A k \in DOMAIN entries :
       /\ entries[k].type = "file" =>
            /\ Stamped(entries[k])
            /\ Unmoved(entries[k]) => entries[k].content = disk[entries[k].node].content
       /\ entries[k].type = "hardlink" =>
            \E j \in 1..(k - 1) : StoredAt(j, entries[k].target, entries[k].node)
  /\ pc \notin Ending =>
       /\ \A n \in DOMAIN links :
            \/ \E j \in DOMAIN entries : StoredAt(j, links[n], n)
            \/ Goal \in InFile /\ n = entry.node /\ links[n] = entry.path
       /\ {entries[k].path : k \in DOMAIN entries} \cup skipped
            = {job.items[Order[i]].path : i \in 1..at}

\* What of the buffer has not been handed over.
Rest == IF pc \in {"admitted", "swap"} THEN <<>> ELSE buffer

\* A range leads to a content in the blocks and what will follow them.
Reaches(blocks, first, offset, content) ==
  /\ first \in 1..(Len(blocks) + 1) /\ offset \in Nat /\ content \in Content
  /\ Reads(BytesFrom(Append(blocks, Rest), first), offset, Len(content)) = content

\* The contents of all blocks, wherever they are.
Agree(blocks) ==
  /\ blocks \in Seq(Content) /\ Len(blocks) = current - 1
  /\ pc = "compare" => blocks = job.base /\ buffer = <<>>
  /\ \A i \in DOMAIN archive : archive[i].content = blocks[i]
  /\ pc \in Draining => writing.content = blocks[writing.index]
  /\ \A i \in DOMAIN completed : completed[i] = blocks[i]
  /\ \A w \in Busy : block[w].content = blocks[block[w].index]
  /\ \A k \in DOMAIN pending : pending[k].content = blocks[pending[k].index]

\* Every range on record leads to its content.
Lead(blocks) ==
  /\ \A k \in DOMAIN entries : entries[k].type = "file" =>
       Reaches(blocks, entries[k].first, entries[k].offset, entries[k].content)
  /\ \A c \in DOMAIN known : Reaches(blocks, known[c].first, known[c].offset, c)
  /\ \A p \in DOMAIN reuse :
       Reaches(blocks, reuse[p].range.first, reuse[p].range.offset, reuse[p].content)
  /\ Goal \in {"verify", "verified"} =>
       Reaches(blocks, candidate.range.first, candidate.range.offset, candidate.content)
  /\ Goal = "read" =>
       /\ Reaches(blocks, entry.first, entry.offset, taken)
       /\ Len(BytesFrom(Append(blocks, Rest), entry.first)) = entry.offset + Len(taken)

\* The new blocks whose bytes are counted as completed.
Uncounted == {"popped", "add"} \cup Scanning

Counted == {i \in 1..(Ahead - 1 - Len(job.base)) :
              \A w \in Threads : worker[w] \in Uncounted => block[w].index # Len(job.base) + i}

Sizes(blocks) == [i \in 1..(Len(blocks) - Len(job.base)) |-> Len(blocks[Len(job.base) + i])]

Complete(blocks) ==
  job.follow /\ ~error /\ pc \notin Ending => finished = SumFunctionOnSet(Sizes(blocks), Counted)

\* A worker has scanned no more than its block, and seen no more than there was.
ScanSane(w) ==
  /\ seen[w] <= finished
  /\ worker[w] \in Scanning => ticks[w] <= Len(block[w].content)
  /\ worker[w] \notin Scanning /\ ~error => ticks[w] = 0
  /\ worker[w] \notin Scanning \cup {"broken", "exited"} => ticks[w] = 0
  /\ ~job.follow => /\ ticks[w] = 0
                    /\ worker[w] \notin {"publishTick", "raiseTick", "subtract", "add"}
                                       \cup Publishing

\* The bytes completed are shown, or about to be.
Shown ==
  job.follow /\ ~error =>
    \/ finished <= reported
    \/ \E w \in Threads : \/ worker[w] = "publishDone"
                          \/ worker[w] = "raiseDone" /\ seen[w] = finished

ProgressSane ==
  /\ finished \in Nat /\ reported \in Nat
  /\ ticks \in [Threads -> Nat] /\ seen \in [Threads -> Nat]
  /\ scanned = SumFunctionOnSet(ticks, Threads)
  /\ \A w \in Threads : ScanSane(w)
  /\ reported <= BytesScanned
  /\ Shown

StreamSane == \E blocks : Agree(blocks) /\ Lead(blocks) /\ Complete(blocks)

IInv ==
  ControlSane /\ PipeSane /\ ReadSane /\ CaptureSane /\ ProgressSane /\ StreamSane

----------------------------------------------------------------------------
(* Bytes of blocks.                                                        *)

\* What is appended to the blocks comes last in what they hold.
LEMMA BytesAppend ==
  ASSUME NEW blocks \in Seq(Content), NEW c \in Content, NEW first \in 1..(Len(blocks) + 1)
  PROVE  /\ BytesFrom(blocks, first) \in Content
         /\ BytesFrom(Append(blocks, c), first) = BytesFrom(blocks, first) \o c
<1> DEFINE n == Len(blocks) - first + 1
           seqs == [i \in 1..n |-> blocks[first + i - 1]]
           more == [i \in 1..(n + 1) |-> Append(blocks, c)[first + i - 1]]
<1>1. n \in Nat /\ Len(blocks) \in Nat
  OBVIOUS
<1>2. /\ Len(Append(blocks, c)) = Len(blocks) + 1
      /\ \A i \in 1..Len(blocks) : Append(blocks, c)[i] = blocks[i] /\ blocks[i] \in Content
      /\ Append(blocks, c)[Len(blocks) + 1] = c
  OBVIOUS
<1>3. Max({0, n}) = n /\ Max({0, n + 1}) = n + 1
  <2>1. \A k \in Nat : Max({0, k}) = k
    <3> SUFFICES ASSUME NEW k \in Nat PROVE Max({0, k}) = k
      OBVIOUS
    <3>1. {0, k} \subseteq Nat /\ k \in {0, k} /\ \A y \in {0, k} : y <= k
      OBVIOUS
    <3> QED BY <3>1, MaxIs
  <2>2. n + 1 \in Nat
    BY <1>1
  <2> HIDE DEF n
  <2> QED BY <1>1, <2>1, <2>2
<1>4. BytesFrom(blocks, first) = FlattenSeq(seqs)
  BY <1>3 DEF BytesFrom
<1>5. BytesFrom(Append(blocks, c), first) = FlattenSeq(more)
  <2>1. Len(Append(blocks, c)) - first + 1 = n + 1
    BY <1>1, <1>2
  <2> QED BY <1>3, <2>1 DEF BytesFrom
<1>6. \A i \in 1..n : first + i - 1 \in 1..Len(blocks)
  BY <1>1
<1>7. seqs \in Lists(n, Slice)
  BY <1>2, <1>6 DEF Content, Lists
<1>8. more[n + 1] = c
  <2>1. n + 1 \in 1..(n + 1) /\ first + (n + 1) - 1 = Len(blocks) + 1
    BY <1>1
  <2> QED BY <1>2, <2>1
<1>9. \A i \in 1..n : more[i] = seqs[i]
  BY <1>1, <1>2, <1>6
<1>10. more \in Lists(n + 1, Slice)
  <2>1. \A i \in 1..(n + 1) : more[i] \in Seq(Slice)
    <3> SUFFICES ASSUME NEW i \in 1..(n + 1) PROVE more[i] \in Seq(Slice)
      OBVIOUS
    <3>1. CASE i = n + 1
      BY <1>8, <3>1 DEF Content
    <3>2. CASE i # n + 1
      <4>1. i \in 1..n
        BY <1>1, <3>2
      <4>2. seqs[i] \in Seq(Slice)
        BY <1>7, <4>1 DEF Lists
      <4> QED BY <1>9, <4>1, <4>2
    <3> QED BY <3>1, <3>2
  <2> QED BY <2>1 DEF Lists
<1> HIDE DEF n, seqs, more
<1>11. FlattenSeq(more) = FlattenSeq(seqs) \o c
  <2>1. c \in Seq(Slice)
    BY DEF Content
  <2> QED BY <1>1, <1>7, <1>8, <1>9, <1>10, <2>1, FlattenAppend
<1>12. FlattenSeq(seqs) \in Seq(Slice)
  BY <1>1, <1>7, FlattenIs DEF Lists
<1> QED BY <1>4, <1>5, <1>11, <1>12 DEF Content

\* What can be read can still be read when more has been written.
LEMMA ReadsMore ==
  ASSUME NEW b \in Content, NEW d \in Content, NEW c \in Content, NEW o \in Nat,
         Reads(b, o, Len(c)) = c
  PROVE  Reads(b \o d, o, Len(c)) = c
<1>1. o + Len(c) <= Len(b)
  BY SolidAssumption DEF Reads
<1>2. SubSeq(b, o + 1, o + Len(c)) = c
  BY <1>1 DEF Reads, Content
<1>3. /\ b \o d \in Seq(Slice) /\ Len(b \o d) = Len(b) + Len(d)
      /\ \A i \in 1..Len(b) : (b \o d)[i] = b[i]
  BY ConcatProperties DEF Content
<1>4. SubSeq(b \o d, o + 1, o + Len(c)) = c
  <2>1. \A i \in 1..Len(c) : o + i \in 1..Len(b)
    BY <1>1 DEF Content
  <2>2. SubSeq(b, o + 1, o + Len(c)) = [i \in 1..Len(c) |-> b[o + i]]
    BY <1>1 DEF Content
  <2>3. SubSeq(b \o d, o + 1, o + Len(c)) = [i \in 1..Len(c) |-> (b \o d)[o + i]]
    BY <1>1, <1>3 DEF Content
  <2> QED BY <1>2, <1>3, <2>1, <2>2, <2>3
<1>5. ~(o + Len(c) > Len(b \o d))
  BY <1>1, <1>3 DEF Content
<1> QED BY <1>4, <1>5 DEF Reads

\* What is read at the end of a stream grows with it.
LEMMA ReadsNext ==
  ASSUME NEW b \in Content, NEW c \in Content, NEW o \in Nat, NEW x \in Slice,
         Reads(b, o, Len(c)) = c, Len(b) = o + Len(c)
  PROVE  /\ Reads(b \o <<x>>, o, Len(Append(c, x))) = Append(c, x)
         /\ Len(b \o <<x>>) = o + Len(Append(c, x))
<1>1. SubSeq(b, o + 1, o + Len(c)) = c
  BY DEF Reads, Content
<1>2. /\ b \o <<x>> \in Seq(Slice) /\ Len(b \o <<x>>) = Len(b) + 1
      /\ \A i \in 1..Len(b) : (b \o <<x>>)[i] = b[i]
      /\ (b \o <<x>>)[Len(b) + 1] = x
  BY ConcatProperties DEF Content
<1>3. /\ Append(c, x) \in Seq(Slice) /\ Len(Append(c, x)) = Len(c) + 1 /\ Len(c) \in Nat
      /\ \A i \in 1..Len(c) : Append(c, x)[i] = c[i]
      /\ Append(c, x)[Len(c) + 1] = x
  BY DEF Content
<1> DEFINE d == b \o <<x>>
           e == Append(c, x)
           k == Len(c) + 1
<1>4. SubSeq(d, o + 1, o + k) = e
  <2>1. SubSeq(b, o + 1, o + Len(c)) = [i \in 1..Len(c) |-> b[o + i]]
    BY DEF Content
  <2>2. SubSeq(d, o + 1, o + k) = [i \in 1..k |-> d[o + i]]
    <3>1. d \in Seq(Slice) /\ k \in Nat /\ o + k <= Len(d)
      BY <1>2, <1>3
    <3> HIDE DEF d, k
    <3> QED BY <3>1
  <2>3. \A i \in 1..(Len(c) + 1) : (b \o <<x>>)[o + i] = Append(c, x)[i]
    <3> SUFFICES ASSUME NEW i \in 1..(Len(c) + 1) PROVE (b \o <<x>>)[o + i] = Append(c, x)[i]
      OBVIOUS
    <3>1. CASE i = Len(c) + 1
      BY <1>2, <1>3, <3>1
    <3>2. CASE i # Len(c) + 1
      <4>1. i \in 1..Len(c) /\ o + i \in 1..Len(b)
        BY <1>3, <3>2
      <4>2. c[i] = b[o + i]
        BY <1>1, <2>1, <4>1
      <4> QED BY <1>2, <1>3, <4>1, <4>2
    <3> QED BY <3>1, <3>2
  <2>4. e = [i \in 1..k |-> e[i]]
    <3>1. e \in Seq(Slice) /\ Len(e) = k
      BY <1>3
    <3> HIDE DEF e, k
    <3> QED BY <3>1
  <2> QED BY <2>2, <2>3, <2>4
<1>5. o + Len(Append(c, x)) = o + k /\ ~(o + Len(Append(c, x)) > Len(b \o <<x>>))
  BY <1>2, <1>3
<1>6. Reads(d, o, Len(e)) = e /\ Len(d) = o + Len(e)
  <2>1. o + Len(e) = o + k /\ ~(o + Len(e) > Len(d)) /\ Len(d) = o + k
    BY <1>2, <1>3, <1>5
  <2> HIDE DEF d, e, k
  <2> QED BY <1>4, <2>1 DEF Reads
<1> QED BY <1>6

----------------------------------------------------------------------------
(* The order of compression, and sequences of anything.                    *)

\* An operation's items are a sequence.
LEMMA ItemsAre ==
  ASSUME job \in Cases
  PROVE  /\ IsOperation(job) /\ Len(job.items) \in Nat /\ DOMAIN job.items = 1..Len(job.items)
         /\ Len(job.base) \in Nat /\ IsFiniteSet(Threads)
<1>1. IsOperation(job)
  BY SolidAssumption
<1>2. Len(job.items) \in Nat /\ DOMAIN job.items = 1..Len(job.items)
  BY <1>1, LenProperties DEF IsOperation, IsSequence
<1>3. Len(job.base) \in Nat
  BY <1>1, LenProperties DEF IsOperation
<1>4. IsFiniteSet(Threads)
  BY <1>1 DEF IsOperation, Threads
<1> QED BY <1>1, <1>2, <1>3, <1>4

\* The order of compression takes every item, once.
LEMMA OrderTakesAll ==
  ASSUME job \in Cases
  PROVE  /\ \A k \in 1..Len(job.items) : Order[k] \in DOMAIN job.items
         /\ \A i \in DOMAIN job.items : \E k \in 1..Len(job.items) : Order[k] = i
<1> DEFINE I == DOMAIN job.items
           n == Len(job.items)
           Before(i) == {j \in I : Precedes(j, i)}
           R == [i \in I |-> Rank(i)]
<1>1. n \in Nat /\ I = 1..n /\ \A i \in I : job.items[i].class \in Nat
  BY ItemsAre DEF IsOperation
<1>2. IsFiniteSet(I) /\ Cardinality(I) = n
  BY <1>1, FS_Interval
<1>3. \A i, j \in I : i # j => Precedes(i, j) \/ Precedes(j, i)
  BY <1>1 DEF Precedes
<1>4. \A i \in I : ~Precedes(i, i)
  BY <1>1 DEF Precedes
<1>5. \A i, j, k \in I : Precedes(i, j) /\ Precedes(j, k) => Precedes(i, k)
  BY <1>1 DEF Precedes
<1>6. \A i \in I : /\ IsFiniteSet(Before(i)) /\ Cardinality(Before(i)) \in Nat
                   /\ Cardinality(Before(i)) <= n - 1
  <2> SUFFICES ASSUME NEW i \in I
               PROVE  /\ IsFiniteSet(Before(i)) /\ Cardinality(Before(i)) \in Nat
                      /\ Cardinality(Before(i)) <= n - 1
    OBVIOUS
  <2>1. Before(i) \subseteq I \ {i}
    BY <1>4
  <2>2. IsFiniteSet(I \ {i}) /\ Cardinality(I \ {i}) = n - 1
    BY <1>2, FS_RemoveElement
  <2>3. IsFiniteSet(Before(i)) /\ Cardinality(Before(i)) <= n - 1 /\ Cardinality(Before(i)) \in Nat
    BY <2>1, <2>2, FS_Subset, FS_CardinalityType
  <2> QED BY <1>1, <2>3
<1>7. \A i, j \in I : Precedes(i, j) => Cardinality(Before(i)) < Cardinality(Before(j))
  <2> SUFFICES ASSUME NEW i \in I, NEW j \in I, Precedes(i, j)
               PROVE  Cardinality(Before(i)) < Cardinality(Before(j))
    OBVIOUS
  <2>1. Before(i) \subseteq Before(j) \ {i} /\ i \in Before(j)
    BY <1>4, <1>5
  <2>2. IsFiniteSet(Before(j) \ {i}) /\ Cardinality(Before(j) \ {i}) = Cardinality(Before(j)) - 1
    BY <1>6, <2>1, FS_RemoveElement
  <2>3. Cardinality(Before(i)) <= Cardinality(Before(j) \ {i})
    BY <2>1, <2>2, FS_Subset
  <2>4. Cardinality(Before(i)) \in Nat /\ Cardinality(Before(j)) \in Nat
    BY <1>6
  <2> QED BY <2>2, <2>3, <2>4
<1>8. \A i \in I : R[i] = Cardinality(Before(i)) + 1
  BY DEF Rank
<1>9. R \in [I -> 1..n]
  <2>1. \A i \in I : R[i] \in 1..n
    <3> SUFFICES ASSUME NEW i \in I PROVE R[i] \in 1..n
      OBVIOUS
    <3>1. Cardinality(Before(i)) \in Nat /\ Cardinality(Before(i)) <= n - 1
      BY <1>6
    <3> HIDE DEF R, Before
    <3> QED BY <1>1, <1>8, <3>1
  <2> QED BY <2>1
<1>10. \A i, j \in I : R[i] = R[j] => i = j
  <2> SUFFICES ASSUME NEW i \in I, NEW j \in I, R[i] = R[j], i # j PROVE FALSE
    OBVIOUS
  <2>1. Precedes(i, j) \/ Precedes(j, i)
    BY <1>3
  <2>2. Cardinality(Before(i)) \in Nat /\ Cardinality(Before(j)) \in Nat
    BY <1>6
  <2>3. Cardinality(Before(i)) < Cardinality(Before(j)) \/ Cardinality(Before(j)) < Cardinality(Before(i))
    BY <1>7, <2>1
  <2> HIDE DEF R, Before
  <2> QED BY <1>8, <2>2, <2>3
<1> HIDE DEF R, Before
<1>11. R \in Injection(I, 1..n)
  BY <1>9, <1>10 DEF Injection, IsInjective
<1>12. IsFiniteSet(1..n) /\ Cardinality(1..n) = n
  <2> HIDE DEF n
  <2> QED BY ONLY <1>1, FS_Interval
<1>13. R \in Surjection(I, 1..n)
  <2> HIDE DEF I, n
  <2> QED BY <1>2, <1>11, <1>12, FS_Injection
<1>14. \A k \in 1..n : \E i \in I : R[i] = k
  BY <1>13 DEF Surjection
<1>15. \A i \in I : R[i] = Rank(i)
  BY DEF R
<1>16. \A k \in 1..n : Order[k] \in I /\ R[Order[k]] = k
  <2> SUFFICES ASSUME NEW k \in 1..n PROVE Order[k] \in I /\ R[Order[k]] = k
    OBVIOUS
  <2>1. Order[k] = CHOOSE i \in I : Rank(i) = k
    BY <1>1 DEF Order
  <2>2. \E i \in I : Rank(i) = k
    BY <1>14, <1>15
  <2>3. Order[k] \in I /\ Rank(Order[k]) = k
    BY <2>1, <2>2
  <2> QED BY <1>15, <2>3
<1>17. \A i \in I : \E k \in 1..n : Order[k] = i
  <2> SUFFICES ASSUME NEW i \in I PROVE Order[R[i]] = i /\ R[i] \in 1..n
    OBVIOUS
  <2>1. R[i] \in 1..n
    BY <1>9
  <2> QED BY <1>10, <1>16, <2>1
<1> QED BY <1>16, <1>17

\* A sequence of a set is one of its own elements.
LEMMA SequenceIs ==
  ASSUME NEW S, NEW s \in Seq(S)
  PROVE  IsSequence(s)
<1>1. s \in [1..Len(s) -> Range(s)] /\ Len(s) \in Nat
  BY LenProperties DEF Range
<1> QED BY <1>1 DEF IsSequence

\* The positions of a sequence.
LEMMA SequenceHas ==
  ASSUME NEW s, IsSequence(s)
  PROVE  Len(s) \in Nat /\ DOMAIN s = 1..Len(s)
  BY LenProperties DEF IsSequence

\* A sequence that grows by one.
LEMMA SequenceAppends ==
  ASSUME NEW s, IsSequence(s), NEW x
  PROVE  /\ IsSequence(Append(s, x)) /\ Len(Append(s, x)) = Len(s) + 1
         /\ Append(s, x)[Len(s) + 1] = x
         /\ \A i \in 1..Len(s) : Append(s, x)[i] = s[i]
<1> DEFINE S == Range(s) \cup {x}
<1>1. s \in Seq(S)
  <2>1. s \in [1..Len(s) -> Range(s)] /\ Len(s) \in Nat
    BY LenProperties DEF IsSequence
  <2> QED BY <2>1
<1>2. /\ Append(s, x) \in Seq(S) /\ Len(Append(s, x)) = Len(s) + 1
      /\ Append(s, x)[Len(s) + 1] = x
      /\ \A i \in 1..Len(s) : Append(s, x)[i] = s[i]
  BY <1>1, AppendProperties
<1> QED BY <1>2, SequenceIs

\* What is left of a sequence when its head has been taken.
LEMMA SequenceTail ==
  ASSUME NEW s, IsSequence(s), s # <<>>
  PROVE  /\ IsSequence(Tail(s)) /\ Len(Tail(s)) = Len(s) - 1 /\ Len(s) \in Nat \ {0}
         /\ Head(s) = s[1]
         /\ \A i \in 1..(Len(s) - 1) : Tail(s)[i] = s[i + 1]
<1>1. s \in Seq(Range(s))
  BY DEF IsSequence
<1>2. /\ Tail(s) \in Seq(Range(s)) /\ Len(Tail(s)) = Len(s) - 1 /\ Head(s) = s[1]
      /\ \A i \in 1..Len(Tail(s)) : Tail(s)[i] = s[i + 1]
  BY <1>1, HeadTailProperties
<1>3. Len(s) \in Nat /\ Len(s) # 0
  BY <1>1, EmptySeq, LenProperties
<1> QED BY <1>2, <1>3, SequenceIs

\* No elements are a sequence.
LEMMA SequenceEmpty == IsSequence(<<>>) /\ Len(<<>>) = 0 /\ DOMAIN <<>> = {}
BY DEF IsSequence

----------------------------------------------------------------------------
(* Where the reader and the workers are.                                   *)

\* With nothing in flight no worker has a block.
LEMMA NobodyBusy ==
  ASSUME PipeSane, inflight = 0
  PROVE  Busy = {}
<1>1. Len(pending) \in Nat
  BY SequenceHas DEF PipeSane
<1>2. Ahead - 1 < nextWrite
  BY <1>1 DEF PipeSane, Ahead
<1> QED BY <1>1, <1>2 DEF PipeSane, Ahead

LEMMA ControlReads ==
  ASSUME ControlSane, Compare \/ TakeItem \/ OpenPlain \/ Unreadable \/ OpenLink \/ OpenFile
                      \/ Hash \/ Coalesce \/ Reuse \/ ReadSlice \/ FinishFile \/ LastItem
  PROVE  ControlSane'
<1> USE DEF diskVars, readVars, pipeVars, workVars, progressVars, ControlSane, Threads,
            Places, Ending, Final, Flush, Draining, InFile, Flushing, Finishing
<1>1. CASE Compare
  BY <1>1 DEF Compare
<1>2. CASE TakeItem
  BY <1>2 DEF TakeItem
<1>3. CASE OpenPlain
  BY <1>3 DEF OpenPlain, ItemDone
<1>4. CASE Unreadable
  BY <1>4 DEF Unreadable, ItemDone
<1>5. CASE OpenLink
  BY <1>5 DEF OpenLink, ItemDone
<1>6. CASE OpenFile
  BY <1>6 DEF OpenFile, StartReading
<1>7. CASE Hash
  BY <1>7 DEF Hash
<1>8. CASE Coalesce
  BY <1>8 DEF Coalesce, StartReading, ReuseRange, ItemDone
<1>9. CASE Reuse
  BY <1>9 DEF Reuse, StartReading, ReuseRange, ItemDone
<1>10. CASE ReadSlice
  BY <1>10 DEF ReadSlice
<1>11. CASE FinishFile
  BY <1>11 DEF FinishFile, ItemDone
<1>12. CASE LastItem
  BY <1>12 DEF LastItem
<1> QED BY <1>1, <1>2, <1>3, <1>4, <1>5, <1>6, <1>7, <1>8, <1>9, <1>10, <1>11, <1>12

LEMMA ControlFlushes ==
  ASSUME ControlSane, TakeCompleted \/ NotifyTaken \/ WriteBlock \/ NothingCompleted \/ Admit \/ NotifyAdmitted
                      \/ TakeSpare \/ Wait \/ RethrowError \/ Finish \/ NotifyFinished \/ Settled
                      \/ ReaderThrows \/ StopPipeline \/ NotifyStopped \/ Join
  PROVE  ControlSane'
<1> USE DEF diskVars, readVars, pipeVars, workVars, progressVars, ControlSane, Threads,
            Places, Ending, Final, Flush, Draining, InFile, Flushing, Finishing
<1>1. CASE TakeCompleted
  BY <1>1 DEF TakeCompleted
<1>2. CASE NotifyTaken
  BY <1>2 DEF NotifyTaken, NotifyAll
<1>3. CASE WriteBlock
  BY <1>3 DEF WriteBlock
<1>4. CASE NothingCompleted
  BY <1>4 DEF NothingCompleted
<1>5. CASE Admit
  BY <1>5 DEF Admit
<1>6. CASE NotifyAdmitted
  BY <1>6 DEF NotifyAdmitted
<1>7. CASE TakeSpare
  BY <1>7 DEF TakeSpare
<1>8. CASE Wait
  BY <1>8 DEF Wait
<1>9. CASE RethrowError
  BY <1>9 DEF RethrowError
<1>10. CASE Finish
  BY <1>10 DEF Finish
<1>11. CASE NotifyFinished
  BY <1>11 DEF NotifyFinished
<1>12. CASE Settled
  BY <1>12 DEF Settled
<1>13. CASE ReaderThrows
  BY <1>13 DEF ReaderThrows
<1>14. CASE StopPipeline
  BY <1>14 DEF StopPipeline
<1>15. CASE NotifyStopped
  BY <1>15 DEF NotifyStopped
<1>16. CASE Join
  BY <1>16 DEF Join
<1> QED BY <1>1, <1>2, <1>3, <1>4, <1>5, <1>6, <1>7, <1>8, <1>9, <1>10, <1>11, <1>12, <1>13, <1>14, <1>15, <1>16

LEMMA ControlWorks ==
  ASSUME ControlSane, PipeSane, NEW w \in Threads, WorkerStep(w)
  PROVE  ControlSane'
<1>1. worker[w] \in HasBlock => inflight # 0
  BY NobodyBusy DEF Busy
<1> USE DEF diskVars, readVars, pipeVars, workVars, progressVars, ControlSane, Threads,
            Places, Ending, Final, Flush, Draining, InFile, Flushing, Finishing,
            WorkerPlaces, HasBlock, Scanning, Publishing
<1>2. CASE WorkerChecks(w)
  BY <1>1, <1>2 DEF WorkerChecks, Goes, Awake
<1>3. CASE WorkerNotifiesPop(w)
  BY <1>1, <1>3 DEF WorkerNotifiesPop, Goes, Awake
<1>4. CASE Tick(w)
  BY <1>1, <1>4 DEF Tick, Goes, Awake
<1>5. CASE PublishLoads(w)
  BY <1>1, <1>5 DEF PublishLoads, Goes, Awake
<1>6. CASE PublishRaises(w)
  BY <1>1, <1>6 DEF PublishRaises, Goes, Awake
<1>7. CASE Compressed(w)
  BY <1>1, <1>7 DEF Compressed, Goes, Awake
<1>8. CASE SubtractScanned(w)
  BY <1>1, <1>8 DEF SubtractScanned, Goes, Awake
<1>9. CASE AddFinished(w)
  BY <1>1, <1>9 DEF AddFinished, Goes, Awake
<1>10. CASE Emplace(w)
  BY <1>1, <1>10 DEF Emplace, Goes, Awake
<1>11. CASE WorkerNotifiesResult(w)
  BY <1>1, <1>11 DEF WorkerNotifiesResult, Goes, Awake
<1>12. CASE WorkerFails(w)
  BY <1>1, <1>12 DEF WorkerFails, Goes, Awake
<1>13. CASE WorkerNotifiesError(w)
  BY <1>1, <1>13 DEF WorkerNotifiesError, Goes, Awake
<1> QED BY <1>2, <1>3, <1>4, <1>5, <1>6, <1>7, <1>8, <1>9, <1>10, <1>11, <1>12, <1>13 DEF WorkerStep

----------------------------------------------------------------------------
(* The flushes and the workers leave the reader's place and records alone. *)

FlushStep ==
  \/ TakeCompleted \/ NotifyTaken \/ WriteBlock \/ NothingCompleted \/ Admit
  \/ NotifyAdmitted \/ TakeSpare \/ Wait \/ RethrowError \/ Finish \/ NotifyFinished
  \/ Settled \/ ReaderThrows \/ StopPipeline \/ NotifyStopped \/ Join

RecordVars == <<job, at, reuse, known, links, entry, candidate, hashed, taken, entries, skipped>>

\* The reader stays at what it is at, or gives up.
GoalStays == /\ Goal' = Goal \/ (Goal' = pc' /\ pc' \in Ending)
             /\ pc \in Ending => pc' \in Ending

LEMMA FlushFrame ==
  ASSUME ControlSane, FlushStep
  PROVE  /\ UNCHANGED RecordVars /\ UNCHANGED disk /\ GoalStays /\ buffer' \in {buffer, <<>>}
         /\ Admit \/ Rest' = Rest
<1> USE DEF diskVars, readVars, pipeVars, workVars, progressVars, ControlSane,
            Places, Ending, Final, Flush, Draining, InFile, Flushing, Finishing, RecordVars,
            GoalStays, Goal, Rest
<1>1. CASE TakeCompleted
  BY <1>1 DEF TakeCompleted
<1>2. CASE NotifyTaken
  BY <1>2 DEF NotifyTaken, NotifyAll
<1>3. CASE WriteBlock
  BY <1>3 DEF WriteBlock
<1>4. CASE NothingCompleted
  BY <1>4 DEF NothingCompleted
<1>5. CASE Admit
  BY <1>5 DEF Admit
<1>6. CASE NotifyAdmitted
  BY <1>6 DEF NotifyAdmitted
<1>7. CASE TakeSpare
  BY <1>7 DEF TakeSpare
<1>8. CASE Wait
  BY <1>8 DEF Wait
<1>9. CASE RethrowError
  BY <1>9 DEF RethrowError
<1>10. CASE Finish
  BY <1>10 DEF Finish
<1>11. CASE NotifyFinished
  BY <1>11 DEF NotifyFinished
<1>12. CASE Settled
  BY <1>12 DEF Settled
<1>13. CASE ReaderThrows
  BY <1>13 DEF ReaderThrows
<1>14. CASE StopPipeline
  BY <1>14 DEF StopPipeline
<1>15. CASE NotifyStopped
  BY <1>15 DEF NotifyStopped
<1>16. CASE Join
  BY <1>16 DEF Join
<1> QED BY <1>1, <1>2, <1>3, <1>4, <1>5, <1>6, <1>7, <1>8, <1>9, <1>10, <1>11, <1>12, <1>13, <1>14, <1>15, <1>16 DEF FlushStep

LEMMA WorkFrame ==
  ASSUME NEW w \in Threads, WorkerStep(w)
  PROVE  /\ UNCHANGED RecordVars
         /\ UNCHANGED <<disk, buffer, pc, resume, writing, archive, current, nextWrite, inflight>>
<1> USE DEF diskVars, readVars, pipeVars, workVars, progressVars, RecordVars
<1>1. CASE WorkerChecks(w)
  BY <1>1 DEF WorkerChecks
<1>2. CASE WorkerNotifiesPop(w)
  BY <1>2 DEF WorkerNotifiesPop
<1>3. CASE Tick(w)
  BY <1>3 DEF Tick
<1>4. CASE PublishLoads(w)
  BY <1>4 DEF PublishLoads
<1>5. CASE PublishRaises(w)
  BY <1>5 DEF PublishRaises
<1>6. CASE Compressed(w)
  BY <1>6 DEF Compressed
<1>7. CASE SubtractScanned(w)
  BY <1>7 DEF SubtractScanned
<1>8. CASE AddFinished(w)
  BY <1>8 DEF AddFinished
<1>9. CASE Emplace(w)
  BY <1>9 DEF Emplace
<1>10. CASE WorkerNotifiesResult(w)
  BY <1>10 DEF WorkerNotifiesResult
<1>11. CASE WorkerFails(w)
  BY <1>11 DEF WorkerFails
<1>12. CASE WorkerNotifiesError(w)
  BY <1>12 DEF WorkerNotifiesError
<1> QED BY <1>1, <1>2, <1>3, <1>4, <1>5, <1>6, <1>7, <1>8, <1>9, <1>10, <1>11, <1>12 DEF WorkerStep

\* Then its place and what it has not handed over stay too.
LEMMA WorkStays ==
  ASSUME UNCHANGED <<buffer, pc, resume, writing>>
  PROVE  GoalStays /\ Rest' = Rest
  BY DEF GoalStays, Goal, Flushing, Finishing, Rest

LEMMA OrderStays ==
  ASSUME UNCHANGED job
  PROVE  Order' = Order
  BY DEF Order, Rank, Precedes

\* Who leaves the records alone keeps what they say.
LEMMA RecordsStay ==
  ASSUME ReadSane, CaptureSane, UNCHANGED RecordVars, UNCHANGED disk, GoalStays,
         buffer' \in Content
  PROVE  ReadSane' /\ CaptureSane'
<1>1. Order' = Order /\ Item' = Item
  <2>1. Order' = Order
    BY OrderStays DEF RecordVars
  <2> QED BY <2>1 DEF Item, RecordVars
<1>2. CASE Goal' = Goal
  <2>1. ReadSane'
    BY <1>1, <1>2 DEF ReadSane, RecordVars, Stamped, Unmoved
  <2>2. CaptureSane'
    BY <1>1, <1>2 DEF CaptureSane, RecordVars, Stamped, Unmoved, StoredAt, GoalStays
  <2> QED BY <2>1, <2>2
<1>3. CASE Goal' = pc' /\ pc' \in Ending
  <2>1. Goal' \notin {"finish", "open"} \cup InFile
    BY <1>3 DEF Ending, InFile
  <2>2. ReadSane'
    BY <2>1 DEF ReadSane, RecordVars, Stamped, Unmoved, InFile
  <2>3. CaptureSane'
    BY <1>3 DEF CaptureSane, RecordVars, Stamped, Unmoved, StoredAt
  <2> QED BY <2>2, <2>3
<1> QED BY <1>2, <1>3 DEF GoalStays

\* Ranges still lead to their contents if what the blocks hold only grows.
LEMMA LeadStays ==
  ASSUME NEW blocks, Lead(blocks), UNCHANGED RecordVars, GoalStays,
         NEW more, Len(blocks) \in Nat, Len(more) \in Nat, Len(blocks) <= Len(more),
         \A first \in 1..(Len(blocks) + 1) :
           BytesFrom(Append(more, Rest'), first) = BytesFrom(Append(blocks, Rest), first)
  PROVE  Lead(more)'
<1>1. \A first, offset, content :
        Reaches(blocks, first, offset, content) => Reaches(more, first, offset, content)'
  BY DEF Reaches
<1>2. Goal' \notin {"verify", "verified", "read"} \/ Goal' = Goal
  BY DEF GoalStays, Ending
<1>3. \A first, offset : Reaches(blocks, first, offset, taken) =>
        BytesFrom(Append(more, Rest'), first) = BytesFrom(Append(blocks, Rest), first)
  BY DEF Reaches
<1> QED BY <1>1, <1>2, <1>3 DEF Lead, RecordVars


----------------------------------------------------------------------------
(* The pipeline.                                                           *)

\* A step that moves no block, but may drop those that wait.
PipeRests ==
  /\ UNCHANGED <<job, current, nextWrite, inflight, writing, completed, archive>>
  /\ pending' \in {pending, <<>>}
  /\ DOMAIN block' = Threads /\ Busy' \subseteq Busy
  /\ \A w \in Busy' : block'[w] = block[w]
  /\ pc \in Ending => pc' \in Ending
  /\ pc' \in Draining => pc \in Draining
  /\ pc \in Draining => pc' \in Draining \cup Ending
  /\ pc' = "compare" => pc = "compare" /\ buffer' = buffer

LEMMA PipeStays ==
  ASSUME PipeSane, PipeRests
  PROVE  PipeSane' /\ \A blocks : Agree(blocks) => Agree(blocks)'
<1>1. IsSequence(pending') /\ Len(pending') \in Nat /\ Len(pending) \in Nat
      /\ Len(pending') <= Len(pending) /\ DOMAIN pending' \subseteq DOMAIN pending
      /\ (pending' = pending \/ DOMAIN pending' = {})
  BY SequenceEmpty, SequenceHas DEF PipeRests, PipeSane
<1>2. current \in Nat /\ Ahead' \in Int /\ Ahead \in Int /\ Ahead <= Ahead'
      /\ (pending' = pending => Ahead' = Ahead)
  BY <1>1 DEF PipeRests, PipeSane, Ahead
<1>3. nextWrite \in Nat /\ nextWrite..(Ahead - 1) \subseteq nextWrite'..(Ahead' - 1)
      /\ nextWrite' <= Ahead'
  BY <1>2 DEF PipeRests, PipeSane
<1>4. \A k \in DOMAIN pending' : pending'[k].index = Ahead' + k - 1
  BY <1>1, <1>2 DEF PipeRests, PipeSane
<1>5. \A w \in Busy' : /\ w \in Busy /\ block'[w] = block[w]
                       /\ block'[w].index \in (nextWrite'..(Ahead' - 1)) \ DOMAIN completed'
  BY <1>3 DEF PipeRests, PipeSane
<1>6. Threads' = Threads
  BY DEF PipeRests, Threads
<1>7. PipeSane'
  <2>1. DOMAIN completed' \subseteq nextWrite'..(Ahead' - 1)
    BY <1>3 DEF PipeRests, PipeSane
  <2>2. \A v, w \in Busy' : block'[v].index = block'[w].index => v = w
    BY <1>5 DEF PipeSane
  <2>3. pc' \in Draining => writing'.index = nextWrite' - 1 /\ writing'.final \in BOOLEAN
    BY DEF PipeRests, PipeSane
  <2>4. /\ IsSequence(archive') /\ \A i \in DOMAIN archive' : archive'[i].index = i
        /\ Len(archive') \in (nextWrite' - 2)..(nextWrite' - 1)
        /\ current' \in Nat /\ nextWrite' \in Nat /\ Len(job'.base) < nextWrite'
        /\ inflight' = current' - nextWrite' /\ DOMAIN block' = Threads'
    BY <1>6 DEF PipeRests, PipeSane
  <2>5. pc' \notin Ending =>
          Len(archive') = IF pc' \in Draining THEN nextWrite' - 2 ELSE nextWrite' - 1
    BY DEF PipeRests, PipeSane
  <2> QED BY <1>1, <1>3, <1>4, <1>5, <2>1, <2>2, <2>3, <2>4, <2>5 DEF PipeSane
<1>8. \A blocks : Agree(blocks) => Agree(blocks)'
  BY <1>1, <1>5 DEF PipeRests, Agree
<1> QED BY <1>7, <1>8

\* The reader at a file, or between files, leaves the pipeline alone.
LEMMA ReadsRest ==
  ASSUME ControlSane, PipeSane,
         TakeItem \/ OpenPlain \/ Unreadable \/ OpenLink \/ OpenFile
           \/ Hash \/ Coalesce \/ Reuse \/ ReadSlice \/ FinishFile \/ LastItem
  PROVE  PipeRests
<1> USE DEF diskVars, readVars, pipeVars, workVars, progressVars, PipeSane, PipeRests,
            Ending, Draining, Busy, Threads
<1>1. CASE TakeItem
  BY <1>1 DEF TakeItem
<1>2. CASE OpenPlain \/ Unreadable \/ OpenLink
  BY <1>2 DEF OpenPlain, Unreadable, OpenLink, ItemDone
<1>3. CASE OpenFile
  BY <1>3 DEF OpenFile, StartReading
<1>4. CASE Hash
  BY <1>4 DEF Hash
<1>5. CASE Coalesce
  BY <1>5 DEF Coalesce, StartReading, ReuseRange, ItemDone
<1>6. CASE Reuse
  BY <1>6 DEF Reuse, StartReading, ReuseRange, ItemDone
<1>7. CASE ReadSlice
  BY <1>7 DEF ReadSlice
<1>8. CASE FinishFile
  BY <1>8 DEF FinishFile, ItemDone
<1>9. CASE LastItem
  BY <1>9 DEF LastItem
<1> QED BY <1>1, <1>2, <1>3, <1>4, <1>5, <1>6, <1>7, <1>8, <1>9

LEMMA CompareRests ==
  ASSUME PipeSane, Compare
  PROVE  /\ PipeSane' /\ \A blocks : Agree(blocks) => Agree(blocks)'
<1>1. PipeRests
  BY DEF Compare, pipeVars, workVars, diskVars, PipeSane, PipeRests, Ending, Draining, Busy,
         Threads
<1> QED BY <1>1, PipeStays

\* The steps of a flush and of the end that move no block.
LEMMA FlushesRest ==
  ASSUME ControlSane, PipeSane,
         NotifyTaken \/ NothingCompleted \/ NotifyAdmitted \/ TakeSpare \/ Wait \/ RethrowError
           \/ Finish \/ NotifyFinished \/ Settled \/ ReaderThrows \/ StopPipeline
           \/ NotifyStopped \/ Join
  PROVE  PipeRests
<1> USE DEF diskVars, readVars, pipeVars, workVars, progressVars, PipeSane, PipeRests,
            Ending, Draining, Busy, Threads, ControlSane
<1>1. CASE NotifyTaken
  BY <1>1 DEF NotifyTaken
<1>2. CASE NothingCompleted
  BY <1>2 DEF NothingCompleted
<1>3. CASE NotifyAdmitted
  BY <1>3 DEF NotifyAdmitted
<1>4. CASE TakeSpare
  BY <1>4 DEF TakeSpare
<1>5. CASE Wait
  BY <1>5 DEF Wait
<1>6. CASE RethrowError
  BY <1>6 DEF RethrowError
<1>7. CASE Finish
  BY <1>7 DEF Finish
<1>8. CASE NotifyFinished
  BY <1>8 DEF NotifyFinished
<1>9. CASE Settled
  BY <1>9 DEF Settled
<1>10. CASE ReaderThrows
  BY <1>10 DEF ReaderThrows
<1>11. CASE StopPipeline
  BY <1>11 DEF StopPipeline
<1>12. CASE NotifyStopped
  BY <1>12 DEF NotifyStopped
<1>13. CASE Join
  BY <1>13 DEF Join
<1> QED BY <1>1, <1>2, <1>3, <1>4, <1>5, <1>6, <1>7, <1>8, <1>9, <1>10, <1>11, <1>12, <1>13

\* The steps of a worker that move no block.
LEMMA WorksRest ==
  ASSUME ControlSane, PipeSane, NEW w \in Threads,
         (WorkerChecks(w) /\ UNCHANGED pending) \/ WorkerNotifiesPop(w) \/ Tick(w)
           \/ PublishLoads(w) \/ PublishRaises(w) \/ Compressed(w) \/ SubtractScanned(w)
           \/ AddFinished(w) \/ WorkerNotifiesResult(w) \/ WorkerFails(w)
           \/ WorkerNotifiesError(w)
  PROVE  PipeRests
<1>1. UNCHANGED <<pc, job, current, nextWrite, inflight, writing, completed, archive, buffer>>
      /\ pending' \in {pending, <<>>}
  <2> USE DEF diskVars, readVars, pipeVars, progressVars
  <2>1. CASE WorkerChecks(w) /\ UNCHANGED pending
    BY <2>1 DEF WorkerChecks
  <2>2. CASE WorkerNotifiesPop(w)
    BY <2>2 DEF WorkerNotifiesPop
  <2>3. CASE Tick(w)
    BY <2>3 DEF Tick
  <2>4. CASE PublishLoads(w)
    BY <2>4 DEF PublishLoads
  <2>5. CASE PublishRaises(w)
    BY <2>5 DEF PublishRaises
  <2>6. CASE Compressed(w)
    BY <2>6 DEF Compressed
  <2>7. CASE SubtractScanned(w)
    BY <2>7 DEF SubtractScanned
  <2>8. CASE AddFinished(w)
    BY <2>8 DEF AddFinished
  <2>9. CASE WorkerNotifiesResult(w)
    BY <2>9 DEF WorkerNotifiesResult
  <2>10. CASE WorkerFails(w)
    BY <2>10 DEF WorkerFails
  <2>11. CASE WorkerNotifiesError(w)
    BY <2>11 DEF WorkerNotifiesError
  <2> QED BY <2>1, <2>2, <2>3, <2>4, <2>5, <2>6, <2>7, <2>8, <2>9, <2>10, <2>11
<1>2. Threads' = Threads
  BY <1>1 DEF Threads
<1>3. /\ DOMAIN block' = Threads
      /\ \A v \in Threads : worker'[v] \in HasBlock => worker[v] \in HasBlock /\ block'[v] = block[v]
  <2> USE DEF ControlSane, PipeSane, pipeVars, HasBlock, Scanning, Publishing, Goes
  <2>1. CASE WorkerChecks(w) /\ UNCHANGED pending
    <3>1. ~(~error /\ pending # <<>>)
      <4> SUFFICES ASSUME pending # <<>>, ~error PROVE FALSE
        OBVIOUS
      <4>1. pending' = Tail(pending)
        BY <2>1 DEF WorkerChecks
      <4>2. Len(Tail(pending)) = Len(pending) - 1 /\ Len(pending) \in Nat
        BY SequenceTail
      <4> QED BY <2>1, <4>1, <4>2
    <3> QED BY <2>1, <3>1 DEF WorkerChecks
  <2>2. CASE WorkerNotifiesPop(w)
    BY <2>2 DEF WorkerNotifiesPop
  <2>3. CASE Tick(w)
    BY <2>3 DEF Tick
  <2>4. CASE PublishLoads(w)
    BY <2>4 DEF PublishLoads
  <2>5. CASE PublishRaises(w)
    BY <2>5 DEF PublishRaises
  <2>6. CASE Compressed(w)
    BY <2>6 DEF Compressed
  <2>7. CASE SubtractScanned(w)
    BY <2>7 DEF SubtractScanned
  <2>8. CASE AddFinished(w)
    BY <2>8 DEF AddFinished
  <2>9. CASE WorkerNotifiesResult(w)
    BY <2>9 DEF WorkerNotifiesResult
  <2>10. CASE WorkerFails(w)
    BY <2>10 DEF WorkerFails
  <2>11. CASE WorkerNotifiesError(w)
    BY <2>11 DEF WorkerNotifiesError
  <2> QED BY <2>1, <2>2, <2>3, <2>4, <2>5, <2>6, <2>7, <2>8, <2>9, <2>10, <2>11
<1> QED BY <1>1, <1>2, <1>3 DEF PipeRests, Busy

\* The block next in order is taken from the completed ones.
LEMMA TakesBlock ==
  ASSUME ControlSane, PipeSane, TakeCompleted
  PROVE  PipeSane' /\ \A blocks : Agree(blocks) => Agree(blocks)'
<1>1. /\ nextWrite \in DOMAIN completed /\ nextWrite' = nextWrite + 1 /\ inflight' = inflight - 1
      /\ pc \in {"drain", "finalDrain"} /\ pc' = "taken" /\ buffer' = buffer
      /\ UNCHANGED <<job, pending, current, archive, block, worker>>
      /\ writing' = [index |-> nextWrite, content |-> completed[nextWrite],
                     final |-> pc = "finalDrain"]
  BY DEF TakeCompleted, diskVars, readVars, workVars
<1>2. /\ DOMAIN completed' = DOMAIN completed \ {nextWrite}
      /\ \A i \in DOMAIN completed' : completed'[i] = completed[i]
  BY DEF TakeCompleted, Restrict
<1>3. Ahead' = Ahead /\ Ahead \in Int /\ Len(pending) \in Nat /\ Threads' = Threads /\ Busy' = Busy
  BY <1>1, SequenceHas DEF PipeSane, Ahead, Threads, Busy
<1>4. nextWrite \in Nat /\ nextWrite + 1 <= Ahead
  BY <1>1, <1>3 DEF PipeSane
<1>5. PipeSane'
  <2>1. /\ current' \in Nat /\ nextWrite' \in Nat /\ Len(job'.base) < nextWrite'
        /\ inflight' = current' - nextWrite' /\ IsSequence(pending') /\ nextWrite' <= Ahead'
        /\ \A k \in DOMAIN pending' : pending'[k].index = Ahead' + k - 1
    <3>1. Len(job.base) \in Nat
      BY ItemsAre DEF ControlSane
    <3> QED BY <1>1, <1>3, <1>4, <3>1 DEF PipeSane
  <2>2. DOMAIN completed' \subseteq nextWrite'..(Ahead' - 1)
    BY <1>1, <1>2, <1>3, <1>4 DEF PipeSane
  <2>3. /\ DOMAIN block' = Threads'
        /\ \A w \in Busy' : block'[w].index \in (nextWrite'..(Ahead' - 1)) \ DOMAIN completed'
        /\ \A v, w \in Busy' : block'[v].index = block'[w].index => v = w
    BY <1>1, <1>2, <1>3, <1>4 DEF PipeSane
  <2>4. /\ pc' \in Draining => writing'.index = nextWrite' - 1 /\ writing'.final \in BOOLEAN
        /\ IsSequence(archive') /\ \A i \in DOMAIN archive' : archive'[i].index = i
        /\ Len(archive') = nextWrite' - 2 /\ pc' \in Draining
    BY <1>1, <1>4 DEF PipeSane, Draining, Ending
  <2>5. Len(archive') \in (nextWrite' - 2)..(nextWrite' - 1)
    <3>1. \A n \in Nat : n - 2 \in (n - 2)..(n - 1)
      OBVIOUS
    <3> QED BY <2>1, <2>4, <3>1
  <2> QED BY <2>1, <2>2, <2>3, <2>4, <2>5 DEF PipeSane
<1>6. \A blocks : Agree(blocks) => Agree(blocks)'
  BY <1>1, <1>2, <1>3 DEF Agree
<1> QED BY <1>5, <1>6

\* It is written after those before it.
LEMMA WritesBlock ==
  ASSUME ControlSane, PipeSane, WriteBlock
  PROVE  PipeSane' /\ \A blocks : Agree(blocks) => Agree(blocks)'
<1>1. /\ pc = "write" /\ pc' \in {"drain", "finalDrain"} /\ buffer' = buffer
      /\ UNCHANGED <<job, pending, completed, inflight, current, nextWrite, block, worker>>
      /\ archive' = Append(archive, [index |-> writing.index, content |-> writing.content])
  BY DEF WriteBlock, diskVars, readVars, workVars
<1>2. Ahead' = Ahead /\ Threads' = Threads /\ Busy' = Busy
  BY <1>1 DEF Ahead, Threads, Busy
<1>3. /\ writing.index = nextWrite - 1 /\ Len(archive) = nextWrite - 2 /\ nextWrite \in Nat
      /\ IsSequence(archive) /\ Len(archive) \in Nat /\ DOMAIN archive = 1..Len(archive)
  BY <1>1, SequenceHas DEF PipeSane, Draining, Ending
<1>4. /\ IsSequence(archive') /\ Len(archive') = Len(archive) + 1 /\ DOMAIN archive' = 1..Len(archive')
      /\ archive'[Len(archive) + 1] = [index |-> writing.index, content |-> writing.content]
      /\ \A i \in 1..Len(archive) : archive'[i] = archive[i]
  <2>1. /\ IsSequence(archive') /\ Len(archive') = Len(archive) + 1
        /\ archive'[Len(archive) + 1] = [index |-> writing.index, content |-> writing.content]
        /\ \A i \in 1..Len(archive) : archive'[i] = archive[i]
    BY <1>1, <1>3, SequenceAppends
  <2>2. DOMAIN archive' = 1..Len(archive')
    BY <2>1, SequenceHas
  <2> QED BY <2>1, <2>2
<1>5. \A i \in DOMAIN archive' : \/ i \in DOMAIN archive /\ archive'[i] = archive[i]
                                 \/ i = writing.index /\ i = Len(archive) + 1
  BY <1>3, <1>4
<1>6. PipeSane'
  <2>1. \A i \in DOMAIN archive' : archive'[i].index = i
    BY <1>3, <1>4, <1>5 DEF PipeSane
  <2>2. Len(archive') = nextWrite' - 1 /\ pc' \notin Draining
    BY <1>1, <1>3, <1>4 DEF Draining
  <2> QED BY <1>1, <1>2, <1>3, <1>4, <2>1, <2>2 DEF PipeSane
<1>7. \A blocks : Agree(blocks) => Agree(blocks)'
  <2> SUFFICES ASSUME NEW blocks, Agree(blocks) PROVE Agree(blocks)'
    OBVIOUS
  <2>1. writing.content = blocks[writing.index]
    BY <1>1 DEF Agree, Draining
  <2>2. \A i \in DOMAIN archive' : archive'[i].content = blocks[i]
    BY <1>3, <1>4, <1>5, <2>1 DEF Agree
  <2> QED BY <1>1, <1>2, <2>2 DEF Agree, Draining
<1> QED BY <1>6, <1>7

\* The buffer becomes the last of the blocks.
LEMMA AdmitsBlock ==
  ASSUME ControlSane, PipeSane, buffer \in Content, Admit
  PROVE  /\ PipeSane'
         /\ \A blocks, more : Agree(blocks) /\ more = Append(blocks, buffer) => Agree(more)'
         /\ Ahead' = Ahead
<1>1. /\ pc = "admit" /\ pc' = "admitted" /\ buffer' = buffer
      /\ current' = current + 1 /\ inflight' = inflight + 1
      /\ UNCHANGED <<job, completed, nextWrite, archive, block, worker>>
      /\ pending' = Append(pending, [index |-> current, content |-> buffer])
  BY DEF Admit, diskVars, readVars, workVars
<1>2. /\ IsSequence(pending') /\ Len(pending') = Len(pending) + 1 /\ Len(pending) \in Nat
      /\ DOMAIN pending' = 1..(Len(pending) + 1) /\ DOMAIN pending = 1..Len(pending)
      /\ pending'[Len(pending) + 1] = [index |-> current, content |-> buffer]
      /\ \A k \in 1..Len(pending) : pending'[k] = pending[k]
  <2>1. IsSequence(pending) /\ Len(pending) \in Nat /\ DOMAIN pending = 1..Len(pending)
    BY SequenceHas DEF PipeSane
  <2>2. /\ IsSequence(pending') /\ Len(pending') = Len(pending) + 1
        /\ pending'[Len(pending) + 1] = [index |-> current, content |-> buffer]
        /\ \A k \in 1..Len(pending) : pending'[k] = pending[k]
    BY <1>1, <2>1, SequenceAppends
  <2>3. DOMAIN pending' = 1..Len(pending')
    BY <2>2, SequenceHas
  <2> QED BY <2>1, <2>2, <2>3
<1>3. Ahead' = Ahead /\ Ahead \in Int /\ current \in Nat /\ Threads' = Threads /\ Busy' = Busy
  <2>1. current \in Nat
    BY DEF PipeSane
  <2>2. Threads' = Threads /\ Busy' = Busy
    BY <1>1 DEF Threads, Busy
  <2>3. Ahead = current - Len(pending) /\ Ahead' = (current + 1) - (Len(pending) + 1)
    BY <1>1, <1>2 DEF Ahead
  <2> QED BY <1>2, <2>1, <2>2, <2>3
<1>4. \A k \in DOMAIN pending' : \/ k \in DOMAIN pending /\ pending'[k] = pending[k]
                                 \/ k = Len(pending) + 1
  BY <1>2
<1>5. PipeSane'
  <2>1. \A k \in DOMAIN pending' : pending'[k].index = Ahead' + k - 1
    <3>1. current = Ahead + (Len(pending) + 1) - 1
      BY <1>2, <1>3 DEF Ahead
    <3>2. \A k \in DOMAIN pending : pending[k].index = Ahead + k - 1
      BY DEF PipeSane
    <3>3. pending'[Len(pending) + 1].index = Ahead' + (Len(pending) + 1) - 1
      BY <1>2, <1>3, <3>1
    <3> QED BY <1>3, <1>4, <3>2, <3>3
  <2>2. /\ current' \in Nat /\ nextWrite' \in Nat /\ Len(job'.base) < nextWrite'
        /\ inflight' = current' - nextWrite' /\ nextWrite' <= Ahead'
        /\ pc' \notin Draining /\ pc \notin Ending /\ pc \notin Draining
    BY <1>1, <1>3 DEF PipeSane, Draining, Ending
  <2> QED BY <1>1, <1>2, <1>3, <2>1, <2>2 DEF PipeSane
<1>6. \A blocks, more : Agree(blocks) /\ more = Append(blocks, buffer) => Agree(more)'
  <2> SUFFICES ASSUME NEW blocks, NEW more, Agree(blocks), more = Append(blocks, buffer)
               PROVE  Agree(more)'
    OBVIOUS
  <2>1. blocks \in Seq(Content) /\ Len(blocks) = current - 1
    BY DEF Agree
  <2>2. /\ more \in Seq(Content) /\ Len(more) = current /\ more[current] = buffer
        /\ \A i \in 1..(current - 1) : more[i] = blocks[i]
    BY <1>3, <2>1, AppendProperties
  <2>3. \A i \in DOMAIN archive : i \in 1..(current - 1)
    <3>1. DOMAIN archive = 1..Len(archive) /\ Len(archive) \in Nat /\ Len(archive) <= nextWrite - 1
      BY SequenceHas DEF PipeSane
    <3> QED BY <1>2, <1>3, <3>1 DEF PipeSane, Ahead
  <2>4. nextWrite \in Nat /\ 0 < nextWrite /\ Ahead <= current
    <3>1. Len(job.base) \in Nat
      BY ItemsAre DEF ControlSane
    <3>2. nextWrite \in Nat /\ Len(job.base) < nextWrite
      BY DEF PipeSane
    <3>3. Ahead = current - Len(pending)
      BY DEF Ahead
    <3> QED BY <1>2, <1>3, <3>1, <3>2, <3>3
  <2>5. nextWrite..(Ahead - 1) \subseteq 1..(current - 1)
    BY <1>3, <2>4
  <2>6. \A i \in DOMAIN completed : i \in 1..(current - 1)
    BY <2>5 DEF PipeSane
  <2>7. \A w \in Busy : block[w].index \in 1..(current - 1)
    BY <2>5 DEF PipeSane
  <2>8. \A k \in DOMAIN pending : pending[k].index \in 1..(current - 1)
    <3>1. nextWrite <= Ahead /\ \A k \in DOMAIN pending : pending[k].index = Ahead + k - 1
      BY DEF PipeSane
    <3> QED BY <1>2, <1>3, <2>4, <3>1 DEF Ahead
  <2>9. \A k \in DOMAIN pending' : pending'[k].content = more[pending'[k].index]
    BY <1>2, <1>4, <2>2, <2>8 DEF Agree
  <2>10. \A i \in DOMAIN archive' : archive'[i].content = more[i]
    BY <1>1, <2>2, <2>3 DEF Agree
  <2>11. \A i \in DOMAIN completed' : completed'[i] = more[i]
    BY <1>1, <2>2, <2>6 DEF Agree
  <2>12. \A w \in Busy' : block'[w].content = more[block'[w].index]
    BY <1>1, <1>3, <2>2, <2>7 DEF Agree
  <2>13. Len(more) = current' - 1 /\ pc' # "compare" /\ pc' \notin Draining
    BY <1>1, <1>3, <2>2 DEF Draining
  <2> QED BY <2>2, <2>9, <2>10, <2>11, <2>12, <2>13 DEF Agree
<1> QED BY <1>3, <1>5, <1>6

\* A worker takes the first block that waits.
LEMMA PopsBlock ==
  ASSUME ControlSane, PipeSane, NEW w \in Threads, WorkerChecks(w), ~UNCHANGED pending
  PROVE  /\ PipeSane' /\ \A blocks : Agree(blocks) => Agree(blocks)'
         /\ Ahead' = Ahead + 1 /\ block'[w].index = Ahead /\ worker'[w] = "popped"
         /\ \A v \in Threads : v # w => block'[v] = block[v] /\ worker'[v] = worker[v]
         /\ w \notin Busy /\ worker[w] = "check" /\ Ahead \in Nat /\ Ahead < current
         /\ ~error /\ UNCHANGED <<error, progressVars, job, pc>>
<1>1. /\ pending # <<>> /\ pending' = Tail(pending) /\ worker[w] = "check" /\ ~error
      /\ block' = [block EXCEPT ![w] = Head(pending)] /\ Goes(w, "popped")
      /\ UNCHANGED <<pc, job, completed, inflight, current, nextWrite, writing, archive, buffer>>
      /\ UNCHANGED <<error, progressVars>>
  BY DEF WorkerChecks, Awake, diskVars, readVars
<1>2. /\ IsSequence(pending') /\ Len(pending') = Len(pending) - 1 /\ Len(pending) \in Nat \ {0}
      /\ Head(pending) = pending[1] /\ DOMAIN pending = 1..Len(pending)
      /\ DOMAIN pending' = 1..(Len(pending) - 1)
      /\ \A k \in 1..(Len(pending) - 1) : pending'[k] = pending[k + 1]
  <2>1. IsSequence(pending) /\ DOMAIN pending = 1..Len(pending)
    BY SequenceHas DEF PipeSane
  <2>2. /\ IsSequence(pending') /\ Len(pending') = Len(pending) - 1 /\ Len(pending) \in Nat \ {0}
        /\ Head(pending) = pending[1]
        /\ \A k \in 1..(Len(pending) - 1) : pending'[k] = pending[k + 1]
    BY <1>1, <2>1, SequenceTail
  <2>3. DOMAIN pending' = 1..Len(pending')
    BY <2>2, SequenceHas
  <2> QED BY <2>1, <2>2, <2>3
<1>3. /\ Ahead' = Ahead + 1 /\ current \in Nat /\ Ahead \in Int /\ Ahead < current /\ nextWrite \in Nat
      /\ nextWrite <= Ahead
  <2>1. current \in Nat /\ nextWrite \in Nat /\ nextWrite <= Ahead
    BY DEF PipeSane
  <2>2. Ahead = current - Len(pending) /\ Ahead' = current - (Len(pending) - 1)
    BY <1>1, <1>2 DEF Ahead
  <2> QED BY <1>2, <2>1, <2>2
<1>4. /\ DOMAIN block' = Threads /\ block'[w] = pending[1]
      /\ \A v \in Threads : v # w => block'[v] = block[v] /\ worker'[v] = worker[v]
      /\ worker'[w] = "popped" /\ w \notin Busy
  BY <1>1, <1>2 DEF PipeSane, ControlSane, Goes, Busy, HasBlock, Scanning, Publishing
<1>5. Threads' = Threads /\ Busy' = Busy \cup {w}
  BY <1>1, <1>4 DEF Threads, Busy, HasBlock
<1>6. pending[1].index = Ahead
  <2>1. 1 \in DOMAIN pending
    BY <1>2
  <2> QED BY <1>3, <2>1 DEF PipeSane
<1>7. PipeSane'
  <2>1. \A k \in DOMAIN pending' : pending'[k].index = Ahead' + k - 1
    <3> SUFFICES ASSUME NEW k \in DOMAIN pending' PROVE pending'[k].index = Ahead' + k - 1
      OBVIOUS
    <3>1. k \in Int /\ k + 1 \in DOMAIN pending /\ pending'[k] = pending[k + 1]
      BY <1>2
    <3>2. pending[k + 1].index = Ahead + (k + 1) - 1
      BY <3>1 DEF PipeSane
    <3> QED BY <1>3, <3>1, <3>2
  <2>2. DOMAIN completed' \subseteq nextWrite'..(Ahead' - 1)
    <3>1. completed' = completed /\ nextWrite' = nextWrite /\ DOMAIN completed \subseteq nextWrite..(Ahead - 1)
      BY <1>1 DEF PipeSane
    <3>2. nextWrite..(Ahead - 1) \subseteq nextWrite..(Ahead' - 1)
      BY <1>3
    <3> QED BY <3>1, <3>2
  <2>3. \A v \in Busy' : block'[v].index \in (nextWrite'..(Ahead' - 1)) \ DOMAIN completed'
    <3>1. Ahead \in (nextWrite'..(Ahead' - 1)) \ DOMAIN completed'
      BY <1>1, <1>3 DEF PipeSane
    <3>2. \A v \in Busy : block[v].index \in (nextWrite'..(Ahead' - 1)) \ DOMAIN completed'
      BY <1>1, <1>3 DEF PipeSane
    <3>3. \A v \in Busy : block'[v] = block[v]
      BY <1>4 DEF Busy
    <3> QED BY <1>4, <1>5, <1>6, <3>1, <3>2, <3>3
  <2>4. \A u, v \in Busy' : block'[u].index = block'[v].index => u = v
    <3>1. \A v \in Busy : block'[v] = block[v] /\ block[v].index \in nextWrite..(Ahead - 1)
      BY <1>4 DEF Busy, PipeSane
    <3>2. \A v \in Busy : block'[v].index # Ahead
      BY <1>3, <3>1
    <3> QED BY <1>4, <1>5, <1>6, <3>1, <3>2 DEF PipeSane
  <2>5. /\ current' \in Nat /\ nextWrite' \in Nat /\ Len(job'.base) < nextWrite'
        /\ inflight' = current' - nextWrite' /\ nextWrite' <= Ahead'
    BY <1>1, <1>3 DEF PipeSane
  <2> QED BY <1>1, <1>2, <1>4, <1>5, <2>1, <2>2, <2>3, <2>4, <2>5 DEF PipeSane
<1>8. \A blocks : Agree(blocks) => Agree(blocks)'
  <2> SUFFICES ASSUME NEW blocks, Agree(blocks) PROVE Agree(blocks)'
    OBVIOUS
  <2>1. \A k \in DOMAIN pending' : pending'[k].content = blocks[pending'[k].index]
    <3>1. \A k \in DOMAIN pending : pending[k].content = blocks[pending[k].index]
      BY DEF Agree
    <3>2. \A k \in DOMAIN pending' : k + 1 \in DOMAIN pending /\ pending'[k] = pending[k + 1]
      BY <1>2
    <3> QED BY <3>1, <3>2
  <2>2. \A v \in Busy' : block'[v].content = blocks[block'[v].index]
    <3>1. pending[1].content = blocks[pending[1].index]
      BY <1>2 DEF Agree
    <3>2. \A v \in Busy : block'[v] = block[v]
      BY <1>4 DEF Busy
    <3> QED BY <1>4, <1>5, <3>1, <3>2 DEF Agree
  <2> QED BY <1>1, <2>1, <2>2 DEF Agree
<1>9. Ahead \in Nat
  BY <1>3
<1> QED BY <1>1, <1>3, <1>4, <1>6, <1>7, <1>8, <1>9

\* A worker hands its block back.
LEMMA EmplacesBlock ==
  ASSUME ControlSane, PipeSane, NEW w \in Threads, Emplace(w)
  PROVE  PipeSane' /\ \A blocks : Agree(blocks) => Agree(blocks)'
<1>1. /\ worker[w] = "emplace" /\ Goes(w, "emplaced") /\ block' = [block EXCEPT ![w] = Nil]
      /\ completed' = Emplaced(completed, block[w].index, block[w].content)
      /\ UNCHANGED <<pc, job, pending, inflight, current, nextWrite, writing, archive, buffer>>
  BY DEF Emplace, diskVars, readVars
<1>2. Ahead' = Ahead /\ Threads' = Threads
  BY <1>1 DEF Ahead, Threads
<1>3. w \in Busy /\ block[w].index \in (nextWrite..(Ahead - 1)) \ DOMAIN completed
  BY <1>1 DEF PipeSane, Busy, HasBlock
<1>4. /\ DOMAIN completed' = DOMAIN completed \cup {block[w].index}
      /\ completed'[block[w].index] = block[w].content
      /\ \A i \in DOMAIN completed : completed'[i] = completed[i]
  BY <1>1, <1>3 DEF Emplaced
<1>5. /\ DOMAIN block' = Threads /\ Busy' = Busy \ {w}
      /\ \A v \in Busy' : block'[v] = block[v]
  BY <1>1, <1>2 DEF PipeSane, ControlSane, Goes, Busy, HasBlock, Scanning, Publishing
<1>6. PipeSane'
  <2>1. \A v \in Busy' : block[v].index # block[w].index
    BY <1>3, <1>5 DEF PipeSane
  <2>2. \A v \in Busy' : block'[v].index \in (nextWrite'..(Ahead' - 1)) \ DOMAIN completed'
    BY <1>1, <1>2, <1>4, <1>5, <2>1 DEF PipeSane
  <2>3. \A u, v \in Busy' : block'[u].index = block'[v].index => u = v
    BY <1>5 DEF PipeSane
  <2>4. DOMAIN completed' \subseteq nextWrite'..(Ahead' - 1)
    BY <1>1, <1>2, <1>3, <1>4 DEF PipeSane
  <2> QED BY <1>1, <1>2, <1>5, <2>2, <2>3, <2>4 DEF PipeSane
<1>7. \A blocks : Agree(blocks) => Agree(blocks)'
  BY <1>1, <1>3, <1>4, <1>5 DEF Agree
<1> QED BY <1>6, <1>7

----------------------------------------------------------------------------
(* The records of what has been stored.                                    *)

\* An entry for the item in hand, which is done.
LEMMA EntryAdds ==
  ASSUME ControlSane, ReadSane, CaptureSane, pc \notin Ending, pc' = "next", at < Len(job.items),
         UNCHANGED <<job, disk, skipped, links, buffer>>, at' = at + 1,
         NEW e, entries' = Append(entries, e), e.path = Item.path,
         e.type = "file" => Stamped(e) /\ (Unmoved(e) => e.content = disk[e.node].content),
         e.type = "hardlink" => \E j \in DOMAIN entries : StoredAt(j, e.target, e.node),
         Goal \in InFile => e.type = "file" /\ e.path = entry.path /\ e.node = entry.node
  PROVE  ReadSane' /\ CaptureSane'
<1>1. Goal' = "next" /\ pc' \notin Ending
  BY DEF Goal, Flushing, Finishing, Flush, Final, Draining, Ending
<1>2. Order' = Order
  BY OrderStays
<1>3. /\ IsSequence(entries') /\ Len(entries') = Len(entries) + 1 /\ Len(entries) \in Nat
      /\ DOMAIN entries' = 1..(Len(entries) + 1) /\ DOMAIN entries = 1..Len(entries)
      /\ entries'[Len(entries) + 1] = e
      /\ \A k \in 1..Len(entries) : entries'[k] = entries[k]
  <2>1. IsSequence(entries) /\ Len(entries) \in Nat /\ DOMAIN entries = 1..Len(entries)
    BY SequenceHas DEF CaptureSane
  <2>2. /\ IsSequence(entries') /\ Len(entries') = Len(entries) + 1
        /\ entries'[Len(entries) + 1] = e
        /\ \A k \in 1..Len(entries) : entries'[k] = entries[k]
    BY <2>1, SequenceAppends
  <2>3. DOMAIN entries' = 1..Len(entries')
    BY <2>2, SequenceHas
  <2> QED BY <2>1, <2>2, <2>3
<1>4. Len(job.items) \in Nat
  BY ItemsAre DEF ControlSane
<1>5. at \in Nat /\ at + 1 \in 0..Len(job.items) /\ Goal' \notin {"finish", "open"} \cup InFile
  BY <1>1, <1>4 DEF ReadSane, InFile
<1>6. ReadSane'
  BY <1>5 DEF ReadSane, InFile
<1>7. \A k \in DOMAIN entries' :
        \/ k \in DOMAIN entries /\ entries'[k] = entries[k] /\ k \in 1..Len(entries)
        \/ k = Len(entries) + 1 /\ entries'[k] = e
  BY <1>3
<1>8. \A j \in DOMAIN entries : \A p, n : StoredAt(j, p, n) => j \in DOMAIN entries' /\ StoredAt(j, p, n)'
  BY <1>3 DEF StoredAt
<1>9. \A k \in DOMAIN entries' :
        /\ entries'[k].type = "file" =>
             /\ Stamped(entries[k])'
             /\ Unmoved(entries[k])' => entries'[k].content = disk'[entries'[k].node].content
        /\ entries'[k].type = "hardlink" =>
             \E j \in 1..(k - 1) : StoredAt(j, entries[k].target, entries[k].node)'
  <2> SUFFICES ASSUME NEW k \in DOMAIN entries'
               PROVE  /\ entries'[k].type = "file" =>
                           /\ Stamped(entries[k])'
                           /\ Unmoved(entries[k])' => entries'[k].content = disk'[entries'[k].node].content
                      /\ entries'[k].type = "hardlink" =>
                           \E j \in 1..(k - 1) : StoredAt(j, entries[k].target, entries[k].node)'
    OBVIOUS
  <2>1. CASE k \in DOMAIN entries /\ entries'[k] = entries[k] /\ k \in 1..Len(entries)
    <3>1. \A j \in 1..(k - 1) : j \in DOMAIN entries
      BY <1>3, <2>1
    <3> QED BY <1>8, <2>1, <3>1 DEF CaptureSane, Stamped, Unmoved
  <2>2. CASE k = Len(entries) + 1 /\ entries'[k] = e
    <3>1. DOMAIN entries = 1..(k - 1)
      BY <1>3, <2>2
    <3> QED BY <1>8, <2>2, <3>1 DEF Stamped, Unmoved
  <2> QED BY <1>7, <2>1, <2>2
<1>10. \A n \in DOMAIN links' : \E j \in DOMAIN entries' : StoredAt(j, links[n], n)'
  <2> SUFFICES ASSUME NEW n \in DOMAIN links
               PROVE  \E j \in DOMAIN entries' : StoredAt(j, links[n], n)'
    OBVIOUS
  <2>1. CASE \E j \in DOMAIN entries : StoredAt(j, links[n], n)
    BY <1>8, <2>1
  <2>2. CASE Goal \in InFile /\ n = entry.node /\ links[n] = entry.path
    <3>1. PICK j : j = Len(entries) + 1
      OBVIOUS
    <3>2. j \in DOMAIN entries' /\ entries'[j] = e
      BY <1>3, <3>1
    <3>3. StoredAt(j, links[n], n)'
      BY <2>2, <3>2 DEF StoredAt
    <3> QED BY <3>2, <3>3
  <2> QED BY <2>1, <2>2 DEF CaptureSane
<1>11. {entries'[k].path : k \in DOMAIN entries'} \cup skipped'
         = {job'.items[Order'[i]].path : i \in 1..at'}
  <2>1. {entries'[k].path : k \in DOMAIN entries'}
          = {entries[k].path : k \in DOMAIN entries} \cup {e.path}
    BY <1>3, <1>7
  <2>2. {job'.items[Order'[i]].path : i \in 1..at'}
          = {job.items[Order[i]].path : i \in 1..at} \cup {Item.path}
    <3>1. 1..at' = 1..at \cup {at + 1}
      BY <1>5
    <3> QED BY <1>2, <3>1 DEF Item
  <2> QED BY <2>1, <2>2 DEF CaptureSane
<1> QED BY <1>1, <1>3, <1>6, <1>9, <1>10, <1>11 DEF CaptureSane

\* An item left out.
LEMMA EntrySkips ==
  ASSUME ControlSane, ReadSane, CaptureSane, pc = "open", pc' = "next",
         UNCHANGED <<job, disk, entries, links, buffer>>, at' = at + 1,
         skipped' = skipped \cup {Item.path}
  PROVE  ReadSane' /\ CaptureSane'
<1>1. Goal' = "next" /\ pc' \notin Ending /\ Goal = "open" /\ pc \notin Ending /\ Goal \notin InFile
  BY DEF Goal, Flushing, Finishing, Flush, Final, Draining, Ending, InFile
<1>2. Order' = Order
  BY OrderStays
<1>3. Len(job.items) \in Nat
  BY ItemsAre DEF ControlSane
<1>4. /\ at \in Nat /\ at + 1 \in 0..Len(job.items)
      /\ Goal' \notin {"finish", "open", "hash", "verify", "hashed", "verified", "read"}
  BY <1>1, <1>3 DEF ReadSane
<1>5. ReadSane'
  BY <1>4 DEF ReadSane, InFile
<1>6. {job'.items[Order'[i]].path : i \in 1..at'}
          = {job.items[Order[i]].path : i \in 1..at} \cup {Item.path}
  <2>1. 1..at' = 1..at \cup {at + 1}
    BY <1>4
  <2> QED BY <1>2, <2>1 DEF Item
<1>7. \A j, p, n : StoredAt(j, p, n) => StoredAt(j, p, n)'
  BY DEF StoredAt
<1>8. /\ IsSequence(entries')
      /\ \A k \in DOMAIN entries' :
           /\ entries'[k].type = "file" =>
                /\ Stamped(entries[k])'
                /\ Unmoved(entries[k])' => entries'[k].content = disk'[entries'[k].node].content
           /\ entries'[k].type = "hardlink" =>
                \E j \in 1..(k - 1) : StoredAt(j, entries[k].target, entries[k].node)'
  BY <1>7 DEF CaptureSane, Stamped, Unmoved
<1>9. \A n \in DOMAIN links' : \E j \in DOMAIN entries' : StoredAt(j, links[n], n)'
  BY <1>1, <1>7 DEF CaptureSane
<1>10. {entries'[k].path : k \in DOMAIN entries'} \cup skipped'
         = {job'.items[Order'[i]].path : i \in 1..at'}
  <2>1. {entries'[k].path : k \in DOMAIN entries'} = {entries[k].path : k \in DOMAIN entries}
    OBVIOUS
  <2> QED BY <1>1, <1>6, <2>1 DEF CaptureSane
<1>11. CaptureSane'
  BY <1>8, <1>9, <1>10 DEF CaptureSane
<1> QED BY <1>5, <1>11

\* With the same bytes, a range leads to what it led to.
LEMMA ReachesStays ==
  ASSUME Rest' = Rest
  PROVE  \A blocks, first, offset, content :
           Reaches(blocks, first, offset, content) <=> Reaches(blocks, first, offset, content)'
  BY DEF Reaches

LEMMA LeadKeeps ==
  ASSUME NEW blocks, Lead(blocks), UNCHANGED RecordVars, GoalStays, Rest' = Rest,
         Len(blocks) \in Nat
  PROVE  Lead(blocks)'
  BY LeadStays

LEMMA LeadAdmits ==
  ASSUME NEW blocks, blocks \in Seq(Content), buffer \in Content, Lead(blocks),
         UNCHANGED RecordVars, GoalStays, Rest = buffer, Rest' = <<>>,
         NEW more, more = Append(blocks, buffer)
  PROVE  Lead(more)'
<1>1. /\ more \in Seq(Content) /\ Len(more) = Len(blocks) + 1 /\ Len(blocks) \in Nat
      /\ <<>> \in Content
  BY AppendProperties DEF Content
<1>2. \A first \in 1..(Len(blocks) + 1) :
        BytesFrom(Append(more, <<>>), first) = BytesFrom(more, first)
  <2> SUFFICES ASSUME NEW first \in 1..(Len(blocks) + 1)
               PROVE  BytesFrom(Append(more, <<>>), first) = BytesFrom(more, first)
    OBVIOUS
  <2>1. first \in 1..(Len(more) + 1)
    BY <1>1
  <2>2. /\ BytesFrom(more, first) \in Content
        /\ BytesFrom(Append(more, <<>>), first) = BytesFrom(more, first) \o <<>>
    BY <1>1, <2>1, BytesAppend
  <2> QED BY <2>2, ConcatEmptySeq DEF Content
<1>3. \A first \in 1..(Len(blocks) + 1) :
        BytesFrom(Append(more, Rest'), first) = BytesFrom(Append(blocks, Rest), first)
  BY <1>2
<1>4. Len(blocks) \in Nat /\ Len(more) \in Nat /\ Len(blocks) <= Len(more)
  BY <1>1
<1> QED BY <1>3, <1>4, LeadStays

\* An entry's range, and one to find its content by, lead to the content.
LEMMA LeadAdds ==
  ASSUME NEW blocks, Lead(blocks), pc' = "next", Rest' = Rest, UNCHANGED reuse,
         NEW e, entries' = Append(entries, e), IsSequence(entries),
         e.type = "file" => Reaches(blocks, e.first, e.offset, e.content),
         \A c \in DOMAIN known' :
           \/ c \in DOMAIN known /\ known'[c] = known[c]
           \/ Reaches(blocks, known'[c].first, known'[c].offset, c)
  PROVE  Lead(blocks)'
<1>1. Goal' = "next"
  BY DEF Goal, Flushing, Finishing, Flush, Final, Draining
<1>2. \A first, offset, content :
        Reaches(blocks, first, offset, content) => Reaches(blocks, first, offset, content)'
  BY ReachesStays
<1>3. \A k \in DOMAIN entries' : \/ k \in DOMAIN entries /\ entries'[k] = entries[k]
                                 \/ entries'[k] = e
  <2>1. Len(entries) \in Nat /\ DOMAIN entries = 1..Len(entries)
    BY SequenceHas
  <2>2. /\ IsSequence(entries') /\ Len(entries') = Len(entries) + 1
        /\ entries'[Len(entries) + 1] = e
        /\ \A k \in 1..Len(entries) : entries'[k] = entries[k]
    BY SequenceAppends
  <2>3. DOMAIN entries' = 1..Len(entries')
    BY <2>2, SequenceHas
  <2> QED BY <2>1, <2>2, <2>3
<1>4. \A k \in DOMAIN entries' : entries'[k].type = "file" =>
        Reaches(blocks, entries[k].first, entries[k].offset, entries[k].content)'
  BY <1>2, <1>3 DEF Lead
<1>5. \A c \in DOMAIN known' : Reaches(blocks, known[c].first, known[c].offset, c)'
  BY <1>2 DEF Lead
<1>6. \A p \in DOMAIN reuse' :
        Reaches(blocks, reuse[p].range.first, reuse[p].range.offset, reuse[p].content)'
  BY <1>2 DEF Lead
<1> QED BY <1>1, <1>4, <1>5, <1>6 DEF Lead

\* Nothing is read at the end of the buffer.
LEMMA StartsAtEnd ==
  ASSUME NEW blocks, Agree(blocks), Rest = buffer, buffer \in Content, current \in Nat
  PROVE  /\ Reaches(blocks, current, Len(buffer), <<>>)
         /\ Len(BytesFrom(Append(blocks, Rest), current)) = Len(buffer) + Len(<<>>)
<1>1. blocks \in Seq(Content) /\ Len(blocks) = current - 1 /\ Len(blocks) \in Nat
  BY DEF Agree
<1>2. current \in 1..(Len(blocks) + 1)
  BY <1>1
<1>3. BytesFrom(Append(blocks, Rest), current) = BytesFrom(blocks, current) \o buffer
  BY <1>1, <1>2, BytesAppend
<1>4. BytesFrom(blocks, current) = <<>>
  <2>1. Len(blocks) - current + 1 = 0
    BY <1>1
  <2>2. Max({0, Len(blocks) - current + 1}) = 0
    <3>1. {0, 0} \subseteq Nat /\ 0 \in {0, 0} /\ \A y \in {0, 0} : y <= 0
      OBVIOUS
    <3> QED BY <2>1, <3>1, MaxIs
  <2>3. BytesFrom(blocks, current) = FlattenSeq([i \in 1..0 |-> blocks[current + i - 1]])
    BY <2>2 DEF BytesFrom
  <2>4. [i \in 1..0 |-> blocks[current + i - 1]] = <<>>
    OBVIOUS
  <2>5. <<>> \in [1..0 -> Seq(Slice)]
    OBVIOUS
  <2>6. FlattenSeq(<<>>) = <<>>
    BY FlattenNone
  <2> QED BY <2>3, <2>4, <2>6
<1>5. /\ buffer \in Seq(Slice) /\ Len(buffer) \in Nat /\ <<>> \in Seq(Slice) /\ Len(<<>>) = 0
      /\ <<>> \o buffer = buffer
  BY ConcatEmptySeq DEF Content
<1>6. Reads(buffer, Len(buffer), 0) = <<>>
  <2>1. SubSeq(buffer, Len(buffer) + 1, Len(buffer) + 0) = <<>>
    BY <1>5
  <2> QED BY <1>5, <2>1 DEF Reads
<1> QED BY <1>2, <1>3, <1>4, <1>5, <1>6 DEF Reaches, Content

----------------------------------------------------------------------------
(* The reader's steps between files and within them.                       *)

\* What has been stored stays so.
LEMMA CaptureStays ==
  ASSUME CaptureSane, Goal \notin InFile, pc \notin Ending,
         UNCHANGED <<job, disk, at, links, entries, skipped>>
  PROVE  CaptureSane'
<1>1. Order' = Order
  BY OrderStays
<1>2. \A j, p, n : StoredAt(j, p, n) => StoredAt(j, p, n)'
  BY DEF StoredAt
<1>3. /\ IsSequence(entries')
      /\ \A k \in DOMAIN entries' :
           /\ entries'[k].type = "file" =>
                /\ Stamped(entries[k])'
                /\ Unmoved(entries[k])' => entries'[k].content = disk'[entries'[k].node].content
           /\ entries'[k].type = "hardlink" =>
                \E j \in 1..(k - 1) : StoredAt(j, entries[k].target, entries[k].node)'
  BY <1>2 DEF CaptureSane, Stamped, Unmoved
<1>4. \A n \in DOMAIN links' : \E j \in DOMAIN entries' : StoredAt(j, links[n], n)'
  BY <1>2 DEF CaptureSane
<1>5. {entries'[k].path : k \in DOMAIN entries'} \cup skipped'
         = {job'.items[Order'[i]].path : i \in 1..at'}
  BY <1>1 DEF CaptureSane
<1> QED BY <1>3, <1>4, <1>5 DEF CaptureSane

\* From one place between files to another.
LEMMA RecordsMove ==
  ASSUME ReadSane, CaptureSane, NEW blocks, Lead(blocks),
         UNCHANGED RecordVars, UNCHANGED <<disk, buffer>>, Rest' = Rest,
         Goal \notin InFile, Goal' \notin InFile, pc \notin Ending, pc' \notin Ending,
         Goal' = "finish" => at = Len(job.items), Goal' = "open" => at < Len(job.items)
  PROVE  ReadSane' /\ CaptureSane' /\ Lead(blocks)'
<1>2. ReadSane'
  BY DEF ReadSane, RecordVars, InFile
<1>3. CaptureSane'
  BY CaptureStays DEF RecordVars
<1>4. Lead(blocks)'
  BY ReachesStays DEF Lead, RecordVars, InFile
<1> QED BY <1>2, <1>3, <1>4

LEMMA TakeItemKeeps ==
  ASSUME ControlSane, ReadSane, CaptureSane, NEW blocks, Lead(blocks), TakeItem
  PROVE  ReadSane' /\ CaptureSane' /\ Lead(blocks)'
<1>1. /\ pc = "next" /\ at < Len(job.items) /\ pc' \in {"drain", "open"}
      /\ pc' = "drain" => resume' = "open"
      /\ UNCHANGED RecordVars /\ UNCHANGED <<disk, buffer>>
  BY DEF TakeItem, RecordVars, diskVars
<1>2. Goal = "next" /\ Goal' = "open" /\ Rest' = Rest
  BY <1>1 DEF Goal, Flushing, Finishing, Flush, Final, Draining, Rest
<1> QED BY <1>1, <1>2, RecordsMove DEF InFile, Ending

LEMMA LastItemKeeps ==
  ASSUME ControlSane, ReadSane, CaptureSane, NEW blocks, Lead(blocks), LastItem
  PROVE  ReadSane' /\ CaptureSane' /\ Lead(blocks)'
<1>1. /\ pc = "next" /\ at = Len(job.items) /\ pc' \in {"drain", "finish"} /\ resume' = "finish"
      /\ UNCHANGED RecordVars /\ UNCHANGED <<disk, buffer>>
  BY DEF LastItem, RecordVars, diskVars, readVars
<1>2. Goal = "next" /\ Goal' = "finish" /\ Rest' = Rest
  BY <1>1 DEF Goal, Flushing, Finishing, Flush, Final, Draining, Rest
<1> QED BY <1>1, <1>2, RecordsMove DEF InFile, Ending

\* What the archive holds already is found in its blocks.
LEMMA CandidatesLead ==
  ASSUME job \in Cases, buffer = <<>>, pc = "compare", NEW c \in DOMAIN Candidates
  PROVE  Reaches(job.base, Candidates[c].first, Candidates[c].offset, c)
<1>1. c \in {job.held[i].content : i \in DOMAIN job.held}
  BY DEF Candidates
<1> DEFINE Held == {k \in DOMAIN job.held : job.held[k].content = c}
           h == Min(Held)
<1>2. IsOperation(job)
  BY ItemsAre
<1>3. Held \subseteq Nat /\ Held # {} /\ h \in Held
  <2>1. DOMAIN job.held = 1..Len(job.held) /\ Len(job.held) \in Nat
    BY <1>2, SequenceHas DEF IsOperation
  <2>2. Held \subseteq Nat /\ Held # {}
    BY <1>1, <2>1
  <2> HIDE DEF Held
  <2> QED BY <2>2, MinOfNumbers
<1>4. Candidates[c] = [first |-> job.held[h].first, offset |-> job.held[h].offset]
  BY <1>1 DEF Candidates
<1>5. h \in DOMAIN job.held /\ job.held[h].content = c
  BY <1>3
<1> HIDE DEF Held, h
<1>6. /\ job.base \in Seq(Content) /\ c \in Content
      /\ job.held[h].first \in 1..(Len(job.base) + 1) /\ job.held[h].offset \in Nat
      /\ Reads(BytesFrom(job.base, job.held[h].first), job.held[h].offset, Len(c)) = c
  BY <1>2, <1>5 DEF IsOperation
<1>7. BytesFrom(Append(job.base, <<>>), job.held[h].first) = BytesFrom(job.base, job.held[h].first)
  <2>1. <<>> \in Content
    BY DEF Content
  <2>2. /\ BytesFrom(job.base, job.held[h].first) \in Content
        /\ BytesFrom(Append(job.base, <<>>), job.held[h].first)
             = BytesFrom(job.base, job.held[h].first) \o <<>>
    BY <1>6, <2>1, BytesAppend
  <2> QED BY <2>2, ConcatEmptySeq DEF Content
<1>8. Rest = <<>>
  BY DEF Rest
<1> QED BY <1>4, <1>6, <1>7, <1>8 DEF Reaches

LEMMA CompareKeeps ==
  ASSUME ControlSane, ReadSane, CaptureSane, NEW blocks, Agree(blocks), Lead(blocks), Compare
  PROVE  ReadSane' /\ CaptureSane' /\ Lead(blocks)'
<1>1. /\ pc = "compare" /\ pc' = "next"
      /\ UNCHANGED <<job, disk, at, known, links, entry, candidate, hashed, taken, buffer, entries, skipped>>
  BY DEF Compare, diskVars
<1>2. Goal = "compare" /\ Goal' = "next" /\ Rest' = Rest
  BY <1>1 DEF Goal, Flushing, Finishing, Flush, Final, Draining, Rest
<1>4. ReadSane'
  BY <1>1, <1>2 DEF ReadSane, InFile
<1>5. CaptureSane'
  BY <1>1, <1>2, CaptureStays DEF InFile, Ending
<1>6. blocks = job.base /\ buffer = <<>>
  BY <1>1 DEF Agree
<1>7. \A p \in DOMAIN reuse' : /\ reuse'[p].content \in DOMAIN Candidates
                               /\ reuse'[p].range = Candidates[reuse'[p].content]
  <2> DEFINE Matches == {i \in DOMAIN job.items : /\ job.items[i].kind = "file"
                                                  /\ disk[job.items[i].node].content \in DOMAIN Candidates}
             Node(p) == job.items[CHOOSE i \in Matches : job.items[i].path = p].node
  <2>1. reuse' = [p \in {job.items[i].path : i \in Matches} |->
                    [content |-> disk[Node(p)].content, stamp |-> disk[Node(p)].stamp,
                     range |-> Candidates[disk[Node(p)].content]]]
    BY DEF Compare
  <2>2. \A p \in {job.items[i].path : i \in Matches} : disk[Node(p)].content \in DOMAIN Candidates
    <3> SUFFICES ASSUME NEW p \in {job.items[i].path : i \in Matches}
                 PROVE  disk[Node(p)].content \in DOMAIN Candidates
      OBVIOUS
    <3>1. \E i \in Matches : job.items[i].path = p
      OBVIOUS
    <3>2. (CHOOSE i \in Matches : job.items[i].path = p) \in Matches
      BY <3>1
    <3> QED BY <3>2
  <2> QED BY <2>1, <2>2
<1>8. \A p \in DOMAIN reuse' :
        Reaches(blocks, reuse'[p].range.first, reuse'[p].range.offset, reuse'[p].content)
  BY <1>1, <1>6, <1>7, CandidatesLead DEF ControlSane
<1>9. Lead(blocks)'
  <2>1. \A p \in DOMAIN reuse' :
          Reaches(blocks, reuse[p].range.first, reuse[p].range.offset, reuse[p].content)'
    BY <1>2, <1>8, ReachesStays
  <2> QED BY <1>1, <1>2, <2>1, ReachesStays DEF Lead
<1> QED BY <1>4, <1>5, <1>9

\* Entries without bytes of their own, and items left out.
LEMMA PlainKeeps ==
  ASSUME ControlSane, ReadSane, CaptureSane, NEW blocks, Lead(blocks),
         OpenPlain \/ Unreadable \/ OpenLink
  PROVE  ReadSane' /\ CaptureSane' /\ Lead(blocks)'
<1>1. /\ pc = "open" /\ pc' = "next" /\ at' = at + 1
      /\ UNCHANGED <<job, disk, reuse, known, links, buffer>>
  BY DEF OpenPlain, Unreadable, OpenLink, ItemDone, diskVars
<1>2. Goal = "open" /\ Goal' = "next" /\ Rest' = Rest /\ Goal \notin InFile /\ pc \notin Ending
  BY <1>1 DEF Goal, Flushing, Finishing, Flush, Final, Draining, Rest, InFile, Ending
<1>3. at < Len(job.items) /\ IsSequence(entries)
  BY <1>2 DEF ReadSane, CaptureSane
<1>4. CASE UNCHANGED entries /\ skipped' = skipped \cup {Item.path}
  <2>1. ReadSane' /\ CaptureSane'
    BY <1>1, <1>4, EntrySkips
  <2>2. Lead(blocks)'
    BY <1>1, <1>2, <1>4, ReachesStays DEF Lead
  <2> QED BY <2>1, <2>2
<1>5. CASE \E e : /\ entries' = Append(entries, e) /\ UNCHANGED skipped
                  /\ e.path = Item.path /\ e.type # "file"
                  /\ e.type = "hardlink" =>
                       \E j \in DOMAIN entries : StoredAt(j, e.target, e.node)
  <2>1. PICK e : /\ entries' = Append(entries, e) /\ UNCHANGED skipped
                 /\ e.path = Item.path /\ e.type # "file"
                 /\ e.type = "hardlink" =>
                      \E j \in DOMAIN entries : StoredAt(j, e.target, e.node)
    BY <1>5
  <2>2. ReadSane' /\ CaptureSane'
    BY <1>1, <1>2, <1>3, <2>1, EntryAdds
  <2>3. Lead(blocks)'
    BY <1>1, <1>2, <1>3, <2>1, LeadAdds
  <2> QED BY <2>2, <2>3
<1>6. CASE OpenPlain
  <2>1. CASE Item.kind = "reparse"
    BY <1>4, <1>6, <2>1 DEF OpenPlain
  <2>2. CASE Item.kind # "reparse"
    <3>1. Item.kind \in {"dir", "symlink"}
      <4>1. at + 1 \in 1..Len(job.items)
        BY <1>3, ItemsAre DEF ReadSane, ControlSane
      <4>2. Order[at + 1] \in DOMAIN job.items
        BY <4>1, OrderTakesAll DEF ControlSane
      <4> QED BY <1>6, <2>2, <4>2, ItemsAre DEF IsOperation, OpenPlain, Item, ControlSane
    <3>2. /\ entries' = Append(entries, PlainEntry(Item.kind, Nil)) /\ UNCHANGED skipped
          /\ PlainEntry(Item.kind, Nil).path = Item.path
          /\ PlainEntry(Item.kind, Nil).type \notin {"file", "hardlink"}
      BY <1>6, <2>2, <3>1 DEF OpenPlain, PlainEntry
    <3> QED BY <1>5, <3>2
  <2> QED BY <2>1, <2>2
<1>7. CASE Unreadable
  BY <1>4, <1>7 DEF Unreadable
<1>8. CASE OpenLink
  <2> DEFINE e == PlainEntry("hardlink", links[Item.node])
  <2>1. /\ entries' = Append(entries, e) /\ UNCHANGED skipped /\ Item.node \in DOMAIN links
        /\ e.path = Item.path /\ e.type = "hardlink" /\ e.target = links[Item.node]
        /\ e.node = Item.node
    BY <1>8 DEF OpenLink, PlainEntry
  <2>2. \E j \in DOMAIN entries : StoredAt(j, links[Item.node], Item.node)
    BY <1>2, <2>1 DEF CaptureSane
  <2> HIDE DEF e
  <2> QED BY <1>5, <2>1, <2>2
<1> QED BY <1>6, <1>7, <1>8

\* A file is in hand: what has been stored stays so, and it may have a path of its own.
LEMMA CaptureHolds ==
  ASSUME CaptureSane, pc \notin Ending, UNCHANGED <<job, disk, at, entries, skipped>>,
         Goal' \in InFile, Goal \in InFile => entry.node = entry'.node /\ entry.path = entry'.path,
         \A n \in DOMAIN links' : \/ n \in DOMAIN links /\ links'[n] = links[n]
                                  \/ n = entry'.node /\ links'[n] = entry'.path
  PROVE  CaptureSane'
<1>1. Order' = Order
  BY OrderStays
<1>2. \A j, p, n : StoredAt(j, p, n) => StoredAt(j, p, n)'
  BY DEF StoredAt
<1>3. /\ IsSequence(entries')
      /\ \A k \in DOMAIN entries' :
           /\ entries'[k].type = "file" =>
                /\ Stamped(entries[k])'
                /\ Unmoved(entries[k])' => entries'[k].content = disk'[entries'[k].node].content
           /\ entries'[k].type = "hardlink" =>
                \E j \in 1..(k - 1) : StoredAt(j, entries[k].target, entries[k].node)'
  BY <1>2 DEF CaptureSane, Stamped, Unmoved
<1>4. \A n \in DOMAIN links' :
        \/ \E j \in DOMAIN entries' : StoredAt(j, links[n], n)'
        \/ Goal' \in InFile /\ n = entry'.node /\ links'[n] = entry'.path
  <2> SUFFICES ASSUME NEW n \in DOMAIN links'
               PROVE  \/ \E j \in DOMAIN entries' : StoredAt(j, links[n], n)'
                      \/ n = entry'.node /\ links'[n] = entry'.path
    OBVIOUS
  <2>1. CASE n \in DOMAIN links /\ links'[n] = links[n]
    <3>1. CASE \E j \in DOMAIN entries : StoredAt(j, links[n], n)
      <4>1. PICK j \in DOMAIN entries : StoredAt(j, links[n], n)
        BY <3>1
      <4>2. StoredAt(j, links[n], n)'
        BY <2>1, <4>1 DEF StoredAt
      <4> QED BY <4>2
    <3>2. CASE Goal \in InFile /\ n = entry.node /\ links[n] = entry.path
      BY <2>1, <3>2
    <3> QED BY <2>1, <3>1, <3>2 DEF CaptureSane
  <2> QED BY <2>1
<1>5. {entries'[k].path : k \in DOMAIN entries'} \cup skipped'
         = {job'.items[Order'[i]].path : i \in 1..at'}
  BY <1>1 DEF CaptureSane
<1> QED BY <1>3, <1>4, <1>5 DEF CaptureSane

\* A file that is compressed afresh.
LEMMA ReadStarts ==
  ASSUME ControlSane, ReadSane, CaptureSane, current \in Nat, pc \in {"open", "hashed", "verified"},
         NEW blocks, Agree(blocks), Lead(blocks),
         NEW e, NEW content, StartReading(e, content), IsEntry(e), Stamped(e),
         Item.kind = "file", e.path = Item.path, e.node = Item.node,
         content = Nil \/ (content \in Content /\ (Unmoved(e) => content = disk[e.node].content)),
         UNCHANGED <<job, disk, at, reuse, known, buffer, entries, skipped>>,
         pc # "open" => e = entry,
         \A n \in DOMAIN links' : \/ n \in DOMAIN links /\ links'[n] = links[n]
                                  \/ n = e.node /\ links'[n] = e.path
  PROVE  ReadSane' /\ CaptureSane' /\ Lead(blocks)'
<1>1. /\ pc' = "read" /\ hashed' = content /\ taken' = <<>>
      /\ entry' = [e EXCEPT !.first = current, !.offset = Len(buffer)]
  BY DEF StartReading
<1>2. /\ Goal = pc /\ Goal' = "read" /\ Rest = buffer /\ Rest' = buffer /\ Goal' \in InFile
      /\ pc \notin Ending
  BY <1>1 DEF Goal, Flushing, Finishing, Flush, Final, Draining, Rest, InFile, Ending
<1>3. /\ IsEntry(entry') /\ entry'.path = e.path /\ entry'.node = e.node /\ entry'.stamp = e.stamp
      /\ entry'.mtime = e.mtime
      /\ entry'.first = current /\ entry'.offset = Len(buffer)
  BY <1>1 DEF IsEntry
<1>4. Item' = Item
  BY OrderStays DEF Item
<1>5. at < Len(job.items)
  BY <1>2 DEF ReadSane, InFile
<1>6. <<>> \in Content /\ Len(<<>>) = 0
  BY DEF Content
<1>7. ReadSane'
  <2>1. /\ DOMAIN disk' = DOMAIN job'.disk
        /\ \A n \in DOMAIN disk' :
             /\ disk'[n].content \in Content /\ disk'[n].stamp \in Nat /\ disk'[n].stamp >= Second
             /\ disk'[n].stamp = Second => disk'[n].content = job'.disk[n]
        /\ buffer' \in Content /\ at' \in 0..Len(job'.items) /\ at' < Len(job'.items)
    BY <1>5 DEF ReadSane
  <2>2. /\ IsEntry(entry)' /\ Stamped(entry)' /\ Item'.kind = "file"
        /\ entry'.path = Item'.path /\ entry'.node = Item'.node
    BY <1>3, <1>4 DEF Stamped, IsEntry
  <2>3. \/ hashed' = Nil
        \/ hashed' \in Content /\ (Unmoved(entry)' => hashed' = disk'[entry'.node].content)
    BY <1>1, <1>3 DEF Unmoved
  <2>4. /\ taken' \in Content
        /\ Unmoved(entry)' => /\ Len(taken') <= Len(disk'[entry'.node].content)
                              /\ \A i \in 1..Len(taken') : taken'[i] = disk'[entry'.node].content[i]
    <3>1. e.node \in DOMAIN disk
      BY DEF Stamped
    <3>2. disk'[entry'.node].content \in Content
      BY <1>3, <2>1, <3>1
    <3>3. Len(disk'[entry'.node].content) \in Nat
      BY <3>2, LenProperties DEF Content
    <3> QED BY <1>1, <1>6, <3>3
  <2> QED BY <1>2, <2>1, <2>2, <2>3, <2>4 DEF ReadSane
<1>8. CaptureSane'
  <2>1. Goal \in InFile => e = entry
    BY <1>2 DEF InFile
  <2> QED BY <1>2, <1>3, <2>1, CaptureHolds
<1>9. Lead(blocks)'
  <2>1. buffer \in Content
    BY DEF ReadSane
  <2>2. /\ Reaches(blocks, current, Len(buffer), <<>>)
        /\ Len(BytesFrom(Append(blocks, Rest), current)) = Len(buffer) + Len(<<>>)
    BY <1>2, <2>1, StartsAtEnd
  <2>3. Reaches(blocks, entry.first, entry.offset, taken)'
    <3>1. Reaches(blocks, entry'.first, entry'.offset, taken')
      BY <1>1, <1>3, <2>2
    <3> QED BY <1>2, <3>1 DEF Reaches
  <2>4. Len(BytesFrom(Append(blocks, Rest'), entry'.first)) = entry'.offset + Len(taken')
    BY <1>1, <1>2, <1>3, <2>2
  <2> QED BY <1>2, <2>3, <2>4, ReachesStays DEF Lead
<1> QED BY <1>7, <1>8, <1>9

\* A file whose content is looked for first.
LEMMA HashStarts ==
  ASSUME ControlSane, ReadSane, CaptureSane, pc = "open", pc' \in {"hash", "verify"},
         NEW blocks, Lead(blocks), IsEntry(entry'), Stamped(entry'),
         Item.kind = "file", entry'.path = Item.path, entry'.node = Item.node,
         UNCHANGED <<job, disk, at, reuse, known, buffer, entries, skipped>>,
         pc' = "verify" => Reaches(blocks, candidate'.range.first, candidate'.range.offset, candidate'.content),
         \A n \in DOMAIN links' : \/ n \in DOMAIN links /\ links'[n] = links[n]
                                  \/ n = entry'.node /\ links'[n] = entry'.path
  PROVE  ReadSane' /\ CaptureSane' /\ Lead(blocks)'
<1>1. /\ Goal = "open" /\ Goal' = pc' /\ Rest' = Rest /\ Goal' \in InFile /\ Goal \notin InFile
      /\ pc \notin Ending
  BY DEF Goal, Flushing, Finishing, Flush, Final, Draining, Rest, InFile, Ending
<1>2. Item' = Item
  BY OrderStays DEF Item
<1>3. at < Len(job.items)
  BY <1>1 DEF ReadSane
<1>4. ReadSane'
  <2>1. /\ DOMAIN disk' = DOMAIN job'.disk
        /\ \A n \in DOMAIN disk' :
             /\ disk'[n].content \in Content /\ disk'[n].stamp \in Nat /\ disk'[n].stamp >= Second
             /\ disk'[n].stamp = Second => disk'[n].content = job'.disk[n]
        /\ buffer' \in Content /\ at' \in 0..Len(job'.items) /\ at' < Len(job'.items)
    BY <1>3 DEF ReadSane
  <2>2. /\ IsEntry(entry)' /\ Stamped(entry)' /\ Item'.kind = "file"
        /\ entry'.path = Item'.path /\ entry'.node = Item'.node
    BY <1>2 DEF Stamped, IsEntry
  <2>3. Goal' = "verify" => candidate'.content \in Content
    BY <1>1 DEF Reaches
  <2> QED BY <1>1, <2>1, <2>2, <2>3 DEF ReadSane
<1>5. CaptureSane'
  BY <1>1, CaptureHolds
<1>6. Lead(blocks)'
  BY <1>1, ReachesStays DEF Lead
<1> QED BY <1>4, <1>5, <1>6

LEMMA OpenFileKeeps ==
  ASSUME ControlSane, ReadSane, CaptureSane, current \in Nat,
         NEW blocks, Agree(blocks), Lead(blocks), OpenFile
  PROVE  ReadSane' /\ CaptureSane' /\ Lead(blocks)'
<1> DEFINE n == Item.node
           size == Len(disk[n].content)
           e == [Idle EXCEPT !.path = Item.path, !.node = n,
                             !.stamp = disk[n].stamp,
                             !.mtime = Seconds(disk[n].stamp), !.size = size]
<1>1. /\ pc = "open" /\ Item.kind = "file"
      /\ links' = Emplaced(links, n, Item.path)
      /\ UNCHANGED <<job, disk, at, reuse, known, buffer, entries, skipped>>
  BY DEF OpenFile, diskVars
<1>2. \/ /\ Item.path \in DOMAIN reuse /\ candidate' = reuse[Item.path] /\ entry' = e /\ pc' = "verify"
      \/ entry' = e /\ pc' = "hash"
      \/ StartReading(e, Nil)
  BY DEF OpenFile
<1>3. IsEntry(e) /\ e.path = Item.path /\ e.node = Item.node
      /\ e.stamp = disk[n].stamp /\ e.mtime = Seconds(disk[n].stamp)
  BY DEF IsEntry, Idle
<1>4. n \in DOMAIN disk
  <2>1. Goal = "open"
    BY <1>1 DEF Goal, Flushing, Finishing, Flush, Final, Draining
  <2>2. at + 1 \in 1..Len(job.items)
    BY <2>1, ItemsAre DEF ReadSane, ControlSane
  <2>3. Order[at + 1] \in DOMAIN job.items
    BY <2>2, OrderTakesAll DEF ControlSane
  <2> QED BY <1>1, <2>3, ItemsAre DEF IsOperation, Item, ControlSane, ReadSane
<1>5. Stamped(e)
  BY <1>3, <1>4 DEF Stamped, ReadSane
<1>6. \A m \in DOMAIN links' : \/ m \in DOMAIN links /\ links'[m] = links[m]
                               \/ m = e.node /\ links'[m] = e.path
  BY <1>1, <1>3 DEF Emplaced
<1> HIDE DEF e
<1>7. CASE Item.path \in DOMAIN reuse /\ candidate' = reuse[Item.path] /\ entry' = e /\ pc' = "verify"
  <2>1. Reaches(blocks, candidate'.range.first, candidate'.range.offset, candidate'.content)
    BY <1>7 DEF Lead
  <2> QED BY <1>1, <1>3, <1>5, <1>6, <1>7, <2>1, HashStarts
<1>8. CASE entry' = e /\ pc' = "hash"
  BY <1>1, <1>3, <1>5, <1>6, <1>8, HashStarts
<1>9. CASE StartReading(e, Nil)
  BY <1>1, <1>3, <1>5, <1>6, <1>9, ReadStarts
<1> QED BY <1>2, <1>7, <1>8, <1>9

LEMMA HashKeeps ==
  ASSUME ControlSane, ReadSane, CaptureSane, NEW blocks, Lead(blocks), Hash
  PROVE  ReadSane' /\ CaptureSane' /\ Lead(blocks)'
<1>1. /\ pc \in {"hash", "verify"} /\ pc' = IF pc = "hash" THEN "hashed" ELSE "verified"
      /\ hashed' \in {disk[entry.node].content, Nil}
      /\ UNCHANGED <<job, disk, at, reuse, known, links, entry, candidate, buffer, entries, skipped>>
  BY DEF Hash, diskVars
<1>2. /\ Goal = pc /\ Goal' = pc' /\ Rest' = Rest /\ Goal \in InFile /\ Goal' \in InFile
      /\ pc \notin Ending
  BY <1>1 DEF Goal, Flushing, Finishing, Flush, Final, Draining, Rest, InFile, Ending
<1>3. Item' = Item
  BY <1>1, OrderStays DEF Item
<1>4. ReadSane'
  <2>1. entry.node \in DOMAIN disk
    BY <1>2 DEF ReadSane, Stamped
  <2>2. hashed' = Nil \/ (hashed' \in Content /\ hashed' = disk[entry.node].content)
    BY <1>1, <2>1 DEF ReadSane
  <2>3. Goal' = "verified" => candidate'.content \in Content
    BY <1>1, <1>2 DEF ReadSane
  <2>4. Goal' \notin {"finish", "verify", "read"}
    BY <1>1, <1>2
  <2>5. /\ DOMAIN disk' = DOMAIN job'.disk
        /\ \A n \in DOMAIN disk' :
             /\ disk'[n].content \in Content /\ disk'[n].stamp \in Nat /\ disk'[n].stamp >= Second
             /\ disk'[n].stamp = Second => disk'[n].content = job'.disk[n]
        /\ buffer' \in Content /\ at' \in 0..Len(job'.items) /\ at' < Len(job'.items)
    BY <1>1, <1>2 DEF ReadSane
  <2>6. /\ IsEntry(entry)' /\ Stamped(entry)' /\ Item'.kind = "file"
        /\ entry'.path = Item'.path /\ entry'.node = Item'.node
    BY <1>1, <1>2, <1>3 DEF ReadSane, Stamped, IsEntry
  <2> QED BY <1>1, <2>2, <2>3, <2>4, <2>5, <2>6 DEF ReadSane
<1>5. CaptureSane'
  BY <1>1, <1>2, CaptureHolds
<1>6. Lead(blocks)'
  BY <1>1, <1>2, ReachesStays DEF Lead
<1> QED BY <1>4, <1>5, <1>6

\* The file in hand gets its entry.
LEMMA FileEnds ==
  ASSUME ControlSane, ReadSane, CaptureSane, pc \in {"hashed", "verified", "read"}, ItemDone,
         NEW blocks, Lead(blocks), UNCHANGED <<job, disk, reuse, links, buffer, skipped>>,
         NEW e, entries' = Append(entries, e), e.type = "file",
         e.path = entry.path, e.node = entry.node, e.stamp = entry.stamp,
         e.mtime = entry.mtime,
         Unmoved(entry) => e.content = disk[entry.node].content,
         Reaches(blocks, e.first, e.offset, e.content),
         \A c \in DOMAIN known' :
           \/ c \in DOMAIN known /\ known'[c] = known[c]
           \/ Reaches(blocks, known'[c].first, known'[c].offset, c)
  PROVE  ReadSane' /\ CaptureSane' /\ Lead(blocks)'
<1>1. Goal = pc /\ Goal \in InFile /\ pc \notin Ending /\ pc' = "next" /\ at' = at + 1 /\ Rest' = Rest
  BY DEF Goal, Flushing, Finishing, Flush, Final, Draining, Rest, InFile, Ending, ItemDone
<1>2. /\ at < Len(job.items) /\ Stamped(entry) /\ entry.path = Item.path /\ IsSequence(entries)
  BY <1>1 DEF ReadSane, CaptureSane
<1>3. Stamped(e) /\ (Unmoved(e) => e.content = disk[e.node].content)
  BY <1>2 DEF Stamped, Unmoved
<1>4. ReadSane' /\ CaptureSane'
  BY <1>1, <1>2, <1>3, EntryAdds
<1>5. Lead(blocks)'
  BY <1>1, <1>2, LeadAdds
<1> QED BY <1>4, <1>5

LEMMA ReuseEnds ==
  ASSUME ControlSane, ReadSane, CaptureSane, pc \in {"hashed", "verified"},
         NEW blocks, Lead(blocks), UNCHANGED <<job, disk, reuse, known, links, buffer, skipped>>,
         NEW range, ReuseRange(hashed, range), hashed # Nil,
         Reaches(blocks, range.first, range.offset, hashed)
  PROVE  ReadSane' /\ CaptureSane' /\ Lead(blocks)'
<1> DEFINE e == [path |-> entry.path, node |-> entry.node, type |-> "file", target |-> Nil,
                 stamp |-> entry.stamp, mtime |-> entry.mtime, content |-> hashed,
                 first |-> range.first, offset |-> range.offset]
<1>1. /\ entries' = Append(entries, e) /\ ItemDone
      /\ e.path = entry.path /\ e.node = entry.node /\ e.type = "file" /\ e.stamp = entry.stamp
      /\ e.mtime = entry.mtime
      /\ e.content = hashed /\ e.first = range.first /\ e.offset = range.offset
  BY DEF ReuseRange
<1> HIDE DEF e
<1>2. Goal = pc
  BY DEF Goal, Flushing, Finishing, Flush, Final, Draining
<1>3. Unmoved(entry) => hashed = disk[entry.node].content
  BY <1>2 DEF ReadSane
<1> QED BY <1>1, <1>3, FileEnds

LEMMA CoalesceKeeps ==
  ASSUME ControlSane, ReadSane, CaptureSane, current \in Nat,
         NEW blocks, Agree(blocks), Lead(blocks), Coalesce
  PROVE  ReadSane' /\ CaptureSane' /\ Lead(blocks)'
<1>1. /\ pc = "hashed" /\ UNCHANGED <<job, disk, reuse, known, links, buffer, skipped>>
  BY DEF Coalesce, diskVars
<1>2. Goal = "hashed" /\ Goal \in InFile
  BY <1>1 DEF Goal, Flushing, Finishing, Flush, Final, Draining, InFile
<1>3. /\ IsEntry(entry) /\ Stamped(entry) /\ Item.kind = "file"
      /\ entry.path = Item.path /\ entry.node = Item.node
      /\ hashed = Nil \/ (hashed \in Content /\ (Unmoved(entry) => hashed = disk[entry.node].content))
  BY <1>2 DEF ReadSane
<1>4. CASE hashed # Nil /\ hashed \in DOMAIN known /\ ReuseRange(hashed, known[hashed])
  <2>1. Reaches(blocks, known[hashed].first, known[hashed].offset, hashed)
    BY <1>4 DEF Lead
  <2> QED BY <1>1, <1>4, <2>1, ReuseEnds
<1>5. CASE \E c \in {hashed, Nil} : StartReading(entry, c) /\ UNCHANGED <<at, entries>>
  <2>1. PICK c \in {hashed, Nil} : StartReading(entry, c) /\ UNCHANGED <<at, entries>>
    BY <1>5
  <2> QED BY <1>1, <1>3, <2>1, ReadStarts
<1>6. \/ hashed # Nil /\ hashed \in DOMAIN known /\ ReuseRange(hashed, known[hashed])
      \/ StartReading(entry, IF entry.size <= SpoolLimit THEN hashed ELSE Nil)
         /\ UNCHANGED <<at, entries>>
      \/ StartReading(entry, Nil) /\ UNCHANGED <<at, entries>>
  BY DEF Coalesce
<1>7. (IF entry.size <= SpoolLimit THEN hashed ELSE Nil) \in {hashed, Nil}
  OBVIOUS
<1> QED BY <1>4, <1>5, <1>6, <1>7

LEMMA ReuseKeeps ==
  ASSUME ControlSane, ReadSane, CaptureSane, current \in Nat,
         NEW blocks, Agree(blocks), Lead(blocks), Reuse
  PROVE  ReadSane' /\ CaptureSane' /\ Lead(blocks)'
<1>1. /\ pc = "verified" /\ UNCHANGED <<job, disk, reuse, known, links, buffer, skipped>>
  BY DEF Reuse, diskVars
<1>2. Goal = "verified" /\ Goal \in InFile
  BY <1>1 DEF Goal, Flushing, Finishing, Flush, Final, Draining, InFile
<1>3. /\ IsEntry(entry) /\ Stamped(entry) /\ Item.kind = "file"
      /\ entry.path = Item.path /\ entry.node = Item.node
      /\ candidate.content \in Content
  BY <1>2 DEF ReadSane
<1>4. CASE hashed = candidate.content /\ ReuseRange(candidate.content, candidate.range)
  <2>1. Reaches(blocks, candidate.range.first, candidate.range.offset, hashed)
    BY <1>2, <1>4 DEF Lead
  <2>2. hashed # Nil /\ ReuseRange(hashed, candidate.range)
    BY <1>3, <1>4, SolidAssumption
  <2> QED BY <1>1, <2>1, <2>2, ReuseEnds
<1>5. CASE StartReading(entry, Nil) /\ UNCHANGED <<at, entries>>
  BY <1>1, <1>3, <1>5, ReadStarts
<1> QED BY <1>4, <1>5 DEF Reuse

\* What is read next.
LEMMA InputIs ==
  ASSUME ReadSane, pc = "read"
  PROVE  /\ Input \in Content /\ taken \in Content
         /\ Len(Input) \in Nat /\ Len(taken) \in Nat
         /\ \A i \in 1..Len(Input) : Input[i] \in Slice
         /\ Unmoved(entry) => Input = disk[entry.node].content
         /\ Goal = "read" /\ Goal \in InFile
<1>1. Goal = "read" /\ Goal \in InFile
  BY DEF Goal, Flushing, Finishing, Flush, Final, Draining, InFile
<1>2. /\ entry.node \in DOMAIN disk /\ taken \in Content
      /\ hashed = Nil \/ (hashed \in Content /\ (Unmoved(entry) => hashed = disk[entry.node].content))
  BY <1>1 DEF ReadSane, Stamped
<1>3. /\ Input \in Content
      /\ Unmoved(entry) => Input = disk[entry.node].content
  BY <1>2 DEF ReadSane, Input
<1>4. /\ Len(Input) \in Nat /\ Len(taken) \in Nat
      /\ \A i \in 1..Len(Input) : Input[i] \in Slice
  BY <1>2, <1>3, LenProperties DEF Content
<1> QED BY <1>1, <1>2, <1>3, <1>4

LEMMA ReadSliceKeeps ==
  ASSUME ControlSane, ReadSane, CaptureSane,
         NEW blocks, Agree(blocks), Lead(blocks), ReadSlice
  PROVE  ReadSane' /\ CaptureSane' /\ Lead(blocks)'
<1> DEFINE x == Input[Len(taken) + 1]
<1>1. /\ pc = "read" /\ Len(taken) < Len(Input) /\ taken' = Append(taken, x)
      /\ buffer' = Append(buffer, x) /\ pc' \in {"read", "drain"} /\ (pc' = "drain" => resume' = "read")
      /\ UNCHANGED <<job, disk, at, reuse, known, links, entry, candidate, hashed, entries, skipped>>
  BY DEF ReadSlice, diskVars
<1>2. /\ Goal' = "read" /\ Rest = buffer /\ Rest' = buffer' /\ pc \notin Ending
  BY <1>1 DEF Goal, Flushing, Finishing, Flush, Final, Draining, Rest, Ending
<1>3. /\ Goal = "read" /\ Goal \in InFile /\ Goal' \in InFile /\ taken \in Content
      /\ Len(taken) \in Nat /\ Len(Input) \in Nat /\ x \in Slice
      /\ Unmoved(entry) => Input = disk[entry.node].content
  BY <1>1, <1>2, InputIs DEF InFile
<1>4. Item' = Item
  BY <1>1, OrderStays DEF Item
<1>5. buffer \in Content
  BY DEF ReadSane
<1>6. buffer' \in Content /\ taken' \in Content /\ Len(taken') = Len(taken) + 1
      /\ taken'[Len(taken) + 1] = x /\ \A i \in 1..Len(taken) : taken'[i] = taken[i]
  <2> HIDE DEF x
  <2> QED BY <1>1, <1>3, <1>5, AppendProperties DEF Content
<1>7. ReadSane'
  <2>1. /\ DOMAIN disk' = DOMAIN job'.disk
        /\ \A n \in DOMAIN disk' :
             /\ disk'[n].content \in Content /\ disk'[n].stamp \in Nat /\ disk'[n].stamp >= Second
             /\ disk'[n].stamp = Second => disk'[n].content = job'.disk[n]
        /\ at' \in 0..Len(job'.items) /\ at' < Len(job'.items)
    BY <1>1, <1>3 DEF ReadSane
  <2>2. /\ IsEntry(entry)' /\ Stamped(entry)' /\ Item'.kind = "file"
        /\ entry'.path = Item'.path /\ entry'.node = Item'.node
    BY <1>1, <1>3, <1>4 DEF ReadSane, Stamped, IsEntry
  <2>3. \/ hashed' = Nil
        \/ hashed' \in Content /\ (Unmoved(entry)' => hashed' = disk'[entry'.node].content)
    BY <1>1, <1>3 DEF ReadSane, Unmoved
  <2>4. Unmoved(entry)' => /\ Len(taken') <= Len(disk'[entry'.node].content)
                           /\ \A i \in 1..Len(taken') : taken'[i] = disk'[entry'.node].content[i]
    <3> SUFFICES ASSUME Unmoved(entry)
                 PROVE  /\ Len(taken') <= Len(disk[entry.node].content)
                        /\ \A i \in 1..Len(taken') : taken'[i] = disk[entry.node].content[i]
      BY <1>1 DEF Unmoved
    <3>1. Input = disk[entry.node].content
      BY <1>3
    <3>2. \A i \in 1..Len(taken) : taken[i] = Input[i]
      BY <1>3, <3>1 DEF ReadSane
    <3>3. \A i \in 1..Len(taken') : i \in 1..Len(taken) \/ i = Len(taken) + 1
      BY <1>3, <1>6
    <3>4. \A i \in 1..Len(taken') : taken'[i] = Input[i]
      BY <1>6, <3>2, <3>3
    <3>5. Len(taken') <= Len(Input)
      BY <1>1, <1>3, <1>6
    <3> QED BY <3>1, <3>4, <3>5
  <2> QED BY <1>2, <1>6, <2>1, <2>2, <2>3, <2>4 DEF ReadSane
<1>8. CaptureSane'
  BY <1>1, <1>2, <1>3, CaptureHolds
<1> HIDE DEF x
<1>9. blocks \in Seq(Content) /\ <<x>> \in Content
  BY <1>3 DEF Agree, Content
<1>10. \A first \in 1..(Len(blocks) + 1) :
         /\ BytesFrom(Append(blocks, Rest), first) \in Content
         /\ BytesFrom(Append(blocks, Rest'), first) = BytesFrom(Append(blocks, Rest), first) \o <<x>>
  <2> SUFFICES ASSUME NEW first \in 1..(Len(blocks) + 1)
               PROVE  /\ BytesFrom(Append(blocks, Rest), first) \in Content
                      /\ BytesFrom(Append(blocks, Rest'), first)
                           = BytesFrom(Append(blocks, Rest), first) \o <<x>>
    OBVIOUS
  <2> DEFINE b == BytesFrom(blocks, first)
  <2>1. b \in Content /\ BytesFrom(Append(blocks, buffer), first) = b \o buffer
    BY <1>5, <1>9, BytesAppend
  <2>2. BytesFrom(Append(blocks, buffer'), first) = b \o buffer'
    BY <1>6, <1>9, BytesAppend
  <2> HIDE DEF b
  <2>3. buffer' = buffer \o <<x>>
    BY <1>1, <1>5, AppendIsConcat DEF Content
  <2>4. b \o (buffer \o <<x>>) = (b \o buffer) \o <<x>>
    BY <1>5, <1>9, <2>1, ConcatAssociative DEF Content
  <2>5. b \o buffer \in Content
    BY <1>5, <2>1, ConcatProperties DEF Content
  <2> QED BY <1>2, <2>1, <2>2, <2>3, <2>4, <2>5
<1>11. \A first, offset, content :
         Reaches(blocks, first, offset, content) => Reaches(blocks, first, offset, content)'
  <2> SUFFICES ASSUME NEW first, NEW offset, NEW content, Reaches(blocks, first, offset, content)
               PROVE  Reaches(blocks, first, offset, content)'
    OBVIOUS
  <2>1. /\ first \in 1..(Len(blocks) + 1) /\ offset \in Nat /\ content \in Content
        /\ Reads(BytesFrom(Append(blocks, Rest), first), offset, Len(content)) = content
    BY DEF Reaches
  <2>2. /\ BytesFrom(Append(blocks, Rest), first) \in Content
        /\ BytesFrom(Append(blocks, Rest'), first) = BytesFrom(Append(blocks, Rest), first) \o <<x>>
    BY <1>10, <2>1
  <2>3. Reads(BytesFrom(Append(blocks, Rest), first) \o <<x>>, offset, Len(content)) = content
    BY <1>9, <2>1, <2>2, ReadsMore
  <2> QED BY <2>1, <2>2, <2>3 DEF Reaches
<1>12. /\ Reaches(blocks, entry.first, entry.offset, taken)'
       /\ Len(BytesFrom(Append(blocks, Rest'), entry'.first)) = entry'.offset + Len(taken')
  <2>1. /\ Reaches(blocks, entry.first, entry.offset, taken)
        /\ Len(BytesFrom(Append(blocks, Rest), entry.first)) = entry.offset + Len(taken)
    BY <1>3 DEF Lead
  <2>2. /\ entry.first \in 1..(Len(blocks) + 1) /\ entry.offset \in Nat
        /\ Reads(BytesFrom(Append(blocks, Rest), entry.first), entry.offset, Len(taken)) = taken
    BY <2>1 DEF Reaches
  <2>3. /\ BytesFrom(Append(blocks, Rest), entry.first) \in Content
        /\ BytesFrom(Append(blocks, Rest'), entry.first)
             = BytesFrom(Append(blocks, Rest), entry.first) \o <<x>>
    BY <1>10, <2>2
  <2>4. /\ Reads(BytesFrom(Append(blocks, Rest), entry.first) \o <<x>>, entry.offset,
                 Len(Append(taken, x))) = Append(taken, x)
        /\ Len(BytesFrom(Append(blocks, Rest), entry.first) \o <<x>>)
             = entry.offset + Len(Append(taken, x))
    BY <1>3, <2>1, <2>2, <2>3, ReadsNext
  <2>5. /\ Reads(BytesFrom(Append(blocks, Rest'), entry.first), entry.offset, Len(taken')) = taken'
        /\ Len(BytesFrom(Append(blocks, Rest'), entry.first)) = entry.offset + Len(taken')
    BY <1>1, <2>3, <2>4 DEF x
  <2> QED BY <1>1, <1>6, <2>2, <2>5 DEF Reaches
<1>13. Lead(blocks)'
  BY <1>1, <1>2, <1>11, <1>12 DEF Lead
<1> QED BY <1>7, <1>8, <1>13

LEMMA FinishFileKeeps ==
  ASSUME ControlSane, ReadSane, CaptureSane,
         NEW blocks, Agree(blocks), Lead(blocks), FinishFile
  PROVE  ReadSane' /\ CaptureSane' /\ Lead(blocks)'
<1> DEFINE e == [path |-> entry.path, node |-> entry.node, type |-> "file", target |-> Nil,
                 stamp |-> entry.stamp, mtime |-> entry.mtime, content |-> taken,
                 first |-> entry.first, offset |-> entry.offset]
<1>1. /\ pc = "read" /\ Len(taken) >= Len(Input) /\ ItemDone
      /\ UNCHANGED <<job, disk, reuse, links, buffer, skipped>>
      /\ entries' = Append(entries, e)
      /\ known' = Emplaced(known, taken, [first |-> entry.first, offset |-> entry.offset])
  BY DEF FinishFile, diskVars
<1>2. /\ e.path = entry.path /\ e.node = entry.node /\ e.type = "file" /\ e.stamp = entry.stamp
      /\ e.mtime = entry.mtime
      /\ e.content = taken /\ e.first = entry.first /\ e.offset = entry.offset
  OBVIOUS
<1> HIDE DEF e
<1>3. /\ Goal = "read" /\ taken \in Content /\ Input \in Content
      /\ Len(taken) \in Nat /\ Len(Input) \in Nat
      /\ Unmoved(entry) => Input = disk[entry.node].content
  BY <1>1, InputIs
<1>4. Unmoved(entry) => taken = disk[entry.node].content
  <2> SUFFICES ASSUME Unmoved(entry) PROVE taken = Input
    BY <1>3
  <2>1. Len(taken) = Len(Input) /\ \A i \in 1..Len(taken) : taken[i] = Input[i]
    BY <1>1, <1>3 DEF ReadSane
  <2> QED BY <1>3, <2>1, SeqEqual DEF Content
<1>5. Reaches(blocks, entry.first, entry.offset, taken)
  BY <1>3 DEF Lead
<1>6. \A c \in DOMAIN known' :
           \/ c \in DOMAIN known /\ known'[c] = known[c]
           \/ Reaches(blocks, known'[c].first, known'[c].offset, c)
  BY <1>1, <1>5 DEF Emplaced
<1> QED BY <1>1, <1>2, <1>4, <1>5, <1>6, FileEnds

----------------------------------------------------------------------------
(* Files change.                                                           *)

\* What was read with a stamp that still stands has not changed.
LEMMA ChangeMoves ==
  ASSUME ControlSane, ReadSane, Change
  PROVE  /\ DOMAIN disk' = DOMAIN disk
         /\ \A n \in DOMAIN disk :
              /\ disk'[n].content \in Content /\ disk'[n].stamp \in Nat
              /\ disk[n].stamp \in Nat /\ disk[n].stamp >= Second
              /\ disk'[n] = disk[n] \/ disk'[n].stamp > disk[n].stamp
<1>1. PICK n \in DOMAIN disk, c \in job.contents, later \in 1..Second :
        disk' = [disk EXCEPT ![n] = [content |-> c, stamp |-> @.stamp + later]]
  BY DEF Change
<1>2. c \in Content
  BY ItemsAre DEF ControlSane, IsOperation
<1>3. disk[n].stamp \in Nat
  BY DEF ReadSane
<1> QED BY <1>1, <1>2, <1>3 DEF ReadSane

LEMMA ChangeKeeps ==
  ASSUME ControlSane, ReadSane, CaptureSane, Change
  PROVE  ReadSane' /\ CaptureSane'
<1>1. UNCHANGED <<job, pc, resume, readVars, pipeVars, workVars, progressVars>>
  BY DEF Change
<1>2. Goal' = Goal /\ Item' = Item /\ Order' = Order
  <2>1. Order' = Order
    BY <1>1, OrderStays
  <2> QED BY <1>1, <2>1 DEF Goal, Flushing, Finishing, Item, readVars, pipeVars
<1>3. /\ DOMAIN disk' = DOMAIN disk
      /\ \A n \in DOMAIN disk :
           /\ disk'[n].content \in Content /\ disk'[n].stamp \in Nat
           /\ disk[n].stamp \in Nat /\ disk[n].stamp >= Second
           /\ disk'[n] = disk[n] \/ disk'[n].stamp > disk[n].stamp
  BY ChangeMoves
<1>4. \A e : Stamped(e) => /\ Stamped(e)'
                           /\ Unmoved(e)' => Unmoved(e) /\ disk'[e.node] = disk[e.node]
  <2> SUFFICES ASSUME NEW e, Stamped(e)
               PROVE  /\ Stamped(e)'
                      /\ Unmoved(e)' => Unmoved(e) /\ disk'[e.node] = disk[e.node]
    OBVIOUS
  <2>1. /\ e.node \in DOMAIN disk /\ e.stamp \in Nat /\ Second <= e.stamp /\ Second \in Nat \ {0}
        /\ e.stamp <= disk[e.node].stamp
    BY SolidAssumption DEF Stamped
  <2>2. /\ disk[e.node].stamp \in Nat /\ disk'[e.node].stamp \in Nat
        /\ disk'[e.node] = disk[e.node] \/ disk'[e.node].stamp > disk[e.node].stamp
    BY <1>3, <2>1
  <2> QED BY <1>3, <2>1, <2>2 DEF Stamped, Unmoved
<1>5. ReadSane'
  <2>1. \A n \in DOMAIN disk' : disk'[n].stamp >= Second /\ (disk'[n].stamp = Second => disk'[n].content = job'.disk[n])
    <3> SUFFICES ASSUME NEW n \in DOMAIN disk
                 PROVE  disk'[n].stamp >= Second /\ (disk'[n].stamp = Second => disk'[n].content = job.disk[n])
      BY <1>1, <1>3
    <3> QED BY <1>3, SolidAssumption DEF ReadSane
  <2>2. Goal \in InFile => Stamped(entry) /\ entry' = entry /\ IsEntry(entry)
    BY <1>1 DEF ReadSane, readVars
  <2>3. Goal \in InFile => Stamped(entry)' /\ (Unmoved(entry)' => Unmoved(entry) /\ disk'[entry.node] = disk[entry.node])
    <3>1. CASE Goal \in InFile
      <4>1. PICK e : e = entry
        OBVIOUS
      <4>2. e' = entry' /\ Stamped(e)
        BY <2>2, <3>1, <4>1
      <4>3. Stamped(e)' /\ (Unmoved(e)' => Unmoved(e) /\ disk'[e.node] = disk[e.node])
        BY <1>4, <4>2
      <4>4. (Stamped(e)' <=> Stamped(entry)') /\ (Unmoved(e)' <=> Unmoved(entry)')
        BY <2>2, <3>1, <4>1 DEF Stamped, Unmoved
      <4> QED BY <4>1, <4>3, <4>4
    <3> QED BY <3>1
  <2>4. Goal \in {"hashed", "verified", "read"} =>
          \/ hashed = Nil
          \/ hashed \in Content /\ (Unmoved(entry)' => hashed = disk'[entry.node].content)
    BY <2>3 DEF ReadSane, InFile
  <2>5. Goal = "read" =>
          /\ taken \in Content
          /\ Unmoved(entry)' => /\ Len(taken) <= Len(disk'[entry.node].content)
                                /\ \A i \in 1..Len(taken) : taken[i] = disk'[entry.node].content[i]
    BY <2>3 DEF ReadSane, InFile
  <2>6. UNCHANGED <<job, buffer, at, entry, candidate, hashed, taken>>
    BY <1>1 DEF readVars
  <2>7. /\ DOMAIN disk' = DOMAIN job'.disk
        /\ \A n \in DOMAIN disk' : disk'[n].content \in Content /\ disk'[n].stamp \in Nat
        /\ buffer' \in Content /\ at' \in 0..Len(job'.items)
        /\ Goal' = "finish" => at' = Len(job'.items)
        /\ Goal' \in {"open"} \cup InFile => at' < Len(job'.items)
        /\ Goal' \in {"verify", "verified"} => candidate'.content \in Content
    BY <1>2, <1>3, <2>6 DEF ReadSane
  <2>8. Goal' \in InFile => /\ IsEntry(entry)' /\ Stamped(entry)' /\ Item'.kind = "file"
                            /\ entry'.path = Item'.path /\ entry'.node = Item'.node
    BY <1>2, <2>3, <2>6 DEF ReadSane, IsEntry
  <2>9. Goal' \in {"hashed", "verified", "read"} =>
          \/ hashed' = Nil
          \/ hashed' \in Content /\ (Unmoved(entry)' => hashed' = disk'[entry'.node].content)
    BY <1>2, <2>4, <2>6
  <2>10. Goal' = "read" =>
          /\ taken' \in Content
          /\ Unmoved(entry)' => /\ Len(taken') <= Len(disk'[entry'.node].content)
                                /\ \A i \in 1..Len(taken') : taken'[i] = disk'[entry'.node].content[i]
    BY <1>2, <2>5, <2>6
  <2> QED BY <2>1, <2>7, <2>8, <2>9, <2>10 DEF ReadSane
<1>6. UNCHANGED <<job, at, links, entry, entries, skipped, pc>>
  BY <1>1 DEF readVars
<1>7. \A j, p, n : StoredAt(j, p, n) <=> StoredAt(j, p, n)'
  BY <1>6 DEF StoredAt
<1>8. \A k \in DOMAIN entries' : entries'[k].type = "file" =>
        /\ Stamped(entries[k])'
        /\ Unmoved(entries[k])' => entries'[k].content = disk'[entries'[k].node].content
  <2> SUFFICES ASSUME NEW k \in DOMAIN entries, entries[k].type = "file"
               PROVE  /\ Stamped(entries[k])'
                      /\ Unmoved(entries[k])' => entries[k].content = disk'[entries[k].node].content
    BY <1>6
  <2>1. PICK e : e = entries[k]
    OBVIOUS
  <2>2. Stamped(e) /\ (Unmoved(e) => e.content = disk[e.node].content)
    BY <2>1 DEF CaptureSane
  <2>3. Stamped(e)' /\ (Unmoved(e)' => Unmoved(e) /\ disk'[e.node] = disk[e.node])
    BY <1>4, <2>2
  <2>4. (Stamped(e)' <=> Stamped(entries[k])') /\ (Unmoved(e)' <=> Unmoved(entries[k])')
    BY <1>6, <2>1 DEF Stamped, Unmoved
  <2> QED BY <2>1, <2>2, <2>3, <2>4
<1>9. \A k \in DOMAIN entries' : entries'[k].type = "hardlink" =>
        \E j \in 1..(k - 1) : StoredAt(j, entries[k].target, entries[k].node)'
  BY <1>6 DEF CaptureSane, StoredAt
<1>10. pc' \notin Ending =>
         /\ \A n \in DOMAIN links' :
              \/ \E j \in DOMAIN entries' : StoredAt(j, links[n], n)'
              \/ Goal' \in InFile /\ n = entry'.node /\ links'[n] = entry'.path
         /\ {entries'[k].path : k \in DOMAIN entries'} \cup skipped'
              = {job'.items[Order'[i]].path : i \in 1..at'}
  <2> SUFFICES ASSUME pc \notin Ending
               PROVE  /\ \A n \in DOMAIN links :
                           \/ \E j \in DOMAIN entries : StoredAt(j, links[n], n)'
                           \/ Goal \in InFile /\ n = entry.node /\ links[n] = entry.path
                      /\ {entries[k].path : k \in DOMAIN entries} \cup skipped
                           = {job.items[Order[i]].path : i \in 1..at}
    BY <1>2, <1>6
  <2>1. \A j, n : StoredAt(j, links[n], n) => StoredAt(j, links[n], n)'
    BY <1>6 DEF StoredAt
  <2> QED BY <2>1 DEF CaptureSane
<1>11. CaptureSane'
  <2>1. IsSequence(entries')
    BY <1>6 DEF CaptureSane
  <2> QED BY <1>8, <1>9, <1>10, <2>1 DEF CaptureSane
<1> QED BY <1>5, <1>11

----------------------------------------------------------------------------
(* The progress shown.                                                     *)

AllShares == [w \in Threads |-> Share(w)]

\* What a worker holds has a length.
LEMMA HeldIs ==
  ASSUME ControlSane, PipeSane, NEW blocks, Agree(blocks), NEW w \in Busy
  PROVE  /\ block[w].index \in 1..Len(blocks) /\ Len(job.base) < block[w].index
         /\ block[w].index < Ahead
         /\ block[w].content = blocks[block[w].index]
         /\ block[w].content \in Content /\ Len(block[w].content) \in Nat
<1>1. /\ Len(pending) \in Nat /\ Len(job.base) \in Nat /\ nextWrite \in Nat /\ current \in Nat
      /\ Len(job.base) < nextWrite /\ Ahead = current - Len(pending)
  BY SequenceHas, ItemsAre DEF PipeSane, ControlSane, Ahead
<1>2. block[w].index \in nextWrite..(Ahead - 1)
  BY DEF PipeSane
<1>3. block[w].index \in 1..Len(blocks) /\ Len(job.base) < block[w].index
      /\ block[w].index < Ahead
  BY <1>1, <1>2 DEF Agree
<1>4. block[w].content = blocks[block[w].index] /\ blocks \in Seq(Content)
  BY DEF Agree
<1>5. block[w].content \in Content
  BY <1>3, <1>4
<1> QED BY <1>3, <1>4, <1>5, LenProperties DEF Content

\* The shares of the workers are numbers, no less than their reports.
LEMMA SharesAre ==
  ASSUME ControlSane, PipeSane, ProgressSane, NEW blocks, Agree(blocks)
  PROVE  /\ Numbers(AllShares, Threads) /\ Numbers(ticks, Threads)
         /\ \A w \in Threads : Share(w) \in Nat /\ AllShares[w] = Share(w)
         /\ BytesScanned = finished + SumFunctionOnSet(AllShares, Threads)
         /\ SumFunctionOnSet(AllShares, Threads) \in Nat /\ scanned \in Nat
         /\ scanned <= SumFunctionOnSet(AllShares, Threads)
<1>1. IsFiniteSet(Threads)
  BY ItemsAre DEF ControlSane
<1>2. \A w \in Threads : Share(w) \in Nat /\ ticks[w] \in Nat /\ ticks[w] <= Share(w)
  <2> SUFFICES ASSUME NEW w \in Threads
               PROVE  Share(w) \in Nat /\ ticks[w] \in Nat /\ ticks[w] <= Share(w)
    OBVIOUS
  <2>1. ticks[w] \in Nat /\ ScanSane(w)
    BY DEF ProgressSane
  <2>2. CASE worker[w] \in {"subtract", "add"}
    <3>1. Len(block[w].content) \in Nat
      BY <2>2, HeldIs DEF Busy, HasBlock, Scanning
    <3>2. worker[w] = "add" => ticks[w] = 0
      BY <2>1 DEF ScanSane, Scanning
    <3>3. worker[w] = "subtract" => ticks[w] <= Len(block[w].content)
      BY <2>1 DEF ScanSane, Scanning
    <3> QED BY <2>1, <2>2, <3>1, <3>2, <3>3 DEF Share
  <2>3. CASE worker[w] \notin {"subtract", "add"}
    BY <2>1, <2>3 DEF Share
  <2> QED BY <2>2, <2>3
<1>3. \A w \in Threads : AllShares[w] = Share(w)
  BY DEF AllShares
<1>4. Numbers(AllShares, Threads) /\ Numbers(ticks, Threads)
  BY <1>1, <1>2, <1>3 DEF Numbers
<1>5. BytesScanned = finished + SumFunctionOnSet(AllShares, Threads)
  BY DEF BytesScanned, AllShares, SumFunction
<1>6. /\ SumFunctionOnSet(AllShares, Threads) \in Nat /\ SumFunctionOnSet(ticks, Threads) \in Nat
  BY <1>4, SumIsNat
<1>7. SumFunctionOnSet(ticks, Threads) <= SumFunctionOnSet(AllShares, Threads)
  BY <1>2, <1>3, <1>4, SumAtMost
<1> QED BY <1>2, <1>3, <1>4, <1>5, <1>6, <1>7 DEF ProgressSane

\* Nothing of a worker but w changes.
OthersRest(w) ==
  /\ UNCHANGED job
  /\ worker' \in [Threads -> WorkerPlaces] /\ ticks' \in [Threads -> Nat] /\ seen' \in [Threads -> Nat]
  /\ error => error'
  /\ \A v \in Threads \ {w} : /\ worker'[v] = worker[v] /\ block'[v] = block[v]
                              /\ ticks'[v] = ticks[v] /\ seen'[v] = seen[v]

\* Then the bytes scanned change by its share.
LEMMA ShareMoves ==
  ASSUME ControlSane, PipeSane, ProgressSane, NEW blocks, Agree(blocks),
         NEW w \in Threads, OthersRest(w), Share(w)' \in Nat, finished' \in Nat
  PROVE  /\ BytesScanned' = finished' + SumFunctionOnSet(AllShares, Threads) - Share(w) + Share(w)'
         /\ SumFunctionOnSet(ticks', Threads) = scanned - ticks[w] + ticks'[w]
<1>1. /\ Numbers(AllShares, Threads) /\ Numbers(ticks, Threads)
      /\ \A v \in Threads : Share(v) \in Nat /\ AllShares[v] = Share(v)
      /\ SumFunctionOnSet(AllShares, Threads) \in Nat
  BY SharesAre
<1>2. Threads' = Threads
  BY DEF OthersRest, Threads
<1>3. \A v \in Threads : AllShares'[v] = Share(v)'
  BY <1>2 DEF AllShares
<1>4. \A v \in Threads \ {w} : AllShares'[v] = AllShares[v]
  BY <1>1, <1>3 DEF Share, OthersRest
<1>5. SumFunctionOnSet(AllShares', Threads) = SumFunctionOnSet(AllShares, Threads) - AllShares[w] + AllShares'[w]
  <2>1. ChangesAt(AllShares, AllShares', Threads, w)
    BY <1>3, <1>4 DEF ChangesAt
  <2> QED BY <1>1, <2>1, SumChanges
<1>6. BytesScanned' = finished' + SumFunctionOnSet(AllShares', Threads)
  BY <1>2 DEF BytesScanned, AllShares, SumFunction
<1>7. SumFunctionOnSet(ticks', Threads) = SumFunctionOnSet(ticks, Threads) - ticks[w] + ticks'[w]
  <2>1. ChangesAt(ticks, ticks', Threads, w)
    BY DEF OthersRest, ChangesAt
  <2> QED BY <1>1, <2>1, SumChanges
<1>8. SumFunctionOnSet(AllShares', Threads) \in Nat
  <2>1. Numbers(AllShares', Threads)
    BY <1>1, <1>3, <1>4 DEF Numbers
  <2> QED BY <2>1, SumIsNat
<1>9. AllShares[w] = Share(w) /\ Share(w) \in Nat /\ AllShares'[w] = Share(w)'
  BY <1>1, <1>3
<1>10. SumFunctionOnSet(ticks, Threads) = scanned
  BY DEF ProgressSane
<1> QED BY <1>1, <1>5, <1>6, <1>7, <1>9, <1>10

\* A worker moves on: what has to be seen for the progress to stay sane.
MovesOn(w) ==
  /\ OthersRest(w) /\ Share(w)' \in Nat /\ finished' \in Nat /\ finished <= finished'
  /\ scanned' = scanned - ticks[w] + ticks'[w] /\ ScanSane(w)' /\ Shown'
  /\ \/ reported' = reported /\ finished + Share(w) <= finished' + Share(w)'
     \/ /\ reported' = Max({reported, seen[w] + scanned})
        /\ finished' = finished /\ Share(w)' = Share(w)

LEMMA ProgressMoves ==
  ASSUME ControlSane, PipeSane, ProgressSane, NEW blocks, Agree(blocks),
         NEW w \in Threads, MovesOn(w)
  PROVE  ProgressSane'
<1>0. /\ OthersRest(w) /\ Share(w)' \in Nat /\ finished' \in Nat /\ finished <= finished'
      /\ scanned' = scanned - ticks[w] + ticks'[w] /\ ScanSane(w)' /\ Shown'
      /\ \/ reported' = reported /\ finished + Share(w) <= finished' + Share(w)'
         \/ /\ reported' = Max({reported, seen[w] + scanned})
            /\ finished' = finished /\ Share(w)' = Share(w)
  BY DEF MovesOn
<1>1. /\ SumFunctionOnSet(AllShares, Threads) \in Nat /\ scanned \in Nat
      /\ scanned <= SumFunctionOnSet(AllShares, Threads) /\ Share(w) \in Nat
      /\ BytesScanned = finished + SumFunctionOnSet(AllShares, Threads)
  BY SharesAre
<1>2. /\ BytesScanned' = finished' + SumFunctionOnSet(AllShares, Threads) - Share(w) + Share(w)'
      /\ scanned' = SumFunctionOnSet(ticks', Threads)
  BY <1>0, ShareMoves
<1>3. Threads' = Threads
  BY <1>0 DEF OthersRest, Threads
<1>4. finished \in Nat /\ reported \in Nat /\ seen[w] \in Nat /\ seen[w] <= finished
      /\ reported <= BytesScanned
  BY DEF ProgressSane, ScanSane
<1>5. reported' \in Nat /\ reported' <= BytesScanned'
  <2>1. CASE reported' = reported /\ finished + Share(w) <= finished' + Share(w)'
    BY <1>0, <1>1, <1>2, <1>4, <2>1
  <2>2. CASE /\ reported' = Max({reported, seen[w] + scanned})
             /\ finished' = finished /\ Share(w)' = Share(w)
    <3>1. reported' \in {reported, seen[w] + scanned}
      <4>1. PICK m \in {reported, seen[w] + scanned} : \A y \in {reported, seen[w] + scanned} : y <= m
        BY <1>1, <1>4
      <4>2. {reported, seen[w] + scanned} \subseteq Nat
        BY <1>1, <1>4
      <4> QED BY <2>2, <4>1, <4>2, MaxIs
    <3> QED BY <1>0, <1>1, <1>2, <1>4, <2>2, <3>1
  <2> QED BY <1>0, <2>1, <2>2
<1>6. \A v \in Threads : ScanSane(v)'
  <2> SUFFICES ASSUME NEW v \in Threads, v # w PROVE ScanSane(v)'
    BY <1>0
  <2>1. /\ worker'[v] = worker[v] /\ block'[v] = block[v] /\ ticks'[v] = ticks[v] /\ seen'[v] = seen[v]
        /\ job' = job /\ (error => error') /\ seen[v] \in Nat /\ ScanSane(v)
    BY <1>0 DEF OthersRest, ProgressSane
  <2> QED BY <1>0, <1>4, <2>1 DEF ScanSane
<1> QED BY <1>0, <1>2, <1>3, <1>5, <1>6 DEF ProgressSane, OthersRest

\* Steps that change no progress.
LEMMA ProgressStays ==
  ASSUME ProgressSane, UNCHANGED <<job, worker, block, error, progressVars>>
  PROVE  ProgressSane'
<1>1. Threads' = Threads
  BY DEF Threads
<1>2. BytesScanned' = BytesScanned
  BY <1>1 DEF BytesScanned, Share, progressVars
<1> QED BY <1>1, <1>2 DEF ProgressSane, ScanSane, Shown, progressVars

LEMMA ProgressWorks ==
  ASSUME ControlSane, PipeSane, ProgressSane, NEW blocks, Agree(blocks),
         ControlSane', NEW w \in Threads, WorkerStep(w)
  PROVE  ProgressSane'
<1> USE DEF diskVars, readVars, pipeVars, workVars, progressVars
<1>0. /\ worker \in [Threads -> WorkerPlaces] /\ DOMAIN block = Threads
      /\ ticks \in [Threads -> Nat] /\ seen \in [Threads -> Nat] /\ finished \in Nat
      /\ reported \in Nat /\ scanned \in Nat /\ ScanSane(w) /\ Shown
      /\ Share(w) \in Nat /\ job' = job /\ Threads' = Threads /\ (error => error')
      /\ worker' \in [Threads -> WorkerPlaces]
  <2>1. job' = job /\ Threads' = Threads
    BY WorkFrame DEF RecordVars, Threads
  <2>2. error => error'
    BY DEF WorkerStep, WorkerChecks, WorkerNotifiesPop, Tick, PublishLoads, PublishRaises,
           Compressed, SubtractScanned, AddFinished, Emplace, WorkerNotifiesResult, WorkerFails,
           WorkerNotifiesError
  <2>3. scanned \in Nat /\ Share(w) \in Nat
    BY SharesAre
  <2> QED BY <2>1, <2>2, <2>3 DEF ControlSane, PipeSane, ProgressSane
<1>1. CASE WorkerChecks(w)
  <2>1. /\ worker[w] = "check" /\ worker'[w] \in {"check", "popped", "exited"}
        /\ UNCHANGED <<finished, scanned, reported, ticks, seen, error>>
        /\ \A v \in Threads \ {w} : worker'[v] = worker[v] /\ block'[v] = block[v]
    BY <1>0, <1>1 DEF WorkerChecks, Awake, Goes
  <2>2. OthersRest(w)
    BY <1>0, <2>1 DEF OthersRest
  <2>3. Share(w) = ticks[w] /\ Share(w)' = ticks[w] /\ ScanSane(w)'
    BY <1>0, <2>1 DEF Share, ScanSane, Scanning, Publishing
  <2>4. Shown'
    BY <1>0, <2>1 DEF Shown
  <2> QED
    <3>1. scanned' = scanned - ticks[w] + ticks'[w]
      BY <1>0, <2>1, <2>2, <2>3, <2>4
    <3>2. MovesOn(w)
      BY <1>0, <2>1, <2>2, <2>3, <2>4, <3>1 DEF MovesOn
    <3> QED BY <3>2, ProgressMoves
<1>2. CASE WorkerNotifiesPop(w) \/ WorkerNotifiesResult(w) \/ WorkerNotifiesError(w)
  <2>1. /\ worker[w] \in {"popped", "emplaced", "broken"}
        /\ worker'[w] = IF worker[w] = "popped" THEN "compress"
                        ELSE IF worker[w] = "emplaced" THEN "check" ELSE "exited"
        /\ UNCHANGED <<finished, scanned, reported, ticks, seen, error, block>>
        /\ \A v \in Threads \ {w} : worker'[v] = worker[v]
    BY <1>0, <1>2 DEF WorkerNotifiesPop, WorkerNotifiesResult, WorkerNotifiesError, Goes
  <2>2. OthersRest(w)
    BY <1>0, <2>1 DEF OthersRest
  <2>3. Share(w) = ticks[w] /\ Share(w)' = ticks[w]
    BY <1>0, <2>1 DEF Share
  <2>4. ScanSane(w)'
    <3>1. worker[w] = "popped" => Len(block[w].content) \in Nat
      BY HeldIs DEF Busy, HasBlock
    <3> QED BY <1>0, <2>1, <3>1 DEF ScanSane, Scanning, Publishing
  <2>5. Shown'
    BY <1>0, <2>1 DEF Shown
  <2> QED
    <3>1. scanned' = scanned - ticks[w] + ticks'[w]
      BY <1>0, <2>1, <2>2, <2>3, <2>4, <2>5
    <3>2. MovesOn(w)
      BY <1>0, <2>1, <2>2, <2>3, <2>4, <2>5, <3>1 DEF MovesOn
    <3> QED BY <3>2, ProgressMoves
<1>3. CASE Tick(w)
  <2>1. PICK k \in (ticks[w] + 1)..Len(block[w].content) :
          ticks' = [ticks EXCEPT ![w] = k] /\ scanned' = scanned + k - ticks[w]
    BY <1>3 DEF Tick
  <2>2. /\ worker[w] = "compress" /\ job.follow /\ worker'[w] = "publishTick"
        /\ UNCHANGED <<finished, reported, seen, error, block>>
        /\ \A v \in Threads \ {w} : worker'[v] = worker[v]
    BY <1>0, <1>3 DEF Tick, Goes
  <2>3. Len(block[w].content) \in Nat
    BY <2>2, HeldIs DEF Busy, HasBlock, Scanning
  <2>4. ticks[w] \in Nat /\ k \in Nat /\ ticks[w] < k /\ k <= Len(block[w].content)
    BY <1>0, <2>1, <2>3
  <2>5. ticks' \in [Threads -> Nat] /\ ticks'[w] = k /\ \A v \in Threads \ {w} : ticks'[v] = ticks[v]
    BY <1>0, <2>1, <2>4
  <2>6. OthersRest(w)
    BY <1>0, <2>2, <2>5 DEF OthersRest
  <2>7. Share(w) = ticks[w] /\ Share(w)' = k
    BY <2>2, <2>5 DEF Share
  <2>8. ScanSane(w)'
    BY <1>0, <2>2, <2>4, <2>5 DEF ScanSane, Scanning, Publishing
  <2>9. Shown'
    BY <1>0, <2>2 DEF Shown
  <2>10. scanned' = scanned - ticks[w] + ticks'[w] /\ finished + Share(w) <= finished' + Share(w)'
    BY <1>0, <2>1, <2>2, <2>4, <2>5, <2>7
  <2> QED
    <3>1. scanned' = scanned - ticks[w] + ticks'[w]
      BY <1>0, <2>2, <2>4, <2>6, <2>7, <2>8, <2>9, <2>10
    <3>2. MovesOn(w)
      BY <1>0, <2>2, <2>4, <2>6, <2>7, <2>8, <2>9, <2>10, <3>1 DEF MovesOn
    <3> QED BY <3>2, ProgressMoves
<1>4. CASE PublishLoads(w)
  <2>1. /\ worker[w] \in {"publishTick", "publishDone"}
        /\ worker'[w] = IF worker[w] = "publishTick" THEN "raiseTick" ELSE "raiseDone"
        /\ seen' = [seen EXCEPT ![w] = finished]
        /\ UNCHANGED <<finished, scanned, reported, ticks, error, block>>
        /\ \A v \in Threads \ {w} : worker'[v] = worker[v]
    BY <1>0, <1>4 DEF PublishLoads, Goes
  <2>2. seen' \in [Threads -> Nat] /\ seen'[w] = finished /\ \A v \in Threads \ {w} : seen'[v] = seen[v]
    BY <1>0, <2>1
  <2>3. OthersRest(w)
    BY <1>0, <2>1, <2>2 DEF OthersRest
  <2>4. Share(w) = ticks[w] /\ Share(w)' = ticks[w] /\ ScanSane(w)'
    BY <1>0, <2>1, <2>2 DEF Share, ScanSane, Scanning, Publishing
  <2>5. Shown'
    BY <1>0, <2>1, <2>2 DEF Shown
  <2> QED
    <3>1. scanned' = scanned - ticks[w] + ticks'[w]
      BY <1>0, <2>1, <2>3, <2>4, <2>5
    <3>2. MovesOn(w)
      BY <1>0, <2>1, <2>3, <2>4, <2>5, <3>1 DEF MovesOn
    <3> QED BY <3>2, ProgressMoves
<1>5. CASE PublishRaises(w)
  <2>1. /\ worker[w] \in {"raiseTick", "raiseDone"}
        /\ worker'[w] = IF worker[w] = "raiseTick" THEN "compress" ELSE "emplace"
        /\ seen' = [seen EXCEPT ![w] = 0] /\ reported' = Max({reported, seen[w] + scanned})
        /\ UNCHANGED <<finished, scanned, ticks, error, block>>
        /\ \A v \in Threads \ {w} : worker'[v] = worker[v]
    BY <1>0, <1>5 DEF PublishRaises, Goes
  <2>2. seen' \in [Threads -> Nat] /\ seen'[w] = 0 /\ \A v \in Threads \ {w} : seen'[v] = seen[v]
    BY <1>0, <2>1
  <2>3. OthersRest(w)
    BY <1>0, <2>1, <2>2 DEF OthersRest
  <2>4. Share(w) = ticks[w] /\ Share(w)' = ticks[w] /\ ScanSane(w)'
    BY <1>0, <2>1, <2>2 DEF Share, ScanSane, Scanning, Publishing
  <2>5. reported <= reported' /\ seen[w] + scanned <= reported'
    <3>1. {reported, seen[w] + scanned} \subseteq Nat
      BY <1>0
    <3>2. PICK m \in {reported, seen[w] + scanned} : \A y \in {reported, seen[w] + scanned} : y <= m
      BY <1>0
    <3> QED BY <2>1, <3>1, <3>2, MaxIs
  <2>6. reported' \in Nat
    <3>1. {reported, seen[w] + scanned} \subseteq Nat
      BY <1>0
    <3>2. PICK m \in {reported, seen[w] + scanned} : \A y \in {reported, seen[w] + scanned} : y <= m
      BY <1>0
    <3> QED BY <2>1, <3>1, <3>2, MaxIs
  <2>7. Shown'
    <3> SUFFICES ASSUME job.follow, ~error, ~(finished <= reported')
                 PROVE  \E v \in Threads : \/ worker'[v] = "publishDone"
                                           \/ worker'[v] = "raiseDone" /\ seen'[v] = finished
      BY <1>0, <2>1 DEF Shown
    <3>1. ~(finished <= reported)
      BY <1>0, <2>5, <2>6
    <3>2. seen[w] # finished
      <4>1. seen[w] \in Nat
        BY <1>0
      <4> QED BY <1>0, <2>5, <2>6, <4>1
    <3>3. PICK v \in Threads : \/ worker[v] = "publishDone"
                               \/ worker[v] = "raiseDone" /\ seen[v] = finished
      BY <1>0, <3>1 DEF Shown
    <3>4. v # w
      BY <2>1, <3>2, <3>3
    <3> QED BY <2>1, <2>2, <3>3, <3>4
  <2> QED
    <3>1. scanned' = scanned - ticks[w] + ticks'[w]
      BY <1>0, <2>1, <2>3, <2>4, <2>7
    <3>2. MovesOn(w)
      BY <1>0, <2>1, <2>3, <2>4, <2>7, <3>1 DEF MovesOn
    <3> QED BY <3>2, ProgressMoves
<1>6. CASE Compressed(w)
  <2>1. /\ worker[w] = "compress" /\ worker'[w] = IF job.follow THEN "subtract" ELSE "emplace"
        /\ UNCHANGED <<finished, scanned, reported, ticks, seen, error, block>>
        /\ \A v \in Threads \ {w} : worker'[v] = worker[v]
    BY <1>0, <1>6 DEF Compressed, Goes
  <2>2. OthersRest(w)
    BY <1>0, <2>1 DEF OthersRest
  <2>3. Len(block[w].content) \in Nat
    BY <2>1, HeldIs DEF Busy, HasBlock, Scanning
  <2>4. ticks[w] \in Nat /\ ticks[w] <= Len(block[w].content) /\ (~job.follow => ticks[w] = 0)
    BY <1>0, <2>1 DEF ScanSane, Scanning
  <2>5. Share(w) = ticks[w] /\ Share(w)' \in Nat /\ ticks[w] <= Share(w)'
    BY <1>0, <2>1, <2>3, <2>4 DEF Share
  <2>6. ScanSane(w)'
    BY <1>0, <2>1, <2>4 DEF ScanSane, Scanning, Publishing
  <2>7. Shown'
    BY <1>0, <2>1 DEF Shown
  <2> QED
    <3>1. scanned' = scanned - ticks[w] + ticks'[w]
      BY <1>0, <2>1, <2>2, <2>4, <2>5, <2>6, <2>7
    <3>2. MovesOn(w)
      BY <1>0, <2>1, <2>2, <2>4, <2>5, <2>6, <2>7, <3>1 DEF MovesOn
    <3> QED BY <3>2, ProgressMoves
<1>7. CASE SubtractScanned(w)
  <2>1. /\ worker[w] = "subtract" /\ worker'[w] = "add"
        /\ scanned' = scanned - ticks[w] /\ ticks' = [ticks EXCEPT ![w] = 0]
        /\ UNCHANGED <<finished, reported, seen, error, block>>
        /\ \A v \in Threads \ {w} : worker'[v] = worker[v]
    BY <1>0, <1>7 DEF SubtractScanned, Goes
  <2>2. ticks' \in [Threads -> Nat] /\ ticks'[w] = 0 /\ \A v \in Threads \ {w} : ticks'[v] = ticks[v]
    BY <1>0, <2>1
  <2>3. OthersRest(w)
    BY <1>0, <2>1, <2>2 DEF OthersRest
  <2>4. Share(w)' = Share(w)
    BY <2>1 DEF Share
  <2>5. ScanSane(w)'
    BY <1>0, <2>1, <2>2 DEF ScanSane, Scanning, Publishing
  <2>6. Shown'
    BY <1>0, <2>1 DEF Shown
  <2>7. ticks[w] \in Nat /\ scanned' = scanned - ticks[w] + ticks'[w]
    BY <1>0, <2>1, <2>2
  <2> QED
    <3>1. scanned' = scanned - ticks[w] + ticks'[w]
      BY <1>0, <2>1, <2>3, <2>4, <2>5, <2>6, <2>7
    <3>2. MovesOn(w)
      BY <1>0, <2>1, <2>3, <2>4, <2>5, <2>6, <2>7, <3>1 DEF MovesOn
    <3> QED BY <3>2, ProgressMoves
<1>8. CASE AddFinished(w)
  <2>1. /\ worker[w] = "add" /\ worker'[w] = "publishDone"
        /\ finished' = finished + Len(block[w].content)
        /\ UNCHANGED <<scanned, reported, ticks, seen, error, block>>
        /\ \A v \in Threads \ {w} : worker'[v] = worker[v]
    BY <1>0, <1>8 DEF AddFinished, Goes
  <2>2. OthersRest(w)
    BY <1>0, <2>1 DEF OthersRest
  <2>3. Len(block[w].content) \in Nat
    BY <2>1, HeldIs DEF Busy, HasBlock
  <2>4. ticks[w] = 0
    BY <1>0, <2>1 DEF ScanSane, Scanning
  <2>5. Share(w) = Len(block[w].content) /\ Share(w)' = 0
    BY <2>1, <2>4 DEF Share
  <2>6. finished' \in Nat /\ finished <= finished' /\ finished + Share(w) <= finished' + Share(w)'
    BY <1>0, <2>1, <2>3, <2>5
  <2>7. ScanSane(w)'
    <3>1. seen[w] \in Nat /\ seen[w] <= finished'
      BY <1>0, <2>6 DEF ScanSane
    <3> QED BY <1>0, <2>1, <2>4, <3>1 DEF ScanSane, Scanning, Publishing
  <2>8. Shown'
    BY <1>0, <2>1 DEF Shown
  <2> QED
    <3>1. scanned' = scanned - ticks[w] + ticks'[w]
      BY <1>0, <2>1, <2>2, <2>4, <2>5, <2>6, <2>7, <2>8
    <3>2. MovesOn(w)
      BY <1>0, <2>1, <2>2, <2>4, <2>5, <2>6, <2>7, <2>8, <3>1 DEF MovesOn
    <3> QED BY <3>2, ProgressMoves
<1>9. CASE Emplace(w)
  <2>1. /\ worker[w] = "emplace" /\ worker'[w] = "emplaced"
        /\ UNCHANGED <<finished, scanned, reported, ticks, seen, error>>
        /\ \A v \in Threads \ {w} : worker'[v] = worker[v] /\ block'[v] = block[v]
    BY <1>0, <1>9 DEF Emplace, Goes
  <2>2. OthersRest(w)
    BY <1>0, <2>1 DEF OthersRest
  <2>3. Share(w) = ticks[w] /\ Share(w)' = ticks[w] /\ ScanSane(w)'
    BY <1>0, <2>1 DEF Share, ScanSane, Scanning, Publishing
  <2>4. Shown'
    BY <1>0, <2>1 DEF Shown
  <2> QED
    <3>1. scanned' = scanned - ticks[w] + ticks'[w]
      BY <1>0, <2>1, <2>2, <2>3, <2>4
    <3>2. MovesOn(w)
      BY <1>0, <2>1, <2>2, <2>3, <2>4, <3>1 DEF MovesOn
    <3> QED BY <3>2, ProgressMoves
<1>10. CASE WorkerFails(w)
  <2>1. /\ worker[w] \in {"compress", "publishTick", "publishDone"} /\ worker'[w] = "broken"
        /\ error' = TRUE
        /\ UNCHANGED <<finished, scanned, reported, ticks, seen>>
        /\ \A v \in Threads \ {w} : worker'[v] = worker[v] /\ block'[v] = block[v]
    BY <1>0, <1>10 DEF WorkerFails, Goes
  <2>2. OthersRest(w)
    BY <1>0, <2>1 DEF OthersRest
  <2>3. Share(w) = ticks[w] /\ Share(w)' = ticks[w] /\ ScanSane(w)'
    BY <1>0, <2>1 DEF Share, ScanSane, Scanning, Publishing
  <2>4. Shown'
    BY <2>1 DEF Shown
  <2> QED
    <3>1. scanned' = scanned - ticks[w] + ticks'[w]
      BY <1>0, <2>1, <2>2, <2>3, <2>4
    <3>2. MovesOn(w)
      BY <1>0, <2>1, <2>2, <2>3, <2>4, <3>1 DEF MovesOn
    <3> QED BY <3>2, ProgressMoves
<1> QED BY <1>1, <1>2, <1>3, <1>4, <1>5, <1>6, <1>7, <1>8, <1>9, <1>10 DEF WorkerStep

----------------------------------------------------------------------------
(* The bytes completed are those of the blocks completed.                  *)

\* The blocks counted are among the new ones, and they have sizes.
LEMMA CountedAre ==
  ASSUME ControlSane, PipeSane, NEW blocks, Agree(blocks)
  PROVE  /\ Counted \subseteq 1..(Len(blocks) - Len(job.base)) /\ IsFiniteSet(Counted)
         /\ Ahead \in Nat /\ Len(job.base) \in Nat /\ Len(blocks) \in Nat /\ Ahead - 1 <= Len(blocks)
         /\ blocks \in Seq(Content)
         /\ \A i \in 1..(Len(blocks) - Len(job.base)) :
              /\ Len(job.base) + i \in 1..Len(blocks)
              /\ Sizes(blocks)[i] = Len(blocks[Len(job.base) + i]) /\ Sizes(blocks)[i] \in Nat
<1>1. /\ Len(pending) \in Nat /\ Len(job.base) \in Nat /\ nextWrite \in Nat /\ current \in Nat
      /\ Len(job.base) < nextWrite /\ Ahead = current - Len(pending) /\ nextWrite <= Ahead
  BY SequenceHas, ItemsAre DEF PipeSane, ControlSane, Ahead
<1>2. blocks \in Seq(Content) /\ Len(blocks) = current - 1 /\ Len(blocks) \in Nat
  BY DEF Agree
<1>3. Ahead \in Nat /\ Ahead - 1 <= Len(blocks)
  BY <1>1, <1>2
<1>4. Counted \subseteq 1..(Len(blocks) - Len(job.base))
  <2>1. Counted \subseteq 1..(Ahead - 1 - Len(job.base))
    BY DEF Counted
  <2> QED BY <1>1, <1>2, <1>3, <2>1
<1>5. IsFiniteSet(1..(Len(blocks) - Len(job.base)))
  <2>1. 1 \in Int /\ Len(blocks) - Len(job.base) \in Int
    BY <1>1, <1>2
  <2> QED BY <2>1, FS_Interval
<1>6. IsFiniteSet(Counted)
  BY <1>4, <1>5, FS_Subset
<1>7. \A i \in 1..(Len(blocks) - Len(job.base)) :
         /\ Len(job.base) + i \in 1..Len(blocks)
         /\ Sizes(blocks)[i] = Len(blocks[Len(job.base) + i]) /\ Sizes(blocks)[i] \in Nat
  <2> SUFFICES ASSUME NEW i \in 1..(Len(blocks) - Len(job.base))
               PROVE  /\ Len(job.base) + i \in 1..Len(blocks)
                      /\ Sizes(blocks)[i] = Len(blocks[Len(job.base) + i]) /\ Sizes(blocks)[i] \in Nat
    OBVIOUS
  <2>1. Len(job.base) + i \in 1..Len(blocks)
    BY <1>1, <1>2
  <2>2. blocks[Len(job.base) + i] \in Content
    BY <1>2, <2>1
  <2>3. Len(blocks[Len(job.base) + i]) \in Nat
    BY <2>2, LenProperties DEF Content
  <2> QED BY <2>1, <2>3 DEF Sizes
<1> QED BY <1>1, <1>2, <1>3, <1>4, <1>6, <1>7

LEMMA CompleteStays ==
  ASSUME NEW blocks, Complete(blocks), UNCHANGED <<job, finished>>,
         \/ error' \/ pc' \in Ending
         \/ Counted' = Counted /\ UNCHANGED error /\ (pc \in Ending => pc' \in Ending)
  PROVE  Complete(blocks)'
  BY DEF Complete, Sizes

\* A block more that no worker has taken.
LEMMA CompleteAdmits ==
  ASSUME ControlSane, PipeSane, NEW blocks, Agree(blocks), Complete(blocks), buffer \in Content,
         Admit, NEW more, more = Append(blocks, buffer)
  PROVE  Complete(more)'
<1>1. /\ UNCHANGED <<job, finished, error, worker, block>> /\ pc \notin Ending
  BY DEF Admit, diskVars, workVars, progressVars, Ending
<1>2. Ahead' = Ahead
  BY AdmitsBlock
<1>3. Counted' = Counted
  BY <1>1, <1>2 DEF Counted, Threads
<1>4. /\ Counted \subseteq 1..(Len(blocks) - Len(job.base)) /\ IsFiniteSet(Counted)
      /\ Len(job.base) \in Nat /\ Len(blocks) \in Nat /\ blocks \in Seq(Content)
      /\ \A i \in 1..(Len(blocks) - Len(job.base)) :
           /\ Len(job.base) + i \in 1..Len(blocks)
           /\ Sizes(blocks)[i] = Len(blocks[Len(job.base) + i])
  BY CountedAre
<1>5. Len(more) = Len(blocks) + 1 /\ \A i \in 1..Len(blocks) : more[i] = blocks[i]
  BY <1>4, AppendProperties
<1>6. \A i \in Counted : Sizes(more)[i] = Sizes(blocks)[i]
  <2> SUFFICES ASSUME NEW i \in Counted PROVE Sizes(more)[i] = Sizes(blocks)[i]
    OBVIOUS
  <2>1. i \in 1..(Len(blocks) - Len(job.base)) /\ i \in 1..(Len(more) - Len(job.base))
    BY <1>4, <1>5
  <2>2. Sizes(more)[i] = Len(more[Len(job.base) + i])
    BY <2>1 DEF Sizes
  <2> QED BY <1>4, <1>5, <2>1, <2>2
<1>7. SumFunctionOnSet(Sizes(more), Counted) = SumFunctionOnSet(Sizes(blocks), Counted)
  BY <1>4, <1>6, SumSame
<1>8. Sizes(more)' = Sizes(more)
  BY <1>1 DEF Sizes
<1> QED BY <1>1, <1>3, <1>7, <1>8 DEF Complete

\* Nothing changes for the blocks that are not counted.
LEMMA CountedStays ==
  ASSUME Ahead' = Ahead, UNCHANGED job,
         \A v \in Threads : /\ worker'[v] \in Uncounted <=> worker[v] \in Uncounted
                            /\ worker[v] \in Uncounted => block'[v].index = block[v].index
  PROVE  Counted' = Counted
  BY DEF Counted, Threads

LEMMA CompleteWorks ==
  ASSUME ControlSane, PipeSane, ProgressSane, NEW blocks, Agree(blocks), Complete(blocks),
         NEW w \in Threads, WorkerStep(w)
  PROVE  Complete(blocks)'
<1> USE DEF diskVars, readVars, pipeVars, workVars, progressVars
<1>0. /\ worker \in [Threads -> WorkerPlaces] /\ DOMAIN block = Threads
      /\ job' = job /\ Threads' = Threads /\ pc' = pc
  BY WorkFrame DEF RecordVars, Threads, ControlSane, PipeSane
<1>1. CASE WorkerFails(w)
  <2>1. error' /\ UNCHANGED <<job, finished>>
    BY <1>1 DEF WorkerFails
  <2> QED BY <2>1, CompleteStays
<1>2. CASE \/ WorkerNotifiesPop(w) \/ Tick(w) \/ PublishLoads(w) \/ PublishRaises(w) \/ Emplace(w)
           \/ SubtractScanned(w) \/ WorkerNotifiesResult(w) \/ WorkerNotifiesError(w)
           \/ Compressed(w) /\ job.follow
  <2>1. UNCHANGED <<pending, current, finished, error>>
    BY <1>2 DEF WorkerNotifiesPop, Tick, PublishLoads, PublishRaises, Emplace, SubtractScanned,
               WorkerNotifiesResult, WorkerNotifiesError, Compressed
  <2>2. Ahead' = Ahead
    BY <2>1 DEF Ahead
  <2>3. \A v \in Threads : /\ worker'[v] \in Uncounted <=> worker[v] \in Uncounted
                           /\ worker[v] \in Uncounted => block'[v].index = block[v].index
    <3> USE DEF Goes, Uncounted, Scanning
    <3>1. CASE WorkerNotifiesPop(w) \/ WorkerNotifiesResult(w) \/ WorkerNotifiesError(w)
      BY <1>0, <3>1 DEF WorkerNotifiesPop, WorkerNotifiesResult, WorkerNotifiesError
    <3>2. CASE Tick(w) \/ PublishLoads(w) \/ PublishRaises(w)
      BY <1>0, <3>2 DEF Tick, PublishLoads, PublishRaises
    <3>3. CASE Emplace(w)
      BY <1>0, <3>3 DEF Emplace
    <3>4. CASE SubtractScanned(w)
      BY <1>0, <3>4 DEF SubtractScanned
    <3>5. CASE Compressed(w) /\ job.follow
      BY <1>0, <3>5 DEF Compressed
    <3> QED BY <1>2, <3>1, <3>2, <3>3, <3>4, <3>5
  <2>4. Counted' = Counted
    BY <1>0, <2>2, <2>3, CountedStays
  <2> QED BY <1>0, <2>1, <2>4, CompleteStays
<1>3. CASE Compressed(w) /\ ~job.follow
  BY <1>0, <1>3 DEF Complete
<1>4. CASE WorkerChecks(w) /\ UNCHANGED pending
  <2>1. ~(~error /\ pending # <<>>)
    <3> SUFFICES ASSUME pending # <<>>, ~error PROVE FALSE
      OBVIOUS
    <3>1. pending' = Tail(pending)
      BY <1>4 DEF WorkerChecks
    <3>2. Len(Tail(pending)) = Len(pending) - 1 /\ Len(pending) \in Nat
      BY SequenceTail DEF PipeSane
    <3> QED BY <1>4, <3>1, <3>2
  <2>2. UNCHANGED <<pending, current, finished, error, block>>
    BY <1>4, <2>1 DEF WorkerChecks
  <2>3. Ahead' = Ahead
    BY <2>2 DEF Ahead
  <2>4. \A v \in Threads : worker'[v] \in Uncounted <=> worker[v] \in Uncounted
    BY <1>0, <1>4, <2>1 DEF WorkerChecks, Awake, Goes, Uncounted, Scanning
  <2>5. Counted' = Counted
    BY <1>0, <2>2, <2>3, <2>4, CountedStays
  <2> QED BY <1>0, <2>2, <2>5, CompleteStays
<1>5. CASE WorkerChecks(w) /\ ~UNCHANGED pending
  <2>1. /\ Ahead' = Ahead + 1 /\ block'[w].index = Ahead /\ worker'[w] = "popped"
        /\ \A v \in Threads : v # w => block'[v] = block[v] /\ worker'[v] = worker[v]
        /\ worker[w] = "check" /\ Ahead \in Nat /\ UNCHANGED <<error, finished>>
    BY <1>5, PopsBlock
  <2>2. Len(job.base) \in Nat
    BY ItemsAre DEF ControlSane
  <2>3. Counted' = Counted
    <3>1. ASSUME NEW i \in Counted' PROVE i \in Counted
      <4>1. i \in 1..(Ahead - Len(job.base)) /\ i # Ahead - Len(job.base)
        BY <1>0, <2>1, <2>2 DEF Counted, Uncounted
      <4>2. i \in 1..(Ahead - 1 - Len(job.base))
        BY <2>1, <2>2, <4>1
      <4>3. \A v \in Threads : worker[v] \in Uncounted => block[v].index # Len(job.base) + i
        BY <1>0, <2>1 DEF Counted, Uncounted, Scanning
      <4> QED BY <4>2, <4>3 DEF Counted
    <3>2. ASSUME NEW i \in Counted PROVE i \in Counted'
      <4>1. i \in 1..(Ahead' - 1 - Len(job.base)) /\ Len(job.base) + i # Ahead
        BY <2>1, <2>2 DEF Counted
      <4>2. \A v \in Threads : worker'[v] \in Uncounted => block'[v].index # Len(job.base) + i
        BY <2>1, <4>1 DEF Counted
      <4> QED BY <1>0, <4>1, <4>2 DEF Counted
    <3> QED BY <3>1, <3>2
  <2> QED BY <1>0, <2>1, <2>3, CompleteStays
<1>6. CASE AddFinished(w)
  <2> SUFFICES ASSUME job.follow, ~error, pc \notin Ending
               PROVE  finished' = SumFunctionOnSet(Sizes(blocks), Counted')
    <3>1. error' = error /\ Sizes(blocks)' = Sizes(blocks)
      BY <1>0, <1>6 DEF AddFinished, Sizes
    <3> QED BY <1>0, <3>1 DEF Complete
  <2> DEFINE i == block[w].index - Len(job.base)
  <2>1. /\ worker[w] = "add" /\ worker'[w] = "publishDone"
        /\ \A v \in Threads \ {w} : worker'[v] = worker[v]
        /\ UNCHANGED <<pending, current, block>>
        /\ finished' = finished + Len(block[w].content)
    BY <1>0, <1>6 DEF AddFinished, Goes
  <2>2. /\ block[w].index \in 1..Len(blocks) /\ Len(job.base) < block[w].index
        /\ block[w].index < Ahead /\ block[w].content = blocks[block[w].index]
        /\ w \in Busy
    BY <2>1, HeldIs DEF Busy, HasBlock
  <2>3. /\ Counted \subseteq 1..(Len(blocks) - Len(job.base)) /\ IsFiniteSet(Counted)
        /\ Ahead \in Nat /\ Len(job.base) \in Nat /\ Len(blocks) \in Nat
        /\ \A j \in 1..(Len(blocks) - Len(job.base)) :
             /\ Len(job.base) + j \in 1..Len(blocks)
             /\ Sizes(blocks)[j] = Len(blocks[Len(job.base) + j]) /\ Sizes(blocks)[j] \in Nat
    BY CountedAre
  <2>4. /\ i \in 1..(Len(blocks) - Len(job.base)) /\ i \in 1..(Ahead - 1 - Len(job.base))
        /\ Len(job.base) + i = block[w].index
    <3>0. Ahead \in Nat /\ Len(job.base) \in Nat /\ Len(blocks) \in Nat
      BY <2>3
    <3>1. PICK x, b, a, n : x = block[w].index /\ b = Len(job.base) /\ a = Ahead /\ n = Len(blocks)
      OBVIOUS
    <3>2. /\ x \in Nat /\ b \in Nat /\ a \in Nat /\ n \in Nat
          /\ 1 <= x /\ x <= n /\ b < x /\ x < a /\ i = x - b
      BY <2>2, <3>0, <3>1
    <3>3. x - b \in 1..(n - b) /\ x - b \in 1..(a - 1 - b) /\ b + (x - b) = x
      BY <3>2
    <3> QED BY <3>1, <3>2, <3>3
  <2> HIDE DEF i
  <2>5. Ahead' = Ahead
    BY <2>1 DEF Ahead
  <2>6. i \notin Counted
    BY <2>1, <2>4 DEF Counted, Uncounted
  <2>7. Counted' = Counted \cup {i}
    <3>1. \A v \in Threads \ {w} : worker[v] \in Uncounted => block[v].index # block[w].index
      <4>1. \A v \in Threads : worker[v] \in Uncounted => v \in Busy
        BY DEF Uncounted, Busy, HasBlock
      <4> QED BY <2>2, <4>1 DEF PipeSane
    <3>2. i \in Counted'
      BY <1>0, <2>1, <2>4, <2>5, <3>1 DEF Counted, Uncounted, Scanning
    <3>3. ASSUME NEW j \in Counted PROVE j \in Counted'
      BY <1>0, <2>1, <2>5 DEF Counted, Uncounted, Scanning
    <3>4. ASSUME NEW j \in Counted', j # i PROVE j \in Counted
      <4>1. j \in 1..(Ahead - 1 - Len(job.base))
        BY <1>0, <2>5 DEF Counted
      <4>2. block[w].index # Len(job.base) + j
        BY <2>3, <2>4, <3>4, <4>1
      <4>3. \A v \in Threads : worker[v] \in Uncounted => block[v].index # Len(job.base) + j
        BY <1>0, <2>1, <4>2 DEF Counted
      <4> QED BY <4>1, <4>3 DEF Counted
    <3> QED BY <3>2, <3>3, <3>4
  <2>8. Numbers(Sizes(blocks), Counted \cup {i})
    <3>1. IsFiniteSet(Counted \cup {i})
      BY <2>3, FS_AddElement
    <3> QED BY <2>3, <2>4, <3>1 DEF Numbers
  <2>9. SumFunctionOnSet(Sizes(blocks), Counted \cup {i})
          = SumFunctionOnSet(Sizes(blocks), Counted) + Sizes(blocks)[i]
    BY <2>6, <2>8, SumAdds
  <2>10. finished = SumFunctionOnSet(Sizes(blocks), Counted)
    BY DEF Complete
  <2>11. Sizes(blocks)[i] = Len(block[w].content)
    BY <2>2, <2>3, <2>4
  <2> QED BY <2>1, <2>7, <2>9, <2>10, <2>11
<1> QED BY <1>1, <1>2, <1>3, <1>4, <1>5, <1>6 DEF WorkerStep

----------------------------------------------------------------------------
(* The invariant.                                                          *)

LEMMA InitInv == Init => IInv
<1> SUFFICES ASSUME Init PROVE IInv
  OBVIOUS
<1> USE DEF Init
<1>1. /\ job \in Cases /\ IsOperation(job) /\ Len(job.items) \in Nat /\ Len(job.base) \in Nat
      /\ job.base \in Seq(Content) /\ IsFiniteSet(Threads) /\ DOMAIN job.base = 1..Len(job.base)
  <2>1. job \in Cases
    OBVIOUS
  <2>2. job.base \in Seq(Content)
    BY <2>1, ItemsAre DEF IsOperation
  <2> QED BY <2>1, <2>2, ItemsAre, LenProperties
<1>2. Goal = "compare" /\ ~Finishing /\ ~Flushing
  BY DEF Goal, Flushing, Finishing, Flush, Final, Draining
<1>3. ControlSane
  BY <1>1, <1>2 DEF ControlSane, Places, WorkerPlaces
<1>4. Busy = {}
  BY DEF Busy, HasBlock, Scanning, Publishing
<1>5. Ahead = Len(job.base) + 1
  BY <1>1, SequenceEmpty DEF Ahead
<1>6. /\ IsSequence(archive) /\ Len(archive) = Len(job.base) /\ DOMAIN archive = 1..Len(job.base)
      /\ \A i \in DOMAIN archive : archive[i].index = i /\ archive[i].content = job.base[i]
  <2> DEFINE R == {[index |-> i, content |-> job.base[i]] : i \in 1..Len(job.base)}
  <2>1. /\ archive = [i \in 1..Len(job.base) |-> [index |-> i, content |-> job.base[i]]]
    BY <1>1
  <2>2. archive \in Seq(R)
    BY <1>1, <2>1
  <2>3. IsSequence(archive)
    BY <2>2, SequenceIs
  <2> QED BY <1>1, <2>1, <2>3
<1>7. PipeSane
  <2>1. DOMAIN completed = {} /\ IsSequence(pending) /\ DOMAIN pending = {}
    BY SequenceEmpty
  <2>2. DOMAIN block = Threads /\ pc \notin Draining
    BY DEF Draining
  <2> QED BY <1>1, <1>4, <1>5, <1>6, <2>1, <2>2 DEF PipeSane
<1>8. ReadSane
  <2>1. /\ DOMAIN disk = DOMAIN job.disk
        /\ \A n \in DOMAIN disk :
             /\ disk[n].content \in Content /\ disk[n].stamp \in Nat /\ disk[n].stamp >= Second
             /\ disk[n].stamp = Second => disk[n].content = job.disk[n]
    BY <1>1, SolidAssumption DEF IsOperation
  <2>2. buffer \in Content /\ at \in 0..Len(job.items)
    BY <1>1 DEF Content
  <2> QED BY <1>2, <2>1, <2>2 DEF ReadSane, InFile
<1>9. CaptureSane
  <2>1. IsSequence(entries) /\ DOMAIN entries = {} /\ DOMAIN links = {} /\ 1..at = {}
    BY SequenceEmpty
  <2>2. {entries[k].path : k \in DOMAIN entries} \cup skipped = {job.items[Order[i]].path : i \in 1..at}
    BY <2>1
  <2> QED BY <2>1, <2>2 DEF CaptureSane
<1>10. ProgressSane
  <2>1. SumFunctionOnSet(ticks, Threads) = 0
    BY <1>1, SumOfZeros
  <2>2. AllShares = [w \in Threads |-> 0]
    BY DEF AllShares, Share
  <2>3. SumFunctionOnSet(AllShares, Threads) = 0
    BY <1>1, <2>2, SumOfZeros
  <2>4. BytesScanned = 0
    BY <2>3 DEF BytesScanned, AllShares, SumFunction
  <2>5. \A w \in Threads : ScanSane(w)
    BY DEF ScanSane, Scanning, Publishing
  <2> QED BY <2>1, <2>4, <2>5 DEF ProgressSane, Shown
<1>11. Agree(job.base)
  BY <1>1, <1>4, <1>6, SequenceEmpty DEF Agree, Draining
<1>12. Lead(job.base)
  BY <1>2, SequenceEmpty DEF Lead
<1>13. Complete(job.base)
  <2>1. Counted = {}
    BY <1>1, <1>5 DEF Counted
  <2> QED BY <2>1, SumOfNone DEF Complete
<1>14. StreamSane
  BY <1>11, <1>12, <1>13 DEF StreamSane
<1> QED BY <1>3, <1>7, <1>8, <1>9, <1>10, <1>14 DEF IInv

\* The reader's steps at files.
ReadStep ==
  \/ TakeItem \/ OpenPlain \/ Unreadable \/ OpenLink \/ OpenFile \/ Hash
  \/ Coalesce \/ Reuse \/ ReadSlice \/ FinishFile \/ LastItem

LEMMA ReadsKeep ==
  ASSUME IInv, ReadStep \/ Compare
  PROVE  IInv'
<1> USE DEF IInv
<1>1. PICK blocks : Agree(blocks) /\ Lead(blocks) /\ Complete(blocks)
  BY DEF StreamSane
<1>2. ControlSane'
  BY ControlReads DEF ReadStep
<1>3. UNCHANGED <<job, worker, block, error, progressVars, pending, current>>
      /\ (pc \in Ending => pc' \in Ending)
  <2> USE DEF diskVars, readVars, pipeVars, workVars, Ending
  <2>1. CASE Compare \/ TakeItem \/ OpenPlain \/ Unreadable \/ OpenLink
    BY <2>1 DEF Compare, TakeItem, OpenPlain, Unreadable, OpenLink
  <2>2. CASE OpenFile \/ Hash \/ Coalesce
    BY <2>2 DEF OpenFile, Hash, Coalesce
  <2>3. CASE Reuse \/ ReadSlice \/ FinishFile \/ LastItem
    BY <2>3 DEF Reuse, ReadSlice, FinishFile, LastItem
  <2> QED BY <2>1, <2>2, <2>3 DEF ReadStep
<1>4. PipeSane' /\ Agree(blocks)'
  <2>1. CASE ReadStep
    <3>1. PipeRests
      BY <2>1, ReadsRest DEF ReadStep
    <3> QED BY <1>1, <3>1, PipeStays
  <2>2. CASE Compare
    BY <1>1, <2>2, CompareRests
  <2> QED BY <2>1, <2>2
<1>5. ProgressSane'
  BY <1>3, ProgressStays
<1>6. Complete(blocks)'
  <2>1. Ahead' = Ahead
    BY <1>3 DEF Ahead
  <2>2. Counted' = Counted
    BY <1>3, <2>1 DEF Counted, Threads
  <2> QED BY <1>1, <1>3, <2>2, CompleteStays DEF progressVars
<1>7. ReadSane' /\ CaptureSane' /\ Lead(blocks)'
  <2>1. current \in Nat
    BY DEF PipeSane
  <2>2. CASE Compare
    BY <1>1, <2>2, CompareKeeps
  <2>3. CASE TakeItem
    BY <1>1, <2>3, TakeItemKeeps
  <2>4. CASE OpenPlain \/ Unreadable \/ OpenLink
    BY <1>1, <2>4, PlainKeeps
  <2>5. CASE OpenFile
    BY <1>1, <2>1, <2>5, OpenFileKeeps
  <2>6. CASE Hash
    BY <1>1, <2>6, HashKeeps
  <2>7. CASE Coalesce
    BY <1>1, <2>1, <2>7, CoalesceKeeps
  <2>8. CASE Reuse
    BY <1>1, <2>1, <2>8, ReuseKeeps
  <2>9. CASE ReadSlice
    BY <1>1, <2>9, ReadSliceKeeps
  <2>10. CASE FinishFile
    BY <1>1, <2>10, FinishFileKeeps
  <2>11. CASE LastItem
    BY <1>1, <2>11, LastItemKeeps
  <2> QED BY <2>2, <2>3, <2>4, <2>5, <2>6, <2>7, <2>8, <2>9, <2>10, <2>11 DEF ReadStep
<1>8. StreamSane'
  BY <1>4, <1>6, <1>7 DEF StreamSane
<1> QED BY <1>2, <1>4, <1>5, <1>7, <1>8

LEMMA FlushesKeep ==
  ASSUME IInv, FlushStep
  PROVE  IInv'
<1> USE DEF IInv
<1>1. PICK blocks : Agree(blocks) /\ Lead(blocks) /\ Complete(blocks)
  BY DEF StreamSane
<1>2. ControlSane'
  BY ControlFlushes DEF FlushStep
<1>3. /\ UNCHANGED RecordVars /\ UNCHANGED disk /\ GoalStays /\ buffer' \in {buffer, <<>>}
      /\ Admit \/ Rest' = Rest
  BY FlushFrame
<1>4. buffer \in Content /\ buffer' \in Content
  <2>1. buffer \in Content
    BY DEF ReadSane
  <2>2. <<>> \in Content
    BY DEF Content
  <2> QED BY <1>3, <2>1, <2>2
<1>5. ReadSane' /\ CaptureSane'
  BY <1>3, <1>4, RecordsStay
<1>6. UNCHANGED <<job, worker, block, error, progressVars>>
  <2> USE DEF diskVars, workVars, pipeVars
  <2>1. CASE TakeCompleted \/ NotifyTaken \/ WriteBlock \/ NothingCompleted \/ Admit
    BY <2>1 DEF TakeCompleted, NotifyTaken, WriteBlock, NothingCompleted, Admit
  <2>2. CASE NotifyAdmitted \/ TakeSpare \/ Wait \/ RethrowError \/ Finish
    BY <2>2 DEF NotifyAdmitted, TakeSpare, Wait, RethrowError, Finish
  <2>3. CASE NotifyFinished \/ Settled \/ ReaderThrows \/ StopPipeline \/ NotifyStopped \/ Join
    BY <2>3 DEF NotifyFinished, Settled, ReaderThrows, StopPipeline, NotifyStopped, Join
  <2> QED BY <2>1, <2>2, <2>3 DEF FlushStep
<1>7. ProgressSane'
  BY <1>6, ProgressStays
<1>8. PipeSane' /\ StreamSane'
  <2>1. CASE Admit
    <3>1. PICK more : more = Append(blocks, buffer)
      OBVIOUS
    <3>2. PipeSane' /\ Agree(more)'
      BY <1>1, <1>4, <2>1, <3>1, AdmitsBlock
    <3>3. Complete(more)'
      BY <1>1, <1>4, <2>1, <3>1, CompleteAdmits
    <3>4. Rest = buffer /\ Rest' = <<>> /\ blocks \in Seq(Content)
      BY <1>1, <2>1 DEF Admit, Rest, Agree
    <3>5. Lead(more)'
      BY <1>1, <1>3, <1>4, <3>1, <3>4, LeadAdmits
    <3> QED BY <3>2, <3>3, <3>5 DEF StreamSane
  <2>2. CASE ~Admit
    <3>1. Len(blocks) \in Nat
      BY <1>1 DEF Agree
    <3>2. Lead(blocks)'
      BY <1>1, <1>3, <2>2, <3>1, LeadKeeps
    <3>3. PipeSane' /\ Agree(blocks)'
      <4>1. CASE TakeCompleted
        BY <1>1, <4>1, TakesBlock
      <4>2. CASE WriteBlock
        BY <1>1, <4>2, WritesBlock
      <4>3. CASE ~TakeCompleted /\ ~WriteBlock
        <5>1. PipeRests
          BY <2>2, <4>3, FlushesRest DEF FlushStep
        <5> QED BY <1>1, <5>1, PipeStays
      <4> QED BY <4>1, <4>2, <4>3
    <3>4. Complete(blocks)'
      <4>1. CASE StopPipeline
        <5>1. pc' \in Ending
          BY <4>1 DEF StopPipeline, Ending
        <5> QED BY <1>1, <1>6, <5>1, CompleteStays DEF progressVars
      <4>2. CASE ~StopPipeline
        <5>1. UNCHANGED <<pending, current>>
          <6> USE DEF pipeVars
          <6>1. CASE TakeCompleted \/ NotifyTaken \/ WriteBlock \/ NothingCompleted
            BY <6>1 DEF TakeCompleted, NotifyTaken, WriteBlock, NothingCompleted
          <6>2. CASE NotifyAdmitted \/ TakeSpare \/ Wait \/ RethrowError \/ Finish
            BY <6>2 DEF NotifyAdmitted, TakeSpare, Wait, RethrowError, Finish
          <6>3. CASE NotifyFinished \/ Settled \/ ReaderThrows \/ NotifyStopped \/ Join
            BY <6>3 DEF NotifyFinished, Settled, ReaderThrows, NotifyStopped, Join
          <6> QED BY <2>2, <4>2, <6>1, <6>2, <6>3 DEF FlushStep
        <5>2. Counted' = Counted
          BY <1>6, <5>1 DEF Counted, Threads, Ahead
        <5> QED BY <1>1, <1>3, <1>6, <5>2, CompleteStays DEF progressVars, GoalStays
      <4> QED BY <4>1, <4>2
    <3> QED BY <3>2, <3>3, <3>4 DEF StreamSane
  <2> QED BY <2>1, <2>2
<1> QED BY <1>2, <1>5, <1>7, <1>8

LEMMA WorksKeep ==
  ASSUME IInv, NEW w \in Threads, WorkerStep(w)
  PROVE  IInv'
<1> USE DEF IInv
<1>1. PICK blocks : Agree(blocks) /\ Lead(blocks) /\ Complete(blocks)
  BY DEF StreamSane
<1>2. ControlSane'
  BY ControlWorks
<1>3. /\ UNCHANGED RecordVars
      /\ UNCHANGED <<disk, buffer, pc, resume, writing, archive, current, nextWrite, inflight>>
  BY WorkFrame
<1>4. GoalStays /\ Rest' = Rest
  BY <1>3, WorkStays
<1>5. ReadSane' /\ CaptureSane'
  <2>1. buffer' \in Content
    BY <1>3 DEF ReadSane
  <2> QED BY <1>3, <1>4, <2>1, RecordsStay
<1>6. PipeSane' /\ Agree(blocks)'
  <2>1. CASE Emplace(w)
    BY <1>1, <2>1, EmplacesBlock
  <2>2. CASE WorkerChecks(w) /\ ~UNCHANGED pending
    BY <1>1, <2>2, PopsBlock
  <2>3. CASE ~Emplace(w) /\ ~(WorkerChecks(w) /\ ~UNCHANGED pending)
    <3>1. PipeRests
      BY <2>3, WorksRest DEF WorkerStep
    <3> QED BY <1>1, <3>1, PipeStays
  <2> QED BY <2>1, <2>2, <2>3
<1>7. ProgressSane'
  BY <1>1, <1>2, ProgressWorks
<1>8. Complete(blocks)'
  BY <1>1, CompleteWorks
<1>9. Lead(blocks)'
  <2>1. Len(blocks) \in Nat
    BY <1>1 DEF Agree, PipeSane
  <2> QED BY <1>1, <1>3, <1>4, <2>1, LeadKeeps
<1>10. StreamSane'
  BY <1>6, <1>8, <1>9 DEF StreamSane
<1> QED BY <1>2, <1>5, <1>6, <1>7, <1>10

\* Steps of nobody but those who change files.
LEMMA OthersKeep ==
  ASSUME ControlSane, PipeSane, ProgressSane, StreamSane,
         UNCHANGED <<job, pc, resume, readVars, pipeVars, workVars, progressVars>>
  PROVE  ControlSane' /\ PipeSane' /\ ProgressSane' /\ StreamSane'
<1> USE DEF readVars, pipeVars, workVars
<1>1. /\ Flushing' = Flushing /\ Finishing' = Finishing /\ Goal' = Goal /\ Rest' = Rest
      /\ Threads' = Threads /\ Ahead' = Ahead /\ Busy' = Busy
  BY DEF Flushing, Finishing, Goal, Rest, Threads, Ahead, Busy
<1>2. ControlSane'
  BY <1>1 DEF ControlSane
<1>3. PipeSane'
  BY <1>1 DEF PipeSane
<1>4. ProgressSane'
  BY ProgressStays
<1>5. StreamSane'
  <2>1. PICK blocks : Agree(blocks) /\ Lead(blocks) /\ Complete(blocks)
    BY DEF StreamSane
  <2>2. Agree(blocks)'
    BY <1>1, <2>1 DEF Agree
  <2>3. Lead(blocks)'
    BY <1>1, <2>1, ReachesStays DEF Lead
  <2>4. Complete(blocks)'
    <3>1. Counted' = Counted
      BY <1>1 DEF Counted
    <3> QED BY <2>1, <3>1 DEF Complete, Sizes, progressVars
  <2> QED BY <2>2, <2>3, <2>4 DEF StreamSane
<1> QED BY <1>2, <1>3, <1>4, <1>5

LEMMA StepInv == IInv /\ [Next]_vars => IInv'
<1> SUFFICES ASSUME IInv, [Next]_vars PROVE IInv'
  OBVIOUS
<1>1. CASE Change
  <2>1. UNCHANGED <<job, pc, resume, readVars, pipeVars, workVars, progressVars>>
    BY <1>1 DEF Change
  <2> QED BY <1>1, <2>1, ChangeKeeps, OthersKeep DEF IInv
<1>2. CASE ReaderStep
  <2>1. CASE ReadStep \/ Compare
    BY <2>1, ReadsKeep
  <2>2. CASE FlushStep
    BY <2>2, FlushesKeep
  <2> QED BY <1>2, <2>1, <2>2 DEF ReaderStep, ReadStep, FlushStep
<1>3. CASE \E w \in Threads : WorkerStep(w)
  BY <1>3, WorksKeep
<1>4. CASE Terminated \/ UNCHANGED vars
  <2>1. /\ UNCHANGED <<job, pc, resume, readVars, pipeVars, workVars, progressVars>>
        /\ UNCHANGED disk
    BY <1>4 DEF Terminated, vars, diskVars
  <2>2. ControlSane' /\ PipeSane' /\ ProgressSane' /\ StreamSane'
    BY <2>1, OthersKeep DEF IInv
  <2>3. Goal' = Goal /\ Order' = Order /\ Item' = Item
    <3>1. Order' = Order
      BY <2>1, OrderStays
    <3> QED BY <2>1, <3>1 DEF Goal, Flushing, Finishing, Item, readVars, pipeVars
  <2>4. UNCHANGED RecordVars /\ GoalStays /\ buffer' \in Content
    BY <2>1, <2>3 DEF RecordVars, readVars, GoalStays, IInv, ReadSane
  <2>5. ReadSane' /\ CaptureSane'
    BY <2>1, <2>4, RecordsStay DEF IInv
  <2> QED BY <2>2, <2>5 DEF IInv
<1> QED BY <1>1, <1>2, <1>3, <1>4 DEF Next

\* The archive, the queues and the records of the reader agree at every step.
THEOREM SolidInvariance == Spec => []IInv
<1>1. Init => IInv
  BY InitInv
<1>2. IInv /\ [Next]_vars => IInv'
  BY StepInv
<1> QED BY <1>1, <1>2, PTL DEF Spec

----------------------------------------------------------------------------
(* What the invariant says of an operation that completes.                 *)

\* The reader is at the end, every block is written.
LEMMA AtTheEnd ==
  ASSUME IInv, pc = "complete"
  PROVE  /\ at = Len(job.items) /\ Goal = "finish" /\ Rest = <<>> /\ Busy = {}
         /\ Len(archive) = current - 1 /\ ~error /\ pc \notin Ending
         /\ \A w \in Threads : worker[w] = "exited"
         /\ DOMAIN archive = 1..Len(archive) /\ Len(archive) \in Nat
<1> USE DEF IInv
<1>1. Finishing /\ ~Flushing /\ pc \notin Draining /\ pc \notin Ending
      /\ pc \notin {"admitted", "swap"}
  BY DEF Finishing, Flushing, Final, Flush, Draining, Ending
<1>2. Goal = "finish"
  BY <1>1 DEF Goal
<1>3. at = Len(job.items)
  BY <1>2 DEF ReadSane
<1>4. Rest = <<>>
  BY <1>1 DEF Rest, ControlSane
<1>5. inflight = 0 /\ ~error /\ \A w \in Threads : worker[w] = "exited"
  BY DEF ControlSane
<1>6. Busy = {}
  BY <1>5, NobodyBusy
<1>7. Len(archive) = current - 1
  BY <1>1, <1>5 DEF PipeSane
<1>8. DOMAIN archive = 1..Len(archive) /\ Len(archive) \in Nat
  BY SequenceHas DEF PipeSane
<1> QED BY <1>1, <1>2, <1>3, <1>4, <1>5, <1>6, <1>7, <1>8

\* A range on record is then found in the archive.
LEMMA FoundStored ==
  ASSUME IInv, pc = "complete", NEW blocks, Agree(blocks),
         NEW first, NEW offset, NEW content, Reaches(blocks, first, offset, content)
  PROVE  Stored(first, offset, Len(content)) = content
<1>1. /\ Rest = <<>> /\ Len(archive) = current - 1
      /\ DOMAIN archive = 1..Len(archive) /\ Len(archive) \in Nat
  BY AtTheEnd
<1>2. blocks \in Seq(Content) /\ Len(blocks) = current - 1
      /\ \A i \in DOMAIN archive : archive[i].content = blocks[i]
  BY DEF Agree
<1>3. [i \in DOMAIN archive |-> archive[i].content] = blocks
  <2>1. DOMAIN blocks = 1..Len(archive) /\ blocks = [i \in DOMAIN blocks |-> blocks[i]]
    BY <1>1, <1>2
  <2> QED BY <1>1, <1>2, <2>1
<1>4. first \in 1..(Len(blocks) + 1)
      /\ Reads(BytesFrom(Append(blocks, <<>>), first), offset, Len(content)) = content
  BY <1>1 DEF Reaches
<1>5. BytesFrom(Append(blocks, <<>>), first) = BytesFrom(blocks, first)
  <2>1. <<>> \in Content
    BY DEF Content
  <2>2. /\ BytesFrom(blocks, first) \in Content
        /\ BytesFrom(Append(blocks, <<>>), first) = BytesFrom(blocks, first) \o <<>>
    BY <1>2, <1>4, <2>1, BytesAppend
  <2> HIDE DEF Content
  <2>3. BytesFrom(blocks, first) \o <<>> = BytesFrom(blocks, first)
    BY <2>2, ConcatEmptySeq DEF Content
  <2> QED BY <2>2, <2>3
<1> QED BY <1>3, <1>4, <1>5 DEF Stored

LEMMA InvRestores == IInv => EntriesRestore
<1> SUFFICES ASSUME IInv, pc = "complete" PROVE EntriesRestore
  BY DEF EntriesRestore
<1>1. PICK blocks : Agree(blocks) /\ Lead(blocks)
  BY DEF IInv, StreamSane
<1>2. /\ at = Len(job.items) /\ pc \notin Ending
      /\ job \in Cases
  BY AtTheEnd DEF IInv, ControlSane
<1>3. \A i \in DOMAIN archive : archive[i].index = i
  BY DEF IInv, PipeSane
<1>4. {e.path : e \in Range(entries)} \cup skipped = {it.path : it \in Range(job.items)}
  <2>1. {entries[k].path : k \in DOMAIN entries} \cup skipped
          = {job.items[Order[i]].path : i \in 1..Len(job.items)}
    BY <1>2 DEF IInv, CaptureSane
  <2>2. {e.path : e \in Range(entries)} = {entries[k].path : k \in DOMAIN entries}
    BY DEF Range
  <2>3. {job.items[Order[i]].path : i \in 1..Len(job.items)} = {job.items[i].path : i \in DOMAIN job.items}
    <3>1. /\ \A k \in 1..Len(job.items) : Order[k] \in DOMAIN job.items
          /\ \A i \in DOMAIN job.items : \E k \in 1..Len(job.items) : Order[k] = i
      BY <1>2, OrderTakesAll
    <3> QED BY <3>1
  <2>4. {it.path : it \in Range(job.items)} = {job.items[i].path : i \in DOMAIN job.items}
    BY DEF Range
  <2> QED BY <2>1, <2>2, <2>3, <2>4
<1>5. ASSUME NEW k \in DOMAIN entries, entries[k].type = "file"
      PROVE  /\ Stored(entries[k].first, entries[k].offset, Len(entries[k].content)) = entries[k].content
             /\ disk[entries[k].node].stamp = Second => entries[k].content = job.disk[entries[k].node]
  <2>1. Reaches(blocks, entries[k].first, entries[k].offset, entries[k].content)
    BY <1>1, <1>5 DEF Lead
  <2>2. Stored(entries[k].first, entries[k].offset, Len(entries[k].content)) = entries[k].content
    BY <1>1, <2>1, FoundStored
  <2>3. /\ entries[k].node \in DOMAIN disk
        /\ entries[k].stamp \in Nat /\ Second <= entries[k].stamp /\ Second \in Nat \ {0}
        /\ entries[k].stamp <= disk[entries[k].node].stamp
        /\ Unmoved(entries[k]) => entries[k].content = disk[entries[k].node].content
    BY <1>5, SolidAssumption DEF IInv, CaptureSane, Stamped
  <2>4. ASSUME disk[entries[k].node].stamp = Second
        PROVE  entries[k].content = job.disk[entries[k].node]
    <3>1. Unmoved(entries[k])
      BY <2>3, <2>4 DEF Unmoved
    <3>2. disk[entries[k].node].content = job.disk[entries[k].node]
      BY <2>3, <2>4 DEF IInv, ReadSane
    <3> QED BY <2>3, <3>1, <3>2
  <2> QED BY <2>2, <2>4
<1>6. ASSUME NEW k \in DOMAIN entries, entries[k].type = "hardlink"
      PROVE  \E j \in 1..(k - 1) : /\ entries[j].type = "file"
                                   /\ entries[j].path = entries[k].target
                                   /\ entries[j].node = entries[k].node
  BY <1>6 DEF IInv, CaptureSane, StoredAt
<1> QED BY <1>3, <1>4, <1>5, <1>6 DEF EntriesRestore

\* A later stamp is not in an earlier second.
LEMMA SecondsGrow ==
  ASSUME NEW a \in Nat, NEW b \in Nat, a <= b
  PROVE  Seconds(a) \in Nat /\ Seconds(b) \in Nat /\ Seconds(a) <= Seconds(b)
<1>1. Second \in Nat /\ Second > 0
  BY SolidAssumption
<1> QED BY <1>1 DEF Seconds

LEMMA InvVisible == IInv => ChangeStaysVisible
<1> SUFFICES ASSUME IInv, NEW k \in DOMAIN entries, entries[k].type = "file",
                    entries[k].content # disk[entries[k].node].content
             PROVE  LET now == disk[entries[k].node]
                    IN  /\ now.stamp > entries[k].stamp
                        /\ \/ Seconds(now.stamp) > entries[k].mtime
                           \/ Seconds(now.stamp) = Seconds(entries[k].stamp)
  BY DEF ChangeStaysVisible, Files, Range
<1>1. /\ entries[k].node \in DOMAIN disk
      /\ entries[k].stamp \in Nat /\ entries[k].stamp <= disk[entries[k].node].stamp
      /\ disk[entries[k].node].stamp # entries[k].stamp
      /\ entries[k].mtime = Seconds(entries[k].stamp)
  BY DEF IInv, CaptureSane, Stamped, Unmoved
<1>2. disk[entries[k].node].stamp \in Nat
  BY <1>1 DEF IInv, ReadSane
<1>3. PICK a, b : a = entries[k].stamp /\ b = disk[entries[k].node].stamp
  OBVIOUS
<1>4. Seconds(a) \in Nat /\ Seconds(b) \in Nat /\ Seconds(a) <= Seconds(b)
  BY <1>1, <1>2, <1>3, SecondsGrow
<1> QED BY <1>1, <1>2, <1>3, <1>4

\* All that was scanned is then shown, and it is what the new blocks hold.
LEMMA InvHonest == IInv => ProgressHonest
<1> SUFFICES ASSUME IInv PROVE ProgressHonest
  OBVIOUS
<1> DEFINE Lengths == [i \in 1..NewBlocks |-> Len(archive[Len(job.base) + i].content)]
<1>1. reported <= BytesScanned
  BY DEF IInv, ProgressSane
<1>2. ASSUME pc = "complete", job.follow
      PROVE  reported = SumFunction(Lengths)
  <2>1. PICK blocks : Agree(blocks) /\ Complete(blocks)
    BY DEF IInv, StreamSane
  <2>2. /\ Busy = {} /\ Len(archive) = current - 1 /\ ~error /\ pc \notin Ending
        /\ \A w \in Threads : worker[w] = "exited"
        /\ DOMAIN archive = 1..Len(archive) /\ Len(archive) \in Nat
    BY <1>2, AtTheEnd
  <2>3. /\ Counted \subseteq 1..(Len(blocks) - Len(job.base)) /\ Ahead \in Nat
        /\ Len(job.base) \in Nat /\ Len(blocks) \in Nat
        /\ \A i \in 1..(Len(blocks) - Len(job.base)) :
             Len(job.base) + i \in 1..Len(blocks) /\ Sizes(blocks)[i] = Len(blocks[Len(job.base) + i])
    BY <2>1, CountedAre DEF IInv
  <2>4. Len(blocks) = Len(archive) /\ NewBlocks = Len(blocks) - Len(job.base)
        /\ \A i \in DOMAIN archive : archive[i].content = blocks[i]
    BY <2>1, <2>2 DEF Agree, NewBlocks
  <2>5. Counted = 1..NewBlocks
    <3>1. Ahead - 1 = Len(blocks)
      <4>1. inflight = 0 /\ current \in Nat /\ nextWrite \in Nat /\ inflight = current - nextWrite
            /\ nextWrite <= Ahead /\ IsSequence(pending)
        BY <1>2 DEF IInv, ControlSane, PipeSane
      <4>2. Len(pending) \in Nat
        BY <4>1, SequenceHas
      <4> QED BY <2>2, <2>4, <4>1, <4>2 DEF Ahead
    <3>2. \A w \in Threads : worker[w] \notin Uncounted
      BY <2>2 DEF Uncounted, Scanning
    <3> QED BY <2>4, <3>1, <3>2 DEF Counted
  <2>6. Sizes(blocks) = Lengths
    BY <2>2, <2>3, <2>4 DEF Sizes
  <2>7. finished = SumFunction(Lengths)
    <3>1. finished = SumFunctionOnSet(Sizes(blocks), Counted)
      BY <1>2, <2>1, <2>2 DEF Complete
    <3>2. DOMAIN Lengths = 1..NewBlocks
      OBVIOUS
    <3> QED BY <2>5, <2>6, <3>1, <3>2 DEF SumFunction
  <2>8. finished <= reported
    BY <1>2, <2>2 DEF IInv, ProgressSane, Shown
  <2>9. BytesScanned = finished
    <3>1. \A w \in Threads : AllShares[w] = 0
      BY <2>2 DEF AllShares, Share, IInv, ProgressSane, ScanSane, Scanning
    <3>2. SumFunctionOnSet(AllShares, Threads) = 0
      BY <3>1, ItemsAre, SumOfZeros DEF IInv, ControlSane
    <3>3. BytesScanned = finished + SumFunctionOnSet(AllShares, Threads)
      BY DEF BytesScanned, AllShares, SumFunction
    <3> QED BY <3>2, <3>3 DEF IInv, ProgressSane
  <2> QED BY <1>1, <2>7, <2>8, <2>9 DEF IInv, ProgressSane
<1> QED BY <1>1, <1>2 DEF ProgressHonest

\* An operation that completes has an entry for every item it did not skip, and
\* every entry leads to its bytes.
THEOREM RestoresEntries == Spec => []EntriesRestore
  BY SolidInvariance, InvRestores, PTL

\* A change that the capture missed or tore has left a later time on its file.
THEOREM ShowsChanges == Spec => []ChangeStaysVisible
  BY SolidInvariance, InvVisible, PTL

\* The progress shown is never ahead of the bytes scanned, and it arrives.
THEOREM HonestProgress == Spec => []ProgressHonest
  BY SolidInvariance, InvHonest, PTL

----------------------------------------------------------------------------
(* The limits.                                                             *)

LEMMA IntervalsSame ==
  ASSUME NEW m \in Nat, NEW n \in Nat, 1..m = 1..n
  PROVE  m = n
<1>1. CASE m < n
  BY <1>1, n \in 1..n, n \notin 1..m
<1>2. CASE n < m
  BY <1>2, m \in 1..m, m \notin 1..n
<1> QED BY <1>1, <1>2

LimitsAre == MaxInflight \in Nat /\ inflight \in Nat

LEMMA InFlightIs == IInv => LimitsAre
<1> SUFFICES ASSUME IInv PROVE LimitsAre
  OBVIOUS
<1>1. MaxInflight \in Nat
  BY ItemsAre, FS_CardinalityType DEF IInv, ControlSane, MaxInflight
<1>2. Len(pending) \in Nat
  BY SequenceHas DEF IInv, PipeSane
<1> QED BY <1>1, <1>2 DEF IInv, PipeSane, Ahead, LimitsAre

\* The blocks in flight and the spare buffers keep to their limit, only threads
\* of the operation sleep, and the archive it extends stays.
Bounded ==
  /\ inflight <= MaxInflight
  /\ spares \in 0..MaxInflight
  /\ asleep \subseteq Threads \cup {Reader}
  /\ done \in BOOLEAN
  /\ Len(job.base) <= Len(archive)

LEMMA StepBounded ==
  ASSUME IInv, IInv', Bounded, [Next]_vars
  PROVE  Bounded'
<1>1. /\ MaxInflight \in Nat /\ inflight \in Nat /\ inflight' \in Nat
  <2>1. IInv' => LimitsAre'
    BY InFlightIs, PTL
  <2> QED BY <2>1, InFlightIs DEF LimitsAre
<1>2. UNCHANGED job => Threads' = Threads /\ MaxInflight' = MaxInflight
  BY DEF Threads, MaxInflight
<1> USE DEF Bounded, diskVars, readVars, pipeVars, workVars, progressVars
<1>3. CASE Change
  BY <1>2, <1>3 DEF Change
<1>4. CASE ReaderStep
  <2>1. CASE Compare \/ TakeItem \/ OpenPlain \/ Unreadable \/ OpenLink
    BY <1>2, <2>1 DEF Compare, TakeItem, OpenPlain, Unreadable, OpenLink
  <2>2. CASE OpenFile \/ Hash \/ Coalesce
    BY <1>2, <2>2 DEF OpenFile, Hash, Coalesce
  <2>3. CASE Reuse \/ ReadSlice \/ FinishFile \/ LastItem
    BY <1>2, <2>3 DEF Reuse, ReadSlice, FinishFile, LastItem
  <2>4. CASE TakeCompleted
    BY <1>1, <1>2, <2>4 DEF TakeCompleted
  <2>10. CASE WriteBlock
    <3>1. /\ UNCHANGED <<job, inflight, spares, asleep, done>>
          /\ archive' = Append(archive, [index |-> writing.index, content |-> writing.content])
      BY <2>10 DEF WriteBlock
    <3>2. Len(archive') = Len(archive) + 1 /\ Len(archive) \in Nat /\ Len(job.base) \in Nat
      BY <3>1, SequenceAppends, SequenceHas, ItemsAre DEF IInv, PipeSane, ControlSane
    <3>3. Len(job.base) <= Len(archive')
      BY <3>2
    <3> QED BY <1>2, <3>1, <3>3
  <2>5. CASE NotifyTaken \/ NothingCompleted \/ NotifyAdmitted \/ Wait
    BY <1>2, <2>5 DEF NotifyTaken, NotifyAll, NothingCompleted, NotifyAdmitted, Wait
  <2>6. CASE Admit
    BY <1>1, <1>2, <2>6 DEF Admit, Full
  <2>7. CASE TakeSpare
    BY <1>1, <1>2, <2>7 DEF TakeSpare
  <2>8. CASE RethrowError \/ Finish \/ NotifyFinished \/ Settled
    BY <1>2, <2>8 DEF RethrowError, Finish, NotifyFinished, NotifyAll, Settled
  <2>9. CASE ReaderThrows \/ StopPipeline \/ NotifyStopped \/ Join
    BY <1>2, <2>9 DEF ReaderThrows, StopPipeline, NotifyStopped, NotifyAll, Join
  <2> QED BY <1>4, <2>1, <2>2, <2>3, <2>4, <2>5, <2>6, <2>7, <2>8, <2>9, <2>10 DEF ReaderStep
<1>5. ASSUME NEW w \in Threads, WorkerStep(w) PROVE Bounded'
  <2>1. CASE Compressed(w)
    BY <1>1, <1>2, <2>1 DEF Compressed
  <2>2. CASE WorkerChecks(w)
    BY <1>2, <2>2 DEF WorkerChecks
  <2>3. CASE \/ WorkerNotifiesPop(w) \/ Tick(w) \/ PublishLoads(w)
             \/ PublishRaises(w) \/ SubtractScanned(w) \/ AddFinished(w)
    BY <1>2, <2>3 DEF WorkerNotifiesPop, NotifyAll, Tick, PublishLoads, PublishRaises,
                      SubtractScanned, AddFinished
  <2>4. CASE \/ Emplace(w) \/ WorkerNotifiesResult(w) \/ WorkerFails(w) \/ WorkerNotifiesError(w)
    BY <1>2, <2>4 DEF Emplace, WorkerNotifiesResult, NotifyAll, WorkerFails, WorkerNotifiesError
  <2> QED BY <1>5, <2>1, <2>2, <2>3, <2>4 DEF WorkerStep
<1>6. CASE Terminated \/ UNCHANGED vars
  BY <1>2, <1>6 DEF Terminated, vars
<1> QED BY <1>3, <1>4, <1>5, <1>6 DEF Next

THEOREM SolidBounds == Spec => []Bounded
<1>1. Init => Bounded
  <2> SUFFICES ASSUME Init PROVE Bounded
    OBVIOUS
  <2>1. job \in Cases /\ archive = [i \in DOMAIN job.base |-> [index |-> i, content |-> job.base[i]]]
    BY DEF Init
  <2>2. MaxInflight \in Nat
    BY <2>1, ItemsAre, FS_CardinalityType DEF MaxInflight
  <2>3. job.base \in Seq(Content) /\ DOMAIN job.base = 1..Len(job.base) /\ Len(job.base) \in Nat
    BY <2>1, ItemsAre DEF IsOperation
  <2>4. Len(archive) = Len(job.base)
    <3>1. archive = [i \in 1..Len(job.base) |-> [index |-> i, content |-> job.base[i]]]
      BY <2>1, <2>3
    <3> DEFINE R == {[index |-> i, content |-> job.base[i]] : i \in 1..Len(job.base)}
    <3>2. archive \in Seq(R)
      BY <2>3, <3>1
    <3>3. IsSequence(archive)
      BY <3>2, SequenceIs
    <3>4. Len(archive) \in Nat /\ DOMAIN archive = 1..Len(archive) /\ DOMAIN archive = 1..Len(job.base)
      BY <3>1, <3>3, SequenceHas
    <3> QED BY <2>3, <3>4, IntervalsSame
  <2>5. inflight = 0 /\ spares = 0 /\ asleep = {} /\ done = FALSE
    BY DEF Init
  <2>6. inflight <= MaxInflight /\ spares \in 0..MaxInflight
    BY <2>2, <2>5
  <2>7. Len(job.base) <= Len(archive)
    BY <2>3, <2>4
  <2>8. asleep \subseteq Threads \cup {Reader} /\ done \in BOOLEAN
    BY <2>5
  <2> QED BY <2>6, <2>7, <2>8 DEF Bounded
<1>2. IInv /\ IInv' /\ Bounded /\ [Next]_vars => Bounded'
  BY StepBounded
<1> QED BY <1>1, <1>2, SolidInvariance, PTL DEF Spec

\* Every variable stays in its range, the queue of blocks in flight within the
\* limit that flush_block waits for.
THEOREM SolidTypes == Spec => []TypeOK
<1>1. IInv /\ Bounded => TypeOK
  <2> SUFFICES ASSUME IInv, Bounded PROVE TypeOK
    OBVIOUS
  <2>1. PICK blocks : Agree(blocks)
    BY DEF IInv, StreamSane
  <2>2. scanned \in Nat
    BY <2>1, SharesAre DEF IInv
  <2>3. Len(pending) \in Nat /\ Len(job.base) \in Nat /\ MaxInflight \in Nat
    BY SequenceHas, ItemsAre, FS_CardinalityType DEF IInv, PipeSane, ControlSane, MaxInflight
  <2>4. inflight \in 0..MaxInflight /\ nextWrite \in 1..current
    BY <2>3 DEF IInv, PipeSane, Ahead, Bounded
  <2>5. /\ job \in Cases /\ error \in BOOLEAN /\ at \in 0..Len(job.items)
        /\ finished \in Nat /\ reported \in Nat
    BY DEF IInv, ControlSane, ReadSane, ProgressSane
  <2> QED BY <2>2, <2>4, <2>5 DEF TypeOK, Bounded
<1> QED BY <1>1, SolidInvariance, SolidBounds, PTL

----------------------------------------------------------------------------
(* The pipeline implements the serial writer: flush_block accepts, every   *)
(* write is the next one, the operation completes only when nothing is     *)
(* outstanding; all other steps stutter.                                   *)

Output == [i \in 1..NewBlocks |-> archive[Len(job.base) + i].index - Len(job.base)]

\* The blocks written are those handed over, in that order.
LEMMA OutputIs ==
  ASSUME IInv, Bounded
  PROVE  /\ Len(job.base) \in Nat /\ current \in Nat /\ NewBlocks \in Nat
         /\ Output = [i \in 1..NewBlocks |-> i] /\ Len(Output) = NewBlocks
         /\ NewBlocks <= current - 1 - Len(job.base)
<1>1. PICK blocks : Agree(blocks)
  BY DEF IInv, StreamSane
<1>2. /\ Len(job.base) \in Nat /\ Len(archive) \in Nat /\ DOMAIN archive = 1..Len(archive)
      /\ Len(pending) \in Nat
  BY ItemsAre, SequenceHas DEF IInv, ControlSane, PipeSane
<1>3. /\ current \in Nat /\ nextWrite \in Nat /\ Len(job.base) < nextWrite /\ nextWrite <= current
      /\ Len(archive) \in (nextWrite - 2)..(nextWrite - 1)
      /\ \A i \in DOMAIN archive : archive[i].index = i
      /\ pc \in Draining => writing.index = nextWrite - 1
  BY <1>2 DEF IInv, PipeSane, Ahead
<1>4. Len(job.base) <= Len(archive)
  BY DEF Bounded
<1>5. NewBlocks \in Nat /\ NewBlocks <= current - 1 - Len(job.base)
  BY <1>2, <1>3, <1>4 DEF NewBlocks
<1>6. Output = [i \in 1..NewBlocks |-> i]
  BY <1>2, <1>3, <1>5 DEF Output, NewBlocks
<1> QED BY <1>2, <1>3, <1>5, <1>6

Numbered == NewBlocks \in Nat /\ Output = [i \in 1..NewBlocks |-> i]

LEMMA OutputNumbered == IInv /\ Bounded => Numbered
  BY OutputIs DEF Numbered

OutputStays ==
  \/ UNCHANGED <<job, current, archive>> /\ Outcome' = Outcome
  \/ UNCHANGED <<job, current, archive>> /\ Outcome = "open" /\ Outcome' = "failed"

\* Every step of the pipeline is one of the serial writer, or one it does not show.
LEMMA OutputMoves ==
  ASSUME IInv, Bounded, IInv', Bounded', [Next]_vars
  PROVE  [Serial!SerialNext]_(Serial!serialVars)
<1>1. /\ Len(job.base) \in Nat /\ current \in Nat /\ NewBlocks \in Nat
      /\ Output = [i \in 1..NewBlocks |-> i] /\ Len(Output) = NewBlocks
      /\ NewBlocks <= current - 1 - Len(job.base)
  BY OutputIs
<1>2. /\ NewBlocks' \in Nat /\ Output' = [i \in 1..NewBlocks' |-> i]
  <2>1. (IInv /\ Bounded)' => Numbered'
    BY OutputNumbered, PTL
  <2> QED BY <2>1 DEF Numbered
<1>3. CASE OutputStays
  <2>1. UNCHANGED <<current - 1 - Len(job.base), Output>>
    BY <1>3 DEF OutputStays, Output, NewBlocks
  <2> QED BY <1>3, <2>1 DEF OutputStays, Output, Serial!SerialNext, Serial!Fail, Serial!serialVars
<1>4. CASE Admit
  <2>1. UNCHANGED <<job, archive>> /\ current' = current + 1 /\ Outcome = "open" /\ Outcome' = "open"
    BY <1>4 DEF Admit, Outcome, diskVars
  <2>2. Output' = Output /\ current' - 1 - Len(job'.base) = current - 1 - Len(job.base) + 1
    BY <1>1, <2>1 DEF Output, NewBlocks
  <2> QED BY <2>1, <2>2 DEF Output, Serial!SerialNext, Serial!Accept
<1>5. CASE WriteBlock
  <2>1. /\ UNCHANGED <<job, current>> /\ pc = "write" /\ Outcome = "open" /\ Outcome' = "open"
        /\ archive' = Append(archive, [index |-> writing.index, content |-> writing.content])
    BY <1>5 DEF WriteBlock, Outcome, diskVars
  <2>2. /\ Len(archive') = Len(archive) + 1 /\ Len(archive) = nextWrite - 2
        /\ nextWrite <= current /\ nextWrite \in Nat
    <3>1. Len(pending) \in Nat /\ IsSequence(archive)
      BY SequenceHas DEF IInv, PipeSane
    <3> QED BY <2>1, <3>1, SequenceAppends DEF IInv, PipeSane, Ahead, Draining, Ending
  <2>3. NewBlocks' = NewBlocks + 1 /\ Len(Output) < current - 1 - Len(job.base)
    <3>1. PICK base : base = Len(job.base)
      OBVIOUS
    <3>2. NewBlocks = Len(archive) - base /\ NewBlocks' = Len(archive') - base
      BY <2>1, <3>1 DEF NewBlocks
    <3>3. base \in Nat /\ current \in Nat /\ Len(Output) = NewBlocks
      BY <1>1, <3>1
    <3>4. NewBlocks' = NewBlocks + 1 /\ NewBlocks < current - 1 - base
      BY <2>2, <3>2, <3>3
    <3> QED BY <3>1, <3>3, <3>4
  <2>4. Output' = Append(Output, Len(Output) + 1)
    <3>1. Output' = [i \in 1..(NewBlocks + 1) |-> i]
      BY <1>2, <2>3
    <3>2. Append(Output, NewBlocks + 1) = [i \in 1..(NewBlocks + 1) |-> i]
      BY <1>1
    <3> QED BY <1>1, <3>1, <3>2
  <2> QED BY <2>1, <2>3, <2>4 DEF Output, Serial!SerialNext, Serial!WriteNext
<1>6. CASE Settled
  <2>1. UNCHANGED <<job, current, archive>> /\ Outcome = "open" /\ Outcome' = "complete"
        /\ pc = "settle" /\ inflight = 0
    BY <1>6 DEF Settled, Outcome, diskVars, pipeVars
  <2>2. Len(archive) = nextWrite - 1 /\ current = nextWrite
    BY <1>1, <2>1 DEF IInv, PipeSane, Draining, Ending
  <2>3. Len(Output) = current - 1 - Len(job.base) /\ Output' = Output
    BY <1>1, <2>1, <2>2 DEF NewBlocks, Output
  <2> QED BY <2>1, <2>3 DEF Output, Serial!SerialNext, Serial!Complete
<1>7. CASE ~OutputStays
  <2> USE DEF diskVars, readVars, pipeVars, workVars, progressVars, OutputStays, Outcome
  <2>1. CASE Change \/ Compare \/ TakeItem \/ OpenPlain \/ Unreadable \/ OpenLink
    BY <1>7, <2>1 DEF Change, Compare, TakeItem, OpenPlain, Unreadable, OpenLink, ItemDone
  <2>2. CASE OpenFile \/ Hash \/ Coalesce
    BY <1>7, <2>2 DEF OpenFile, Hash, Coalesce, StartReading, ReuseRange, ItemDone
  <2>3. CASE Reuse \/ ReadSlice \/ FinishFile \/ LastItem
    BY <1>7, <2>3 DEF Reuse, ReadSlice, FinishFile, LastItem, StartReading, ReuseRange, ItemDone
  <2>4. CASE TakeCompleted \/ NotifyTaken \/ NothingCompleted \/ NotifyAdmitted \/ Wait
    BY <1>7, <2>4 DEF TakeCompleted, NotifyTaken, NotifyAll, NothingCompleted, NotifyAdmitted, Wait
  <2>5. CASE TakeSpare
    <3>1. resume \notin {"join", "complete"} \cup Ending
      BY DEF IInv, ControlSane, Ending
    <3> QED BY <1>7, <2>5, <3>1 DEF TakeSpare, Ending
  <2>6. CASE RethrowError \/ Finish \/ NotifyFinished
    BY <1>7, <2>6 DEF RethrowError, Finish, NotifyFinished, NotifyAll
  <2>7. CASE ReaderThrows \/ StopPipeline \/ NotifyStopped \/ Join
    BY <1>7, <2>7 DEF ReaderThrows, StopPipeline, NotifyStopped, NotifyAll, Join
  <2>8. ASSUME NEW w \in Threads, WorkerStep(w) PROVE FALSE
    BY <1>7, <2>8, WorkFrame DEF RecordVars
  <2>9. CASE Terminated \/ UNCHANGED vars
    BY <1>7, <2>9 DEF Terminated, vars
  <2> QED BY <1>4, <1>5, <1>6, <2>1, <2>2, <2>3, <2>4, <2>5, <2>6, <2>7, <2>8, <2>9 DEF Next, ReaderStep
<1> QED BY <1>3, <1>7

\* Whatever the workers' speed and failures, and whatever happens to the files,
\* blocks are written once, in the order they were filled, and an operation
\* completes only if all were.
THEOREM ImplementsSerial == Spec => ImplementsSerialWriter
<1>1. Init => Serial!SerialInit
  <2> SUFFICES ASSUME Init PROVE Serial!SerialInit
    OBVIOUS
  <2>1. /\ job \in Cases /\ current = Len(job.base) + 1 /\ Outcome = "open"
        /\ archive = [i \in DOMAIN job.base |-> [index |-> i, content |-> job.base[i]]]
    BY DEF Init, Outcome
  <2>2. job.base \in Seq(Content) /\ DOMAIN job.base = 1..Len(job.base) /\ Len(job.base) \in Nat
    BY <2>1, ItemsAre DEF IsOperation
  <2>3. NewBlocks = 0 /\ current - 1 - Len(job.base) = 0
    BY <2>1, <2>2 DEF NewBlocks
  <2>4. Output = <<>>
    BY <2>3 DEF Output
  <2> QED BY <2>1, <2>3, <2>4 DEF Serial!SerialInit, Output
<1>2. IInv /\ Bounded /\ (IInv /\ Bounded)' /\ [Next]_vars => [Serial!SerialNext]_(Serial!serialVars)
  BY OutputMoves
<1> QED BY <1>1, <1>2, SolidInvariance, SolidBounds, PTL
        DEF Spec, ImplementsSerialWriter, Serial!SerialSpec
=============================================================================
