------------------------ MODULE ChunkedEntries_proofs ------------------------
(***************************************************************************)
(* Proofs about OrderedBlockEncoder, for any set of worker threads, any    *)
(* number and size of blocks and any budget: its invariants, and that it   *)
(* implements SerialBlockWriter.  Then about ChunkedEntries, which drives  *)
(* it, for any archive, any trees and any payload sizes: what a capture    *)
(* returns restores its input, and is the directory of a serial writer.    *)
(***************************************************************************)
EXTENDS ChunkedEntries, NumberSets, FiniteSetTheorems, SequenceTheorems, TLAPS

----------------------------------------------------------------------------
(* The encoder.                                                            *)

\* Exactly the threads that encode hold a block.
Encoding == \A w \in threads : worker[w] = "encode" <=> job[w] # 0

\* Without threads nothing is ever in flight and nothing fails late.
SerialPath ==
  /\ threads = {} => /\ inflightCount = 0
                     /\ ~failure
                     /\ caller \notin {"drain", "write", "wait", "queued",
                                       "notifyWork"}
  /\ caller = "inline" => threads = {} /\ LastAdmitted = nextSubmit - 2
  /\ Returned => inflightCount = 0

\* The admitted blocks not yet taken are the last Len(pending) of them, in
\* order; the others are each in one place at most.
LastTaken == LastAdmitted - Len(pending)

QueueInOrder ==
  /\ nextWrite - 1 <= LastTaken
  /\ \A i \in 1..Len(pending) : pending[i] = LastTaken + i

Placed ==
  /\ done \subseteq nextWrite..LastTaken
  /\ \A w \in threads :
       job[w] # 0 => job[w] \in nextWrite..LastTaken /\ job[w] \notin done
  /\ \A v, w \in threads : job[v] = job[w] /\ job[v] # 0 => v = w
  /\ caller = "write" => /\ nextWrite <= LastTaken
                         /\ nextWrite \notin done
                         /\ \A w \in threads : job[w] # nextWrite

\* And until a failure, in exactly one place.
Covered ==
  ~failure /\ ~stopping =>
    \A b \in nextWrite..LastTaken :
      \/ b \in done
      \/ \E w \in threads : job[w] = b
      \/ caller = "write" /\ b = nextWrite

\* The inductive invariant.
IInv == /\ TypeOK /\ AccountsExact /\ Encoding /\ SerialPath
        /\ QueueInOrder /\ Placed /\ Covered
        /\ BudgetRespected /\ WrittenInOrder /\ NoSilentFailure

----------------------------------------------------------------------------
(* Lemmas about the constants and the accounts.                            *)

\* The spare list always has room for a positive number of buffers.
LEMMA SparesType == ASSUME threads \subseteq Worker PROVE MaxSpares \in Nat \ {0}
<1>1. IsFiniteSet(threads)
  BY EncoderAssumption, FS_Subset DEF EncoderAssumption
<1>2. Cardinality(threads) \in Nat /\ (threads # {} => Cardinality(threads) # 0)
  BY <1>1, FS_CardinalityType, FS_EmptySet
<1> QED BY <1>2 DEF MaxSpares

\* A block's charge is positive, and positions are natural numbers in order.
LEMMA Positions ==
  /\ \A i \in 0..NumBlocks : Position[i] \in Nat
  /\ \A i, j \in 0..NumBlocks : i <= j => Position[i] <= Position[j]
  /\ \A b \in Block : Charge(b) \in Nat \ {0}
  BY EncoderAssumption DEF EncoderAssumption, Block, Charge

\* Every index the accounts mention is one a position exists for.
LEMMA Indices ==
  ASSUME TypeOK, AccountsExact, QueueInOrder
  PROVE  /\ LastAdmitted \in 0..NumBlocks
         /\ LastTaken \in 0..NumBlocks
         /\ nextWrite - 1 \in 0..LastTaken
         /\ Len(pending) \in 0..inflightCount
         /\ LastTaken <= LastAdmitted
  BY EncoderAssumption, SMTT(30)
  DEF EncoderAssumption, TypeOK, AccountsExact, QueueInOrder, LastAdmitted,
      LastTaken, Block

----------------------------------------------------------------------------
(* The invariant holds initially and is preserved by every step.           *)

\* A constructed encoder, with any number of threads, satisfies the invariant.
LEMMA InitInvariant == Init => IInv
<1> SUFFICES ASSUME Init PROVE IInv
  OBVIOUS
<1>1. MaxSpares \in Nat \ {0}
  BY SparesType DEF Init
<1>2. TypeOK
  <2>1. <<>> \in Seq(Block) /\ Len(<<>>) = 0
    OBVIOUS
  <2>2. 1 \in 1..(NumBlocks + 1) /\ 0 \in 0..NumBlocks /\ 0 \in 0..MaxSpares
    BY <1>1, EncoderAssumption DEF EncoderAssumption
  <2> QED BY <2>1, <2>2 DEF Init, TypeOK
<1>3. LastAdmitted = 0 /\ LastTaken = 0 /\ Len(pending) = 0
  <2>1. pending = <<>> /\ nextWrite = 1 /\ inflightCount = 0
    BY DEF Init
  <2>2. Len(pending) = 0
    BY <2>1
  <2>3. LastAdmitted = 0
    BY <2>1 DEF LastAdmitted
  <2> QED BY <2>2, <2>3 DEF LastTaken
<1>4. AccountsExact /\ BudgetRespected
  BY <1>3, EncoderAssumption
  DEF EncoderAssumption, Init, AccountsExact, BudgetRespected
<1>5. Encoding /\ SerialPath /\ QueueInOrder /\ Placed /\ Covered
  BY <1>3 DEF Init, Encoding, SerialPath, QueueInOrder, Placed, Covered, Returned
<1>6. WrittenInOrder /\ NoSilentFailure
  BY DEF Init, WrittenInOrder, NoSilentFailure
<1> QED
  BY <1>2, <1>4, <1>5, <1>6 DEF IInv

\* Every critical section, notification and return of the caller and of the
\* workers preserves the invariant.
LEMMA InductiveInvariant == IInv /\ [Next]_vars => IInv'
<1> SUFFICES ASSUME IInv, [Next]_vars PROVE IInv'
  OBVIOUS
<1>0. /\ MaxSpares \in Nat \ {0} /\ NumBlocks \in Nat
      /\ nextWrite \in 1..(NumBlocks + 1) /\ inflightCount \in Nat
  BY SparesType, EncoderAssumption DEF EncoderAssumption, IInv, TypeOK
<1>i. /\ LastAdmitted \in 0..NumBlocks
      /\ LastTaken \in 0..NumBlocks
      /\ nextWrite - 1 \in 0..LastTaken
      /\ Len(pending) \in 0..inflightCount
      /\ LastTaken <= LastAdmitted
  BY Indices DEF IInv
<1> USE DEF IInv, callerVars, workerVars, sharedVars, Block
<1>1. CASE WriteBlock
  <2>1. /\ nextWrite' - 1 = nextWrite /\ inflightCount' = inflightCount - 1
        /\ nextWrite \in 1..LastTaken /\ inflightCount \in Nat \ {0}
        /\ nextWrite' \in 1..(NumBlocks + 1)
    BY <1>0, <1>1, <1>i DEF WriteBlock, TypeOK, Placed, LastTaken, LastAdmitted
  <2>2. LastAdmitted' = LastAdmitted /\ LastTaken' = LastTaken
    BY <1>1, <2>1 DEF WriteBlock, TypeOK, LastTaken, LastAdmitted
  <2>3. WrittenInOrder' /\ written' \in Seq(Block)
    BY <1>1, <1>i, <1>0, <2>1 DEF WriteBlock, TypeOK, WrittenInOrder
  <2>4. inflightBytes' = Position[LastAdmitted'] - Position[nextWrite' - 1]
    <3>1. inflightBytes = Position[LastAdmitted] - Position[nextWrite - 1]
      BY DEF AccountsExact
    <3>2. inflightBytes' = inflightBytes - (Position[nextWrite] - Position[nextWrite - 1])
      BY <1>1 DEF WriteBlock, Charge
    <3>3. /\ Position[LastAdmitted] \in Nat
          /\ Position[nextWrite - 1] \in Nat /\ Position[nextWrite] \in Nat
      BY <1>0, <1>i, <2>1, Positions
    <3>4. Position[LastAdmitted'] = Position[LastAdmitted]
          /\ Position[nextWrite' - 1] = Position[nextWrite]
      BY <2>1, <2>2
    <3> QED BY <3>1, <3>2, <3>3, <3>4
  <2>5. inflightBytes' \in Nat /\ inflightBytes' <= inflightBytes
    <3>1. Position[nextWrite] <= Position[LastAdmitted]
      BY <1>0, <1>i, <2>1, Positions
    <3>2. Position[nextWrite] \in Nat /\ Position[LastAdmitted] \in Nat
      BY <1>0, <1>i, <2>1, Positions
    <3>3. inflightBytes' = inflightBytes - Charge(nextWrite)
          /\ Charge(nextWrite) \in Nat /\ inflightBytes \in Nat
      BY <1>0, <1>1, <1>i, <2>1, Positions DEF WriteBlock, TypeOK
    <3>4. inflightBytes' = Position[LastAdmitted] - Position[nextWrite]
      BY <2>1, <2>2, <2>4
    <3> QED BY <3>1, <3>2, <3>3, <3>4
  <2>6. TypeOK'
    BY <1>1, <2>1, <2>3, <2>5 DEF WriteBlock, TypeOK, MaxSpares
  <2>7. AccountsExact'
    BY <1>1, <2>2, <2>4 DEF WriteBlock, AccountsExact
  <2>8. QueueInOrder'
    BY <1>1, <2>1, <2>2 DEF WriteBlock, QueueInOrder
  <2>9. Placed'
    BY <1>0, <1>1, <1>i, <2>1, <2>2 DEF WriteBlock, TypeOK, Placed
  <2>10. Covered'
    BY <1>0, <1>1, <1>i, <2>1, <2>2 DEF WriteBlock, TypeOK, Covered
  <2>11. BudgetRespected'
    <3>1. CASE inflightCount = 1
      <4>1. LastAdmitted' = nextWrite' - 1
        BY <2>1, <3>1 DEF LastAdmitted
      <4>2. inflightBytes' = 0
        BY <1>i, <2>2, <2>4, <4>1, Positions
      <4> QED BY <4>2, EncoderAssumption DEF EncoderAssumption, BudgetRespected
    <3>2. CASE inflightCount # 1
      BY <2>5, <3>2, EncoderAssumption
      DEF EncoderAssumption, BudgetRespected, TypeOK
    <3> QED BY <3>1, <3>2
  <2>12. Encoding' /\ SerialPath' /\ NoSilentFailure'
    BY <1>1 DEF WriteBlock, Encoding, SerialPath, NoSilentFailure, Returned
  <2> QED BY <2>3, <2>6, <2>7, <2>8, <2>9, <2>10, <2>11, <2>12
<1>2. CASE Enqueue
  <2> DEFINE b == nextSubmit - 1
  <2>1. b = LastAdmitted + 1 /\ b \in 1..NumBlocks
    BY <1>0, <1>2, <1>i DEF Enqueue, NothingReady, AccountsExact, TypeOK
  <2> HIDE DEF b
  <2>2. /\ inflightBytes' = inflightBytes + Charge(b)
        /\ inflightCount' = inflightCount + 1
        /\ pending' = Append(pending, b)
    BY <1>2 DEF Enqueue, Submitted, b
  <2>3. /\ pending' \in Seq(Block) /\ Len(pending') = Len(pending) + 1
        /\ \A i \in 1..Len(pending) : pending'[i] = pending[i]
        /\ pending'[Len(pending) + 1] = b
    BY <2>1, <2>2 DEF TypeOK
  <2>4. LastAdmitted' = LastAdmitted + 1 /\ LastTaken' = LastTaken
    <3>1. nextWrite' = nextWrite /\ nextWrite \in Nat /\ inflightCount \in Nat
      BY <1>2 DEF Enqueue, TypeOK
    <3>2. Len(pending) \in Nat
      BY DEF TypeOK
    <3>3. LastAdmitted' = LastAdmitted + 1
      BY <2>2, <3>1 DEF LastAdmitted
    <3>4. LastAdmitted \in Int
      BY <3>1 DEF LastAdmitted
    <3> QED BY <2>3, <3>2, <3>3, <3>4 DEF LastTaken
  <2>5. inflightBytes' = Position[LastAdmitted'] - Position[nextWrite' - 1]
    <3>1. Charge(b) = Position[b] - Position[LastAdmitted]
      BY <1>i, <2>1 DEF Charge
    <3>2. /\ Position[b] \in Nat /\ Position[LastAdmitted] \in Nat
          /\ Position[nextWrite - 1] \in Nat
      BY <1>0, <1>i, <2>1, Positions
    <3>3. inflightBytes = Position[LastAdmitted] - Position[nextWrite - 1]
          /\ nextWrite' = nextWrite
      BY <1>2 DEF Enqueue, AccountsExact
    <3> QED BY <2>1, <2>2, <2>4, <3>1, <3>2, <3>3
  <2>6. inflightBytes' \in Nat /\ inflightCount' \in Nat
    BY <2>1, <2>2, Positions DEF TypeOK
  <2>7. TypeOK'
    BY <1>2, <2>3, <2>6 DEF Enqueue, TypeOK, MaxSpares
  <2>8. AccountsExact'
    BY <1>2, <2>1, <2>4, <2>5 DEF Enqueue, AccountsExact, b
  <2>9. QueueInOrder'
    <3>1. nextWrite' = nextWrite
      BY <1>2 DEF Enqueue
    <3>2. LastTaken + Len(pending) + 1 = b
      BY <1>i, <2>1 DEF LastTaken
    <3> QED BY <1>i, <2>3, <2>4, <3>1, <3>2 DEF QueueInOrder
  <2>10. Placed' /\ Covered' /\ Encoding'
    BY <1>2, <2>4 DEF Enqueue, NothingReady, Placed, Covered, Encoding
  <2>11. SerialPath' /\ WrittenInOrder' /\ NoSilentFailure'
    BY <1>2 DEF Enqueue, NothingReady, SerialPath, WrittenInOrder,
                NoSilentFailure, Returned
  <2>12. BudgetRespected'
    BY <1>2, <2>2 DEF Enqueue, Admissible, Submitted, b, BudgetRespected
  <2> QED BY <2>7, <2>8, <2>9, <2>10, <2>11, <2>12
<1>3. ASSUME NEW w \in threads, WorkerTakes(w) PROVE IInv'
  <2>1. pending # <<>> /\ pending \in Seq(Block) /\ Len(pending) >= 1
    BY <1>3 DEF WorkerTakes, TypeOK
  <2>2. Head(pending) = LastTaken + 1 /\ Head(pending) \in 1..NumBlocks
    <3>1. Head(pending) = pending[1]
      BY <2>1
    <3>3. pending[1] \in Block
      <4>1. 1 \in 1..Len(pending)
        BY <2>1
      <4> QED BY <2>1, <4>1, ElementOfSeq
    <3>2. pending[1] = LastTaken + 1
      BY <2>1 DEF QueueInOrder
    <3> QED BY <3>1, <3>2, <3>3
  <2>3. /\ pending' \in Seq(Block) /\ Len(pending') = Len(pending) - 1
        /\ \A i \in 1..Len(pending') : pending'[i] = pending[i + 1]
    BY <1>3, <2>1 DEF WorkerTakes
  <2>4. LastAdmitted' = LastAdmitted /\ LastTaken' = LastTaken + 1
        /\ nextWrite' = nextWrite /\ done' = done /\ caller' = caller
        /\ threads' = threads
    BY <1>3, <1>i, <2>3 DEF WorkerTakes, TypeOK, LastAdmitted, LastTaken
  <2>5. /\ job' \in [threads -> 0..NumBlocks]
        /\ \A v \in threads : job'[v] = IF v = w THEN LastTaken + 1 ELSE job[v]
    BY <1>0, <1>3, <2>2 DEF WorkerTakes, TypeOK
  <2>6. /\ worker' \in [threads -> {"check", "wait", "encode", "published",
                                   "broken", "exited"}]
        /\ \A v \in threads :
             worker'[v] = IF v = w THEN "encode" ELSE worker[v]
    BY <1>3 DEF WorkerTakes, TypeOK
  <2>7. job[w] = 0 \/ job[w] <= LastTaken
    BY <1>i DEF Placed
  <2>8. Encoding'
    <3>1. LastTaken + 1 # 0
      BY <1>i
    <3> QED BY <2>4, <2>5, <2>6, <3>1 DEF Encoding
  <2>9. QueueInOrder'
    BY <1>i, <2>3, <2>4 DEF QueueInOrder
  <2>10. Placed'
    <3>1. done' \subseteq nextWrite'..LastTaken'
      BY <1>i, <2>4 DEF Placed
    <3>2. \A v \in threads' : job'[v] # 0 =>
            job'[v] \in nextWrite'..LastTaken' /\ job'[v] \notin done'
      BY <1>0, <1>i, <2>4, <2>5 DEF Placed
    <3>3. \A u, v \in threads' : job'[u] = job'[v] /\ job'[u] # 0 => u = v
      BY <1>i, <2>4, <2>5 DEF Placed
    <3>4. caller' = "write" => /\ nextWrite' <= LastTaken'
                               /\ nextWrite' \notin done'
                               /\ \A v \in threads' : job'[v] # nextWrite'
      BY <1>0, <1>i, <2>4, <2>5 DEF Placed
    <3> QED BY <3>1, <3>2, <3>3, <3>4 DEF Placed
  <2>11. Covered'
    <3> SUFFICES ASSUME ~failure, ~stopping, NEW b \in nextWrite..(LastTaken + 1)
                 PROVE  \/ b \in done
                        \/ \E v \in threads : job'[v] = b
                        \/ caller = "write" /\ b = nextWrite
      BY <1>3, <2>4 DEF Covered, WorkerTakes
    <3>1. CASE b = LastTaken + 1
      BY <2>5, <3>1
    <3>2. CASE b # LastTaken + 1
      <4>1. b \in nextWrite..LastTaken
        BY <1>i, <3>2
      <4>2. \A v \in threads : job[v] = b => v # w
        BY <1>0, <1>3, <1>i, <4>1 DEF WorkerTakes, Encoding
      <4> QED BY <2>5, <4>1, <4>2 DEF Covered
    <3> QED BY <3>1, <3>2
  <2>12. TypeOK'
    BY <1>3, <2>3, <2>5, <2>6 DEF WorkerTakes, TypeOK, MaxSpares
  <2>13. AccountsExact' /\ BudgetRespected' /\ WrittenInOrder'
    BY <1>3, <2>4 DEF WorkerTakes, AccountsExact, BudgetRespected, WrittenInOrder
  <2>14. SerialPath' /\ NoSilentFailure'
    BY <1>3, <2>4 DEF WorkerTakes, SerialPath, NoSilentFailure, Returned
  <2> QED BY <2>8, <2>9, <2>10, <2>11, <2>12, <2>13, <2>14
<1>4. ASSUME NEW w \in threads, WorkerPublishes(w) PROVE IInv'
  <2>1. /\ job[w] \in nextWrite..LastTaken /\ job[w] \in 1..NumBlocks
        /\ job[w] \notin done
    BY <1>4, <1>0, <1>i DEF WorkerPublishes, Encoding, Placed, TypeOK
  <2>2. /\ LastAdmitted' = LastAdmitted /\ LastTaken' = LastTaken
        /\ nextWrite' = nextWrite /\ caller' = caller /\ threads' = threads
        /\ done' = done \cup {job[w]}
    BY <1>4 DEF WorkerPublishes, LastAdmitted, LastTaken
  <2>3. /\ job' \in [threads -> 0..NumBlocks]
        /\ \A v \in threads : job'[v] = IF v = w THEN 0 ELSE job[v]
    BY <1>0, <1>4 DEF WorkerPublishes, TypeOK
  <2>4. /\ worker' \in [threads -> {"check", "wait", "encode", "published",
                                   "broken", "exited"}]
        /\ \A v \in threads :
             worker'[v] = IF v = w THEN "published" ELSE worker[v]
    BY <1>4 DEF WorkerPublishes, TypeOK
  <2>5. TypeOK'
    <3>1. spares' \in 0..MaxSpares /\ MaxSpares' = MaxSpares
      BY <1>0, <1>4 DEF WorkerPublishes, TypeOK, MaxSpares
    <3> QED BY <1>4, <2>1, <2>2, <2>3, <2>4, <3>1 DEF WorkerPublishes, TypeOK
  <2>6. Encoding'
    BY <2>2, <2>3, <2>4 DEF Encoding
  <2>7. Placed'
    <3>1. \A v \in threads : v # w /\ job[v] # 0 => job[v] # job[w]
      BY DEF Placed
    <3>2. caller = "write" => nextWrite # job[w]
      BY DEF Placed
    <3>3. done' \subseteq nextWrite'..LastTaken'
      BY <2>1, <2>2 DEF Placed
    <3>4. \A v \in threads' : job'[v] # 0 =>
            job'[v] \in nextWrite'..LastTaken' /\ job'[v] \notin done'
      BY <2>2, <2>3, <3>1 DEF Placed
    <3>5. \A u, v \in threads' : job'[u] = job'[v] /\ job'[u] # 0 => u = v
      BY <2>2, <2>3 DEF Placed
    <3>6. caller' = "write" => /\ nextWrite' <= LastTaken'
                               /\ nextWrite' \notin done'
                               /\ \A v \in threads' : job'[v] # nextWrite'
      BY <1>0, <2>2, <2>3, <3>2 DEF Placed
    <3> QED BY <3>3, <3>4, <3>5, <3>6 DEF Placed
  <2>8. Covered'
    BY <1>4, <2>1, <2>2, <2>3 DEF WorkerPublishes, Covered
  <2>9. AccountsExact' /\ BudgetRespected' /\ WrittenInOrder' /\ QueueInOrder'
    BY <1>4, <2>2
    DEF WorkerPublishes, AccountsExact, BudgetRespected, WrittenInOrder, QueueInOrder
  <2>10. SerialPath' /\ NoSilentFailure'
    BY <1>4, <2>2 DEF WorkerPublishes, SerialPath, NoSilentFailure, Returned
  <2> QED BY <2>5, <2>6, <2>7, <2>8, <2>9, <2>10
<1>5. ASSUME NEW w \in threads, WorkerFails(w) PROVE IInv'
  <2>1. job[w] \in nextWrite..LastTaken
    BY <1>5 DEF WorkerFails, Encoding, Placed
  <2>2. inflightCount # 0
    BY <1>i, <2>1 DEF LastTaken, LastAdmitted, TypeOK
  <2>3. /\ LastAdmitted' = LastAdmitted /\ LastTaken' = LastAdmitted
        /\ nextWrite' = nextWrite /\ caller' = caller /\ threads' = threads
        /\ done' = done /\ pending' = <<>>
    BY <1>5, <1>i DEF WorkerFails, LastAdmitted, LastTaken
  <2>4. /\ job' \in [threads -> 0..NumBlocks]
        /\ \A v \in threads : job'[v] = IF v = w THEN 0 ELSE job[v]
    BY <1>0, <1>5 DEF WorkerFails, TypeOK
  <2>5. /\ worker' \in [threads -> {"check", "wait", "encode", "published",
                                   "broken", "exited"}]
        /\ \A v \in threads :
             worker'[v] = IF v = w THEN "broken" ELSE worker[v]
    BY <1>5 DEF WorkerFails, TypeOK
  <2>6. TypeOK' /\ Encoding'
    BY <1>5, <2>3, <2>4, <2>5 DEF WorkerFails, TypeOK, Encoding, MaxSpares
  <2>7. Placed'
    BY <1>0, <1>i, <2>3, <2>4 DEF Placed
  <2>8. Covered' /\ QueueInOrder'
    BY <1>5, <1>i, <2>3 DEF WorkerFails, Covered, QueueInOrder
  <2>9. AccountsExact' /\ BudgetRespected' /\ WrittenInOrder'
    BY <1>5, <2>3 DEF WorkerFails, AccountsExact, BudgetRespected, WrittenInOrder
  <2>10. SerialPath' /\ NoSilentFailure'
    BY <1>5, <2>2, <2>3 DEF WorkerFails, SerialPath, NoSilentFailure, Returned
  <2> QED BY <2>6, <2>7, <2>8, <2>9, <2>10
<1>6. CASE WriteFails \/ Stop
  <2>1. /\ LastAdmitted' = LastAdmitted /\ LastTaken' = LastAdmitted
        /\ nextWrite' = nextWrite /\ threads' = threads /\ done' = done
        /\ pending' = <<>>
    BY <1>6, <1>i DEF WriteFails, Stop, LastAdmitted, LastTaken
  <2>2. Placed' /\ QueueInOrder' /\ Covered'
    BY <1>6, <1>i, <2>1 DEF WriteFails, Stop, Placed, QueueInOrder, Covered
  <2>3. TypeOK' /\ Encoding'
    <3>1. pending' \in Seq(Block)
      BY <2>1
    <3> QED BY <1>6, <2>1, <3>1
            DEF WriteFails, Stop, TypeOK, Encoding, MaxSpares
  <2>4. AccountsExact' /\ BudgetRespected' /\ WrittenInOrder'
    BY <1>6, <2>1
    DEF WriteFails, Stop, AccountsExact, BudgetRespected, WrittenInOrder
  <2>5. SerialPath' /\ NoSilentFailure'
    BY <1>6, <2>1 DEF WriteFails, Stop, SerialPath, NoSilentFailure, Returned
  <2> QED BY <2>2, <2>3, <2>4, <2>5
<1>7. CASE InlineWrite
  <2>1. /\ threads = {} /\ inflightCount = 0 /\ nextWrite = nextSubmit - 1
        /\ nextWrite \in 1..NumBlocks
    BY <1>0, <1>7, <1>i DEF InlineWrite, SerialPath, LastAdmitted, TypeOK
  <2>2. /\ nextWrite' = nextWrite + 1 /\ nextWrite' \in 1..(NumBlocks + 1)
        /\ LastAdmitted' = nextWrite /\ LastAdmitted = nextWrite - 1
        /\ LastTaken = nextWrite - 1 /\ LastTaken' = nextWrite
        /\ pending' = pending /\ Len(pending) = 0
    BY <1>0, <1>7, <1>i, <2>1 DEF InlineWrite, LastAdmitted, LastTaken
  <2>3. inflightBytes' = Position[LastAdmitted'] - Position[nextWrite' - 1]
    <3>1. inflightBytes = 0
      BY <1>i, <2>2, Positions DEF AccountsExact
    <3>2. Position[nextWrite] \in Nat
      BY <2>1, Positions
    <3>3. inflightBytes' = 0 /\ LastAdmitted' = nextWrite' - 1
      BY <1>7, <2>1, <2>2, <3>1 DEF InlineWrite
    <3>4. Position[LastAdmitted'] = Position[nextWrite] /\ nextWrite' - 1 = nextWrite
      BY <2>1, <2>2
    <3> QED BY <3>2, <3>3, <3>4
  <2>4. WrittenInOrder' /\ written' \in Seq(Block)
    BY <1>0, <1>7, <2>1, <2>2 DEF InlineWrite, WrittenInOrder, TypeOK
  <2>5. TypeOK' /\ Encoding'
    BY <1>7, <2>2, <2>4 DEF InlineWrite, TypeOK, Encoding, MaxSpares
  <2>6. AccountsExact' /\ BudgetRespected'
    BY <1>7, <2>1, <2>2, <2>3 DEF InlineWrite, AccountsExact, BudgetRespected
  <2>7. QueueInOrder' /\ Placed' /\ Covered'
    <3>1. done = {}
      BY <2>1, <2>2 DEF Placed
    <3> QED BY <1>7, <2>1, <2>2, <3>1 DEF InlineWrite, QueueInOrder, Placed, Covered
  <2>8. SerialPath' /\ NoSilentFailure'
    BY <1>7, <2>1 DEF InlineWrite, SerialPath, NoSilentFailure, Returned
  <2> QED BY <2>4, <2>5, <2>6, <2>7, <2>8
<1>8. CASE TakeReady
  <2>1. /\ LastAdmitted' = LastAdmitted /\ LastTaken' = LastTaken
        /\ nextWrite' = nextWrite /\ done' = done \ {nextWrite}
    BY <1>8 DEF TakeReady, LastAdmitted, LastTaken
  <2>2. Placed' /\ Covered' /\ QueueInOrder'
    BY <1>0, <1>8, <1>i, <2>1 DEF TakeReady, Placed, Covered, QueueInOrder, TypeOK
  <2>3. TypeOK' /\ AccountsExact'
    BY <1>8, <2>1 DEF TakeReady, TypeOK, AccountsExact, MaxSpares
  <2> QED
    BY <1>8, <2>1, <2>2, <2>3
    DEF TakeReady, Encoding, SerialPath, BudgetRespected, WrittenInOrder,
        NoSilentFailure, Returned
<1>9. CASE NotifyOneWorker
  <2>1. /\ worker' \in [threads -> {"check", "wait", "encode", "published",
                                   "broken", "exited"}]
        /\ \A w \in threads : worker'[w] = "encode" <=> worker[w] = "encode"
    <3>1. CASE worker' = worker
      BY <3>1 DEF TypeOK
    <3>2. ASSUME NEW w \in threads, worker[w] = "wait",
                 worker' = [worker EXCEPT ![w] = "check"]
          PROVE  <2>1!1
      BY <3>2 DEF TypeOK
    <3> QED BY <1>9, <3>1, <3>2 DEF NotifyOneWorker
  <2>2. TypeOK' /\ Encoding'
    BY <1>0, <1>9, <2>1 DEF NotifyOneWorker, TypeOK, Encoding, MaxSpares
  <2> QED
    BY <1>9, <2>2
    DEF NotifyOneWorker, AccountsExact, SerialPath, QueueInOrder, Placed, Covered,
        BudgetRespected, WrittenInOrder, NoSilentFailure, LastAdmitted, LastTaken,
        Returned
<1> USE DEF TypeOK, AccountsExact, Encoding, SerialPath, QueueInOrder, Placed,
            Covered, BudgetRespected, WrittenInOrder, NoSilentFailure,
            LastAdmitted, LastTaken, Returned, MaxSpares
<1>10. CASE SubmitCall
  <2>1. /\ nextSubmit' = nextSubmit + 1 /\ nextSubmit \in 1..NumBlocks
        /\ LastAdmitted = nextSubmit - 1
    BY <1>10 DEF SubmitCall
  <2> QED BY <1>0, <1>10, <2>1 DEF SubmitCall
<1>11. CASE InlineFailure
  BY <1>11 DEF InlineFailure
<1>12. CASE FinishCall
  BY <1>12 DEF FinishCall
<1>13. CASE ProducerThrows
  BY <1>13 DEF ProducerThrows
<1>14. CASE RethrowFailure
  BY <1>14 DEF RethrowFailure
<1>15. CASE NotifyWriteFailure
  BY <1>15 DEF NotifyWriteFailure
<1>16. CASE AwaitResult
  BY <1>16 DEF AwaitResult, NothingReady
<1>17. CASE FinishReturns
  BY <1>17 DEF FinishReturns, NothingReady
<1>18. CASE NotifyStop
  BY <1>18 DEF NotifyStop
<1>19. CASE Join
  BY <1>19 DEF Join
<1>20. ASSUME NEW w \in threads, WorkerExits(w) PROVE IInv'
  BY <1>20, SMTT(30) DEF WorkerExits
<1>21. ASSUME NEW w \in threads, WorkerWaits(w) PROVE IInv'
  BY <1>21, SMTT(30) DEF WorkerWaits
<1>22. ASSUME NEW w \in threads, WorkerNotifies(w) PROVE IInv'
  BY <1>22, SMTT(30) DEF WorkerNotifies, WakeCaller
<1>23. ASSUME NEW w \in threads, WorkerNotifiesFailure(w) PROVE IInv'
  BY <1>23, SMTT(30) DEF WorkerNotifiesFailure, WakeCaller
<1>24. CASE UNCHANGED vars
  BY <1>24 DEF vars
<1> QED
  <2>1. ASSUME NEW w \in threads, WorkerStep(w) PROVE IInv'
    BY <1>3, <1>4, <1>5, <1>20, <1>21, <1>22, <1>23, <2>1 DEF WorkerStep
  <2>2. CASE Caller
    BY <1>1, <1>2, <1>6, <1>7, <1>8, <1>9, <1>10, <1>11, <1>12, <1>13, <1>14,
       <1>15, <1>16, <1>17, <1>18, <1>19, <2>2 DEF Caller
  <2> QED BY <1>24, <2>1, <2>2 DEF Next, WorkerStep, Terminated

----------------------------------------------------------------------------
(* The theorems.                                                           *)

\* The invariant holds in every state of the encoder.
THEOREM Invariance == Spec => []IInv
<1> QED BY InitInvariant, InductiveInvariant, PTL DEF Spec

\* Every variable keeps its type, whatever the threads do.
THEOREM TypeCorrect == Spec => []TypeOK
<1>1. IInv => TypeOK
  BY DEF IInv
<1> QED BY <1>1, Invariance, PTL

\* The bytes counted in flight are the capacities of the admitted, unwritten
\* blocks, in every state of submit(), finish() and the workers.
THEOREM AccountsAreExact == Spec => []AccountsExact
<1>1. IInv => AccountsExact
  BY DEF IInv
<1> QED BY <1>1, Invariance, PTL

\* Buffered input never exceeds the budget but for one oversized block.
THEOREM MemoryBounded == Spec => []BudgetRespected
<1>1. IInv => BudgetRespected
  BY DEF IInv
<1> QED BY <1>1, Invariance, PTL

\* finish() never returns past a worker's failure.
THEOREM FailuresReported == Spec => []NoSilentFailure
<1>1. IInv => NoSilentFailure
  BY DEF IInv
<1> QED BY <1>1, Invariance, PTL

\* The place of every admitted, unwritten block is unique.
THEOREM NoBlockIsLost == Spec => []NoBlockLost
<1>1. IInv => NoBlockLost
  <2> SUFFICES ASSUME IInv, ~failure, ~stopping PROVE NoBlockLost
    BY DEF NoBlockLost
  <2>0. /\ NumBlocks \in Nat /\ nextWrite \in 1..(NumBlocks + 1)
        /\ pending \in Seq(Block) /\ DOMAIN pending = 1..Len(pending)
        /\ Len(pending) \in Nat
    BY EncoderAssumption DEF EncoderAssumption, IInv, TypeOK
  <2>1. /\ LastAdmitted \in Int /\ LastTaken \in Int
        /\ LastTaken + Len(pending) = LastAdmitted
        /\ nextWrite - 1 <= LastTaken /\ LastTaken <= LastAdmitted
    BY <2>0, Indices DEF IInv, LastTaken
  <2>2. Range(pending) = (LastTaken + 1)..LastAdmitted
    <3>1. \A i \in 1..Len(pending) : pending[i] = LastTaken + i
      BY DEF IInv, QueueInOrder
    <3>2. Range(pending) = {LastTaken + i : i \in 1..Len(pending)}
      BY <2>0, <3>1 DEF Range
    <3>3. ASSUME NEW b \in (LastTaken + 1)..LastAdmitted
          PROVE  b \in {LastTaken + i : i \in 1..Len(pending)}
      <4>1. b - LastTaken \in 1..Len(pending) /\ b = LastTaken + (b - LastTaken)
        BY <2>0, <2>1
      <4> QED BY <4>1
    <3> QED BY <2>0, <2>1, <3>2, <3>3
  <2>3. Held \cup done \cup BeingWritten = nextWrite..LastTaken
    <3>1. Held \cup done \cup BeingWritten \subseteq nextWrite..LastTaken
      <4>1. Held \subseteq nextWrite..LastTaken
        BY DEF IInv, Placed, Held
      <4>2. done \subseteq nextWrite..LastTaken
        BY DEF IInv, Placed
      <4>3. BeingWritten \subseteq nextWrite..LastTaken
        BY <2>0, <2>1 DEF IInv, Placed, BeingWritten
      <4> QED BY <4>1, <4>2, <4>3
    <3>2. nextWrite..LastTaken \subseteq Held \cup done \cup BeingWritten
      BY <2>0, <2>1 DEF IInv, Covered, Held, BeingWritten
    <3> QED BY <3>1, <3>2
  <2>4. Range(pending) \cap (Held \cup done \cup BeingWritten) = {}
    BY <2>0, <2>1, <2>2, <2>3
  <2>5. Range(pending) \cup Held \cup done \cup BeingWritten = nextWrite..LastAdmitted
    BY <2>0, <2>1, <2>2, <2>3
  <2>6. \A i, j \in DOMAIN pending : pending[i] = pending[j] => i = j
    BY <2>0, <2>1 DEF IInv, QueueInOrder
  <2>7. /\ \A v, w \in threads : job[v] = job[w] /\ job[v] # 0 => v = w
        /\ Held \cap (done \cup BeingWritten) = {}
        /\ done \cap BeingWritten = {}
    BY DEF IInv, Placed, Held, BeingWritten
  <2> QED BY <2>4, <2>5, <2>6, <2>7 DEF NoBlockLost
<1> QED BY <1>1, Invariance, PTL

----------------------------------------------------------------------------
(* The parallel encoder implements the serial writer: submit() accepts,    *)
(* every write is the next one, finish() completes only when nothing is    *)
(* outstanding; all other steps stutter.                                   *)

\* A constructed encoder is a serial writer that has accepted nothing.
LEMMA InitRefines == Init => Serial!SerialInit
  BY DEF Init, Serial!SerialInit, Outcome

\* Under the invariant every encoder step is a serial writer step or changes
\* nothing a caller can observe.
LEMMA StepRefines ==
  ASSUME IInv, [Next]_vars
  PROVE  [Serial!SerialNext]_(Serial!serialVars)
<1>0. /\ NumBlocks \in Nat /\ nextWrite \in 1..(NumBlocks + 1)
      /\ nextSubmit \in 1..(NumBlocks + 1)
      /\ Len(written) = nextWrite - 1 /\ inflightCount \in Nat
  BY EncoderAssumption DEF EncoderAssumption, IInv, TypeOK, WrittenInOrder
<1> USE DEF Outcome, callerVars, workerVars, sharedVars, Serial!serialVars
<1>1. CASE SubmitCall
  <2>1. nextSubmit' - 1 = nextSubmit - 1 + 1 /\ nextSubmit - 1 < NumBlocks
    BY <1>0, <1>1 DEF SubmitCall, Block
  <2> QED BY <1>1, <2>1 DEF SubmitCall, Serial!SerialNext, Serial!Accept
<1>2. CASE InlineWrite
  <2>1. nextSubmit - 1 = Len(written) + 1
    BY <1>0, <1>2 DEF InlineWrite, IInv, SerialPath, LastAdmitted
  <2> QED BY <1>0, <1>2, <2>1 DEF InlineWrite, Serial!SerialNext, Serial!WriteNext
<1>3. CASE WriteBlock
  <2>1. nextWrite = Len(written) + 1 /\ Len(written) < nextSubmit - 1
    BY <1>0, <1>3, Indices DEF WriteBlock, IInv, Placed, AccountsExact
  <2> QED BY <1>3, <2>1 DEF WriteBlock, Serial!SerialNext, Serial!WriteNext
<1>4. CASE FinishCall \/ FinishReturns
  <2>1. CASE caller' = "returned"
    <3>1. inflightCount = 0 /\ LastAdmitted = nextSubmit - 1
      BY <1>4, <2>1
      DEF FinishCall, FinishReturns, NothingReady, IInv, SerialPath, AccountsExact
    <3>2. Len(written) = nextSubmit - 1
      BY <1>0, <3>1 DEF LastAdmitted
    <3> QED BY <1>4, <2>1, <3>2
            DEF FinishCall, FinishReturns, NothingReady, Serial!SerialNext,
                Serial!Complete
  <2>2. CASE caller' # "returned"
    BY <1>4, <2>2 DEF FinishCall, FinishReturns
  <2> QED BY <2>1, <2>2
<1>5. CASE InlineFailure \/ ProducerThrows \/ RethrowFailure \/ WriteFails
  BY <1>5 DEF InlineFailure, ProducerThrows, RethrowFailure, WriteFails,
              Serial!SerialNext, Serial!Fail
<1>6. CASE \/ TakeReady \/ NotifyWriteFailure \/ Enqueue \/ NotifyOneWorker
           \/ AwaitResult \/ Stop \/ NotifyStop \/ Join
  BY <1>6 DEF TakeReady, NotifyWriteFailure, Enqueue, NotifyOneWorker,
              AwaitResult, NothingReady, Stop, NotifyStop, Join
<1>7. ASSUME NEW w \in Worker, WorkerStep(w)
      PROVE  UNCHANGED <<nextSubmit, written, Outcome>>
  BY <1>7 DEF WorkerStep, WorkerExits, WorkerTakes, WorkerWaits, WorkerPublishes,
              WorkerFails, WorkerNotifies, WorkerNotifiesFailure, WakeCaller
<1>8. CASE UNCHANGED vars
  BY <1>8 DEF vars
<1> QED
  BY <1>1, <1>2, <1>3, <1>4, <1>5, <1>6, <1>7, <1>8 DEF Next, Caller, Terminated

\* Whatever the workers' speed and failures, the caller observes a serial
\* writer: blocks written once, in index order, and complete when it returns.
THEOREM ImplementsSerial == Spec => ImplementsSerialWriter
<1>1. IInv /\ [Next]_vars => [Serial!SerialNext]_(Serial!serialVars)
  BY StepRefines
<1> QED
  BY <1>1, InitRefines, Invariance, PTL DEF Spec, ImplementsSerialWriter, Serial!SerialSpec

----------------------------------------------------------------------------
(* The capture.                                                            *)

\* The identities of the chunks, in the order of their indices.
Order == [i \in 1..Len(chunks) |-> chunks[i].identity]

Shape ==
  /\ input \in Inputs /\ file \in 1..(Len(input) + 1) /\ offset \in Nat
  /\ refs \in Seq(Nat) /\ entries \in Seq(Seq(Nat))
  /\ chunks \in Seq([identity : Identity, block : Nat])
  /\ blocks \in Seq([offset : Nat, size : Nat])
  /\ DOMAIN lookup \subseteq Identity

\* Chunk records, block records and submissions are made in step.
Numbered ==
  /\ Len(chunks) = Base + nextSubmit - 1
  /\ Len(blocks) = Len(chunks)
  /\ \A i \in 1..Len(chunks) : chunks[i].block = i

\* The lookup and the chunk records are inverses, so each identity has one chunk.
Known ==
  /\ \A id \in DOMAIN lookup :
       lookup[id] \in 1..Len(chunks) /\ chunks[lookup[id]].identity = id
  /\ \A i \in 1..Len(chunks) :
       chunks[i].identity \in DOMAIN lookup /\ lookup[chunks[i].identity] = i

\* The references r name the identities s begins with.
Names(r, s) ==
  \A k \in 1..Len(r) : r[k] \in 1..Len(chunks) /\ chunks[r[k]].identity = s[k]

\* What has been captured names what has been read.
Captured ==
  /\ Len(entries) = file - 1
  /\ \A i \in 1..(file - 1) :
       Len(entries[i]) = Len(input[i]) /\ Names(entries[i], input[i])
  /\ file <= Len(input) => /\ Len(refs) = offset /\ offset <= Len(input[file])
                           /\ Names(refs, input[file])
  /\ file = Len(input) + 1 => refs = <<>> /\ offset = 0

\* finish() is called once, behind the last file.
Ending ==
  /\ op = "finish" => /\ file = Len(input) + 1
                      /\ caller \notin {"produce", "inline", "queued"}
  /\ Returned => op = "finish"

WrittenChunks == Base + nextWrite - 1

\* Written payloads lie back to back in the order of their chunks, where the
\* block records say.
PlacedInOrder(order, n, payloads, records) ==
  /\ payloads = [at \in {SizeBefore(order, i) : i \in 1..n} |-> payloads[at]]
  /\ \A i \in 1..n :
       /\ payloads[SizeBefore(order, i)] = order[i]
       /\ records[i] = [offset |-> SizeBefore(order, i), size |-> PayloadSize[order[i]]]

Stored == PlacedInOrder(Order, WrittenChunks, archive, blocks)

\* Chunks are numbered as a serial writer that has read as much numbers them.
FirstCome ==
  Order = IF file <= Len(input)
          THEN AfterChunks(AfterFiles(input)[file - 1], input[file])[offset]
          ELSE AfterFiles(input)[Len(input)]

CInv == IInv /\ Shape /\ Numbered /\ Known /\ Captured /\ Ending /\ Stored
        /\ FirstCome

----------------------------------------------------------------------------
(* Offsets.                                                                *)

\* Every payload has a size.
LEMMA SizesPositive == \A id \in Identity : PayloadSize[id] \in Nat /\ PayloadSize[id] > 0
  BY ChunkAssumption DEF ChunkAssumption

\* The archive that is appended to is a sequence of identities.
LEMMA BaseShape == BaseOrder \in Seq(Identity) /\ Base \in Nat
  BY ChunkAssumption DEF ChunkAssumption, Base

\* Offsets are natural numbers, the first one is 0, and each chunk takes the
\* size of its payload.
LEMMA OffsetsAdd ==
  ASSUME NEW order \in Seq(Identity)
  PROVE  /\ SizeBefore(order, 1) = 0
         /\ \A i \in 1..(Len(order) + 1) : SizeBefore(order, i) \in Nat
         /\ \A i \in 1..Len(order) :
              SizeBefore(order, i + 1) = SizeBefore(order, i) + PayloadSize[order[i]]
<1> DEFINE f == [j \in 1..Len(order) |-> PayloadSize[order[j]]]
<1>1. \A i \in 1..(Len(order) + 1) :
        /\ Numbers(f, 1..(i - 1))
        /\ SizeBefore(order, i) = SumFunctionOnSet(f, 1..(i - 1))
  <2> SUFFICES ASSUME NEW i \in 1..(Len(order) + 1)
               PROVE  /\ Numbers(f, 1..(i - 1))
                      /\ SizeBefore(order, i) = SumFunctionOnSet(f, 1..(i - 1))
    OBVIOUS
  <2> DEFINE g == [j \in 1..(i - 1) |-> PayloadSize[order[j]]]
  <2>1. \A j \in 1..Len(order) : order[j] \in Identity
    OBVIOUS
  <2>2. \A j \in 1..(i - 1) : f[j] = PayloadSize[order[j]] /\ f[j] \in Nat /\ g[j] = f[j]
    BY <2>1, SizesPositive
  <2>3. IsFiniteSet(1..(i - 1)) /\ DOMAIN g = 1..(i - 1)
    BY FS_Interval
  <2> HIDE DEF f
  <2>4. SizeBefore(order, i) = SumFunctionOnSet(g, DOMAIN g)
    BY DEF SizeBefore, SumFunction
  <2> HIDE DEF g
  <2>5. SumFunctionOnSet(g, 1..(i - 1)) = SumFunctionOnSet(f, 1..(i - 1))
    BY <2>2, <2>3, SumSame
  <2> QED BY <2>2, <2>3, <2>4, <2>5 DEF Numbers
<1>2. \A i \in 1..Len(order) : f[i] = PayloadSize[order[i]]
  OBVIOUS
<1> HIDE DEF f
<1>3. Len(order) \in Nat
  OBVIOUS
<1>4. SizeBefore(order, 1) = 0
  <2>1. 1..(1 - 1) = {} /\ 1 \in 1..(Len(order) + 1)
    BY <1>3
  <2> QED BY <1>1, <2>1, SumOfNone
<1>5. \A i \in 1..(Len(order) + 1) : SizeBefore(order, i) \in Nat
  BY <1>1, SumIsNat
<1>6. ASSUME NEW i \in 1..Len(order)
      PROVE  SizeBefore(order, i + 1) = SizeBefore(order, i) + PayloadSize[order[i]]
  <2>1. /\ 1..(i + 1 - 1) = (1..(i - 1)) \cup {i} /\ i \notin 1..(i - 1)
        /\ i \in 1..(Len(order) + 1) /\ i + 1 \in 1..(Len(order) + 1)
    BY <1>3
  <2>2. /\ Numbers(f, 1..(i + 1 - 1))
        /\ SizeBefore(order, i + 1) = SumFunctionOnSet(f, 1..(i + 1 - 1))
        /\ SizeBefore(order, i) = SumFunctionOnSet(f, 1..(i - 1))
    BY <1>1, <2>1
  <2> DEFINE T == 1..(i - 1)
  <2>3. SumFunctionOnSet(f, T \cup {i}) = SumFunctionOnSet(f, T) + f[i]
    <3>1. Numbers(f, T \cup {i}) /\ i \notin T
      BY <2>1, <2>2
    <3> HIDE DEF T
    <3> QED BY <3>1, SumAdds
  <2> QED BY <1>2, <2>1, <2>2, <2>3
<1> QED BY <1>4, <1>5, <1>6

\* Offsets grow, so no two chunks start in the same place.
LEMMA OffsetsGrow ==
  ASSUME NEW order \in Seq(Identity)
  PROVE  \A i, j \in 1..(Len(order) + 1) :
           i < j => SizeBefore(order, i) < SizeBefore(order, j)
<1> DEFINE n == Len(order) + 1
           S(i) == SizeBefore(order, i)
           Bad == {j \in 1..n : \E i \in 1..n : i < j /\ ~(S(i) < S(j))}
<1> SUFFICES ASSUME Bad # {} PROVE FALSE
  OBVIOUS
<1>1. n \in Nat
  OBVIOUS
<1> HIDE DEF n
<1>2. PICK j \in Bad : \A k \in Bad : j <= k
  <2>1. Bad \subseteq Nat
    BY <1>1
  <2> HIDE DEF Bad
  <2> QED BY <2>1, LeastNumber
<1>3. PICK i \in 1..n : i < j /\ ~(S(i) < S(j))
  OBVIOUS
<1>4. j - 1 \in 1..n /\ j - 1 \notin Bad /\ j - 1 < j
  BY <1>1, <1>2, <1>3
<1>5. /\ S(j) = S(j - 1) + PayloadSize[order[j - 1]]
      /\ S(i) \in Nat /\ S(j - 1) \in Nat
      /\ PayloadSize[order[j - 1]] \in Nat /\ PayloadSize[order[j - 1]] > 0
  <2>1. j - 1 \in 1..Len(order) /\ j - 1 + 1 = j /\ order[j - 1] \in Identity
    BY <1>1, <1>3 DEF n
  <2> QED BY <1>4, <2>1, OffsetsAdd, SizesPositive DEF n
<1> HIDE DEF S
<1>6. CASE i = j - 1
  BY <1>3, <1>5, <1>6
<1>7. CASE i < j - 1
  <2>1. S(i) < S(j - 1)
    BY <1>3, <1>4, <1>7
  <2> QED BY <1>3, <1>5, <2>1
<1> QED BY <1>1, <1>3, <1>6, <1>7

\* An offset depends on the chunks before it only.
LEMMA OffsetsAgree ==
  ASSUME NEW order, NEW longer, NEW i \in Nat, \A j \in 1..(i - 1) : order[j] = longer[j]
  PROVE  SizeBefore(order, i) = SizeBefore(longer, i)
<1>1. [j \in 1..(i - 1) |-> PayloadSize[order[j]]] = [j \in 1..(i - 1) |-> PayloadSize[longer[j]]]
  OBVIOUS
<1> QED BY <1>1 DEF SizeBefore

\* Payloads that start at the first n offsets end at the next one.
LEMMA OffsetsFilled ==
  ASSUME NEW order \in Seq(Identity), NEW f, NEW n \in 0..Len(order),
         \A i \in 1..n : f[SizeBefore(order, i)] = PayloadSize[order[i]]
  PROVE  SumFunctionOnSet(f, {SizeBefore(order, i) : i \in 1..n}) = SizeBefore(order, n + 1)
<1> DEFINE Starts(k) == {SizeBefore(order, i) : i \in 1..k}
           Bad == {k \in 0..n : \/ SumFunctionOnSet(f, Starts(k)) # SizeBefore(order, k + 1)
                            \/ ~IsFiniteSet(Starts(k))}
<1>0. Len(order) \in Nat /\ n \in Nat
  OBVIOUS
<1>1. Bad # {} => FALSE
  <2> SUFFICES ASSUME Bad # {} PROVE FALSE
    OBVIOUS
  <2>1. PICK k \in Bad : \A j \in Bad : k <= j
    <3>1. Bad \subseteq Nat
      OBVIOUS
    <3> HIDE DEF Bad
    <3> QED BY <3>1, LeastNumber
  <2>2. /\ k \in 0..n
        /\ SumFunctionOnSet(f, Starts(k)) = SizeBefore(order, k + 1) => ~IsFiniteSet(Starts(k))
    OBVIOUS
  <2>3. k # 0
    <3>1. Starts(0) = {}
      OBVIOUS
    <3>2. SumFunctionOnSet(f, Starts(0)) = SizeBefore(order, 0 + 1)
      <4>1. SizeBefore(order, 0 + 1) = 0
        BY OffsetsAdd
      <4> HIDE DEF Starts
      <4> QED BY <3>1, <4>1, SumOfNone
    <3> QED BY <2>2, <3>1, <3>2, FS_EmptySet
  <2>4. k - 1 \in 0..n /\ k - 1 \notin Bad
    <3>1. k - 1 \in 0..n /\ ~(k <= k - 1)
      BY <1>0, <2>2, <2>3
    <3> HIDE DEF Bad
    <3> QED BY <2>1, <3>1
  <2>5. /\ SumFunctionOnSet(f, Starts(k - 1)) = SizeBefore(order, k - 1 + 1)
        /\ IsFiniteSet(Starts(k - 1))
    BY <2>4
  <2>6. k - 1 + 1 = k /\ k \in 1..n /\ k \in 1..Len(order) /\ k \in 1..(Len(order) + 1)
    BY <1>0, <2>2, <2>3
  <2> HIDE DEF Bad
  <2>7. Starts(k) = Starts(k - 1) \cup {SizeBefore(order, k)}
    <3>1. 1..k = (1..(k - 1)) \cup {k}
      BY <2>6
    <3> QED BY <3>1
  <2>8. SizeBefore(order, k) \notin Starts(k - 1)
    <3> SUFFICES ASSUME NEW i \in 1..(k - 1), SizeBefore(order, k) = SizeBefore(order, i)
                 PROVE  FALSE
      OBVIOUS
    <3>1. i < k /\ i \in 1..(Len(order) + 1)
      BY <1>0, <2>6
    <3>2. SizeBefore(order, i) < SizeBefore(order, k)
      BY <2>6, <3>1, OffsetsGrow
    <3>3. SizeBefore(order, k) \in Nat
      BY <2>6, OffsetsAdd
    <3> QED BY <3>2, <3>3
  <2>9. Numbers(f, Starts(k))
    <3>1. IsFiniteSet(Starts(k))
      <4> HIDE DEF Starts
      <4> QED BY <2>5, <2>7, FS_AddElement
    <3>2. \A i \in 1..k : f[SizeBefore(order, i)] \in Nat
      <4> SUFFICES ASSUME NEW i \in 1..k PROVE f[SizeBefore(order, i)] \in Nat
        OBVIOUS
      <4>1. i \in 1..n /\ i \in 1..Len(order)
        BY <1>0, <2>6
      <4>2. order[i] \in Identity
        BY <4>1
      <4> QED BY <4>1, <4>2, SizesPositive
    <3> QED BY <3>1, <3>2 DEF Numbers
  <2> DEFINE a == SizeBefore(order, k)
             T == Starts(k - 1)
  <2>10. Numbers(f, T \cup {a}) /\ a \notin T
    BY <2>7, <2>8, <2>9
  <2>11. SumFunctionOnSet(f, T \cup {a}) = SumFunctionOnSet(f, T) + f[a]
    <3> HIDE DEF a, T
    <3> QED BY <2>10, SumAdds
  <2>12. SizeBefore(order, k + 1) = SizeBefore(order, k) + PayloadSize[order[k]]
    BY <2>6, OffsetsAdd
  <2> QED BY <2>2, <2>5, <2>6, <2>7, <2>9, <2>11, <2>12 DEF Numbers
<1>2. n \in 0..n
  BY <1>0
<1> QED BY <1>1, <1>2
----------------------------------------------------------------------------
(* The numberings of a serial writer are what their recursion says.        *)

\* A file's chunks are numbered one after another, from the given order on.
LEMMA NumberingsOfChunks ==
  ASSUME NEW order, NEW S, NEW read \in Seq(S)
  PROVE  /\ AfterChunks(order, read)[0] = order
         /\ \A k \in 1..Len(read) :
              AfterChunks(order, read)[k] = Numbering(AfterChunks(order, read)[k - 1], read[k])
<1> DEFINE Step(a, k) == IF k = 0 THEN order ELSE Numbering(a[k - 1], read[k])
           Bad == {n \in Nat : ~ \E a : a = [k \in 0..n |-> Step(a, k)]}
<1>1. Bad = {}
  <2> SUFFICES ASSUME Bad # {} PROVE FALSE
    OBVIOUS
  <2>1. PICK n \in Bad : \A j \in Bad : n <= j
    <3>1. Bad \subseteq Nat
      OBVIOUS
    <3> HIDE DEF Bad
    <3> QED BY <3>1, LeastNumber
  <2>2. n \in Nat /\ ~ \E a : a = [k \in 0..n |-> Step(a, k)]
    OBVIOUS
  <2>3. n # 0
    <3> SUFFICES ASSUME n = 0 PROVE FALSE
      OBVIOUS
    <3> DEFINE a == [k \in 0..n |-> order]
    <3>1. a = [k \in 0..n |-> Step(a, k)]
      OBVIOUS
    <3> QED BY <2>2, <3>1
  <2>4. n - 1 \in Nat /\ n - 1 \notin Bad
    <3>1. n - 1 \in Nat /\ ~(n <= n - 1)
      BY <2>2, <2>3
    <3> HIDE DEF Bad
    <3> QED BY <2>1, <3>1
  <2>5. PICK a : a = [k \in 0..(n - 1) |-> Step(a, k)]
    BY <2>4
  <2> DEFINE b == [k \in 0..n |-> Step(a, k)]
  <2>6. \A k \in 0..(n - 1) : b[k] = a[k]
    <3>1. \A k \in 0..(n - 1) : a[k] = Step(a, k)
      BY <2>5
    <3>2. \A k \in 0..(n - 1) : k \in 0..n
      BY <2>2
    <3> QED BY <3>1, <3>2
  <2>7. \A k \in 0..n : Step(a, k) = Step(b, k)
    <3> SUFFICES ASSUME NEW k \in 0..n, k # 0 PROVE a[k - 1] = b[k - 1]
      OBVIOUS
    <3>1. k - 1 \in 0..(n - 1)
      BY <2>2
    <3> HIDE DEF b
    <3> QED BY <2>6, <3>1
  <2>8. b = [k \in 0..n |-> Step(b, k)]
    BY <2>7
  <2> QED BY <2>2, <2>8
<1>2. Len(read) \in Nat
  OBVIOUS
<1> DEFINE H == AfterChunks(order, read)
<1>3. H = [k \in 0..Len(read) |-> Step(H, k)]
  <2>1. PICK a : a = [k \in 0..Len(read) |-> Step(a, k)]
    BY <1>1, <1>2
  <2> QED BY <2>1 DEF AfterChunks
<1> HIDE DEF H
<1>4. \A k \in 0..Len(read) : H[k] = Step(H, k)
  BY <1>3
<1> QED BY <1>2, <1>4 DEF H

\* A tree's files are numbered one after another, from the archive's order on.
LEMMA NumberingsOfFiles ==
  ASSUME NEW S, NEW tree \in Seq(S)
  PROVE  /\ AfterFiles(tree)[0] = BaseOrder
         /\ \A i \in 1..Len(tree) :
              AfterFiles(tree)[i] =
                AfterChunks(AfterFiles(tree)[i - 1], tree[i])[Len(tree[i])]
<1> DEFINE Step(a, i) == IF i = 0 THEN BaseOrder
                          ELSE AfterChunks(a[i - 1], tree[i])[Len(tree[i])]
           Bad == {n \in Nat : ~ \E a : a = [i \in 0..n |-> Step(a, i)]}
<1>1. Bad = {}
  <2> SUFFICES ASSUME Bad # {} PROVE FALSE
    OBVIOUS
  <2>1. PICK n \in Bad : \A j \in Bad : n <= j
    <3>1. Bad \subseteq Nat
      OBVIOUS
    <3> HIDE DEF Bad
    <3> QED BY <3>1, LeastNumber
  <2>2. n \in Nat /\ ~ \E a : a = [i \in 0..n |-> Step(a, i)]
    OBVIOUS
  <2>3. n # 0
    <3> SUFFICES ASSUME n = 0 PROVE FALSE
      OBVIOUS
    <3> DEFINE a == [i \in 0..n |-> BaseOrder]
    <3>1. a = [i \in 0..n |-> Step(a, i)]
      OBVIOUS
    <3> QED BY <2>2, <3>1
  <2>4. n - 1 \in Nat /\ n - 1 \notin Bad
    <3>1. n - 1 \in Nat /\ ~(n <= n - 1)
      BY <2>2, <2>3
    <3> HIDE DEF Bad
    <3> QED BY <2>1, <3>1
  <2>5. PICK a : a = [i \in 0..(n - 1) |-> Step(a, i)]
    BY <2>4
  <2> DEFINE b == [i \in 0..n |-> Step(a, i)]
  <2>6. \A i \in 0..(n - 1) : b[i] = a[i]
    <3>1. \A i \in 0..(n - 1) : a[i] = Step(a, i)
      BY <2>5
    <3>2. \A i \in 0..(n - 1) : i \in 0..n
      BY <2>2
    <3> QED BY <3>1, <3>2
  <2>7. \A i \in 0..n : Step(a, i) = Step(b, i)
    <3> SUFFICES ASSUME NEW i \in 0..n, i # 0 PROVE a[i - 1] = b[i - 1]
      OBVIOUS
    <3>1. i - 1 \in 0..(n - 1)
      BY <2>2
    <3> HIDE DEF b
    <3> QED BY <2>6, <3>1
  <2>8. b = [i \in 0..n |-> Step(b, i)]
    BY <2>7
  <2> QED BY <2>2, <2>8
<1>2. Len(tree) \in Nat
  OBVIOUS
<1> DEFINE H == AfterFiles(tree)
<1>3. H = [i \in 0..Len(tree) |-> Step(H, i)]
  <2>1. PICK a : a = [i \in 0..Len(tree) |-> Step(a, i)]
    BY <1>1, <1>2
  <2> QED BY <2>1 DEF AfterFiles
<1> HIDE DEF H
<1>4. \A i \in 0..Len(tree) : H[i] = Step(H, i)
  BY <1>3
<1> QED BY <1>2, <1>4 DEF H

----------------------------------------------------------------------------
(* The invariant of the capture.                                           *)

\* The chunk records list identities, and no more payloads are written than
\* chunks were numbered.
LEMMA CaptureShape ==
  ASSUME CInv
  PROVE  /\ Order \in Seq(Identity) /\ Len(Order) = Len(chunks) /\ Len(chunks) \in Nat
         /\ \A i \in 1..Len(chunks) : Order[i] = chunks[i].identity /\ chunks[i].identity \in Identity
         /\ WrittenChunks \in 0..Len(chunks)
         /\ Base \in Nat /\ nextWrite \in Nat /\ nextSubmit \in Nat
         /\ NumBlocks \in Nat
<1>1. chunks \in Seq([identity : Identity, block : Nat]) /\ Len(chunks) \in Nat
  BY DEF CInv, Shape
<1>2. \A i \in 1..Len(chunks) : chunks[i].identity \in Identity
  <2> SUFFICES ASSUME NEW i \in 1..Len(chunks) PROVE chunks[i].identity \in Identity
    OBVIOUS
  <2>1. chunks[i] \in [identity : Identity, block : Nat]
    BY <1>1, ElementOfSeq
  <2> QED BY <2>1
<1>3. Order \in Seq(Identity) /\ Len(Order) = Len(chunks)
  BY <1>1, <1>2 DEF Order
<1>4. /\ nextWrite \in 1..(NumBlocks + 1) /\ nextSubmit \in 1..(NumBlocks + 1)
      /\ NumBlocks \in Nat /\ Base \in Nat
  BY EncoderAssumption, BaseShape DEF EncoderAssumption, CInv, IInv, TypeOK
<1>5. /\ nextWrite - 1 \in 0..LastTaken /\ LastTaken <= LastAdmitted
      /\ LastAdmitted \in {nextSubmit - 1, nextSubmit - 2} /\ LastTaken \in Int
  BY Indices DEF CInv, IInv, AccountsExact
<1>6. nextWrite - 1 \in 0..(nextSubmit - 1)
  BY <1>4, <1>5
<1>7. Len(chunks) = Base + nextSubmit - 1
  BY DEF CInv, Numbered
<1>8. WrittenChunks \in 0..Len(chunks)
  BY <1>4, <1>6, <1>7 DEF WrittenChunks
<1> QED BY <1>1, <1>2, <1>3, <1>4, <1>8 DEF Order

\* The next payload goes behind the written ones.
LEMMA EndIsNextOffset ==
  ASSUME CInv
  PROVE  EndOfPayloads = SizeBefore(Order, WrittenChunks + 1)
<1> DEFINE f == [at \in DOMAIN archive |-> PayloadSize[archive[at]]]
           n == WrittenChunks
           D == {SizeBefore(Order, i) : i \in 1..n}
<1>1. Order \in Seq(Identity) /\ n \in 0..Len(Order)
  BY CaptureShape
<1>2. DOMAIN f = D /\ D = DOMAIN archive
  BY DEF CInv, Stored, PlacedInOrder
<1>3. \A i \in 1..n : f[SizeBefore(Order, i)] = PayloadSize[Order[i]]
  <2> SUFFICES ASSUME NEW i \in 1..n PROVE f[SizeBefore(Order, i)] = PayloadSize[Order[i]]
    OBVIOUS
  <2>1. SizeBefore(Order, i) \in D /\ archive[SizeBefore(Order, i)] = Order[i]
    BY DEF CInv, Stored, PlacedInOrder
  <2> QED BY <1>2, <2>1
<1> HIDE DEF f, n
<1>4. SumFunctionOnSet(f, D) = SizeBefore(Order, n + 1)
  BY <1>1, <1>3, OffsetsFilled
<1>5. EndOfPayloads = SumFunctionOnSet(f, DOMAIN f)
  BY DEF EndOfPayloads, SumFunction, f
<1> QED BY <1>2, <1>4, <1>5 DEF n

\* A capture that has read nothing yet knows what the archive holds.
LEMMA InitCapture == ChunkInit => CInv
<1> SUFFICES ASSUME ChunkInit PROVE CInv
  OBVIOUS
<1>1. IInv
  BY InitInvariant DEF ChunkInit
<1>2. BaseOrder \in Seq(Identity) /\ Base \in Nat /\ Base = Len(BaseOrder)
  BY BaseShape DEF Base
<1>3. \A i \in 1..Base : BaseOrder[i] \in Identity
  BY <1>2
<1>4. /\ chunks = [i \in 1..Base |-> [identity |-> BaseOrder[i], block |-> i]]
      /\ Len(chunks) = Base /\ chunks \in Seq([identity : Identity, block : Nat])
  BY <1>2, <1>3 DEF ChunkInit
<1>5. /\ Order \in Seq(Identity) /\ Len(Order) = Base
      /\ \A i \in 1..Base : Order[i] = BaseOrder[i]
  BY <1>2, <1>3, <1>4 DEF Order
<1>6. Order = BaseOrder
  BY <1>2, <1>5
<1>7. \A i \in 1..Base : PayloadSize[BaseOrder[i]] \in Nat
  BY <1>3, SizesPositive
<1>8. \A i \in 1..Base : SizeBefore(BaseOrder, i) \in Nat
  BY <1>2, OffsetsAdd
<1>9. /\ blocks = [i \in 1..Base |-> [offset |-> SizeBefore(BaseOrder, i),
                                     size |-> PayloadSize[BaseOrder[i]]]]
      /\ Len(blocks) = Base /\ blocks \in Seq([offset : Nat, size : Nat])
  BY <1>2, <1>7, <1>8 DEF ChunkInit
<1>10. \A i, j \in 1..Base : BaseOrder[i] = BaseOrder[j] => i = j
  BY ChunkAssumption DEF ChunkAssumption, Base
<1>11. /\ DOMAIN lookup = {BaseOrder[i] : i \in 1..Base}
       /\ \A i \in 1..Base : lookup[BaseOrder[i]] = i
  <2>1. lookup = [id \in Range(BaseOrder) |-> CHOOSE i \in 1..Base : BaseOrder[i] = id]
    BY DEF ChunkInit
  <2>2. Range(BaseOrder) = {BaseOrder[i] : i \in 1..Base}
    BY <1>2 DEF Range
  <2>3. \A i \in 1..Base : (CHOOSE j \in 1..Base : BaseOrder[j] = BaseOrder[i]) = i
    BY <1>10
  <2> QED BY <2>1, <2>2, <2>3
<1>12. Known
  BY <1>4, <1>11 DEF Known
<1>13. nextSubmit = 1 /\ nextWrite = 1 /\ op = "submit" /\ caller = "produce"
  BY DEF ChunkInit, Init
<1>14. Numbered
  BY <1>2, <1>4, <1>9, <1>13 DEF Numbered
<1>15. input \in Inputs /\ input \in Seq(Seq(Identity)) /\ Len(input) \in Nat
  BY ChunkAssumption DEF ChunkAssumption, ChunkInit
<1>16. Shape
  <2>1. refs \in Seq(Nat) /\ entries \in Seq(Seq(Nat)) /\ file = 1 /\ offset = 0
    BY DEF ChunkInit
  <2>2. DOMAIN lookup \subseteq Identity
    BY <1>3, <1>11
  <2> QED BY <1>4, <1>9, <1>15, <2>1, <2>2 DEF Shape
<1>17. Captured
  <2>1. refs = <<>> /\ entries = <<>> /\ file = 1 /\ offset = 0
    BY DEF ChunkInit
  <2>2. file <= Len(input) => Len(input[file]) \in Nat
    BY <1>15, <2>1
  <2> QED BY <1>15, <2>1, <2>2 DEF Captured, Names
<1>18. Ending
  BY <1>13 DEF Ending, Returned
<1>19. Stored
  <2>1. WrittenChunks = Base
    BY <1>2, <1>13 DEF WrittenChunks
  <2>2. archive = [at \in {SizeBefore(BaseOrder, i) : i \in 1..Base} |->
                     BaseOrder[CHOOSE i \in 1..Base : SizeBefore(BaseOrder, i) = at]]
    BY DEF ChunkInit
  <2>3. \A i, j \in 1..Base : SizeBefore(BaseOrder, i) = SizeBefore(BaseOrder, j) => i = j
    <3> SUFFICES ASSUME NEW i \in 1..Base, NEW j \in 1..Base, i < j,
                        SizeBefore(BaseOrder, i) = SizeBefore(BaseOrder, j)
                 PROVE  FALSE
      BY <1>2
    <3>1. SizeBefore(BaseOrder, i) < SizeBefore(BaseOrder, j)
      BY <1>2, OffsetsGrow
    <3> QED BY <1>8, <3>1
  <2>4. \A i \in 1..Base :
          (CHOOSE j \in 1..Base : SizeBefore(BaseOrder, j) = SizeBefore(BaseOrder, i)) = i
    BY <2>3
  <2>5. \A i \in 1..Base : archive[SizeBefore(BaseOrder, i)] = BaseOrder[i]
    BY <2>2, <2>4
  <2>6. archive = [at \in {SizeBefore(BaseOrder, i) : i \in 1..Base} |-> archive[at]]
    BY <2>2
  <2> QED BY <1>6, <1>9, <2>1, <2>5, <2>6 DEF Stored, PlacedInOrder
<1>20. FirstCome
  <2>1. file = 1 /\ offset = 0
    BY DEF ChunkInit
  <2>2. AfterFiles(input)[0] = BaseOrder
    BY <1>15, NumberingsOfFiles
  <2>3. CASE file <= Len(input)
    <3>1. input[file] \in Seq(Identity)
      BY <1>15, <2>1, <2>3
    <3>2. AfterChunks(AfterFiles(input)[0], input[file])[0] = AfterFiles(input)[0]
      BY <3>1, NumberingsOfChunks
    <3> QED BY <1>6, <2>1, <2>2, <2>3, <3>2 DEF FirstCome
  <2>4. CASE ~(file <= Len(input))
    <3>1. Len(input) = 0
      BY <1>15, <2>1, <2>4
    <3> QED BY <1>6, <2>2, <2>4, <3>1 DEF FirstCome
  <2> QED BY <2>3, <2>4
<1> QED BY <1>1, <1>12, <1>14, <1>16, <1>17, <1>18, <1>19, <1>20 DEF CInv
\* Inputs are sequences of sequences of identities.
LEMMA InputShape ==
  ASSUME Shape
  PROVE  /\ input \in Seq(Seq(Identity)) /\ Len(input) \in Nat /\ file \in Nat
         /\ \A i \in 1..Len(input) : input[i] \in Seq(Identity) /\ Len(input[i]) \in Nat
         /\ \A i \in 1..Len(input) : \A k \in 1..Len(input[i]) : input[i][k] \in Identity
<1>1. input \in Seq(Seq(Identity))
  BY ChunkAssumption DEF ChunkAssumption, Shape
<1>2. Len(input) \in Nat /\ \A i \in 1..Len(input) : input[i] \in Seq(Identity)
  BY <1>1, ElementOfSeq
<1>3. \A i \in 1..Len(input) :
        Len(input[i]) \in Nat /\ \A k \in 1..Len(input[i]) : input[i][k] \in Identity
  BY <1>2
<1>4. file \in Nat
  BY <1>2 DEF Shape
<1> QED BY <1>1, <1>2, <1>3, <1>4

\* Most steps of the encoder leave the records alone.
LEMMA RecordsKept ==
  ASSUME CInv, IInv', UNCHANGED chunkVars, nextSubmit' = nextSubmit, nextWrite' = nextWrite,
         Ending'
  PROVE  CInv'
<1>1. Shape' /\ Numbered' /\ Known' /\ Captured'
  <2>1. Shape' /\ Numbered'
    BY DEF CInv, chunkVars, Shape, Numbered
  <2>2. Known'
    BY DEF CInv, chunkVars, Known
  <2>3. Captured'
    BY DEF CInv, chunkVars, Captured, Names
  <2> QED BY <2>1, <2>2, <2>3
<1>2. Order' = Order /\ WrittenChunks' = WrittenChunks
  BY DEF chunkVars, Order, WrittenChunks
<1>3. Stored'
  BY <1>2 DEF CInv, chunkVars, Stored
<1>4. FirstCome'
  BY <1>2 DEF CInv, chunkVars, FirstCome
<1> QED BY <1>1, <1>3, <1>4 DEF CInv

\* Steps of the encoder alone leave the capture where it is.
LEMMA EncoderKeeps ==
  ASSUME CInv, IInv', CaptureDone \/ EncoderStep \/ (\E w \in Worker : EncodeStep(w))
  PROVE  CInv'
<1>1. UNCHANGED chunkVars
  BY DEF CaptureDone, EncoderStep, EncodeStep
<1>2. CASE CaptureDone
  <2>1. nextSubmit' = nextSubmit /\ nextWrite' = nextWrite /\ Ending'
    BY <1>1, <1>2 DEF CaptureDone, FinishCall, Ending, chunkVars
  <2> QED BY <1>1, <2>1, RecordsKept
<1>3. CASE EncoderStep
  <2>1. nextSubmit' = nextSubmit /\ nextWrite' = nextWrite
    BY <1>3 DEF EncoderStep, InlineFailure, ProducerThrows, RethrowFailure, TakeReady,
                WriteFails, NotifyWriteFailure, Enqueue, NotifyOneWorker, AwaitResult,
                FinishReturns, Stop, NotifyStop, Join, callerVars
  <2>2. op' = op /\ Ending
    BY <1>3 DEF CInv, EncoderStep, InlineFailure, ProducerThrows, RethrowFailure,
                TakeReady, WriteFails, NotifyWriteFailure, Enqueue, NotifyOneWorker,
                AwaitResult, FinishReturns, Stop, NotifyStop, Join, callerVars
  <2>3. Ending'
    BY <1>1, <1>3, <2>2
    DEF EncoderStep, InlineFailure, ProducerThrows, RethrowFailure, TakeReady,
        WriteFails, NotifyWriteFailure, Enqueue, NotifyOneWorker, AwaitResult,
        FinishReturns, Stop, NotifyStop, Join, callerVars, chunkVars, Ending, Returned,
        NothingReady
  <2> QED BY <1>1, <2>1, <2>3, RecordsKept
<1>4. ASSUME NEW w \in Worker, EncodeStep(w) PROVE CInv'
  <2>1. /\ nextSubmit' = nextSubmit /\ nextWrite' = nextWrite /\ op' = op
        /\ caller' \in {caller, "drain"}
    BY <1>4 DEF EncodeStep, WorkerStep, WorkerExits, WorkerTakes, WorkerWaits,
                WorkerPublishes, WorkerFails, WorkerNotifies, WorkerNotifiesFailure,
                WakeCaller, callerVars
  <2>2. Ending'
    BY <1>1, <2>1 DEF CInv, Ending, Returned, chunkVars
  <2> QED BY <1>1, <2>1, <2>2, RecordsKept
<1> QED BY <1>2, <1>3, <1>4

\* References keep their meaning while chunk records are appended.
LEMMA NamesKept ==
  ASSUME NEW r, NEW s, Names(r, s), Len(chunks) \in Nat, Len(chunks') \in Nat,
         Len(chunks) <= Len(chunks'),
         \A i \in 1..Len(chunks) : chunks'[i].identity = chunks[i].identity
  PROVE  \A k \in 1..Len(r) : r[k] \in 1..Len(chunks') /\ chunks'[r[k]].identity = s[k]
  BY DEF Names

\* A reference more names an identity more.
LEMMA NamesAppended ==
  ASSUME NEW r \in Seq(Nat), NEW s, NEW n \in Nat, NEW names,
         \A k \in 1..Len(r) : r[k] \in 1..n /\ names[r[k]].identity = s[k],
         NEW ref \in 1..n, names[ref].identity = s[Len(r) + 1]
  PROVE  /\ Append(r, ref) \in Seq(Nat) /\ Len(Append(r, ref)) = Len(r) + 1
         /\ \A k \in 1..Len(Append(r, ref)) :
              Append(r, ref)[k] \in 1..n /\ names[Append(r, ref)[k]].identity = s[k]
  OBVIOUS

\* A known chunk is captured by a reference alone.
LEMMA ReuseKeeps ==
  ASSUME CInv, IInv', ReuseChunk
  PROVE  CInv'
<1>1. /\ UNCHANGED <<vars, input, file, entries, lookup, chunks, blocks, archive>>
      /\ refs' = Append(refs, lookup[NextIdentity]) /\ offset' = offset + 1
      /\ caller = "produce" /\ file <= Len(input) /\ offset < Len(input[file])
      /\ NextIdentity \in DOMAIN lookup
  BY DEF ReuseChunk, MoreToRead, Reading
<1>2. nextSubmit' = nextSubmit /\ nextWrite' = nextWrite /\ op' = op /\ caller' = caller
  BY <1>1 DEF vars, callerVars
<1>3. Numbered' /\ Known' /\ Ending'
  BY <1>1, <1>2 DEF CInv, Numbered, Known, Ending, Returned
<1>4. Stored'
  <2>1. Order' = Order /\ WrittenChunks' = WrittenChunks
    BY <1>1, <1>2 DEF Order, WrittenChunks
  <2> QED BY <1>1, <2>1 DEF CInv, Stored
<1>5. /\ Len(input) \in Nat /\ file \in 1..Len(input) /\ Len(input[file]) \in Nat
      /\ offset \in Nat /\ refs \in Seq(Nat) /\ Len(refs) = offset
      /\ Len(chunks) \in Nat
  BY <1>1, InputShape DEF CInv, Shape, Captured
<1>6. /\ lookup[NextIdentity] \in 1..Len(chunks)
      /\ chunks[lookup[NextIdentity]].identity = input[file][Len(refs) + 1]
  BY <1>1, <1>5 DEF CInv, Known, NextIdentity
<1>7. /\ refs' \in Seq(Nat) /\ Len(refs') = offset + 1
      /\ \A k \in 1..Len(refs') : refs'[k] \in 1..Len(chunks)
                                  /\ chunks[refs'[k]].identity = input[file][k]
  <2>1. \A k \in 1..Len(refs) : refs[k] \in 1..Len(chunks)
                                /\ chunks[refs[k]].identity = input[file][k]
    BY <1>1 DEF CInv, Captured, Names
  <2> DEFINE n == Len(chunks)
             s == input[file]
             names == chunks
             ref == lookup[NextIdentity]
  <2>2. n \in Nat /\ ref \in 1..n /\ names[ref].identity = s[Len(refs) + 1]
        /\ refs' = Append(refs, ref)
    BY <1>1, <1>5, <1>6
  <2> HIDE DEF n, s, names, ref
  <2>3. \A k \in 1..Len(refs) : refs[k] \in 1..n /\ names[refs[k]].identity = s[k]
    BY <2>1 DEF n, s, names
  <2>4. /\ refs' \in Seq(Nat) /\ Len(refs') = Len(refs) + 1
        /\ \A k \in 1..Len(refs') : refs'[k] \in 1..n /\ names[refs'[k]].identity = s[k]
    BY <1>5, <2>2, <2>3, NamesAppended
  <2> QED BY <1>5, <2>4 DEF n, s, names
<1>8. Shape'
  BY <1>1, <1>5, <1>7 DEF CInv, Shape
<1>9. Captured'
  <2>1. /\ Len(entries) = file - 1
        /\ \A i \in 1..(file - 1) :
             Len(entries[i]) = Len(input[i]) /\ Names(entries[i], input[i])
    BY DEF CInv, Captured
  <2>2. offset + 1 <= Len(input[file]) /\ file # Len(input) + 1
    BY <1>1, <1>5
  <2> QED BY <1>1, <1>7, <2>1, <2>2 DEF Captured, Names
<1>10. FirstCome'
  <2> DEFINE after == AfterChunks(AfterFiles(input)[file - 1], input[file])
  <2>1. /\ input[file] \in Seq(Identity) /\ offset + 1 \in 1..Len(input[file])
        /\ offset + 1 - 1 = offset /\ file <= Len(input)
    BY <1>1, <1>5, InputShape DEF CInv
  <2>2. after[offset + 1] = Numbering(after[offset], NextIdentity)
    <3>1. \A k \in 1..Len(input[file]) : after[k] = Numbering(after[k - 1], input[file][k])
      BY <2>1, NumberingsOfChunks
    <3> HIDE DEF after
    <3> DEFINE k == offset + 1
    <3>2. k \in 1..Len(input[file]) /\ k - 1 = offset
      <4>1. offset \in Nat
        BY <1>5
      <4> QED BY <2>1, <4>1
    <3> HIDE DEF k
    <3>3. after[k] = Numbering(after[k - 1], input[file][k])
      BY <3>1, <3>2
    <3> QED BY <3>2, <3>3 DEF k, NextIdentity
  <2>3. after[offset] = Order
    BY <2>1 DEF CInv, FirstCome
  <2>4. Contains(Order, NextIdentity)
    <3>1. Len(Order) = Len(chunks) /\ Order[lookup[NextIdentity]] = NextIdentity
      BY <1>1, CaptureShape DEF CInv, Known
    <3> QED BY <1>6, <3>1 DEF Contains
  <2> HIDE DEF after
  <2>5. after[offset + 1] = Order
    BY <2>2, <2>3, <2>4 DEF Numbering
  <2>6. Order' = Order
    BY <1>1 DEF Order
  <2> QED BY <1>1, <2>1, <2>5, <2>6 DEF FirstCome, after
<1> QED BY <1>3, <1>4, <1>8, <1>9, <1>10 DEF CInv

\* A finished file keeps its references, and the next starts where it ended.
LEMMA FileKeeps ==
  ASSUME CInv, IInv', FileDone
  PROVE  CInv'
<1>1. /\ UNCHANGED <<vars, input, lookup, chunks, blocks, archive>>
      /\ entries' = Append(entries, refs) /\ refs' = <<>> /\ file' = file + 1
      /\ offset' = 0 /\ caller = "produce" /\ file <= Len(input)
      /\ offset = Len(input[file])
  BY DEF FileDone, Reading
<1>2. nextSubmit' = nextSubmit /\ nextWrite' = nextWrite /\ op' = op /\ caller' = caller
  BY <1>1 DEF vars, callerVars
<1>3. Numbered' /\ Known'
  BY <1>1, <1>2 DEF CInv, Numbered, Known
<1>4. Ending'
  BY <1>1, <1>2 DEF CInv, Ending, Returned
<1>5. Stored'
  <2>1. Order' = Order /\ WrittenChunks' = WrittenChunks
    BY <1>1, <1>2 DEF Order, WrittenChunks
  <2> QED BY <1>1, <2>1 DEF CInv, Stored
<1>6. /\ Len(input) \in Nat /\ file \in 1..Len(input)
      /\ \A i \in 1..Len(input) : Len(input[i]) \in Nat
      /\ refs \in Seq(Nat) /\ entries \in Seq(Seq(Nat)) /\ Len(entries) = file - 1
      /\ Len(refs) = Len(input[file]) /\ Names(refs, input[file])
  BY <1>1, InputShape DEF CInv, Shape, Captured
<1>7. /\ entries' \in Seq(Seq(Nat)) /\ Len(entries') = file /\ entries'[file] = refs
      /\ \A i \in 1..(file - 1) : entries'[i] = entries[i]
  BY <1>1, <1>6
<1>8. Shape'
  <2>1. file' \in 1..(Len(input) + 1) /\ refs' \in Seq(Nat)
    BY <1>1, <1>6
  <2> QED BY <1>1, <1>7, <2>1 DEF CInv, Shape
<1>9. Captured'
  <2>1. \A i \in 1..(file - 1) :
          Len(entries[i]) = Len(input[i]) /\ Names(entries[i], input[i])
    BY DEF CInv, Captured
  <2>2. \A i \in 1..file :
          Len(entries'[i]) = Len(input[i]) /\ Names(entries'[i], input[i])
    <3> SUFFICES ASSUME NEW i \in 1..file
                 PROVE  Len(entries'[i]) = Len(input[i]) /\ Names(entries'[i], input[i])
      OBVIOUS
    <3>1. i = file \/ i \in 1..(file - 1)
      BY <1>6
    <3> QED BY <1>6, <1>7, <2>1, <3>1
  <2>3. Len(entries') = file' - 1 /\ file' - 1 = file
    BY <1>1, <1>6, <1>7
  <2>4. \A r, s : Names(r, s) => Names(r, s)'
    BY <1>1 DEF Names
  <2>5. \A i \in 1..(file' - 1) :
          Len(entries'[i]) = Len(input'[i]) /\ (\A k \in 1..Len(entries'[i]) :
            entries'[i][k] \in 1..Len(chunks') /\ chunks'[entries'[i][k]].identity = input'[i][k])
    BY <1>1, <2>2, <2>3 DEF Names
  <2>6. file' <= Len(input') => /\ Len(refs') = offset' /\ offset' <= Len(input'[file'])
                                /\ Len(refs') = 0
    <3>1. file + 1 <= Len(input) => Len(input[file + 1]) \in Nat
      BY <1>6
    <3> QED BY <1>1, <3>1
  <2> QED BY <1>1, <2>3, <2>5, <2>6 DEF Captured, Names
<1>10. FirstCome'
  <2> DEFINE files == AfterFiles(input)
  <2>1. /\ input \in Seq(Seq(Identity)) /\ input[file] \in Seq(Identity)
        /\ file + 1 - 1 = file
    BY <1>6, InputShape DEF CInv
  <2>2. files[file] = AfterChunks(files[file - 1], input[file])[Len(input[file])]
    BY <1>6, <2>1, NumberingsOfFiles
  <2>3. Order = files[file]
    BY <1>1, <2>2 DEF CInv, FirstCome
  <2>4. Order' = files[file]
    BY <1>1, <2>3 DEF Order
  <2> HIDE DEF files
  <2>5. CASE file + 1 <= Len(input)
    <3>1. input[file + 1] \in Seq(Identity)
      BY <1>6, <2>1, <2>5, InputShape DEF CInv
    <3>2. AfterChunks(files[file], input[file + 1])[0] = files[file]
      BY <3>1, NumberingsOfChunks
    <3>3. file' = file + 1 /\ file' - 1 = file /\ offset' = 0 /\ input' = input
      <4>1. file \in Nat
        BY <1>6
      <4> QED BY <1>1, <4>1
    <3>4. Order' = AfterChunks(AfterFiles(input')[file' - 1], input'[file'])[offset']
      BY <2>4, <3>2, <3>3 DEF files
    <3> QED BY <2>5, <3>3, <3>4 DEF FirstCome
  <2>6. CASE ~(file + 1 <= Len(input))
    <3>1. file = Len(input)
      BY <1>6, <2>6
    <3> QED BY <1>1, <2>4, <2>6, <3>1 DEF FirstCome, files
  <2> QED BY <2>5, <2>6
<1> QED BY <1>3, <1>4, <1>5, <1>8, <1>9, <1>10 DEF CInv
\* What is placed in order stays so when an order grows.
LEMMA PlacedInLongerOrder ==
  ASSUME NEW order, NEW longer, NEW n \in Nat, NEW payloads, NEW records, NEW more,
         PlacedInOrder(order, n, payloads, records),
         \A i \in 1..n : longer[i] = order[i] /\ more[i] = records[i]
  PROVE  PlacedInOrder(longer, n, payloads, more)
<1>1. \A i \in 1..n : SizeBefore(longer, i) = SizeBefore(order, i)
  <2> SUFFICES ASSUME NEW i \in 1..n PROVE SizeBefore(longer, i) = SizeBefore(order, i)
    OBVIOUS
  <2>1. \A j \in 1..(i - 1) : longer[j] = order[j]
    OBVIOUS
  <2> QED BY <2>1, OffsetsAgree
<1>2. {SizeBefore(longer, i) : i \in 1..n} = {SizeBefore(order, i) : i \in 1..n}
  BY <1>1
<1> QED BY <1>1, <1>2 DEF PlacedInOrder

\* A sequence with one more element, as a function.
LEMMA AppendedAsFunction ==
  ASSUME NEW S, NEW s \in Seq(S), NEW x \in S
  PROVE  Append(s, x) =
           [i \in 1..(Len(s) + 1) |-> IF i = Len(s) + 1 THEN x ELSE s[i]]
<1> DEFINE e == Append(s, x)
<1>1. /\ e \in Seq(S) /\ Len(e) = Len(s) + 1
      /\ \A i \in 1..Len(s) : e[i] = s[i]
      /\ e[Len(s) + 1] = x
  BY AppendProperties
<1>2. Len(s) \in Nat
  OBVIOUS
<1> HIDE DEF e
<1>3. e = [i \in 1..(Len(s) + 1) |-> e[i]]
  BY <1>1
<1>4. \A i \in 1..(Len(s) + 1) : e[i] = IF i = Len(s) + 1 THEN x ELSE s[i]
  BY <1>1, <1>2
<1> QED BY <1>3, <1>4 DEF e

\* A chunk that is met for the first time gets the next number everywhere.
LEMMA SubmitKeeps ==
  ASSUME CInv, IInv', SubmitChunk
  PROVE  CInv'
<1> DEFINE id == input[file][offset + 1]
           n == Len(chunks)
<1>1. /\ UNCHANGED <<input, file, entries, archive>>
      /\ refs' = Append(refs, n + 1) /\ offset' = offset + 1
      /\ caller = "produce" /\ file <= Len(input) /\ offset < Len(input[file])
      /\ id \notin DOMAIN lookup
      /\ blocks' = Append(blocks, [offset |-> 0, size |-> 0])
      /\ chunks' = Append(chunks, [identity |-> id, block |-> Len(blocks) + 1])
      /\ lookup' = [y \in DOMAIN lookup \cup {id} |-> IF y = id THEN n + 1 ELSE lookup[y]]
  BY DEF SubmitChunk, MoreToRead, Reading, NextIdentity, Mapped
<1>2. /\ nextSubmit' = nextSubmit + 1 /\ nextWrite' = nextWrite
      /\ op' = "submit" /\ caller' \in {"inline", "drain"}
  BY DEF SubmitChunk, SubmitCall
<1>3. /\ Len(input) \in Nat /\ file \in 1..Len(input) /\ Len(input[file]) \in Nat
      /\ offset \in Nat /\ refs \in Seq(Nat) /\ Len(refs) = offset
      /\ n \in Nat /\ id \in Identity
      /\ chunks \in Seq([identity : Identity, block : Nat])
      /\ blocks \in Seq([offset : Nat, size : Nat]) /\ Len(blocks) = n
  <2>1. /\ Len(input) \in Nat /\ file \in 1..Len(input) /\ Len(input[file]) \in Nat
        /\ offset \in Nat
    BY <1>1, InputShape DEF CInv, Shape
  <2>2. offset + 1 \in 1..Len(input[file])
    BY <1>1, <2>1
  <2>3. id \in Identity
    BY <2>1, <2>2, InputShape DEF CInv
  <2> QED BY <1>1, <2>1, <2>3 DEF CInv, Shape, Captured, Numbered
<1> HIDE DEF id, n
<1>4. /\ chunks' \in Seq([identity : Identity, block : Nat]) /\ Len(chunks') = n + 1
      /\ chunks'[n + 1] = [identity |-> id, block |-> n + 1]
      /\ \A i \in 1..n : chunks'[i] = chunks[i]
  <2>1. [identity |-> id, block |-> n + 1] \in [identity : Identity, block : Nat]
    BY <1>3
  <2> QED BY <1>1, <1>3, <2>1 DEF n
<1>5. /\ blocks' \in Seq([offset : Nat, size : Nat]) /\ Len(blocks') = n + 1
      /\ \A i \in 1..n : blocks'[i] = blocks[i]
  <2>1. [offset |-> 0, size |-> 0] \in [offset : Nat, size : Nat]
    OBVIOUS
  <2> QED BY <1>1, <1>3, <2>1
<1>6. 1..(n + 1) = (1..n) \cup {n + 1}
  BY <1>3
<1>7. Numbered'
  <2>1. n = Base + nextSubmit - 1 /\ Base \in Nat /\ nextSubmit \in Nat
    BY CaptureShape DEF CInv, Numbered, n
  <2>2. Len(chunks') = Base + nextSubmit' - 1
    BY <1>2, <1>4, <2>1
  <2>3. \A i \in 1..(n + 1) : chunks'[i].block = i
    BY <1>4, <1>6 DEF CInv, Numbered, n
  <2> QED BY <1>4, <1>5, <2>2, <2>3 DEF Numbered
<1>8. Known'
  <2>1. \A y \in DOMAIN lookup' :
          lookup'[y] \in 1..(n + 1) /\ chunks'[lookup'[y]].identity = y
    <3> SUFFICES ASSUME NEW y \in DOMAIN lookup'
                 PROVE  lookup'[y] \in 1..(n + 1) /\ chunks'[lookup'[y]].identity = y
      OBVIOUS
    <3>1. CASE y = id
      BY <1>1, <1>4, <1>6, <3>1
    <3>2. CASE y # id
      <4>1. y \in DOMAIN lookup /\ lookup'[y] = lookup[y]
        BY <1>1, <3>2
      <4>2. lookup[y] \in 1..n /\ chunks[lookup[y]].identity = y
        BY <4>1 DEF CInv, Known, n
      <4> QED BY <1>4, <1>6, <4>1, <4>2
    <3> QED BY <3>1, <3>2
  <2>2. \A i \in 1..(n + 1) :
          chunks'[i].identity \in DOMAIN lookup' /\ lookup'[chunks'[i].identity] = i
    <3> SUFFICES ASSUME NEW i \in 1..(n + 1)
                 PROVE  chunks'[i].identity \in DOMAIN lookup' /\ lookup'[chunks'[i].identity] = i
      OBVIOUS
    <3>1. CASE i = n + 1
      BY <1>1, <1>4, <3>1
    <3>2. CASE i \in 1..n
      <4>1. chunks[i].identity \in DOMAIN lookup /\ lookup[chunks[i].identity] = i
        BY <3>2 DEF CInv, Known, n
      <4>2. chunks[i].identity # id
        BY <1>1, <4>1
      <4> QED BY <1>1, <1>4, <3>2, <4>1, <4>2
    <3> QED BY <1>6, <3>1, <3>2
  <2> QED BY <1>4, <2>1, <2>2 DEF Known
<1>9. /\ refs' \in Seq(Nat) /\ Len(refs') = offset + 1
      /\ \A k \in 1..Len(refs') : refs'[k] \in 1..(n + 1)
                                  /\ chunks'[refs'[k]].identity = input[file][k]
  <2>1. \A k \in 1..Len(refs) : refs[k] \in 1..n
                                /\ chunks[refs[k]].identity = input[file][k]
    BY <1>1 DEF CInv, Captured, Names, n
  <2>2. \A k \in 1..Len(refs) : refs[k] \in 1..(n + 1)
                                /\ chunks'[refs[k]].identity = input[file][k]
    BY <1>4, <1>6, <2>1
  <2>3. n + 1 \in 1..(n + 1) /\ chunks'[n + 1].identity = input[file][Len(refs) + 1]
    BY <1>3, <1>4 DEF id
  <2> DEFINE m == n + 1
             s == input[file]
             names == chunks'
  <2>4. m \in Nat /\ m \in 1..m
    BY <1>3
  <2>5. /\ \A k \in 1..Len(refs) : refs[k] \in 1..m /\ names[refs[k]].identity = s[k]
        /\ names[m].identity = s[Len(refs) + 1]
    BY <2>2, <2>3
  <2>6. refs' = Append(refs, m)
    BY <1>1
  <2> HIDE DEF m, s, names
  <2>7. /\ refs' \in Seq(Nat) /\ Len(refs') = Len(refs) + 1
        /\ \A k \in 1..Len(refs') : refs'[k] \in 1..m /\ names[refs'[k]].identity = s[k]
    BY <1>3, <2>4, <2>5, <2>6, NamesAppended
  <2> QED BY <1>3, <2>7 DEF m, s, names
<1>10. Shape'
  <2>1. DOMAIN lookup' \subseteq Identity
    BY <1>1, <1>3 DEF CInv, Shape
  <2>2. offset' \in Nat
    BY <1>1, <1>3
  <2> QED BY <1>1, <1>4, <1>5, <1>9, <2>1, <2>2 DEF CInv, Shape
<1>11. Captured'
  <2>1. /\ Len(entries) = file - 1
        /\ \A i \in 1..(file - 1) :
             Len(entries[i]) = Len(input[i]) /\ Names(entries[i], input[i])
    BY DEF CInv, Captured
  <2>2. \A i \in 1..n : chunks'[i].identity = chunks[i].identity
    BY <1>4
  <2>3. \A i \in 1..(file - 1) : \A k \in 1..Len(entries[i]) :
          entries[i][k] \in 1..(n + 1) /\ chunks'[entries[i][k]].identity = input[i][k]
    BY <1>3, <1>6, <2>1, <2>2 DEF Names, n
  <2>4. offset + 1 <= Len(input[file]) /\ file # Len(input) + 1
    BY <1>1, <1>3
  <2> QED BY <1>1, <1>4, <1>9, <2>1, <2>3, <2>4 DEF Captured, Names
<1>12. Ending'
  BY <1>2 DEF Ending, Returned
<1>13. Stored'
  <2>1. WrittenChunks' = WrittenChunks /\ WrittenChunks \in Nat /\ WrittenChunks <= n
        /\ \A i \in 1..n : Order[i] = chunks[i].identity
    BY <1>2, CaptureShape DEF WrittenChunks, n
  <2>2. \A i \in 1..n : Order'[i] = chunks'[i].identity
    BY <1>4, <1>6 DEF Order
  <2>3. \A i \in 1..WrittenChunks : Order'[i] = Order[i] /\ blocks'[i] = blocks[i]
    <3>1. \A i \in 1..WrittenChunks : i \in 1..n
      BY <1>3, <2>1
    <3> QED BY <1>4, <1>5, <2>1, <2>2, <3>1
  <2>4. PlacedInOrder(Order, WrittenChunks, archive, blocks)
    BY DEF CInv, Stored
  <2>5. PlacedInOrder(Order', WrittenChunks, archive, blocks')
    BY <2>1, <2>3, <2>4, PlacedInLongerOrder
  <2> QED BY <1>1, <2>1, <2>5 DEF Stored
<1>14. FirstCome'
  <2> DEFINE after == AfterChunks(AfterFiles(input)[file - 1], input[file])
  <2>1. /\ input[file] \in Seq(Identity) /\ offset + 1 \in 1..Len(input[file])
        /\ offset + 1 - 1 = offset /\ file <= Len(input)
    BY <1>1, <1>3, InputShape DEF CInv
  <2>2. after[offset + 1] = Numbering(after[offset], id)
    <3>1. \A k \in 1..Len(input[file]) : after[k] = Numbering(after[k - 1], input[file][k])
      BY <2>1, NumberingsOfChunks
    <3> HIDE DEF after
    <3> DEFINE k == offset + 1
    <3>2. k \in 1..Len(input[file]) /\ k - 1 = offset
      <4>1. offset \in Nat
        BY <1>3
      <4> QED BY <2>1, <4>1
    <3> HIDE DEF k
    <3>3. after[k] = Numbering(after[k - 1], input[file][k])
      BY <3>1, <3>2
    <3> QED BY <3>2, <3>3 DEF k, id
  <2>3. after[offset] = Order
    BY <2>1 DEF CInv, FirstCome
  <2>4. /\ Order \in Seq(Identity) /\ Len(Order) = n
        /\ \A i \in 1..n : Order[i] = chunks[i].identity
    BY CaptureShape DEF n
  <2>5. ~Contains(Order, id)
    <3> SUFFICES ASSUME NEW i \in 1..n, Order[i] = id PROVE FALSE
      BY <2>4 DEF Contains
    <3>1. chunks[i].identity \in DOMAIN lookup
      BY DEF CInv, Known, n
    <3> QED BY <1>1, <2>4, <3>1
  <2> HIDE DEF after
  <2>6. after[offset + 1] = Append(Order, id)
    BY <2>2, <2>3, <2>5 DEF Numbering
  <2>7. Order' = Append(Order, id)
    <3>1. Order' = [i \in 1..(n + 1) |-> chunks'[i].identity]
      BY <1>4 DEF Order
    <3>2. \A i \in 1..(n + 1) : chunks'[i].identity = IF i = n + 1 THEN id ELSE Order[i]
      BY <1>4, <1>6, <2>4
    <3>3. Append(Order, id) = [i \in 1..(n + 1) |-> IF i = n + 1 THEN id ELSE Order[i]]
      <4> DEFINE o == Order
      <4>1. id \in Identity /\ o \in Seq(Identity) /\ Len(o) = n
        BY <1>3, <2>4
      <4> HIDE DEF o, id
      <4>2. Append(o, id) =
              [i \in 1..(Len(o) + 1) |-> IF i = Len(o) + 1 THEN id ELSE o[i]]
        BY <4>1, AppendedAsFunction
      <4> QED BY <4>1, <4>2 DEF o
    <3> QED BY <3>1, <3>2, <3>3
  <2> QED BY <1>1, <2>1, <2>6, <2>7 DEF FirstCome, after
<1> QED BY <1>7, <1>8, <1>10, <1>11, <1>12, <1>13, <1>14 DEF CInv

\* A payload that is written goes where its records say it is.
LEMMA WriteKeeps ==
  ASSUME CInv, IInv', WritePayload
  PROVE  CInv'
<1> DEFINE m == WrittenChunks + 1
           at == SizeBefore(Order, m)
<1>1. /\ nextWrite' = nextWrite + 1 /\ nextSubmit' = nextSubmit /\ op' = op
      /\ caller \in {"write", "inline"} /\ caller' \in {"drain", "produce"}
      /\ caller = "write" => caller' = "drain"
      /\ caller = "inline" => caller' = "produce"
  BY DEF WritePayload, WriteBlock, InlineWrite
<1>2. /\ UNCHANGED <<input, file, offset, refs, entries, lookup, chunks>>
      /\ archive' = Mapped(archive, EndOfPayloads, WrittenIdentity)
      /\ blocks' = [blocks EXCEPT ![WrittenBlock] =
                      [offset |-> EndOfPayloads, size |-> PayloadSize[WrittenIdentity]]]
  BY DEF WritePayload, RecordPayload
<1>3. m \in 1..Len(chunks) /\ m = WrittenBlock /\ WrittenChunks' = m
  <2>1. /\ Base \in Nat /\ nextWrite \in Nat /\ nextSubmit \in Nat
        /\ Len(chunks) = Base + nextSubmit - 1
    BY CaptureShape DEF CInv, Numbered
  <2>2. nextWrite <= nextSubmit - 1 /\ nextWrite >= 1
    <3>1. LastAdmitted \in {nextSubmit - 1, nextSubmit - 2} /\ nextWrite \in 1..(NumBlocks + 1)
      BY DEF CInv, IInv, AccountsExact, TypeOK
    <3>2. CASE caller = "write"
      <4>1. nextWrite <= LastTaken /\ LastTaken <= LastAdmitted /\ LastTaken \in Int
        BY <3>2, Indices DEF CInv, IInv, Placed
      <4> QED BY <2>1, <3>1, <4>1
    <3>3. CASE caller = "inline"
      <4>1. LastAdmitted = nextSubmit - 2 /\ inflightCount = 0
        BY <3>3 DEF CInv, IInv, SerialPath
      <4>2. nextWrite - 1 = nextSubmit - 2
        BY <2>1, <4>1 DEF LastAdmitted
      <4> QED BY <2>1, <3>1, <4>2, CaptureShape
    <3> QED BY <1>1, <3>2, <3>3
  <2>3. WrittenChunks = Base + nextWrite - 1 /\ WrittenChunks' = Base + nextWrite' - 1
    BY DEF WrittenChunks
  <2> QED BY <1>1, <2>1, <2>2, <2>3 DEF WrittenBlock
<1>4. /\ Order \in Seq(Identity) /\ Len(Order) = Len(chunks) /\ Len(chunks) \in Nat
      /\ WrittenChunks \in Nat /\ Order[m] \in Identity
      /\ WrittenIdentity = Order[m] /\ EndOfPayloads = at
  <2>1. WrittenIdentity = chunks[WrittenBlock].identity
    BY DEF WrittenIdentity, WrittenBlock
  <2> QED BY <1>3, <2>1, CaptureShape, EndIsNextOffset
<1>5. at \in Nat /\ PayloadSize[Order[m]] \in Nat
  BY <1>3, <1>4, OffsetsAdd, SizesPositive
<1> HIDE DEF m, at
<1>6. /\ archive' = Mapped(archive, at, Order[m])
      /\ blocks' = [blocks EXCEPT ![m] = [offset |-> at, size |-> PayloadSize[Order[m]]]]
  BY <1>2, <1>3, <1>4
<1>7. /\ blocks' \in Seq([offset : Nat, size : Nat]) /\ Len(blocks') = Len(blocks)
      /\ blocks'[m] = [offset |-> at, size |-> PayloadSize[Order[m]]]
      /\ \A i \in 1..Len(chunks) : i # m => blocks'[i] = blocks[i]
  <2>1. blocks \in Seq([offset : Nat, size : Nat]) /\ Len(blocks) = Len(chunks)
    BY DEF CInv, Shape, Numbered
  <2>2. [offset |-> at, size |-> PayloadSize[Order[m]]] \in [offset : Nat, size : Nat]
    BY <1>5
  <2> QED BY <1>3, <1>6, <2>1, <2>2
<1>8. Shape' /\ Numbered' /\ Known'
  <2>1. Shape'
    BY <1>2, <1>7 DEF CInv, Shape
  <2>2. Numbered'
    BY <1>1, <1>2, <1>7 DEF CInv, Numbered
  <2>3. Known'
    BY <1>2 DEF CInv, Known
  <2> QED BY <2>1, <2>2, <2>3
<1>9. Captured'
  BY <1>2 DEF CInv, Captured, Names
<1>10. Ending'
  BY <1>1, <1>2 DEF CInv, Ending, Returned
<1>11. Stored'
  <2>1. Order' = Order
    BY <1>2 DEF Order
  <2>2. PlacedInOrder(Order, WrittenChunks, archive, blocks)
    BY DEF CInv, Stored
  <2>3. /\ m \in Nat /\ WrittenChunks = m - 1 /\ 1..m = (1..(m - 1)) \cup {m}
        /\ \A i \in 1..(m - 1) : i \in 1..Len(chunks) /\ i # m /\ i < m
                                 /\ i \in 1..(Len(Order) + 1)
        /\ m \in 1..(Len(Order) + 1)
    BY <1>3, <1>4 DEF m
  <2>4. \A i \in 1..(m - 1) : SizeBefore(Order, i) \in Nat /\ SizeBefore(Order, i) < at
    BY <1>4, <2>3, OffsetsAdd, OffsetsGrow DEF at
  <2>5. \A i \in 1..(m - 1) : SizeBefore(Order, i) # at
    BY <1>5, <2>4
  <2>6. DOMAIN archive = {SizeBefore(Order, i) : i \in 1..(m - 1)}
    BY <2>2, <2>3 DEF PlacedInOrder
  <2>7. {SizeBefore(Order, i) : i \in 1..m} = DOMAIN archive \cup {at}
    BY <2>3, <2>6 DEF at
  <2>8. archive' = [y \in DOMAIN archive \cup {at} |-> IF y = at THEN Order[m] ELSE archive[y]]
    BY <1>6 DEF Mapped
  <2>9. archive'[SizeBefore(Order, m)] = Order[m]
    BY <2>8 DEF at
  <2>10. \A i \in 1..(m - 1) : archive'[SizeBefore(Order, i)] = Order[i]
    <3> SUFFICES ASSUME NEW i \in 1..(m - 1) PROVE archive'[SizeBefore(Order, i)] = Order[i]
      OBVIOUS
    <3>1. archive[SizeBefore(Order, i)] = Order[i]
      BY <2>2, <2>3 DEF PlacedInOrder
    <3>2. SizeBefore(Order, i) \in DOMAIN archive
      BY <2>6
    <3> QED BY <2>5, <2>8, <3>1, <3>2
  <2>11. \A i \in 1..(m - 1) :
           blocks'[i] = [offset |-> SizeBefore(Order, i), size |-> PayloadSize[Order[i]]]
    <3>1. \A i \in 1..(m - 1) : blocks'[i] = blocks[i]
      BY <1>7, <2>3
    <3> QED BY <2>2, <2>3, <3>1 DEF PlacedInOrder
  <2>12. archive' = [y \in {SizeBefore(Order, i) : i \in 1..m} |-> archive'[y]]
    BY <2>7, <2>8
  <2>13. \A i \in 1..m :
           /\ archive'[SizeBefore(Order, i)] = Order[i]
           /\ blocks'[i] = [offset |-> SizeBefore(Order, i), size |-> PayloadSize[Order[i]]]
    BY <1>7, <2>3, <2>9, <2>10, <2>11 DEF at
  <2>14. PlacedInOrder(Order, m, archive', blocks')
    BY <2>12, <2>13 DEF PlacedInOrder
  <2> QED BY <1>3, <2>1, <2>14 DEF Stored
<1>12. FirstCome'
  <2>1. Order' = Order
    BY <1>2 DEF Order
  <2> QED BY <1>2, <2>1 DEF CInv, FirstCome
<1> QED BY <1>8, <1>9, <1>10, <1>11, <1>12 DEF CInv

\* The capture drives the encoder as an encoder may be driven.
LEMMA CaptureStepsEncode == [ChunkNext]_allVars => [Next]_vars
<1>1. CaptureStep => [Next]_vars
  BY DEF CaptureStep, ReuseChunk, SubmitChunk, FileDone, CaptureDone, WritePayload,
         EncoderStep, Next, Caller
<1>2. \A w \in Worker : EncodeStep(w) => Next
  BY DEF EncodeStep, Next
<1> QED BY <1>1, <1>2 DEF ChunkNext, Terminated, allVars

\* Every step of a capture keeps its records, its archive and the encoder in order.
LEMMA StepCapture == CInv /\ [ChunkNext]_allVars => CInv'
<1> SUFFICES ASSUME CInv, [ChunkNext]_allVars PROVE CInv'
  OBVIOUS
<1>1. IInv'
  BY CaptureStepsEncode, InductiveInvariant DEF CInv
<1>2. CASE UNCHANGED allVars
  <2>1. UNCHANGED chunkVars /\ nextSubmit' = nextSubmit /\ nextWrite' = nextWrite
        /\ op' = op /\ caller' = caller
    BY <1>2 DEF allVars, vars, callerVars
  <2>2. Ending'
    BY <2>1 DEF CInv, Ending, Returned, chunkVars
  <2> QED BY <1>1, <2>1, <2>2, RecordsKept
<1>3. CASE Terminated /\ UNCHANGED chunkVars
  BY <1>2, <1>3 DEF Terminated, allVars
<1> QED BY <1>1, <1>2, <1>3, ReuseKeeps, SubmitKeeps, FileKeeps, WriteKeeps, EncoderKeeps
        DEF ChunkNext, CaptureStep

----------------------------------------------------------------------------
(* The theorems about captures.                                            *)

\* A capture implements the encoder it is composed with, so all that is proved of
\* the encoder holds in it.
THEOREM CaptureEncodes == ChunkSpec => Spec
<1>1. ChunkInit => Init
  BY DEF ChunkInit
<1> QED BY <1>1, CaptureStepsEncode, PTL DEF ChunkSpec, Spec

\* Whatever trees are captured, CInv holds throughout.
THEOREM CaptureInvariance == ChunkSpec => []CInv
<1> QED BY InitCapture, StepCapture, PTL DEF ChunkSpec

\* When finish() has returned, everything is written.
LEMMA ReturnedMeansWritten ==
  ASSUME CInv, Returned
  PROVE  WrittenChunks = Len(chunks) /\ file = Len(input) + 1
<1>1. file = Len(input) + 1
  BY DEF CInv, Ending
<1>2. inflightCount = 0 /\ LastAdmitted = nextSubmit - 1
  BY DEF CInv, IInv, SerialPath, AccountsExact, Returned
<1>3. /\ nextWrite \in Nat /\ nextSubmit \in Nat /\ Base \in Nat
      /\ Len(chunks) = Base + nextSubmit - 1
  BY CaptureShape DEF CInv, Numbered
<1>4. nextWrite = nextSubmit
  BY <1>2, <1>3 DEF LastAdmitted
<1> QED BY <1>1, <1>3, <1>4 DEF WrittenChunks

\* A capture that returns has stored every chunk of every file where its
\* references lead.
THEOREM CaptureRestoresInput == ChunkSpec => []RestoresInput
<1>1. CInv => RestoresInput
  <2> SUFFICES ASSUME CInv, Returned
               PROVE  /\ Len(entries) = Len(input)
                      /\ \A i \in 1..Len(input) :
                           [k \in 1..Len(entries[i]) |-> Restored(entries[i][k])] = input[i]
    BY DEF RestoresInput
  <2>1. WrittenChunks = Len(chunks) /\ file = Len(input) + 1
    BY ReturnedMeansWritten
  <2>2. Len(input) \in Nat /\ Len(chunks) \in Nat
    BY InputShape, CaptureShape DEF CInv
  <2>3. /\ Len(entries) = Len(input)
        /\ \A i \in 1..Len(input) :
             Len(entries[i]) = Len(input[i]) /\ Names(entries[i], input[i])
    BY <2>1, <2>2 DEF CInv, Captured
  <2>4. \A ref \in 1..Len(chunks) : Restored(ref) = chunks[ref].identity
    <3> SUFFICES ASSUME NEW ref \in 1..Len(chunks) PROVE Restored(ref) = chunks[ref].identity
      OBVIOUS
    <3>1. chunks[ref].block = ref
      BY DEF CInv, Numbered
    <3>2. /\ archive[SizeBefore(Order, ref)] = Order[ref]
          /\ SizeBefore(Order, ref) \in DOMAIN archive
          /\ blocks[ref] = [offset |-> SizeBefore(Order, ref), size |-> PayloadSize[Order[ref]]]
      BY <2>1 DEF CInv, Stored, PlacedInOrder
    <3>3. Order[ref] = chunks[ref].identity /\ Order[ref] \in Identity
      BY CaptureShape
    <3>4. PayloadSize[Order[ref]] # 0
      BY <3>3, SizesPositive
    <3> QED BY <3>1, <3>2, <3>3, <3>4 DEF Restored
  <2>5. ASSUME NEW i \in 1..Len(input)
        PROVE  [k \in 1..Len(entries[i]) |-> Restored(entries[i][k])] = input[i]
    <3>1. input[i] \in Seq(Identity)
      BY InputShape DEF CInv
    <3>2. input[i] = [k \in 1..Len(input[i]) |-> input[i][k]]
      BY <3>1
    <3>3. \A k \in 1..Len(entries[i]) : Restored(entries[i][k]) = input[i][k]
      BY <2>3, <2>4 DEF Names
    <3> QED BY <2>3, <3>2, <3>3
  <2> QED BY <2>3, <2>5
<1> QED BY <1>1, CaptureInvariance, PTL

\* And its directory is the one a serial writer makes of the same files.
THEOREM CaptureIsSerial == ChunkSpec => []SerialDirectory
<1>1. CInv => SerialDirectory
  <2> SUFFICES ASSUME CInv, Returned PROVE SerialDirectory
    BY DEF SerialDirectory
  <2>1. WrittenChunks = Len(chunks) /\ file = Len(input) + 1
    BY ReturnedMeansWritten
  <2>2. Len(input) \in Nat /\ Len(chunks) \in Nat
    BY InputShape, CaptureShape DEF CInv
  <2>3. Order = FirstSeen
    BY <2>1, <2>2 DEF CInv, FirstCome, FirstSeen
  <2>4. Len(Order) = Len(chunks) /\ Len(blocks) = Len(Order)
    BY CaptureShape DEF CInv, Numbered
  <2>5. \A i \in 1..Len(chunks) : chunks[i] = [identity |-> Order[i], block |-> i]
    <3> SUFFICES ASSUME NEW i \in 1..Len(chunks)
                 PROVE  chunks[i] = [identity |-> Order[i], block |-> i]
      OBVIOUS
    <3>1. chunks[i] \in [identity : Identity, block : Nat]
      BY ElementOfSeq DEF CInv, Shape
    <3>2. chunks[i].block = i /\ Order[i] = chunks[i].identity
      BY CaptureShape DEF CInv, Numbered
    <3> QED BY <3>1, <3>2
  <2>6. \A i \in 1..Len(chunks) :
          blocks[i] = [offset |-> SizeBefore(Order, i), size |-> PayloadSize[Order[i]]]
    BY <2>1 DEF CInv, Stored, PlacedInOrder
  <2> QED BY <2>3, <2>4, <2>5, <2>6 DEF SerialDirectory
<1> QED BY <1>1, CaptureInvariance, PTL

\* Every reference a file keeps, and the lookup's, name existing chunks.
THEOREM CaptureTypeCorrect == ChunkSpec => []ChunkTypeOK
<1>1. CInv => ChunkTypeOK
  <2> SUFFICES ASSUME CInv PROVE ChunkTypeOK
    OBVIOUS
  <2>1. /\ input \in Inputs /\ file \in 1..(Len(input) + 1) /\ TypeOK
        /\ Len(input) \in Nat /\ Len(chunks) \in Nat
        /\ refs \in Seq(Nat) /\ entries \in Seq(Seq(Nat)) /\ Len(entries) = file - 1
    BY InputShape, CaptureShape DEF CInv, IInv, Shape, Captured
  <2>2. \A r \in Seq(Nat) : (\A k \in 1..Len(r) : r[k] \in 1..Len(chunks))
                              => r \in Seq(1..Len(chunks))
    OBVIOUS
  <2>3. refs \in Seq(1..Len(chunks))
    <3>1. \A k \in 1..Len(refs) : refs[k] \in 1..Len(chunks)
      <4>1. CASE file <= Len(input)
        BY <4>1 DEF CInv, Captured, Names
      <4>2. CASE file = Len(input) + 1
        BY <4>2 DEF CInv, Captured
      <4> QED BY <2>1, <4>1, <4>2
    <3> QED BY <2>1, <2>2, <3>1
  <2>4. \A i \in 1..Len(entries) : entries[i] \in Seq(1..Len(chunks))
    <3> SUFFICES ASSUME NEW i \in 1..Len(entries) PROVE entries[i] \in Seq(1..Len(chunks))
      OBVIOUS
    <3>1. entries[i] \in Seq(Nat)
      BY <2>1, ElementOfSeq
    <3>2. \A k \in 1..Len(entries[i]) : entries[i][k] \in 1..Len(chunks)
      BY <2>1 DEF CInv, Captured, Names
    <3> QED BY <2>2, <3>1, <3>2
  <2>5. \A id \in DOMAIN lookup : lookup[id] \in 1..Len(chunks)
    BY DEF CInv, Known
  <2>6. Range(archive) \subseteq Identity
    <3>1. /\ DOMAIN archive = {SizeBefore(Order, i) : i \in 1..WrittenChunks}
          /\ \A i \in 1..WrittenChunks : archive[SizeBefore(Order, i)] = Order[i]
      BY DEF CInv, Stored, PlacedInOrder
    <3>2. \A i \in 1..WrittenChunks : Order[i] \in Identity
      BY CaptureShape
    <3> QED BY <3>1, <3>2 DEF Range
  <2> QED BY <2>1, <2>3, <2>4, <2>5, <2>6 DEF ChunkTypeOK
<1> QED BY <1>1, CaptureInvariance, PTL
=============================================================================
