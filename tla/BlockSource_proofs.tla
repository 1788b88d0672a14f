------------------------- MODULE BlockSource_proofs -------------------------
(***************************************************************************)
(* Proofs about BlockSource for any number of workers and blocks, any      *)
(* sizes, plans and budget: the bytes handed to the reader stay in the     *)
(* cache while it uses them, a decode owns its slot until it ends, the     *)
(* cache keeps to its byte budget, and a reader that follows a plan within *)
(* that budget has no block decoded twice.                                 *)
(***************************************************************************)
EXTENDS BlockSource, NumberSets, TLAPS

\* The reader only holds a block between reads, and that block is pinned.
SpanPinned ==
  span # NoBlock => span = pinned /\ slots[span] = "ready" /\ reader = "idle"

\* During a read the block it is for is pinned.
TargetPinned ==
  reader \in {"lookup", "wait", "decode"} => target # NoBlock /\ pinned = target

\* Only a reader without workers decodes, and only a decoding worker has a job.
Decoders ==
  /\ reader = "decode" => threads = {}
  /\ \A w \in threads : worker[w] = "decode" <=> job[w] # NoBlock

\* The inductive invariant.
IInv == ShapeOK /\ SpanPinned /\ TargetPinned /\ Decoders /\ DecodesOwned

----------------------------------------------------------------------------
(* Positions in the plan.                                                  *)

\* The larger of two numbers.
LEMMA LargestOfTwo ==
  ASSUME NEW a \in Nat, NEW b \in Nat
  PROVE  Largest({a, b}) = IF a >= b THEN a ELSE b
<1>1. CASE a >= b
  <2>1. \A x \in {a, b} : (\A y \in {a, b} : x >= y) <=> x = a
    BY <1>1
  <2> QED BY <1>1, <2>1 DEF Largest, Max
<1>2. CASE ~(a >= b)
  <2>1. \A x \in {a, b} : (\A y \in {a, b} : x >= y) <=> x = b
    BY <1>2
  <2> QED BY <1>2, <2>1 DEF Largest, Max
<1> QED BY <1>1, <1>2

\* A plan is a sequence of blocks.
LEMMA PlanShape == plan \in Plans => plan \in Seq(Block) /\ Len(plan) \in Nat
  BY BlockSourceAssumption DEF BlockSourceAssumption

\* A read advances to a planned position or stays where it is.
LEMMA NextReadInPlan ==
  ASSUME ShapeOK, NEW b \in Block, NextRead(b, ordinal) <= Len(plan)
  PROVE  NextRead(b, ordinal) \in 0..Len(plan)
<1> DEFINE upcoming == {p \in (ordinal + 1)..Len(plan) : plan[p] = b}
<1>1. Len(plan) \in Nat /\ ordinal \in Nat
  BY PlanShape DEF ShapeOK
<1>2. upcoming # {}
  BY <1>1 DEF NextRead
<1>3. upcoming \subseteq 0..Len(plan)
  BY <1>1
<1>4. NextRead(b, ordinal) = Min(upcoming)
  BY <1>2 DEF NextRead
<1> HIDE DEF upcoming
<1>5. Min(upcoming) \in upcoming
  <2>1. upcoming \subseteq Nat
    BY <1>1, <1>3
  <2> QED BY <1>2, <2>1, MinOfNumbers
<1> QED BY <1>3, <1>4, <1>5

\* The scan stays in the plan; where it stops the plan names a block that has
\* no slot.
LEMMA ScanStops ==
  ASSUME ShapeOK
  PROVE  /\ AdvancedScan \in 0..Len(plan)
         /\ AdvancedScan < Len(plan) => /\ plan[AdvancedScan + 1] \in Block
                                        /\ slots[plan[AdvancedScan + 1]] = "none"
<1> DEFINE start == Largest({scan, ordinal})
           open == {p \in start..(Len(plan) - 1) : slots[plan[p + 1]] = "none"}
<1>1. plan \in Seq(Block) /\ Len(plan) \in Nat /\ scan \in 0..Len(plan)
      /\ ordinal \in 0..Len(plan)
  BY PlanShape DEF ShapeOK
<1>2. start \in 0..Len(plan)
  BY <1>1, LargestOfTwo
<1>3. AdvancedScan = IF open = {} THEN Largest({start, Len(plan)}) ELSE Min(open)
  BY DEF AdvancedScan
<1> HIDE DEF start
<1>4. CASE open = {}
  <2>1. AdvancedScan = Len(plan)
    BY <1>1, <1>2, <1>3, <1>4, LargestOfTwo
  <2> QED BY <1>1, <2>1
<1>5. CASE open # {}
  <2>1. open \subseteq Nat
    BY <1>1, <1>2
  <2>2. AdvancedScan \in open
    BY <1>3, <1>5, <2>1, MinOfNumbers
  <2>3. AdvancedScan \in 0..(Len(plan) - 1) /\ slots[plan[AdvancedScan + 1]] = "none"
    BY <1>1, <1>2, <2>2
  <2> QED BY <1>1, <2>3
<1> QED BY <1>4, <1>5

\* A worker only ever reserves a block without a slot.
LEMMA WorkIsFree ==
  ASSUME ShapeOK, ~NothingToDo
  PROVE  WorkBlock \in Block /\ slots[WorkBlock] = "none"
<1>1. CASE DemandPending
  BY <1>1 DEF DemandPending, WorkBlock, ShapeOK
<1>2. CASE ~DemandPending
  <2>1. Len(plan) \in Nat /\ AdvancedScan \in 0..Len(plan)
    BY PlanShape, ScanStops DEF ShapeOK
  <2>2. AdvancedScan < Len(plan)
    BY <1>2, <2>1 DEF NothingToDo
  <2> QED BY <1>2, <2>2, ScanStops DEF WorkBlock
<1> QED BY <1>1, <1>2

\* Eviction takes decoded blocks that are not pinned.
LEMMA EvictsDecoded ==
  ASSUME NEW charge
  PROVE  \A b \in Evicted(charge) :
           b \in Block /\ b # pinned /\ slots[b] \in {"ready", "failed"}
  BY DEF Evicted, Candidates

----------------------------------------------------------------------------
(* The invariant.                                                          *)

\* The invariant holds before the first read.
LEMMA InvInit == Init => IInv
<1> SUFFICES ASSUME Init PROVE IInv
  OBVIOUS
<1>1. ShapeOK
  <2>1. Len(plan) \in Nat /\ threads \subseteq Worker
    BY PlanShape DEF Init, PlannedThreads
  <2>2. /\ slots \in [Block -> {"none", "decoding", "ready", "failed"}]
        /\ worker \in [threads -> {"check", "wait", "decode", "broken", "exited"}]
        /\ job \in [threads -> Block \cup {NoBlock}]
        /\ decodes \in [Block -> Nat]
    BY DEF Init
  <2>3. ordinal \in 0..Len(plan) /\ scan \in 0..Len(plan) /\ reads \in 0..MaxReads
    BY <2>1, BlockSourceAssumption DEF Init, BlockSourceAssumption
  <2> QED BY <2>1, <2>2, <2>3 DEF Init, ShapeOK
<1>2. SpanPinned /\ TargetPinned /\ Decoders /\ DecodesOwned
  BY DEF Init, SpanPinned, TargetPinned, Decoders, DecodesOwned, NoBlock
<1> QED BY <1>1, <1>2 DEF IInv

\* Waking the workers changes neither who decodes nor what.
LEMMA WakingKeeps ==
  ASSUME ShapeOK, WakeWorkers
  PROVE  /\ worker' \in [threads -> {"check", "wait", "decode", "broken", "exited"}]
         /\ \A w \in threads : worker'[w] = "decode" <=> worker[w] = "decode"
  BY DEF ShapeOK, WakeWorkers

\* Every step of the reader keeps the invariant.
LEMMA ReaderInv ==
  ASSUME IInv, Read \/ ReaderStep \/ CheckpointCancels \/ Destroy
  PROVE  IInv'
<1> USE DEF IInv, NoBlock, cacheVars, readerVars, workerVars
<1>1. ASSUME NEW b \in Block, Acquire(b) PROVE IInv'
  <2> DEFINE next == NextRead(b, ordinal)
             position == IF next <= Len(plan) THEN next ELSE ordinal
             dropped == IF Unneeded(pinned, position, b) THEN {pinned} ELSE {}
  <2>1. position \in 0..Len(plan)
    BY NextReadInPlan DEF ShapeOK
  <2>2. \A x \in dropped : slots[x] # "decoding"
    BY DEF Unneeded
  <2> HIDE DEF next, position, dropped
  <2>3. /\ reader = "idle" /\ reads < MaxReads /\ reads' = reads + 1
        /\ ordinal' = position /\ pinned' = b /\ target' = b /\ span' = 0
        /\ slots' = [x \in Block |-> IF x \in dropped THEN "none" ELSE slots[x]]
        /\ onPlan' \in BOOLEAN /\ reader' = "lookup"
        /\ WakeWorkers
        /\ UNCHANGED <<plan, threads, scan, demanded, brokenAhead, stopping, job,
                       decodes>>
    BY <1>1 DEF Acquire, next, position, dropped, ShapeOK
  <2>4. ShapeOK'
    <3>1. slots' \in [Block -> {"none", "decoding", "ready", "failed"}]
      BY <2>3 DEF ShapeOK
    <3>2. reads' \in 0..MaxReads
      BY <2>3, BlockSourceAssumption DEF ShapeOK, BlockSourceAssumption
    <3>3. worker' \in [threads -> {"check", "wait", "decode", "broken", "exited"}]
      BY <2>3, WakingKeeps
    <3>4. {pinned, demanded, target, span}' \subseteq Block \cup {NoBlock}
      BY <2>3 DEF ShapeOK
    <3> QED BY <2>1, <2>3, <3>1, <3>2, <3>3, <3>4 DEF ShapeOK
  <2>5. DecodesOwned'
    BY <2>2, <2>3, WakingKeeps DEF DecodesOwned, Decoders, ShapeOK
  <2>6. SpanPinned' /\ TargetPinned' /\ Decoders'
    BY <2>3, WakingKeeps DEF SpanPinned, TargetPinned, Decoders, Block
  <2> QED BY <2>4, <2>5, <2>6
<1>2. CASE ReturnReady
  BY <1>2 DEF ReturnReady, ShapeOK, SpanPinned, TargetPinned, Decoders, DecodesOwned
<1>3. CASE RethrowError \/ AwaitDecode \/ WaitEnds \/ CheckpointCancels \/ Join
  BY <1>3 DEF RethrowError, AwaitDecode, WaitEnds, CheckpointCancels, Join,
              ShapeOK, SpanPinned, TargetPinned, Decoders, DecodesOwned
<1>4. CASE DemandBlock
  <2>1. ShapeOK'
    BY <1>4, WakingKeeps DEF DemandBlock, ShapeOK
  <2> QED BY <1>4, <2>1, WakingKeeps
          DEF DemandBlock, SpanPinned, TargetPinned, Decoders, DecodesOwned
<1>5. CASE SerialMiss
  <2> DEFINE evicted == Evicted(Charge(target))
             fits == Fits(cachedBytes - ChargeOf(evicted), Charge(target))
  <2>1. fits \in BOOLEAN
    BY DEF Fits
  <2>2. \A b \in evicted : b # pinned /\ slots[b] # "decoding"
    BY EvictsDecoded
  <2> HIDE DEF evicted, fits
  <2>3. /\ reader = "lookup" /\ slots[target] = "none" /\ threads = {}
        /\ slots' = [b \in Block |-> IF b = target /\ fits THEN "decoding"
                                     ELSE IF b \in evicted THEN "none" ELSE slots[b]]
        /\ reader' = IF fits THEN "decode" ELSE "logicError"
        /\ decodes' = IF fits THEN [decodes EXCEPT ![target] = @ + 1] ELSE decodes
        /\ UNCHANGED <<plan, threads, ordinal, scan, pinned, demanded, brokenAhead,
                       stopping, target, span, reads, onPlan, workerVars>>
    BY <1>5 DEF SerialMiss, Reserve, evicted, fits
  <2>4. target \in Block
    BY <2>3 DEF TargetPinned, ShapeOK
  <2>5. ShapeOK'
    BY <2>1, <2>3, <2>4 DEF ShapeOK
  <2>6. SpanPinned' /\ TargetPinned' /\ Decoders' /\ DecodesOwned'
    BY <2>1, <2>3, <2>4 DEF SpanPinned, TargetPinned, Decoders, DecodesOwned
  <2> QED BY <2>5, <2>6
<1>6. CASE SerialDecoded \/ SerialFailed
  <2>1. target \in Block /\ pinned = target /\ threads = {} /\ span = NoBlock
    BY <1>6 DEF SerialDecoded, SerialFailed, TargetPinned, SpanPinned, ShapeOK, Decoders
  <2>2. ShapeOK'
    BY <1>6, <2>1, WakingKeeps DEF SerialDecoded, SerialFailed, ShapeOK
  <2>3. SpanPinned' /\ TargetPinned' /\ Decoders' /\ DecodesOwned'
    BY <1>6, <2>1 DEF SerialDecoded, SerialFailed, SpanPinned, TargetPinned,
                      Decoders, DecodesOwned, ShapeOK
  <2> QED BY <2>2, <2>3
<1>7. CASE Destroy
  <2>1. ShapeOK'
    BY <1>7, WakingKeeps DEF Destroy, ShapeOK
  <2> QED BY <1>7, <2>1, WakingKeeps
          DEF Destroy, SpanPinned, TargetPinned, Decoders, DecodesOwned
<1> QED BY <1>1, <1>2, <1>3, <1>4, <1>5, <1>6, <1>7 DEF Read, ReaderStep

\* What a worker does to the slots when it takes or fails to take work.
LEMMA WorkerInv ==
  ASSUME IInv, NEW w \in Worker, WorkerStep(w)
  PROVE  IInv'
<1> USE DEF IInv, NoBlock, cacheVars, readerVars
<1>0. w \in threads /\ threads \subseteq Worker
  BY DEF WorkerStep, ShapeOK
<1>1. \A b \in WorkEvicts : b # pinned /\ slots[b] # "decoding"
  BY EvictsDecoded DEF WorkEvicts
<1>2. CASE WorkerExits(w) \/ WorkerIdles(w)
  <2>1. worker[w] = "check" /\ UNCHANGED <<plan, slots, reader, threads, job>>
    BY <1>2 DEF WorkerExits, WorkerIdles, Checking
  <2>2. ShapeOK'
    <3>1. CASE WorkerExits(w)
      BY <1>0, <3>1 DEF WorkerExits, ShapeOK
    <3>2. CASE WorkerIdles(w)
      <4>1. scan' \in 0..Len(plan)
        BY <3>2, ScanStops DEF WorkerIdles, ShapeOK
      <4> QED BY <1>0, <3>2, <4>1 DEF WorkerIdles, ShapeOK
    <3> QED BY <1>2, <3>1, <3>2
  <2>3. SpanPinned' /\ TargetPinned' /\ Decoders' /\ DecodesOwned'
    BY <1>0, <1>2, <2>1 DEF WorkerExits, WorkerIdles, ShapeOK, SpanPinned,
                            TargetPinned, Decoders, DecodesOwned
  <2> QED BY <2>2, <2>3
<1>3. CASE WorkerBlocked(w)
  <2>1. /\ worker[w] = "check" /\ worker' = [worker EXCEPT ![w] = "wait"]
        /\ slots' = [b \in Block |-> IF b \in WorkEvicts THEN "none" ELSE slots[b]]
        /\ scan' \in 0..Len(plan)
        /\ UNCHANGED <<plan, threads, ordinal, pinned, demanded, brokenAhead,
                       stopping, readerVars, job, decodes>>
    BY <1>3, ScanStops DEF WorkerBlocked, Checking, Reserve
  <2>2. ShapeOK'
    BY <1>0, <2>1 DEF ShapeOK
  <2>3. SpanPinned' /\ TargetPinned' /\ Decoders' /\ DecodesOwned'
    BY <1>0, <1>1, <2>1 DEF ShapeOK, SpanPinned, TargetPinned, Decoders, DecodesOwned
  <2> QED BY <2>2, <2>3
<1>4. ASSUME ~NothingToDo, ConsumeWork
      PROVE  scan' \in 0..Len(plan) /\ demanded' \in Block \cup {NoBlock}
  <2>1. Len(plan) \in Nat /\ AdvancedScan \in 0..Len(plan)
    BY PlanShape, ScanStops DEF ShapeOK
  <2> QED BY <1>4, <2>1 DEF ConsumeWork, NothingToDo, ShapeOK
<1>5. CASE WorkerReserves(w)
  <2> DEFINE b == WorkBlock
  <2>1. b \in Block /\ slots[b] = "none"
    BY <1>5, WorkIsFree DEF WorkerReserves
  <2> HIDE DEF b
  <2>2. /\ LockFree /\ worker[w] = "check"
        /\ worker' = [worker EXCEPT ![w] = "decode"]
        /\ job' = [job EXCEPT ![w] = b]
        /\ slots' = [x \in Block |-> IF x = b THEN "decoding"
                                     ELSE IF x \in WorkEvicts THEN "none" ELSE slots[x]]
        /\ decodes' = [decodes EXCEPT ![b] = @ + 1]
        /\ scan' \in 0..Len(plan) /\ demanded' \in Block \cup {NoBlock}
        /\ UNCHANGED <<plan, threads, ordinal, pinned, brokenAhead, stopping,
                       readerVars>>
    BY <1>4, <1>5 DEF WorkerReserves, Checking, Reserve, b
  <2>3. ShapeOK'
    BY <1>0, <2>1, <2>2 DEF ShapeOK
  <2>4. SpanPinned' /\ TargetPinned'
    BY <1>1, <2>1, <2>2 DEF ShapeOK, SpanPinned, TargetPinned
  <2>5. Decoders'
    BY <1>0, <2>1, <2>2 DEF ShapeOK, Decoders, Block
  <2>6. DecodesOwned'
    BY <1>0, <1>1, <2>1, <2>2 DEF ShapeOK, Decoders, DecodesOwned, Block
  <2> QED BY <2>3, <2>4, <2>5, <2>6
<1>6. CASE WorkerBreaks(w)
  <2> DEFINE b == WorkBlock
  <2>1. b \in Block /\ slots[b] = "none"
    BY <1>6, WorkIsFree DEF WorkerBreaks
  <2> HIDE DEF b
  <2>2. PICK inserted \in BOOLEAN :
          slots' = [x \in Block |-> IF x = b /\ inserted THEN "decoding"
                                   ELSE IF x \in WorkEvicts THEN "none" ELSE slots[x]]
    BY <1>6 DEF WorkerBreaks, Reserve, b
  <2>3. /\ worker[w] = "check" /\ worker' = [worker EXCEPT ![w] = "broken"]
        /\ scan' \in 0..Len(plan) /\ demanded' \in Block \cup {NoBlock}
        /\ UNCHANGED <<plan, threads, ordinal, pinned, brokenAhead, stopping,
                       readerVars, job, decodes>>
    BY <1>4, <1>6 DEF WorkerBreaks, Checking
  <2>4. ShapeOK'
    BY <1>0, <2>1, <2>2, <2>3 DEF ShapeOK
  <2>5. SpanPinned' /\ TargetPinned' /\ Decoders' /\ DecodesOwned'
    BY <1>0, <1>1, <2>1, <2>2, <2>3
    DEF ShapeOK, SpanPinned, TargetPinned, Decoders, DecodesOwned
  <2> QED BY <2>4, <2>5
<1>7. CASE WorkerReports(w)
  <2>1. ShapeOK'
    BY <1>0, <1>7 DEF WorkerReports, ShapeOK
  <2>2. \A v \in threads : worker'[v] = "decode" <=> worker[v] = "decode"
    BY <1>0, <1>7 DEF WorkerReports, ShapeOK
  <2>3. SpanPinned' /\ TargetPinned' /\ Decoders' /\ DecodesOwned'
    BY <1>0, <1>7, <2>2 DEF WorkerReports, SpanPinned, TargetPinned, Decoders,
                            DecodesOwned
  <2> QED BY <2>1, <2>3
<1>8. CASE WorkerDecodes(w) \/ WorkerDecodeFails(w)
  <2> DEFINE b == job[w]
  <2>1. PICK state \in {"none", "ready", "failed"} :
          slots' = [slots EXCEPT ![b] = state]
    BY <1>8 DEF WorkerDecodes, WorkerDecodeFails
  <2>2. FinishJob(w)
    BY <1>8 DEF WorkerDecodes, WorkerDecodeFails
  <2>3. b \in Block /\ slots[b] = "decoding"
    BY <1>0, <2>2 DEF FinishJob, ShapeOK, Decoders, DecodesOwned
  <2> HIDE DEF b
  <2>4. /\ reader # "lookup" /\ worker[w] = "decode"
        /\ job' = [job EXCEPT ![w] = NoBlock]
        /\ worker' = [v \in threads |-> IF v = w \/ worker[v] = "wait" THEN "check"
                                        ELSE worker[v]]
        /\ UNCHANGED <<plan, threads, ordinal, scan, pinned, demanded, brokenAhead,
                       stopping, readerVars, decodes>>
    BY <2>2 DEF FinishJob, LockFree
  <2>5. ShapeOK'
    BY <1>0, <2>1, <2>3, <2>4 DEF ShapeOK
  <2>6. SpanPinned' /\ TargetPinned' /\ Decoders'
    BY <1>0, <2>1, <2>3, <2>4 DEF ShapeOK, SpanPinned, TargetPinned, Decoders
  <2>7. DecodesOwned'
    BY <1>0, <2>1, <2>3, <2>4 DEF ShapeOK, Decoders, DecodesOwned, b
  <2> QED BY <2>5, <2>6, <2>7
<1> QED BY <1>2, <1>3, <1>5, <1>6, <1>7, <1>8 DEF WorkerStep

\* What a reader holds is decoded and pinned, what it waits for is pinned, and
\* every decode has one owner, however the workers interleave with it.
THEOREM SourceInvariance == Spec => []IInv
<1>1. IInv /\ [Next]_vars => IInv'
  <2> SUFFICES ASSUME IInv, [Next]_vars PROVE IInv'
    OBVIOUS
  <2>1. CASE UNCHANGED vars
    BY <2>1 DEF vars, cacheVars, readerVars, workerVars, IInv, ShapeOK, SpanPinned,
                TargetPinned, Decoders, DecodesOwned
  <2>2. CASE Gone
    BY <2>1, <2>2 DEF Gone
  <2> QED BY <2>1, <2>2, ReaderInv, WorkerInv DEF Next
<1> QED BY <1>1, InvInit, PTL DEF Spec

\* The bytes acquire() returned are never evicted or released before the next
\* acquire(), whatever the workers finish, drop or demand meanwhile.
THEOREM SpansStayValid == Spec => []SpanStaysValid
<1>1. IInv => SpanStaysValid
  BY DEF IInv, SpanPinned, SpanStaysValid
<1> QED BY <1>1, SourceInvariance, PTL

----------------------------------------------------------------------------
(* Sums of charges.                                                        *)

\* A block is charged at least one byte.
LEMMA ChargePositive == \A b \in Block : Charge(b) \in Nat /\ Charge(b) > 0
  BY BlockSourceAssumption DEF BlockSourceAssumption, Charge

\* Every set of blocks is finite.
LEMMA BlocksFinite == \A S \in SUBSET Block : IsFiniteSet(S) /\ Cardinality(S) \in Nat
<1>1. IsFiniteSet(Block)
  BY FS_Interval, BlockSourceAssumption DEF BlockSourceAssumption, Block
<1> QED BY <1>1, FS_Subset, FS_CardinalityType

\* A set of blocks has charges that can be summed.
LEMMA ChargesAreNumbers == \A S \in SUBSET Block : Numbers([b \in Block |-> Charge(b)], S)
  BY BlocksFinite, ChargePositive DEF Numbers

\* What the proofs below need of sums of charges.
LEMMA ChargeOfNone == ChargeOf({}) = 0
  BY SumOfNone DEF ChargeOf

\* What a set of blocks is charged is a number.
LEMMA ChargeIsNat ==
  ASSUME NEW S \in SUBSET Block
  PROVE  ChargeOf(S) \in Nat
  BY ChargesAreNumbers, SumIsNat DEF ChargeOf

\* One block of a set is charged apart from the others.
LEMMA ChargeRemoves ==
  ASSUME NEW S \in SUBSET Block, NEW x \in S
  PROVE  ChargeOf(S) = Charge(x) + ChargeOf(S \ {x})
<1> DEFINE f == [b \in Block |-> Charge(b)]
<1>1. Numbers(f, S) /\ f[x] = Charge(x)
  BY ChargesAreNumbers
<1> HIDE DEF f
<1>2. SumFunctionOnSet(f, S) = f[x] + SumFunctionOnSet(f, S \ {x})
  BY <1>1, SumRemoves
<1> QED BY <1>1, <1>2 DEF ChargeOf, f

\* What a part leaves of a set is charged the difference.
LEMMA ChargeOfPart ==
  ASSUME NEW S \in SUBSET Block, NEW T \in SUBSET S
  PROVE  ChargeOf(S \ T) = ChargeOf(S) - ChargeOf(T)
  BY ChargesAreNumbers, SumOfPart DEF ChargeOf

\* A block more adds its charge.
LEMMA ChargeAdds ==
  ASSUME NEW S \in SUBSET Block, NEW x \in Block \ S
  PROVE  ChargeOf(S \cup {x}) = ChargeOf(S) + Charge(x)
<1>1. (S \cup {x}) \ {x} = S
  OBVIOUS
<1> QED BY <1>1, ChargeRemoves, ChargeIsNat, ChargePositive

\* The charge only grows with the set.
LEMMA ChargeGrows ==
  ASSUME NEW S \in SUBSET Block, NEW T \in SUBSET S
  PROVE  ChargeOf(T) <= ChargeOf(S)
  BY ChargesAreNumbers, SumOfPart DEF ChargeOf

\* No blocks, no charge.
LEMMA ChargeZero ==
  ASSUME NEW S \in SUBSET Block, ChargeOf(S) = 0
  PROVE  S = {}
<1> SUFFICES ASSUME NEW x \in S PROVE FALSE
  OBVIOUS
<1>1. ChargeOf(S) = Charge(x) + ChargeOf(S \ {x})
  BY ChargeRemoves
<1>2. ChargeOf(S \ {x}) \in Nat /\ Charge(x) \in Nat /\ Charge(x) > 0
  BY ChargeIsNat, ChargePositive
<1> QED BY <1>1, <1>2

----------------------------------------------------------------------------
(* The accounts of the cache.                                              *)

\* The blocks whose size the cache counts: decoded or failed ones, and those a
\* thread decodes.  A slot that a broken worker left behind is not one.
Charged ==
  {b \in Block : \/ slots[b] \in {"ready", "failed"}
                 \/ reader = "decode" /\ b = target
                 \/ \E w \in threads : job[w] = b}

Accounts == cachedBytes = ChargeOf(Charged)

WithinBudget == cachedBytes <= Budget \/ Cardinality(Charged) <= 1

\* Only a broken worker leaves a slot behind, and only one of its kind makes
\* the reader give up.
Unowned ==
  /\ brokenAhead => threads # {}
  /\ \A b \in Block : slots[b] = "decoding" =>
       b \in Charged \/ brokenAhead \/ \E w \in threads : worker[w] = "broken"
  /\ reader # "logicError"

AInv == Accounts /\ WithinBudget /\ Unowned

\* What is counted has a slot, and is counted in natural numbers.
LEMMA ChargedHaveSlots ==
  ASSUME IInv
  PROVE  /\ Charged \in SUBSET Block
         /\ \A b \in Charged : slots[b] # "none"
  BY DEF IInv, ShapeOK, Decoders, DecodesOwned, Charged, NoBlock, Block

\* The budget is a number.
LEMMA BudgetIsNat == Budget \in Nat
  BY BlockSourceAssumption DEF BlockSourceAssumption, Budget

\* Taking blocks out of the cache keeps its accounts.
LEMMA TakingOut ==
  ASSUME IInv, Accounts, WithinBudget, NEW D \in SUBSET Charged, Charged' = Charged \ D,
         cachedBytes' = cachedBytes - ChargeOf(D), plan' = plan
  PROVE  Accounts' /\ WithinBudget'
<1>1. Charged \in SUBSET Block /\ D \in SUBSET Block
  BY ChargedHaveSlots
<1>2. ChargeOf(Charged \ D) = ChargeOf(Charged) - ChargeOf(D)
  BY <1>1, ChargeOfPart
<1>3. Accounts'
  BY <1>2 DEF Accounts
<1>4. Cardinality(Charged') <= Cardinality(Charged)
  BY <1>1, BlocksFinite, FS_Subset
<1>5. Cardinality(Charged') \in Nat /\ Cardinality(Charged) \in Nat
  <2>1. Charged \ D \in SUBSET Block
    BY <1>1
  <2> QED BY <1>1, <2>1, BlocksFinite
<1>6. /\ ChargeOf(D) \in Nat /\ ChargeOf(Charged) \in Nat
      /\ Budget \in Nat /\ Budget' = Budget
  BY <1>1, ChargeIsNat, BudgetIsNat DEF Budget
<1> QED BY <1>3, <1>4, <1>5, <1>6 DEF Accounts, WithinBudget

\* What fits may be put in, after others were taken out.
LEMMA PuttingIn ==
  ASSUME IInv, Accounts, NEW D \in SUBSET Charged, NEW b \in Block \ Charged,
         Fits(cachedBytes - ChargeOf(D), Charge(b)), Charged' = (Charged \ D) \cup {b},
         cachedBytes' = cachedBytes - ChargeOf(D) + Charge(b), plan' = plan
  PROVE  Accounts' /\ WithinBudget'
<1> DEFINE left == Charged \ D
<1>1. Charged \in SUBSET Block /\ left \in SUBSET Block
  BY ChargedHaveSlots
<1>2. cachedBytes - ChargeOf(D) = ChargeOf(left)
  BY <1>1, ChargeOfPart DEF Accounts
<1>3. ChargeOf(left) \in Nat /\ Charge(b) \in Nat /\ Budget \in Nat /\ Budget' = Budget
  BY <1>1, ChargeIsNat, ChargePositive, BudgetIsNat DEF Budget
<1>4. Accounts'
  <2>1. ChargeOf(left \cup {b}) = ChargeOf(left) + Charge(b)
    BY <1>1, ChargeAdds
  <2> HIDE DEF left
  <2>2. cachedBytes' = ChargeOf(left) + Charge(b)
    BY <1>2
  <2>3. Charged' = left \cup {b}
    BY DEF left
  <2> QED BY <2>1, <2>2, <2>3 DEF Accounts
<1>5. CASE ChargeOf(left) = 0
  <2>1. Charged' = {b}
    BY <1>1, <1>5, ChargeZero
  <2>2. Cardinality(Charged') = 1
    BY <2>1, FS_Singleton
  <2>3. Cardinality(Charged') <= 1
    BY <2>2
  <2> QED BY <1>4, <2>3 DEF WithinBudget
<1>6. CASE ChargeOf(left) # 0
  <2> HIDE DEF left
  <2>1. Charge(b) <= Budget /\ ChargeOf(left) <= Budget - Charge(b)
    BY <1>2, <1>3, <1>6 DEF Fits
  <2>2. cachedBytes' <= Budget'
    BY <1>2, <1>3, <2>1
  <2> QED BY <1>4, <2>2 DEF WithinBudget
<1> QED BY <1>5, <1>6

\* Where the next read of a block is, or one past the plan when there is none.
LEMMA NextReadIsNat ==
  ASSUME ShapeOK, NEW b \in Block
  PROVE  NextRead(b, ordinal) \in 0..(Len(plan) + 1)
<1>1. Len(plan) \in Nat /\ ordinal \in 0..Len(plan)
  BY PlanShape DEF ShapeOK
<1>2. CASE NextRead(b, ordinal) <= Len(plan)
  BY <1>1, <1>2, NextReadInPlan
<1>3. CASE ~(NextRead(b, ordinal) <= Len(plan))
  <2> DEFINE upcoming == {p \in (ordinal + 1)..Len(plan) : plan[p] = b}
  <2>1. CASE upcoming = {}
    BY <1>1, <2>1 DEF NextRead
  <2>2. CASE upcoming # {}
    <3>1. upcoming \subseteq Nat /\ upcoming \subseteq 0..Len(plan)
      BY <1>1
    <3>2. NextRead(b, ordinal) = Min(upcoming)
      BY <2>2 DEF NextRead
    <3> HIDE DEF upcoming
    <3>3. NextRead(b, ordinal) \in 0..Len(plan)
      BY <2>2, <3>1, <3>2, MinOfNumbers
    <3> QED BY <1>1, <3>3
  <2> QED BY <2>1, <2>2
<1> QED BY <1>2, <1>3

\* Of some blocks, one is read last, or has the largest index of those.
LEMMA FarthestBlock ==
  ASSUME ShapeOK, NEW K \in SUBSET Block, K # {}
  PROVE  \E b \in K : \A a \in K : ~Farther(a, b)
<1> DEFINE Next1(a) == NextRead(a, ordinal)
           N == {Next1(a) : a \in K}
<1>1. Len(plan) \in Nat /\ NumBlocks \in Nat
  BY PlanShape, BlockSourceAssumption DEF ShapeOK, BlockSourceAssumption
<1>2. \A a \in K : Next1(a) \in 0..(Len(plan) + 1)
  BY NextReadIsNat
<1>3. N \subseteq 0..(Len(plan) + 1) /\ N # {}
  BY <1>2
<1> DEFINE L == {a \in K : Next1(a) = Max(N)}
<1>4. Max(N) \in N /\ \A n \in N : n <= Max(N)
  <2>1. Len(plan) + 1 \in Nat
    BY <1>1
  <2> HIDE DEF N
  <2> QED BY <1>3, <2>1, MaxOfNumbers
<1>5. L # {} /\ L \subseteq 0..NumBlocks
  BY <1>4 DEF Block
<1>6. Max(L) \in L /\ \A a \in L : a <= Max(L)
  <2> HIDE DEF L
  <2> QED BY <1>1, <1>5, MaxOfNumbers
<1> DEFINE b == Max(L)
<1>7. b \in K /\ Next1(b) = Max(N)
  BY <1>6
<1>8. ASSUME NEW a \in K PROVE ~Farther(a, b)
  <2>1. Next1(a) <= Next1(b)
    BY <1>4, <1>7
  <2>2. Next1(a) = Next1(b) => a <= b
    BY <1>6, <1>7
  <2>3. Next1(a) \in Nat /\ Next1(b) \in Nat /\ a \in Nat /\ b \in Nat
    <3> HIDE DEF b
    <3>1. a \in Block /\ b \in Block
      BY <1>7
    <3> QED BY <1>1, <1>2, <1>7, <3>1 DEF Block
  <2> HIDE DEF b
  <2> QED BY <2>1, <2>2, <2>3 DEF Farther
<1> QED BY <1>7, <1>8

\* Eviction takes only what it may, and counted blocks only.
LEMMA EvictsCharged ==
  ASSUME NEW charge
  PROVE  Evicted(charge) \subseteq Candidates /\ Candidates \subseteq Charged
  BY DEF Evicted, Candidates, Charged

\* When nothing but candidates is counted, eviction always makes room: either
\* everything goes, or what is left keeps to three quarters of the budget.
LEMMA EvictionMakesRoom ==
  ASSUME ShapeOK, Accounts, Charged = Candidates, NEW charge \in Nat
  PROVE  Fits(cachedBytes - ChargeOf(Evicted(charge)), charge)
<1> DEFINE E == Evicted(charge)
           K == Candidates \ E
<1>1. /\ Candidates \in SUBSET Block /\ E \in SUBSET Candidates
      /\ E \in SUBSET Block /\ K \in SUBSET Block
  BY EvictsCharged DEF Candidates
<1>2. /\ cachedBytes \in Nat /\ Budget \in Nat /\ ChargeOf(E) \in Nat
      /\ cachedBytes = ChargeOf(Candidates)
  BY <1>1, ChargeIsNat, BudgetIsNat DEF Accounts
<1>3. CASE Fits(cachedBytes, charge)
  <2>1. E = {}
    BY <1>3 DEF Evicted
  <2>2. cachedBytes - ChargeOf(E) = cachedBytes
    BY <1>2, <2>1, ChargeOfNone
  <2> QED BY <1>3, <2>2
<1>4. CASE K = {}
  <2>1. E = Candidates
    BY <1>1, <1>4
  <2>2. cachedBytes - ChargeOf(E) = 0
    BY <1>2, <2>1
  <2> QED BY <2>2 DEF Fits
<1>5. CASE ~Fits(cachedBytes, charge) /\ K # {}
  <2>1. PICK b \in K : \A a \in K : ~Farther(a, b)
    <3> HIDE DEF K
    <3> QED BY <1>1, <1>5, FarthestBlock
  <2> DEFINE F == {a \in Candidates : Farther(a, b)}
  <2>2. F \in SUBSET E
    BY <2>1
  <2>3. ~(cachedBytes - ChargeOf(F) + charge > Budget - Budget \div 4)
    <3>1. b \in Candidates /\ b \notin Evicted(charge)
      OBVIOUS
    <3> QED BY <1>5, <3>1 DEF Evicted
  <2> HIDE DEF E, F
  <2>4. ChargeOf(F) <= ChargeOf(E) /\ ChargeOf(F) \in Nat
    BY <1>1, <2>2, ChargeGrows, ChargeIsNat
  <2>5. Budget \div 4 \in Nat
    BY <1>2
  <2>6. cachedBytes - ChargeOf(E) + charge <= Budget
    BY <1>2, <2>3, <2>4, <2>5
  <2>7. cachedBytes - ChargeOf(E) <= Budget - charge /\ charge <= Budget
    <3>1. ChargeOf(E) <= cachedBytes
      BY <1>1, <1>2, ChargeGrows
    <3> QED BY <1>2, <2>6, <3>1
  <2> QED BY <2>7 DEF Fits, E
<1> QED BY <1>3, <1>4, <1>5

\* The accounts hold before the first read.
LEMMA AccountsInit == Init => AInv
<1> SUFFICES ASSUME Init PROVE AInv
  OBVIOUS
<1>1. Charged = {}
  BY DEF Init, Charged, NoBlock, Block
<1>2. Accounts /\ WithinBudget
  BY <1>1, ChargeOfNone, BudgetIsNat DEF Init, Accounts, WithinBudget
<1>3. Unowned
  BY DEF Init, Unowned
<1> QED BY <1>2, <1>3 DEF AInv

\* Without workers nothing is left behind: all slots but the pinned block's can
\* be evicted, so that a missing block always fits.
LEMMA SerialFits ==
  ASSUME IInv, AInv, reader = "lookup", slots[target] = "none", threads = {}
  PROVE  /\ Charged = Candidates
         /\ Fits(cachedBytes - ChargeOf(Evicted(Charge(target))), Charge(target))
<1>1. target \in Block /\ pinned = target
  BY DEF IInv, TargetPinned, ShapeOK
<1>2. \A b \in Block : slots[b] # "decoding"
  <2> SUFFICES ASSUME NEW b \in Block, slots[b] = "decoding" PROVE FALSE
    OBVIOUS
  <2>1. b \in Charged
    BY DEF AInv, Unowned
  <2> QED BY <2>1 DEF Charged
<1>3. Charged = Candidates
  BY <1>1, <1>2 DEF Charged, Candidates
<1>4. Charge(target) \in Nat
  BY <1>1, ChargePositive
<1> QED BY <1>3, <1>4, EvictionMakesRoom DEF IInv, AInv

\* Every step of the reader keeps the accounts.
LEMMA ReaderAccounts ==
  ASSUME IInv, AInv, Read \/ ReaderStep \/ CheckpointCancels \/ Destroy
  PROVE  AInv'
<1> USE DEF cacheVars, readerVars, workerVars
<1>0. Charged \in SUBSET Block /\ cachedBytes \in Nat
  BY ChargedHaveSlots, ChargeIsNat DEF AInv, Accounts
<1>1. ASSUME NEW b \in Block, Acquire(b) PROVE AInv'
  <2> DEFINE next == NextRead(b, ordinal)
             position == IF next <= Len(plan) THEN next ELSE ordinal
             dropped == IF Unneeded(pinned, position, b) THEN {pinned} ELSE {}
  <2>1. dropped \in SUBSET Charged
    BY DEF Unneeded, Charged, IInv, ShapeOK, NoBlock
  <2>2. \A x \in dropped : slots[x] # "decoding"
    BY DEF Unneeded
  <2> HIDE DEF next, position, dropped
  <2>3. /\ reader = "idle" /\ reader' = "lookup" /\ WakeWorkers
        /\ slots' = [x \in Block |-> IF x \in dropped THEN "none" ELSE slots[x]]
        /\ cachedBytes' = cachedBytes - ChargeOf(dropped)
        /\ UNCHANGED <<plan, threads, brokenAhead, job>>
    BY <1>1 DEF Acquire, next, position, dropped
  <2>4. Charged' = Charged \ dropped
    <3>1. \A x \in dropped : \A w \in threads : job[w] # x
      BY <2>1, <2>2 DEF IInv, Decoders, DecodesOwned, Charged, NoBlock, Block
    <3> QED BY <2>3, <3>1 DEF Charged
  <2>5. Accounts' /\ WithinBudget'
    BY <2>1, <2>3, <2>4, TakingOut DEF AInv
  <2>6. Unowned'
    BY <2>1, <2>2, <2>3, <2>4 DEF AInv, Unowned, WakeWorkers
  <2> QED BY <2>5, <2>6 DEF AInv
<1>2. ASSUME Charged' = Charged, UNCHANGED <<plan, threads, cachedBytes, brokenAhead>>,
             Unowned'
      PROVE  AInv'
  BY <1>2 DEF AInv, Accounts, WithinBudget, Budget
<1>3. CASE ReturnReady \/ RethrowError \/ AwaitDecode \/ WaitEnds \/ CheckpointCancels
           \/ Join \/ DemandBlock \/ Destroy
  <2>1. /\ reader # "decode" /\ reader' # "decode" /\ reader' # "logicError"
        /\ UNCHANGED <<plan, threads, slots, cachedBytes, brokenAhead, job>>
        /\ worker' = worker \/ WakeWorkers
    BY <1>3 DEF ReturnReady, RethrowError, AwaitDecode, WaitEnds, CheckpointCancels,
                Join, DemandBlock, Destroy
  <2>2. Charged' = Charged
    BY <2>1 DEF Charged
  <2>3. Unowned'
    BY <2>1, <2>2 DEF AInv, Unowned, WakeWorkers
  <2> QED BY <1>2, <2>1, <2>2, <2>3
<1>4. CASE SerialMiss
  <2> DEFINE evicted == Evicted(Charge(target))
  <2>1. reader = "lookup" /\ slots[target] = "none" /\ threads = {}
    BY <1>4 DEF SerialMiss
  <2>2. target \in Block \ Charged
    BY <2>1, ChargedHaveSlots DEF IInv, TargetPinned, ShapeOK
  <2>3. Fits(cachedBytes - ChargeOf(evicted), Charge(target))
    BY <2>1, SerialFits
  <2>4. evicted \in SUBSET Charged /\ \A b \in evicted : slots[b] # "decoding"
    BY EvictsCharged, EvictsDecoded
  <2> HIDE DEF evicted
  <2>5. /\ slots' = [x \in Block |-> IF x = target THEN "decoding"
                                     ELSE IF x \in evicted THEN "none" ELSE slots[x]]
        /\ cachedBytes' = cachedBytes - ChargeOf(evicted) + Charge(target)
        /\ reader' = "decode"
        /\ UNCHANGED <<plan, threads, target, brokenAhead, worker, job>>
    BY <1>4, <2>3 DEF SerialMiss, Reserve, evicted
  <2>6. Charged' = (Charged \ evicted) \cup {target}
    BY <2>1, <2>2, <2>4, <2>5 DEF Charged
  <2>7. Accounts' /\ WithinBudget'
    BY <2>2, <2>3, <2>4, <2>5, <2>6, PuttingIn DEF AInv
  <2>8. Unowned'
    BY <2>1, <2>4, <2>5, <2>6 DEF AInv, Unowned
  <2> QED BY <2>7, <2>8 DEF AInv
<1>5. CASE SerialDecoded
  <2>1. target \in Block /\ threads = {} /\ slots[target] = "decoding"
    BY <1>5 DEF SerialDecoded, IInv, TargetPinned, ShapeOK, Decoders, DecodesOwned
  <2>2. Charged' = Charged
    BY <1>5, <2>1 DEF SerialDecoded, Charged, IInv, ShapeOK
  <2>3. Unowned'
    BY <1>5, <2>1, <2>2 DEF SerialDecoded, AInv, Unowned, IInv, ShapeOK
  <2> QED BY <1>2, <1>5, <2>2, <2>3 DEF SerialDecoded
<1>6. CASE SerialFailed
  <2>1. target \in Block /\ threads = {} /\ slots[target] = "decoding" /\ target \in Charged
    BY <1>6 DEF SerialFailed, IInv, TargetPinned, ShapeOK, Decoders, DecodesOwned, Charged
  <2>2. Charged' = Charged \ {target}
    BY <1>6, <2>1 DEF SerialFailed, Charged, IInv, ShapeOK
  <2>3. ChargeOf({target}) = Charge(target)
    <3>1. {target} \ {target} = {} /\ {target} \in SUBSET Block
      BY <2>1
    <3> QED BY <2>1, <3>1, ChargeRemoves, ChargeOfNone, ChargePositive
  <2>4. Accounts' /\ WithinBudget'
    BY <1>6, <2>1, <2>2, <2>3, TakingOut DEF SerialFailed, AInv
  <2>5. Unowned'
    BY <1>6, <2>1, <2>2 DEF SerialFailed, AInv, Unowned, IInv, ShapeOK
  <2> QED BY <2>4, <2>5 DEF AInv
<1> QED BY <1>1, <1>3, <1>4, <1>5, <1>6 DEF Read, ReaderStep

\* A block's own charge.
LEMMA ChargeOfOne ==
  ASSUME NEW b \in Block
  PROVE  ChargeOf({b}) = Charge(b)
<1>1. {b} \ {b} = {} /\ {b} \in SUBSET Block
  OBVIOUS
<1> QED BY <1>1, ChargeRemoves, ChargeOfNone, ChargePositive

\* Every step of a worker keeps the accounts.
LEMMA WorkerAccounts ==
  ASSUME IInv, AInv, NEW w \in Worker, WorkerStep(w)
  PROVE  AInv'
<1> USE DEF cacheVars, readerVars
<1>0. w \in threads
  BY DEF WorkerStep
<1>1. /\ WorkEvicts \in SUBSET Charged
      /\ \A b \in WorkEvicts : slots[b] # "decoding"
      /\ \A b \in WorkEvicts : \A v \in threads : job[v] # b
  <2>1. /\ WorkEvicts \in SUBSET Charged
        /\ \A b \in WorkEvicts : slots[b] # "decoding" /\ b \in Block
    BY EvictsCharged, EvictsDecoded DEF WorkEvicts
  <2> QED BY <2>1 DEF IInv, Decoders, DecodesOwned, NoBlock, Block
<1>2. \A b \in WorkEvicts : ~(reader = "decode" /\ b = target)
  BY <1>1 DEF IInv, DecodesOwned
<1>3. WorkLeft = cachedBytes - ChargeOf(WorkEvicts)
  BY DEF WorkLeft
<1>4. CASE WorkerExits(w) \/ WorkerIdles(w)
  <2>1. /\ UNCHANGED <<plan, threads, slots, cachedBytes, brokenAhead, reader,
                       target, job>>
        /\ worker[w] = "check"
        /\ \E l \in {"exited", "wait"} : worker' = [worker EXCEPT ![w] = l]
    BY <1>4 DEF WorkerExits, WorkerIdles, Checking
  <2>2. Charged' = Charged
    BY <2>1 DEF Charged
  <2>3. Unowned'
    BY <1>0, <2>1, <2>2 DEF AInv, Unowned, IInv, ShapeOK
  <2> QED BY <2>1, <2>2, <2>3 DEF AInv, Accounts, WithinBudget, Budget
<1>5. CASE WorkerBlocked(w)
  <2>1. /\ slots' = [x \in Block |-> IF x \in WorkEvicts THEN "none" ELSE slots[x]]
        /\ cachedBytes' = cachedBytes - ChargeOf(WorkEvicts)
        /\ worker[w] = "check" /\ worker' = [worker EXCEPT ![w] = "wait"]
        /\ UNCHANGED <<plan, threads, brokenAhead, reader, target, job>>
    BY <1>3, <1>5 DEF WorkerBlocked, Checking, Reserve
  <2>2. Charged' = Charged \ WorkEvicts
    BY <1>1, <1>2, <2>1 DEF Charged
  <2>3. Accounts' /\ WithinBudget'
    BY <1>1, <2>1, <2>2, TakingOut DEF AInv
  <2>4. Unowned'
    BY <1>0, <1>1, <2>1, <2>2 DEF AInv, Unowned, IInv, ShapeOK
  <2> QED BY <2>3, <2>4 DEF AInv
<1>6. CASE WorkerReserves(w)
  <2> DEFINE b == WorkBlock
  <2>1. b \in Block \ Charged /\ slots[b] = "none"
    BY <1>6, WorkIsFree, ChargedHaveSlots DEF WorkerReserves, IInv
  <2>2. Fits(cachedBytes - ChargeOf(WorkEvicts), Charge(b))
    BY <1>3, <1>6 DEF WorkerReserves, WorkFits
  <2> HIDE DEF b
  <2>3. /\ slots' = [x \in Block |-> IF x = b THEN "decoding"
                                     ELSE IF x \in WorkEvicts THEN "none" ELSE slots[x]]
        /\ cachedBytes' = cachedBytes - ChargeOf(WorkEvicts) + Charge(b)
        /\ worker[w] = "check" /\ worker' = [worker EXCEPT ![w] = "decode"]
        /\ job' = [job EXCEPT ![w] = b]
        /\ UNCHANGED <<plan, threads, brokenAhead, reader, target>>
    BY <1>3, <1>6 DEF WorkerReserves, Checking, Reserve, b
  <2>4. job[w] = NoBlock
    BY <1>0, <2>3 DEF IInv, Decoders
  <2>5. Charged' = (Charged \ WorkEvicts) \cup {b}
    <3>1. \A x \in Block : (\E v \in threads' : job'[v] = x)
                             <=> x = b \/ \E v \in threads : job[v] = x
      BY <1>0, <2>3, <2>4 DEF IInv, ShapeOK, NoBlock, Block
    <3> QED BY <1>1, <1>2, <2>1, <2>3, <3>1 DEF Charged
  <2>6. Accounts' /\ WithinBudget'
    BY <1>1, <2>1, <2>2, <2>3, <2>5, PuttingIn DEF AInv
  <2>7. Unowned'
    BY <1>0, <1>1, <2>3, <2>5 DEF AInv, Unowned, IInv, ShapeOK
  <2> QED BY <2>6, <2>7 DEF AInv
<1>7. CASE WorkerBreaks(w)
  <2> DEFINE b == WorkBlock
  <2>1. b \in Block \ Charged /\ slots[b] = "none"
    BY <1>7, WorkIsFree, ChargedHaveSlots DEF WorkerBreaks, IInv
  <2> HIDE DEF b
  <2>2. PICK inserted \in BOOLEAN :
          slots' = [x \in Block |-> IF x = b /\ inserted THEN "decoding"
                                   ELSE IF x \in WorkEvicts THEN "none" ELSE slots[x]]
    BY <1>7 DEF WorkerBreaks, Reserve, b
  <2>3. /\ cachedBytes' = cachedBytes - ChargeOf(WorkEvicts)
        /\ worker' = [worker EXCEPT ![w] = "broken"]
        /\ UNCHANGED <<plan, threads, brokenAhead, reader, target, job>>
    BY <1>3, <1>7 DEF WorkerBreaks, Checking
  <2>4. Charged' = Charged \ WorkEvicts
    <3>1. ~(reader = "decode" /\ b = target) /\ \A v \in threads : job[v] # b
      BY <2>1 DEF Charged
    <3> QED BY <1>1, <1>2, <2>1, <2>2, <2>3, <3>1 DEF Charged
  <2>5. Accounts' /\ WithinBudget'
    BY <1>1, <2>3, <2>4, TakingOut DEF AInv
  <2>6. Unowned'
    BY <1>0, <2>3 DEF AInv, Unowned, IInv, ShapeOK
  <2> QED BY <2>5, <2>6 DEF AInv
<1>8. CASE WorkerReports(w)
  <2>1. /\ UNCHANGED <<plan, threads, slots, cachedBytes, reader, target, job>>
        /\ brokenAhead' = TRUE
    BY <1>8 DEF WorkerReports
  <2>2. Charged' = Charged
    BY <2>1 DEF Charged
  <2>3. Unowned'
    BY <1>0, <2>1 DEF AInv, Unowned
  <2> QED BY <2>1, <2>2, <2>3 DEF AInv, Accounts, WithinBudget, Budget
<1>9. ASSUME WorkerDecodes(w) \/ WorkerDecodeFails(w)
      PROVE  AInv'
  <2> DEFINE b == job[w]
  <2>1. FinishJob(w)
    BY <1>9 DEF WorkerDecodes, WorkerDecodeFails
  <2>2. b \in Block /\ slots[b] = "decoding"
    BY <1>0, <2>1 DEF FinishJob, IInv, ShapeOK, Decoders, DecodesOwned
  <2>3. b \in Charged
    BY <1>0, <2>2 DEF Charged
  <2>4. PICK state \in {"none", "ready", "failed"} :
          /\ slots' = [slots EXCEPT ![b] = state]
          /\ cachedBytes' = IF state = "none" THEN cachedBytes - Charge(b) ELSE cachedBytes
    BY <1>9 DEF WorkerDecodes, WorkerDecodeFails
  <2>5. /\ reader' = reader /\ target' = target
        /\ job' = [job EXCEPT ![w] = NoBlock]
        /\ worker' = [v \in threads |-> IF v = w \/ worker[v] = "wait" THEN "check"
                                        ELSE worker[v]]
        /\ UNCHANGED <<plan, threads, brokenAhead>>
    BY <2>1 DEF FinishJob
  <2>6. reader # "decode"
    BY <1>0 DEF IInv, Decoders
  <2>7. Charged' = IF state = "none" THEN Charged \ {b} ELSE Charged
    <3>1. \A x \in Block : (\E v \in threads' : job'[v] = x)
                             <=> x # b /\ \E v \in threads : job[v] = x
      BY <1>0, <2>2, <2>5 DEF IInv, ShapeOK, DecodesOwned, NoBlock, Block
    <3> HIDE DEF b
    <3>2. slots \in [Block -> {"none", "decoding", "ready", "failed"}]
      BY DEF IInv, ShapeOK
    <3>3. \A x \in Block : x # b => (x \in Charged' <=> x \in Charged)
      BY <2>4, <2>5, <2>6, <3>1, <3>2 DEF Charged
    <3>4. b \in Charged' <=> state # "none"
      BY <2>2, <2>4, <2>5, <2>6, <3>1, <3>2 DEF Charged
    <3>5. Charged \subseteq Block /\ Charged' \subseteq Block
      BY DEF Charged
    <3> QED BY <2>2, <2>3, <3>3, <3>4, <3>5
  <2>8. Accounts' /\ WithinBudget'
    <3> HIDE DEF b
    <3>1. CASE state = "none"
      <4>1. cachedBytes' = cachedBytes - ChargeOf({b})
        BY <2>2, <2>4, <3>1, ChargeOfOne
      <4> QED BY <2>3, <2>5, <2>7, <3>1, <4>1, TakingOut DEF AInv
    <3>2. CASE state # "none"
      BY <2>4, <2>5, <2>7, <3>2 DEF AInv, Accounts, WithinBudget, Budget
    <3> QED BY <3>1, <3>2
  <2> HIDE DEF b
  <2>9. Unowned'
    <3>1. \A v \in threads : worker[v] = "broken" => worker'[v] = "broken"
      BY <2>1, <2>5 DEF FinishJob
    <3>2. \A x \in Block : slots'[x] = "decoding" => slots[x] = "decoding" /\ x # b
      BY <2>2, <2>4 DEF IInv, ShapeOK
    <3> QED BY <2>5, <2>7, <3>1, <3>2 DEF AInv, Unowned
  <2> QED BY <2>8, <2>9 DEF AInv
<1> QED BY <1>4, <1>5, <1>6, <1>7, <1>8, <1>9 DEF WorkerStep

\* The cache counts what it holds and what is being decoded, whatever fails.
THEOREM AccountsKept == Spec => []AInv
<1>1. IInv /\ AInv /\ [Next]_vars => AInv'
  <2> SUFFICES ASSUME IInv, AInv, [Next]_vars PROVE AInv'
    OBVIOUS
  <2>1. CASE UNCHANGED vars
    BY <2>1 DEF vars, cacheVars, readerVars, workerVars, AInv, Accounts, WithinBudget,
                Unowned, Charged, Budget
  <2>2. CASE Gone
    BY <2>1, <2>2 DEF Gone
  <2> QED BY <2>1, <2>2, ReaderAccounts, WorkerAccounts DEF Next
<1> QED BY <1>1, AccountsInit, SourceInvariance, PTL DEF Spec

\* Every variable keeps its type: cached_bytes_, unsigned in the code, never
\* goes below zero.
THEOREM SourceTypeCorrect == Spec => []TypeOK
<1>1. IInv /\ AInv => TypeOK
  BY ChargedHaveSlots, ChargeIsNat DEF IInv, AInv, Accounts, TypeOK
<1> QED BY <1>1, SourceInvariance, AccountsKept, PTL

\* The cache keeps to its byte budget, unless a single block exceeds it.
THEOREM BudgetKept == Spec => []CacheWithinBudget
<1>1. IInv /\ AInv => CacheWithinBudget
  <2> SUFFICES ASSUME IInv, AInv, ~brokenAhead, \A w \in threads : worker[w] # "broken"
               PROVE  /\ cachedBytes = ChargeOf(Resident)
                      /\ cachedBytes <= Budget \/ Cardinality(Resident) <= 1
    BY DEF CacheWithinBudget
  <2>1. \A b \in Block : slots[b] = "decoding" => b \in Charged
    BY DEF AInv, Unowned
  <2>2. \A b \in Block : slots[b] \in {"none", "decoding", "ready", "failed"}
    BY DEF IInv, ShapeOK
  <2>3. Resident = Charged
    BY <2>1, <2>2, ChargedHaveSlots DEF Resident, Charged
  <2> QED BY <2>3 DEF AInv, Accounts, WithinBudget
<1> QED BY <1>1, SourceInvariance, AccountsKept, PTL

\* No slot is evicted while a thread decodes into it, none has two decoders,
\* and acquire() never finds "an in-flight decode" in a reader without workers.
THEOREM ReservationsOwned == Spec => []ReservationOwned
<1>1. IInv /\ AInv => ReservationOwned
  BY DEF IInv, AInv, Unowned, ReservationOwned
<1> QED BY <1>1, SourceInvariance, AccountsKept, PTL

----------------------------------------------------------------------------
(* A followed plan: no block is decoded twice.                             *)

\* The reader follows a plan whose blocks all fit the budget together.
Ideal == onPlan /\ plan # <<>> /\ ChargeOf(PlannedBlocks) <= Budget

\* Only planned blocks get slots, and a block that was decoded and is gone is
\* wanted by nobody: not by the reads to come, the present one or a demand.
PlannedOnly ==
  /\ \A b \in Block : slots[b] # "none" => b \in PlannedBlocks
  /\ reader \in {"lookup", "wait", "decode"} => target \in PlannedBlocks

Unwanted ==
  \A b \in Block : slots[b] = "none" /\ decodes[b] = 1 =>
    ~NeededLater(b, ordinal) /\ ~(reader \in {"lookup", "wait"} /\ b = target)

DemandFresh ==
  demanded # NoBlock => /\ demanded \in PlannedBlocks
                        /\ slots[demanded] = "none" /\ decodes[demanded] = 0

Once == \A b \in Block : decodes[b] \in {0, 1}

DInv ==
  /\ demanded # NoBlock => threads # {}
  /\ Ideal => PlannedOnly /\ Unwanted /\ DemandFresh /\ Once

\* A block is needed later when the plan still names it.
LEMMA NeededIs ==
  ASSUME ShapeOK, NEW b \in Block, NEW from \in 0..Len(plan)
  PROVE  /\ NeededLater(b, from) <=> \E p \in (from + 1)..Len(plan) : plan[p] = b
         /\ NeededLater(b, from) <=> NextRead(b, from) # Len(plan) + 1
<1> DEFINE upcoming == {p \in (from + 1)..Len(plan) : plan[p] = b}
<1>1. Len(plan) \in Nat
  BY PlanShape DEF ShapeOK
<1>2. CASE upcoming = {}
  <2>1. NextRead(b, from) = Len(plan) + 1
    BY <1>2 DEF NextRead
  <2> QED BY <1>1, <1>2, <2>1 DEF NeededLater
<1>3. CASE upcoming # {}
  <2>1. upcoming \subseteq Nat /\ \A p \in upcoming : p <= Len(plan)
    BY <1>1
  <2>2. NextRead(b, from) = Min(upcoming)
    BY <1>3 DEF NextRead
  <2>3. \E p \in (from + 1)..Len(plan) : plan[p] = b
    BY <1>3
  <2> HIDE DEF upcoming
  <2>4. NextRead(b, from) \in Nat /\ NextRead(b, from) <= Len(plan)
    BY <1>3, <2>1, <2>2, MinOfNumbers
  <2> QED BY <1>1, <2>3, <2>4 DEF NeededLater
<1> QED BY <1>2, <1>3

\* What is no longer needed stays so as the reader advances.
LEMMA NeededEarlier ==
  ASSUME ShapeOK, NEW b \in Block, NEW from \in 0..Len(plan), NEW to \in 0..Len(plan),
         from <= to, NeededLater(b, to)
  PROVE  NeededLater(b, from)
<1>1. Len(plan) \in Nat
  BY PlanShape DEF ShapeOK
<1>2. PICK p \in (to + 1)..Len(plan) : plan[p] = b
  BY NeededIs
<1>3. p \in (from + 1)..Len(plan)
  BY <1>1
<1> QED BY <1>2, <1>3, NeededIs

\* A plan's positions hold blocks.
LEMMA PlannedAreBlocks == ShapeOK => PlannedBlocks \in SUBSET Block
  BY PlanShape DEF ShapeOK, PlannedBlocks

\* A planned block that is not counted fits beside all that are.
LEMMA PlannedFits ==
  ASSUME IInv, AInv, Ideal, PlannedOnly, NEW b \in PlannedBlocks, slots[b] = "none"
  PROVE  Evicted(Charge(b)) = {}
<1>1. PlannedBlocks \in SUBSET Block /\ Charged \in SUBSET Block /\ b \notin Charged
  BY PlannedAreBlocks, ChargedHaveSlots DEF IInv
<1>2. Charged \cup {b} \in SUBSET PlannedBlocks
  BY <1>1, ChargedHaveSlots DEF PlannedOnly
<1>3. ChargeOf(Charged \cup {b}) <= ChargeOf(PlannedBlocks)
  BY <1>1, <1>2, ChargeGrows
<1>4. ChargeOf(Charged \cup {b}) = cachedBytes + Charge(b)
  BY <1>1, ChargeAdds DEF AInv, Accounts
<1>5. /\ cachedBytes \in Nat /\ Charge(b) \in Nat /\ Budget \in Nat
      /\ ChargeOf(PlannedBlocks) \in Nat
  BY <1>1, ChargeIsNat, ChargePositive, BudgetIsNat DEF AInv, Accounts
<1>6. Charge(b) <= Budget /\ cachedBytes <= Budget - Charge(b)
  BY <1>3, <1>4, <1>5 DEF Ideal
<1> QED BY <1>6 DEF Evicted, Fits

\* The scan does not look behind the reader.
LEMMA ScanIsAhead ==
  ASSUME ShapeOK
  PROVE  ordinal <= AdvancedScan
<1> DEFINE start == Largest({scan, ordinal})
           open == {p \in start..(Len(plan) - 1) : slots[plan[p + 1]] = "none"}
<1>1. Len(plan) \in Nat /\ scan \in 0..Len(plan) /\ ordinal \in 0..Len(plan)
  BY PlanShape DEF ShapeOK
<1>2. start \in 0..Len(plan) /\ ordinal <= start
  BY <1>1, LargestOfTwo
<1>3. AdvancedScan = IF open = {} THEN Largest({start, Len(plan)}) ELSE Min(open)
  BY DEF AdvancedScan
<1> HIDE DEF start
<1>4. CASE open = {}
  <2>1. AdvancedScan = Len(plan)
    BY <1>1, <1>2, <1>3, <1>4, LargestOfTwo
  <2> QED BY <1>1, <2>1
<1>5. CASE open # {}
  <2>1. open \subseteq Nat /\ \A p \in open : start <= p
    BY <1>1, <1>2
  <2>2. AdvancedScan \in open
    BY <1>3, <1>5, <2>1, MinOfNumbers
  <2>3. AdvancedScan \in Nat /\ start <= AdvancedScan
    BY <2>1, <2>2
  <2> QED BY <1>1, <1>2, <2>3
<1> QED BY <1>4, <1>5

\* What a worker takes is planned, was not decoded before and evicts nothing.
LEMMA WorkIsFresh ==
  ASSUME IInv, AInv, DInv, Ideal, ~NothingToDo
  PROVE  WorkBlock \in PlannedBlocks /\ decodes[WorkBlock] = 0 /\ WorkEvicts = {}
<1>1. ShapeOK /\ PlannedOnly /\ Unwanted /\ DemandFresh /\ Once
  BY DEF IInv, DInv
<1>2. CASE DemandPending
  BY <1>1, <1>2, PlannedFits DEF DemandPending, DemandFresh, WorkBlock, WorkEvicts
<1>3. CASE ~DemandPending
  <2> DEFINE p == AdvancedScan
  <2>1. Len(plan) \in Nat /\ p \in 0..Len(plan) /\ p < Len(plan)
        /\ ordinal \in 0..Len(plan) /\ scan \in 0..Len(plan)
    BY <1>1, <1>3, PlanShape, ScanStops DEF NothingToDo, ShapeOK
  <2>2. WorkBlock = plan[p + 1] /\ WorkBlock \in Block /\ slots[WorkBlock] = "none"
    BY <1>1, <1>3, WorkIsFree DEF WorkBlock
  <2>3. ordinal <= p
    BY <1>1, ScanIsAhead
  <2> HIDE DEF p
  <2>4. p + 1 \in (ordinal + 1)..Len(plan)
    BY <2>1, <2>3
  <2>5. NeededLater(WorkBlock, ordinal)
    BY <1>1, <2>1, <2>2, <2>4, NeededIs
  <2>6. decodes[WorkBlock] = 0
    BY <1>1, <2>2, <2>5 DEF Unwanted, Once
  <2>7. WorkBlock \in PlannedBlocks
    <3>1. p + 1 \in DOMAIN plan
      BY <2>1, PlanShape, <1>1 DEF ShapeOK
    <3> QED BY <2>2, <3>1 DEF PlannedBlocks
  <2> QED BY <1>3, <2>6, <2>7 DEF WorkEvicts
<1> QED BY <1>2, <1>3

\* A plan that is followed after a step was followed before it.
LEMMA IdealBefore ==
  ASSUME plan' = plan, onPlan' => onPlan, Ideal'
  PROVE  Ideal /\ PlannedBlocks' = PlannedBlocks
  BY DEF Ideal, PlannedBlocks, Budget

\* Where the reader stands in the plan only matters to what is needed later.
LEMMA NeededNow ==
  ASSUME plan' = plan, ordinal' = ordinal
  PROVE  \A b \in Block : NeededLater(b, ordinal)' <=> NeededLater(b, ordinal)
  BY DEF NeededLater, NextRead

\* The invariant holds before the first read.
LEMMA DecodesInit == Init => DInv
  BY DEF Init, DInv, PlannedOnly, Unwanted, DemandFresh, Once, Block, NoBlock

\* Every step of the reader keeps a followed plan's blocks decoded once.
LEMMA ReaderDecodes ==
  ASSUME IInv, AInv, DInv, Read \/ ReaderStep \/ CheckpointCancels \/ Destroy
  PROVE  DInv'
<1> USE DEF cacheVars, readerVars, workerVars
<1>0. ShapeOK /\ Len(plan) \in Nat /\ ordinal \in 0..Len(plan)
  BY PlanShape DEF IInv, ShapeOK
<1>1. ASSUME NEW b \in Block, Acquire(b) PROVE DInv'
  <2> DEFINE next == NextRead(b, ordinal)
             position == IF next <= Len(plan) THEN next ELSE ordinal
             dropped == IF Unneeded(pinned, position, b) THEN {pinned} ELSE {}
  <2>1. \A x \in dropped : ~NeededLater(x, position) /\ x # b
    BY DEF Unneeded
  <2>2. onPlan' => onPlan /\ next = ordinal + 1 /\ next <= Len(plan)
    BY <1>1 DEF Acquire
  <2>3. onPlan' => NeededLater(b, ordinal) /\ position = ordinal + 1
    BY <2>2 DEF NeededLater
  <2> HIDE DEF next, position, dropped
  <2>4. /\ reader' = "lookup" /\ ordinal' = position /\ target' = b
        /\ slots' = [x \in Block |-> IF x \in dropped THEN "none" ELSE slots[x]]
        /\ UNCHANGED <<plan, threads, demanded, decodes>>
    BY <1>1 DEF Acquire, next, position, dropped
  <2> SUFFICES ASSUME Ideal'
               PROVE  PlannedOnly' /\ Unwanted' /\ DemandFresh' /\ Once'
    BY <2>4 DEF DInv
  <2>5. Ideal /\ PlannedBlocks' = PlannedBlocks /\ onPlan'
    BY <2>2, <2>4, IdealBefore DEF Ideal
  <2>6. PlannedOnly /\ Unwanted /\ DemandFresh /\ Once
    BY <2>5 DEF DInv
  <2>7. NeededLater(b, ordinal) /\ position \in 0..Len(plan) /\ ordinal <= position
    BY <1>0, <2>2, <2>3, <2>5 DEF next
  <2>8. b \in PlannedBlocks
    <3>1. PICK p \in (ordinal + 1)..Len(plan) : plan[p] = b
      BY <1>0, <2>7, NeededIs
    <3>2. p \in DOMAIN plan
      BY <1>0, <3>1, PlanShape DEF ShapeOK
    <3> QED BY <3>1, <3>2 DEF PlannedBlocks
  <2>9. PlannedOnly'
    BY <2>4, <2>5, <2>6, <2>8 DEF PlannedOnly
  <2>10. Unwanted'
    <3> SUFFICES ASSUME NEW x \in Block, slots'[x] = "none", decodes[x] = 1
                 PROVE  ~NeededLater(x, ordinal)' /\ x # b
      BY <2>4 DEF Unwanted
    <3>1. NeededLater(x, ordinal)' <=> NeededLater(x, position)
      BY <2>4 DEF NeededLater, NextRead
    <3>2. CASE x \in dropped
      BY <2>1, <3>1, <3>2
    <3>3. CASE x \notin dropped
      <4>1. ~NeededLater(x, ordinal)
        BY <2>4, <2>6, <3>3 DEF Unwanted
      <4> QED BY <1>0, <2>7, <3>1, <4>1, NeededEarlier
    <3> QED BY <3>2, <3>3
  <2>11. DemandFresh' /\ Once'
    BY <2>4, <2>5, <2>6 DEF DemandFresh, Once, PlannedOnly, IInv, ShapeOK
  <2> QED BY <2>9, <2>10, <2>11
<1>2. CASE ReturnReady \/ RethrowError \/ AwaitDecode \/ WaitEnds \/ CheckpointCancels
           \/ Join \/ Destroy
  <2>1. /\ reader' # "decode"
        /\ reader' \in {"lookup", "wait"} => reader \in {"lookup", "wait"}
        /\ UNCHANGED <<plan, threads, slots, ordinal, demanded, target, onPlan, decodes>>
    BY <1>2 DEF ReturnReady, RethrowError, AwaitDecode, WaitEnds, CheckpointCancels,
                Join, Destroy
  <2> SUFFICES ASSUME Ideal'
               PROVE  PlannedOnly' /\ Unwanted' /\ DemandFresh' /\ Once'
    BY <2>1 DEF DInv
  <2>2. Ideal /\ PlannedBlocks' = PlannedBlocks
    BY <2>1, IdealBefore
  <2> QED BY <2>1, <2>2, NeededNow
          DEF DInv, PlannedOnly, Unwanted, DemandFresh, Once
<1>3. CASE DemandBlock
  <2>1. /\ reader = "lookup" /\ reader' = "wait" /\ slots[target] = "none"
        /\ threads # {} /\ demanded' = target
        /\ UNCHANGED <<plan, threads, slots, ordinal, target, onPlan, decodes>>
    BY <1>3 DEF DemandBlock
  <2> SUFFICES ASSUME Ideal'
               PROVE  PlannedOnly' /\ Unwanted' /\ DemandFresh' /\ Once'
    BY <2>1 DEF DInv
  <2>2. Ideal /\ PlannedBlocks' = PlannedBlocks
    BY <2>1, IdealBefore
  <2>3. target \in Block /\ target \in PlannedBlocks /\ decodes[target] = 0
    BY <2>1, <2>2 DEF DInv, PlannedOnly, Unwanted, Once, IInv, TargetPinned, ShapeOK
  <2> QED BY <2>1, <2>2, <2>3, NeededNow
          DEF DInv, PlannedOnly, Unwanted, DemandFresh, Once
<1>4. CASE SerialMiss
  <2> DEFINE evicted == Evicted(Charge(target))
  <2>1. reader = "lookup" /\ slots[target] = "none" /\ threads = {} /\ target \in Block
    BY <1>4 DEF SerialMiss, IInv, TargetPinned, ShapeOK
  <2>2. Fits(cachedBytes - ChargeOf(evicted), Charge(target))
    BY <2>1, SerialFits
  <2> HIDE DEF evicted
  <2>3. /\ slots' = [x \in Block |-> IF x = target THEN "decoding"
                                     ELSE IF x \in evicted THEN "none" ELSE slots[x]]
        /\ decodes' = [decodes EXCEPT ![target] = @ + 1]
        /\ reader' = "decode"
        /\ UNCHANGED <<plan, threads, ordinal, demanded, target, onPlan>>
    BY <1>4, <2>2 DEF SerialMiss, Reserve, evicted
  <2> SUFFICES ASSUME Ideal'
               PROVE  PlannedOnly' /\ Unwanted' /\ DemandFresh' /\ Once'
    BY <2>3 DEF DInv
  <2>4. Ideal /\ PlannedBlocks' = PlannedBlocks
    BY <2>3, IdealBefore
  <2>5. PlannedOnly /\ Unwanted /\ Once /\ demanded = NoBlock
    BY <2>1, <2>4 DEF DInv
  <2>6. target \in PlannedBlocks /\ decodes[target] = 0
    BY <2>1, <2>5 DEF PlannedOnly, Unwanted, Once
  <2>7. evicted = {}
    BY <2>1, <2>4, <2>5, <2>6, PlannedFits DEF evicted
  <2>8. decodes \in [Block -> Nat] /\ decodes'[target] = 1
    BY <2>1, <2>3, <2>6 DEF IInv, ShapeOK
  <2>9. PlannedOnly' /\ DemandFresh' /\ Once'
    BY <2>1, <2>3, <2>4, <2>5, <2>6, <2>7, <2>8 DEF PlannedOnly, DemandFresh, Once
  <2>10. Unwanted'
    BY <2>1, <2>3, <2>5, <2>7, <2>8, NeededNow DEF Unwanted
  <2> QED BY <2>9, <2>10
<1>5. CASE SerialDecoded
  <2>1. /\ reader' = "idle" /\ target \in Block /\ slots[target] = "decoding"
        /\ slots' = [slots EXCEPT ![target] = "ready"]
        /\ UNCHANGED <<plan, threads, ordinal, demanded, target, onPlan, decodes>>
    BY <1>5 DEF SerialDecoded, IInv, TargetPinned, ShapeOK, DecodesOwned
  <2> SUFFICES ASSUME Ideal'
               PROVE  PlannedOnly' /\ Unwanted' /\ DemandFresh' /\ Once'
    BY <2>1 DEF DInv
  <2>2. Ideal /\ PlannedBlocks' = PlannedBlocks
    BY <2>1, IdealBefore
  <2>3. slots \in [Block -> {"none", "decoding", "ready", "failed"}]
    BY DEF IInv, ShapeOK
  <2>4. demanded # NoBlock => demanded \in Block /\ demanded # target
    BY <2>1, <2>2 DEF DInv, DemandFresh, IInv, ShapeOK
  <2>5. PlannedOnly' /\ DemandFresh' /\ Once'
    BY <2>1, <2>2, <2>3, <2>4 DEF DInv, PlannedOnly, DemandFresh, Once
  <2>6. Unwanted'
    BY <2>1, <2>2, <2>3, NeededNow DEF DInv, Unwanted
  <2> QED BY <2>5, <2>6
<1>6. CASE SerialFailed
  BY <1>6 DEF SerialFailed, DInv, Ideal
<1> QED BY <1>1, <1>2, <1>3, <1>4, <1>5, <1>6 DEF Read, ReaderStep

\* So does every step of a worker.
LEMMA WorkerDecodesOnce ==
  ASSUME IInv, AInv, DInv, NEW w \in Worker, WorkerStep(w)
  PROVE  DInv'
<1> USE DEF cacheVars, readerVars
<1>1. w \in threads /\ UNCHANGED <<plan, threads, ordinal, reader, target, pinned, onPlan>>
  BY DEF WorkerStep, WorkerExits, WorkerIdles, WorkerBlocked, WorkerReserves,
         WorkerBreaks, WorkerReports, WorkerDecodes, WorkerDecodeFails, FinishJob
<1> SUFFICES ASSUME Ideal'
             PROVE  PlannedOnly' /\ Unwanted' /\ DemandFresh' /\ Once'
  BY <1>1 DEF DInv
<1>2. Ideal /\ PlannedBlocks' = PlannedBlocks
  BY <1>1, IdealBefore
<1>3. PlannedOnly /\ Unwanted /\ DemandFresh /\ Once
  BY <1>2 DEF DInv
<1>4. /\ slots \in [Block -> {"none", "decoding", "ready", "failed"}]
      /\ decodes \in [Block -> Nat] /\ demanded \in Block \cup {NoBlock}
  BY DEF IInv, ShapeOK
<1>5. CASE WorkerExits(w) \/ WorkerIdles(w) \/ WorkerReports(w)
  <2>1. UNCHANGED <<slots, demanded, decodes>>
    BY <1>5 DEF WorkerExits, WorkerIdles, WorkerReports
  <2> QED BY <1>1, <1>2, <1>3, <2>1, NeededNow
          DEF PlannedOnly, Unwanted, DemandFresh, Once
<1>6. CASE WorkerBlocked(w)
  <2>1. WorkEvicts = {}
    BY <1>2, <1>6, WorkIsFresh DEF WorkerBlocked
  <2>2. UNCHANGED <<demanded, decodes>> /\ \A b \in Block : slots'[b] = slots[b]
    BY <1>6, <2>1 DEF WorkerBlocked, Reserve
  <2> QED BY <1>1, <1>2, <1>3, <1>4, <2>2, NeededNow
          DEF PlannedOnly, Unwanted, DemandFresh, Once
<1>7. CASE WorkerReserves(w) \/ WorkerBreaks(w)
  <2> DEFINE b == WorkBlock
  <2>1. ~NothingToDo
    BY <1>7 DEF WorkerReserves, WorkerBreaks
  <2>2. b \in Block /\ slots[b] = "none"
    BY <2>1, WorkIsFree DEF IInv
  <2>3. b \in PlannedBlocks /\ decodes[b] = 0 /\ WorkEvicts = {}
    BY <1>2, <2>1, WorkIsFresh
  <2>4. demanded' = NoBlock
    BY <1>3, <1>7 DEF WorkerReserves, WorkerBreaks, ConsumeWork, DemandPending, DemandFresh
  <2>5. \/ /\ slots' = [x \in Block |-> IF x = b THEN "decoding" ELSE slots[x]]
           /\ decodes' = [decodes EXCEPT ![b] = @ + 1]
        \/ /\ \A x \in Block : slots'[x] = slots[x] \/ (x = b /\ slots'[x] = "decoding")
           /\ decodes' = decodes
    <3>1. CASE WorkerReserves(w)
      BY <2>3, <3>1 DEF WorkerReserves, Reserve
    <3>2. CASE WorkerBreaks(w)
      <4>1. PICK inserted \in BOOLEAN : slots' = Reserve(b, WorkEvicts, inserted)
        BY <3>2 DEF WorkerBreaks
      <4>2. decodes' = decodes
        BY <3>2 DEF WorkerBreaks
      <4> HIDE DEF b
      <4>3. \A x \in Block : slots'[x] = slots[x] \/ (x = b /\ slots'[x] = "decoding")
        BY <2>3, <4>1 DEF Reserve
      <4> QED BY <4>2, <4>3
    <3> QED BY <1>7, <3>1, <3>2
  <2> HIDE DEF b
  <2>6. PlannedOnly' /\ DemandFresh'
    BY <1>1, <1>2, <1>3, <2>2, <2>3, <2>4, <2>5 DEF PlannedOnly, DemandFresh
  <2>7. Once'
    BY <1>3, <1>4, <2>2, <2>3, <2>5 DEF Once
  <2>8. Unwanted'
    BY <1>1, <1>3, <1>4, <2>2, <2>3, <2>5, NeededNow DEF Unwanted
  <2> QED BY <2>6, <2>7, <2>8
<1>8. CASE WorkerDecodes(w) \/ WorkerDecodeFails(w)
  <2> DEFINE b == job[w]
  <2>1. worker[w] = "decode" /\ UNCHANGED <<demanded, decodes>>
    BY <1>8 DEF WorkerDecodes, WorkerDecodeFails, FinishJob
  <2>2. b \in Block /\ slots[b] = "decoding"
    BY <1>1, <2>1 DEF IInv, ShapeOK, Decoders, DecodesOwned
  <2>3. PICK state \in {"none", "ready", "failed"} :
          /\ slots' = [slots EXCEPT ![b] = state]
          /\ state = "none" => b # pinned /\ ~NeededLater(b, ordinal)
    BY <1>8 DEF WorkerDecodes, WorkerDecodeFails
  <2>4. state = "none" => ~(reader \in {"lookup", "wait"} /\ b = target)
    BY <2>3 DEF IInv, TargetPinned
  <2> HIDE DEF b
  <2>5. PlannedOnly' /\ DemandFresh' /\ Once'
    BY <1>1, <1>2, <1>3, <1>4, <2>1, <2>2, <2>3 DEF PlannedOnly, DemandFresh, Once
  <2>6. Unwanted'
    BY <1>1, <1>3, <1>4, <2>1, <2>2, <2>3, <2>4, NeededNow DEF Unwanted
  <2> QED BY <2>5, <2>6
<1> QED BY <1>5, <1>6, <1>7, <1>8 DEF WorkerStep

\* While the reader follows a plan that fits the budget and its own decodes
\* succeed, no block is decoded a second time.
THEOREM PlannedDecodedOnce == Spec => []DecodedOnce
<1>1. IInv /\ AInv /\ DInv /\ [Next]_vars => DInv'
  <2> SUFFICES ASSUME IInv, AInv, DInv, [Next]_vars PROVE DInv'
    OBVIOUS
  <2>1. CASE UNCHANGED vars
    BY <2>1, NeededNow, IdealBefore
    DEF vars, cacheVars, readerVars, DInv, PlannedOnly, Unwanted, DemandFresh, Once
  <2>2. CASE Gone
    BY <2>1, <2>2 DEF Gone
  <2> QED BY <2>1, <2>2, ReaderDecodes, WorkerDecodesOnce DEF Next
<1>2. DInv => DecodedOnce
  <2> SUFFICES ASSUME DInv, Ideal, NEW b \in Block PROVE decodes[b] <= 1
    BY DEF DecodedOnce, Ideal
  <2> QED BY DEF DInv, Once
<1> QED BY <1>1, <1>2, DecodesInit, SourceInvariance, AccountsKept, PTL DEF Spec
=============================================================================
