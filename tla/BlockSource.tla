---------------------------- MODULE BlockSource ----------------------------
(***************************************************************************)
(* BlockSource of src/src/archive/container.cpp: the reader's cache of     *)
(* decoded blocks.  A read plan lets it keep a block until its last        *)
(* planned read, release it right after, and decode upcoming blocks on     *)
(* read-ahead workers, all inside one byte budget.  The reader may leave   *)
(* the plan: skip reads, repeat them, or read blocks outside it.           *)
(*                                                                         *)
(* Critical sections of mutex_ are single steps; while the reader is       *)
(* looking a block up it holds the lock and no worker moves.  Workers      *)
(* sleep on changed_ without a timeout, the reader with a 50 ms one.       *)
(***************************************************************************)
EXTENDS Integers, Sequences, FiniteSets, FiniteSetsExt, Functions

CONSTANTS
  Worker,      \* the threads plan() may start
  NumBlocks,   \* blocks of the archive
  Size,        \* their uncompressed sizes
  Plans,       \* read plans; the empty one means plan() is not called
  ByteBudget,  \* kDecodedByteBudget
  MaxReads     \* bound: reads one reader makes

Block == 1..NumBlocks
NoBlock == 0

ASSUME BlockSourceAssumption ==
  /\ NumBlocks \in Nat \ {0}
  /\ Size \in [Block -> Nat]
  /\ Plans \subseteq Seq(Block)
  /\ ByteBudget \in Nat \ {0}
  /\ MaxReads \in Nat

VARIABLES
  plan,         \* plan_
  threads,      \* workers_
  slots,        \* slots_: the state of each block's slot, "none" when absent
  cachedBytes,  \* cached_bytes_
  ordinal,      \* read_ordinal_: planned reads before it are past
  scan,         \* read_ahead_scan_
  pinned,       \* pinned_
  demanded,     \* demanded_
  brokenAhead,  \* read_ahead_failure_ is set
  stopping,     \* stopping_
  reader,       \* where the reading thread is
  target,       \* the block its current acquire() is for
  span,         \* the block whose bytes the reader still uses
  worker,       \* where each worker is
  job,          \* the block each worker decodes
  reads,        \* acquire() calls so far
  decodes,      \* decodes started, per block
  onPlan        \* every read so far was the plan's next one and did not
                \* fail in the reader's own decode

cacheVars == <<slots, cachedBytes, ordinal, scan, pinned, demanded,
               brokenAhead, stopping>>
readerVars == <<reader, target, span, reads, onPlan>>
workerVars == <<worker, job>>
vars == <<plan, threads, cacheVars, readerVars, workerVars, decodes>>

Largest(S) == IF S = {} THEN 0 ELSE Max(S)

Charge(b) == IF Size[b] = 0 THEN 1 ELSE Size[b]

Budget == IF plan = <<>> THEN 0 ELSE ByteBudget

\* decoded_block_fits
Fits(used, charge) ==
  \/ used = 0
  \/ charge <= Budget /\ used <= Budget - charge

\* next_read_locked: the first planned read of b at or after position `from`;
\* past the end when there is none.
NextRead(b, from) ==
  LET upcoming == {p \in (from + 1)..Len(plan) : plan[p] = b}
  IN  IF upcoming = {} THEN Len(plan) + 1 ELSE Min(upcoming)

NeededLater(b, from) == NextRead(b, from) <= Len(plan)

\* One worker per distinct block at most, none for a single block or thread.
PlannedThreads(p) ==
  {T \in SUBSET Worker : Cardinality(T) <= Cardinality({p[i] : i \in DOMAIN p})
                         /\ (Cardinality({p[i] : i \in DOMAIN p}) <= 1 => T = {})}

Init ==
  /\ plan \in Plans
  /\ threads \in PlannedThreads(plan)
  /\ slots = [b \in Block |-> "none"]
  /\ cachedBytes = 0
  /\ ordinal = 0
  /\ scan = 0
  /\ pinned = NoBlock
  /\ demanded = NoBlock
  /\ brokenAhead = FALSE
  /\ stopping = FALSE
  /\ reader = "idle"
  /\ target = NoBlock
  /\ span = NoBlock
  /\ worker = [w \in threads |-> "check"]
  /\ job = [w \in threads |-> NoBlock]
  /\ reads = 0
  /\ decodes = [b \in Block |-> 0]
  /\ onPlan = TRUE

----------------------------------------------------------------------------
(* Operations on the cache.                                                *)

WakeWorkers == worker' = [w \in threads |-> IF worker[w] = "wait" THEN "check"
                                            ELSE worker[w]]

\* release_if_unneeded_locked: whether b's slot goes, for the given reader
\* position and pinned block.
Unneeded(b, from, pin) ==
  /\ b # NoBlock
  /\ slots[b] \in {"ready", "failed"}
  /\ b # pin
  /\ ~NeededLater(b, from)

\* Mutant: eviction may take a block that is being decoded.
CandidatesWithReserved == {b \in Block : slots[b] # "none" /\ b # pinned}

\* make_room_locked: eviction candidates go farthest next read first, until
\* three quarters of the budget would hold everything.
Candidates == {b \in Block : slots[b] \in {"ready", "failed"} /\ b # pinned}

Farther(a, b) == LET na == NextRead(a, ordinal)
                     nb == NextRead(b, ordinal)
                 IN  na > nb \/ (na = nb /\ a > b)

ChargeOf(S) == SumFunctionOnSet([b \in Block |-> Charge(b)], S)

Evicted(charge) ==
  IF Fits(cachedBytes, charge) THEN {}
  ELSE {b \in Candidates :
          cachedBytes - ChargeOf({a \in Candidates : Farther(a, b)}) + charge
            > Budget - Budget \div 4}

\* The slots left after making room for b, and b reserved when it fits.
Reserve(b, evicted, fits) ==
  [x \in Block |-> IF x = b /\ fits THEN "decoding"
                   ELSE IF x \in evicted THEN "none" ELSE slots[x]]

----------------------------------------------------------------------------
(* The reader: acquire() and the destructor.                               *)

\* The locked prologue of acquire(): advance past the planned read, pin the
\* block, release the one pinned before if nothing planned needs it.
Acquire(b) ==
  LET next == NextRead(b, ordinal)
      position == IF next <= Len(plan) THEN next ELSE ordinal
      dropped == IF Unneeded(pinned, position, b) THEN {pinned} ELSE {}
  IN  /\ reader = "idle"
      /\ reads < MaxReads
      /\ reads' = reads + 1
      /\ ordinal' = position
      /\ pinned' = b
      /\ slots' = [x \in Block |-> IF x \in dropped THEN "none" ELSE slots[x]]
      /\ cachedBytes' = cachedBytes - ChargeOf(dropped)
      /\ onPlan' = (onPlan /\ next = ordinal + 1 /\ next <= Len(plan))
      /\ WakeWorkers
      /\ target' = b
      /\ span' = NoBlock
      /\ reader' = "lookup"
      /\ UNCHANGED <<plan, threads, scan, demanded, brokenAhead, stopping, job,
                     decodes>>

\* A ready block is returned; the span stays valid until the next read.
ReturnReady ==
  /\ reader = "lookup"
  /\ ~brokenAhead
  /\ slots[target] = "ready"
  /\ span' = target
  /\ reader' = "idle"
  /\ UNCHANGED <<plan, threads, cacheVars, target, reads, onPlan, workerVars,
                 decodes>>

\* A failed read-ahead, or a failed decode of this block, is rethrown.
RethrowError ==
  /\ reader = "lookup"
  /\ brokenAhead \/ slots[target] = "failed"
  /\ reader' = "idle"
  /\ UNCHANGED <<plan, threads, cacheVars, target, span, reads, onPlan,
                 workerVars, decodes>>

\* A miss is routed to the workers.
DemandBlock ==
  /\ reader = "lookup"
  /\ ~brokenAhead
  /\ slots[target] = "none"
  /\ threads # {}
  /\ demanded' = target
  /\ WakeWorkers
  /\ reader' = "wait"
  /\ UNCHANGED <<plan, threads, slots, cachedBytes, ordinal, scan, pinned,
                 brokenAhead, stopping, target, span, reads, onPlan, job,
                 decodes>>

AwaitDecode ==
  /\ reader = "lookup"
  /\ ~brokenAhead
  /\ slots[target] = "decoding"
  /\ reader' = "wait"
  /\ UNCHANGED <<plan, threads, cacheVars, target, span, reads, onPlan,
                 workerVars, decodes>>

\* The wait ends by notification or after 50 ms; the checkpoint that follows
\* runs without the lock and may observe a cancellation.
WaitEnds ==
  /\ reader = "wait"
  /\ reader' = "lookup"
  /\ UNCHANGED <<plan, threads, cacheVars, target, span, reads, onPlan,
                 workerVars, decodes>>

CheckpointCancels ==
  /\ reader = "wait"
  /\ reader' = "cancelled"
  /\ UNCHANGED <<plan, threads, cacheVars, target, span, reads, onPlan,
                 workerVars, decodes>>

\* Without workers the reader makes room and decodes the block itself.
SerialMiss ==
  /\ reader = "lookup"
  /\ ~brokenAhead
  /\ slots[target] = "none"
  /\ threads = {}
  /\ LET charge == Charge(target)
         evicted == Evicted(charge)
         left == cachedBytes - ChargeOf(evicted)
         fits == Fits(left, charge)
     IN  /\ slots' = Reserve(target, evicted, fits)
         /\ cachedBytes' = IF fits THEN left + charge ELSE left
         /\ reader' = IF fits THEN "decode" ELSE "logicError"
         /\ decodes' = IF fits THEN [decodes EXCEPT ![target] = @ + 1] ELSE decodes
  /\ UNCHANGED <<plan, threads, ordinal, scan, pinned, demanded, brokenAhead,
                 stopping, target, span, reads, onPlan, workerVars>>

SerialDecoded ==
  /\ reader = "decode"
  /\ slots' = [slots EXCEPT ![target] = "ready"]
  /\ WakeWorkers
  /\ span' = target
  /\ reader' = "idle"
  /\ UNCHANGED <<plan, threads, cachedBytes, ordinal, scan, pinned, demanded,
                 brokenAhead, stopping, target, reads, onPlan, job, decodes>>

\* The reservation of a failed foreground decode is given back.
SerialFailed ==
  /\ reader = "decode"
  /\ slots' = [slots EXCEPT ![target] = "none"]
  /\ cachedBytes' = cachedBytes - Charge(target)
  /\ WakeWorkers
  /\ onPlan' = FALSE
  /\ reader' = "idle"
  /\ UNCHANGED <<plan, threads, ordinal, scan, pinned, demanded, brokenAhead,
                 stopping, target, span, reads, job, decodes>>

Destroy ==
  /\ reader \in {"idle", "cancelled"}
  /\ stopping' = TRUE
  /\ WakeWorkers
  /\ span' = NoBlock
  /\ reader' = "join"
  /\ UNCHANGED <<plan, threads, slots, cachedBytes, ordinal, scan, pinned,
                 demanded, brokenAhead, target, reads, onPlan, job, decodes>>

Join ==
  /\ reader = "join"
  /\ \A w \in threads : worker[w] = "exited"
  /\ reader' = "gone"
  /\ UNCHANGED <<plan, threads, cacheVars, target, span, reads, onPlan,
                 workerVars, decodes>>

----------------------------------------------------------------------------
(* The read-ahead workers: run_read_ahead().                               *)

LockFree == reader # "lookup"

\* The scan skips reads the reader has passed and blocks that have a slot.
AdvancedScan ==
  LET start == Largest({scan, ordinal})
      open == {p \in start..(Len(plan) - 1) : slots[plan[p + 1]] = "none"}
  IN  IF open = {} THEN Largest({start, Len(plan)}) ELSE Min(open)

DemandPending == demanded # NoBlock /\ slots[demanded] = "none"

NothingToDo == ~DemandPending /\ AdvancedScan >= Len(plan)

WorkBlock == IF DemandPending THEN demanded ELSE plan[AdvancedScan + 1]

\* Mutants: a demanded block waits for room instead of making it, or is
\* admitted whether it fits or not.
NoEviction == {}
FitsOnDemand == DemandPending
                \/ Fits(cachedBytes, Charge(WorkBlock))

\* Only a demanded block may evict; read-ahead takes what room there is.
WorkEvicts == IF DemandPending THEN Evicted(Charge(WorkBlock)) ELSE {}
WorkLeft == cachedBytes - ChargeOf(WorkEvicts)
WorkFits == Fits(WorkLeft, Charge(WorkBlock))

Checking(w) == LockFree /\ worker[w] = "check"

WorkerExits(w) ==
  /\ Checking(w)
  /\ stopping
  /\ worker' = [worker EXCEPT ![w] = "exited"]
  /\ UNCHANGED <<plan, threads, cacheVars, readerVars, job, decodes>>

WorkerIdles(w) ==
  /\ Checking(w)
  /\ ~stopping
  /\ NothingToDo
  /\ scan' = AdvancedScan
  /\ worker' = [worker EXCEPT ![w] = "wait"]
  /\ UNCHANGED <<plan, threads, slots, cachedBytes, ordinal, pinned, demanded,
                 brokenAhead, stopping, readerVars, job, decodes>>

\* No room: whatever was evicted stays evicted, and the worker sleeps.
WorkerBlocked(w) ==
  /\ Checking(w)
  /\ ~stopping
  /\ ~NothingToDo
  /\ ~WorkFits
  /\ scan' = AdvancedScan
  /\ slots' = Reserve(WorkBlock, WorkEvicts, FALSE)
  /\ cachedBytes' = WorkLeft
  /\ worker' = [worker EXCEPT ![w] = "wait"]
  /\ UNCHANGED <<plan, threads, ordinal, pinned, demanded, brokenAhead,
                 stopping, readerVars, job, decodes>>

\* The demand or the scan position is consumed either way.
ConsumeWork ==
  /\ demanded' = IF DemandPending THEN NoBlock ELSE demanded
  /\ scan' = IF DemandPending THEN AdvancedScan ELSE AdvancedScan + 1

WorkerReserves(w) ==
  /\ Checking(w)
  /\ ~stopping
  /\ ~NothingToDo
  /\ WorkFits
  /\ ConsumeWork
  /\ slots' = Reserve(WorkBlock, WorkEvicts, TRUE)
  /\ cachedBytes' = WorkLeft + Charge(WorkBlock)
  /\ job' = [job EXCEPT ![w] = WorkBlock]
  /\ decodes' = [decodes EXCEPT ![WorkBlock] = @ + 1]
  /\ worker' = [worker EXCEPT ![w] = "decode"]
  /\ UNCHANGED <<plan, threads, ordinal, pinned, brokenAhead, stopping,
                 readerVars>>

\* An allocation fails while the slot is being set up: before it exists, or
\* after it was inserted and before its charge was counted.
WorkerBreaks(w) ==
  /\ Checking(w)
  /\ ~stopping
  /\ ~NothingToDo
  /\ WorkFits
  /\ ConsumeWork
  /\ \E inserted \in BOOLEAN : slots' = Reserve(WorkBlock, WorkEvicts, inserted)
  /\ cachedBytes' = WorkLeft
  /\ worker' = [worker EXCEPT ![w] = "broken"]
  /\ UNCHANGED <<plan, threads, ordinal, pinned, brokenAhead, stopping,
                 readerVars, job, decodes>>

\* plan()'s thread wrapper catches it, stops read-ahead and tells the reader.
WorkerReports(w) ==
  /\ LockFree
  /\ worker[w] = "broken"
  /\ brokenAhead' = TRUE
  /\ stopping' = TRUE
  /\ worker' = [v \in threads |-> IF v = w THEN "exited"
                                  ELSE IF worker[v] = "wait" THEN "check"
                                  ELSE worker[v]]
  /\ UNCHANGED <<plan, threads, slots, cachedBytes, ordinal, scan, pinned,
                 demanded, readerVars, job, decodes>>

FinishJob(w) ==
  /\ LockFree
  /\ worker[w] = "decode"
  /\ job' = [job EXCEPT ![w] = NoBlock]
  /\ worker' = [v \in threads |-> IF v = w \/ worker[v] = "wait" THEN "check"
                                  ELSE worker[v]]
  /\ UNCHANGED <<plan, threads, ordinal, scan, pinned, demanded, brokenAhead,
                 stopping, readerVars, decodes>>

\* Mutant: only the pinned block survives its decode.
WorkerDropsUnpinned(w) ==
  /\ FinishJob(w)
  /\ LET b == job[w]
     IN  /\ slots' = [slots EXCEPT ![b] = IF b # pinned THEN "none" ELSE "ready"]
         /\ cachedBytes' = IF b # pinned THEN cachedBytes - Charge(b) ELSE cachedBytes

\* Mutant: whatever the plan no longer needs is released, the pinned block too.
WorkerReleasesPassed(w) ==
  /\ FinishJob(w)
  /\ LET passed == {b \in Block : /\ b = job[w] \/ slots[b] = "ready"
                                  /\ ~NeededLater(b, ordinal)}
     IN  /\ slots' = [b \in Block |-> IF b \in passed THEN "none"
                                      ELSE IF b = job[w] THEN "ready" ELSE slots[b]]
         /\ cachedBytes' = cachedBytes - ChargeOf(passed)

\* A finished block the reader has passed meanwhile is dropped at once.
WorkerDecodes(w) ==
  /\ FinishJob(w)
  /\ LET b == job[w]
         passed == b # pinned /\ ~NeededLater(b, ordinal)
     IN  /\ slots' = [slots EXCEPT ![b] = IF passed THEN "none" ELSE "ready"]
         /\ cachedBytes' = IF passed THEN cachedBytes - Charge(b) ELSE cachedBytes

WorkerDecodeFails(w) ==
  /\ FinishJob(w)
  /\ slots' = [slots EXCEPT ![job[w]] = "failed"]
  /\ UNCHANGED cachedBytes

----------------------------------------------------------------------------
Read == \E b \in Block : Acquire(b)

ReaderStep ==
  \/ ReturnReady \/ RethrowError \/ DemandBlock \/ AwaitDecode \/ WaitEnds
  \/ SerialMiss \/ SerialDecoded \/ SerialFailed \/ Join

WorkerStep(w) ==
  /\ w \in threads
  /\ \/ WorkerExits(w) \/ WorkerIdles(w) \/ WorkerBlocked(w)
     \/ WorkerReserves(w) \/ WorkerBreaks(w) \/ WorkerReports(w)
     \/ WorkerDecodes(w) \/ WorkerDecodeFails(w)

Gone == reader = "gone" /\ UNCHANGED vars

Next == Read \/ ReaderStep \/ CheckpointCancels \/ Destroy
        \/ (\E w \in Worker : WorkerStep(w)) \/ Gone

\* Threads keep running and decodes end.  A worker's lock request is denied
\* only during the reader's short lookups, between which the reader sleeps, so
\* it is granted in the end: strong fairness for the workers.
Fairness == WF_vars(ReaderStep) /\ \A w \in Worker : SF_vars(WorkerStep(w))

Spec == Init /\ [][Next]_vars
FairSpec == Spec /\ Fairness

----------------------------------------------------------------------------
(* Properties.                                                             *)

ShapeOK ==
  /\ plan \in Plans
  /\ threads \subseteq Worker
  /\ slots \in [Block -> {"none", "decoding", "ready", "failed"}]
  /\ ordinal \in 0..Len(plan)
  /\ scan \in 0..Len(plan)
  /\ {pinned, demanded, target, span} \subseteq Block \cup {NoBlock}
  /\ {brokenAhead, stopping, onPlan} \subseteq BOOLEAN
  /\ reader \in {"idle", "lookup", "wait", "decode", "logicError", "cancelled",
                 "join", "gone"}
  /\ worker \in [threads -> {"check", "wait", "decode", "broken", "exited"}]
  /\ job \in [threads -> Block \cup {NoBlock}]
  /\ reads \in 0..MaxReads
  /\ decodes \in [Block -> Nat]

TypeOK == ShapeOK /\ cachedBytes \in Nat

Resident == {b \in Block : slots[b] # "none"}

\* The accounts are the sizes of the resident and reserved blocks, and they
\* stay within the budget unless a single block exceeds it by itself.  (A
\* broken worker may leave a slot without bytes or charge behind.)
CacheWithinBudget ==
  ~brokenAhead /\ (\A w \in threads : worker[w] # "broken")
    => /\ cachedBytes = ChargeOf(Resident)
       /\ cachedBytes <= Budget \/ Cardinality(Resident) <= 1

\* The bytes handed to the reader are never evicted or released under it,
\* whatever the workers finish or demand meanwhile.
SpanStaysValid == span # NoBlock => slots[span] = "ready"

\* A slot stays reserved while a thread decodes into it, and no two threads
\* decode into the same one.
DecodesOwned ==
  /\ reader = "decode" => slots[target] = "decoding"
  /\ \A w \in threads : worker[w] = "decode" => slots[job[w]] = "decoding"
  /\ \A v, w \in threads : job[v] = job[w] /\ job[v] # NoBlock => v = w

\* Nobody's reservation is evicted, and "serial block reader has an in-flight
\* decode" is never thrown.
ReservationOwned == DecodesOwned /\ reader # "logicError"

\* When the plan is followed without a failed serial decode and everything it
\* names fits the budget, no block is decoded twice.
PlannedBlocks == {plan[p] : p \in DOMAIN plan}
DecodedOnce ==
  onPlan /\ plan # <<>> /\ ChargeOf(PlannedBlocks) <= Budget
    => \A b \in Block : decodes[b] <= 1

\* Every read ends: a demanded block is decoded even when read-ahead had
\* filled the budget, and a broken worker is reported, not waited for.
ReadReturns == reader \in {"lookup", "wait", "decode"}
                 ~> reader \in {"idle", "cancelled"}
=============================================================================
