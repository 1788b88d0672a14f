------------------------ MODULE OrderedBlockEncoder ------------------------
(***************************************************************************)
(* The ordered parallel block encoder of src/src/archive/container.cpp:    *)
(* worker threads encode independent blocks while the calling thread       *)
(* produces input and writes finished payloads strictly in index order.    *)
(*                                                                         *)
(* Every critical section of mutex_ is one step.  A condition variable is  *)
(* the set of threads blocked on it; a notification is a step of its own,  *)
(* after the lock is released, exactly where the code issues it, so a      *)
(* notification that reaches nobody is lost.  A woken thread re-evaluates  *)
(* its predicate.                                                          *)
(***************************************************************************)
EXTENDS Integers, Sequences, FiniteSets, Functions

CONSTANTS
  Worker,       \* the threads an operation may start
  NumBlocks,    \* bound: blocks one operation may submit
  Position,     \* Position[i]: summed capacity of the buffers of blocks 1..i
  ByteBudget    \* byte_budget_

ASSUME EncoderAssumption ==
  /\ IsFiniteSet(Worker)
  /\ NumBlocks \in Nat
  /\ Position \in [0..NumBlocks -> Nat]
  /\ \A i, j \in 0..NumBlocks : i < j => Position[i] < Position[j]
  /\ ByteBudget \in Nat \ {0}

Block == 1..NumBlocks

\* max<uint64>(1, data.capacity())
Charge(b) == Position[b] - Position[b - 1]

VARIABLES
  threads,        \* workers_: the encoder threads started; none on the serial
                  \* path, where submit() encodes and writes inline
  caller,         \* where the calling thread is
  op,             \* the encoder call it is in: "submit" or "finish"
  worker,         \* where each worker thread is
  job,            \* the block each worker holds (0: none)
  pending,        \* pending_
  done,           \* keys of done_
  nextSubmit,     \* next_submit_
  nextWrite,      \* next_write_
  inflightBytes,  \* inflight_bytes_
  inflightCount,  \* inflight_count_
  spares,         \* spares_.size()
  failure,        \* failure_ != nullptr
  stopping,       \* stopping_
  written         \* block indices in the order write_ appended them

callerVars == <<caller, op, nextSubmit, nextWrite, inflightBytes,
                inflightCount, written>>
workerVars == <<threads, worker, job>>
sharedVars == <<pending, done, spares, failure, stopping>>
vars == <<callerVars, workerVars, sharedVars>>

\* max_spares_
MaxSpares == IF threads = {} THEN 1 ELSE 2 * Cardinality(threads)

\* plan_chunk_encoder decides how many workers there are from the thread
\* budget, the chunk size and the swarm option (which takes none).

Init ==
  /\ threads \in SUBSET Worker
  /\ caller = "produce"
  /\ op = "submit"
  /\ worker = [w \in threads |-> "check"]
  /\ job = [w \in threads |-> 0]
  /\ pending = <<>>
  /\ done = {}
  /\ nextSubmit = 1
  /\ nextWrite = 1
  /\ inflightBytes = 0
  /\ inflightCount = 0
  /\ spares = 0
  /\ failure = FALSE
  /\ stopping = FALSE
  /\ written = <<>>

----------------------------------------------------------------------------
(* The calling thread.                                                     *)

\* submit(): the index is claimed before the lock is taken.
SubmitCall ==
  /\ caller = "produce"
  /\ nextSubmit \in Block
  /\ nextSubmit' = nextSubmit + 1
  /\ op' = "submit"
  /\ caller' = IF threads = {} THEN "inline" ELSE "drain"
  /\ UNCHANGED <<nextWrite, inflightBytes, inflightCount, written,
                 workerVars, sharedVars>>

\* submit() without workers encodes and writes inline; the buffer it keeps is
\* the spare the producer takes straight back.
InlineWrite ==
  /\ caller = "inline"
  /\ nextWrite' = nextWrite + 1
  /\ written' = Append(written, nextSubmit - 1)
  /\ caller' = "produce"
  /\ UNCHANGED <<op, nextSubmit, inflightBytes, inflightCount, workerVars,
                 sharedVars>>

\* encode_ or write_ throws out of the inline path.
InlineFailure ==
  /\ caller = "inline"
  /\ caller' = "threw"
  /\ UNCHANGED <<op, nextSubmit, nextWrite, inflightBytes, inflightCount,
                 written, workerVars, sharedVars>>

FinishCall ==
  /\ caller = "produce"
  /\ op' = "finish"
  /\ caller' = IF threads = {} THEN "returned" ELSE "drain"
  /\ UNCHANGED <<nextSubmit, nextWrite, inflightBytes, inflightCount, written,
                 workerVars, sharedVars>>

\* The producer throws between two calls: a cancelled checkpoint, an
\* unreadable file, a source that changed size.
ProducerThrows ==
  /\ caller = "produce"
  /\ caller' = "threw"
  /\ UNCHANGED <<op, nextSubmit, nextWrite, inflightBytes, inflightCount,
                 written, workerVars, sharedVars>>

\* write_ready() rethrows the recorded failure.
RethrowFailure ==
  /\ caller = "drain"
  /\ failure
  /\ caller' = "threw"
  /\ UNCHANGED <<op, nextSubmit, nextWrite, inflightBytes, inflightCount,
                 written, workerVars, sharedVars>>

\* write_ready() takes the next finished block and releases the lock.
TakeReady ==
  /\ caller = "drain"
  /\ ~failure
  /\ nextWrite \in done
  /\ done' = done \ {nextWrite}
  /\ caller' = "write"
  /\ UNCHANGED <<op, nextSubmit, nextWrite, inflightBytes, inflightCount,
                 written, workerVars, pending, spares, failure, stopping>>

\* write_ succeeded; the block leaves the in-flight accounts.
WriteBlock ==
  /\ caller = "write"
  /\ written' = Append(written, nextWrite)
  /\ inflightBytes' = inflightBytes - Charge(nextWrite)
  /\ inflightCount' = inflightCount - 1
  /\ nextWrite' = nextWrite + 1
  /\ caller' = "drain"
  /\ UNCHANGED <<op, nextSubmit, workerVars, sharedVars>>

\* Mutant: a failed write is swallowed and the block skipped.
WriteFailsSkipsBlock ==
  /\ caller = "write"
  /\ inflightBytes' = inflightBytes - Charge(nextWrite)
  /\ inflightCount' = inflightCount - 1
  /\ nextWrite' = nextWrite + 1
  /\ caller' = "drain"
  /\ UNCHANGED <<op, nextSubmit, written, workerVars, sharedVars>>

\* write_ threw: the failure is recorded and queued work is dropped.
WriteFails ==
  /\ caller = "write"
  /\ failure' = TRUE
  /\ pending' = <<>>
  /\ caller' = "notifyWork"
  /\ UNCHANGED <<op, nextSubmit, nextWrite, inflightBytes, inflightCount,
                 written, workerVars, done, spares, stopping>>

\* work_ready_.notify_all() on the way out of a failed write.
NotifyWriteFailure ==
  /\ caller = "notifyWork"
  /\ failure
  /\ worker' = [w \in threads |-> IF worker[w] = "wait" THEN "check" ELSE worker[w]]
  /\ caller' = "threw"
  /\ UNCHANGED <<op, nextSubmit, nextWrite, inflightBytes, inflightCount,
                 written, threads, job, sharedVars>>

NothingReady == caller = "drain" /\ ~failure /\ nextWrite \notin done

Submitted == nextSubmit - 1     \* the block a submit() in progress carries

\* Mutant: the budget is compared without the block about to be queued.
AdmissibleBeforeCharge == inflightCount = 0 \/ inflightBytes <= ByteBudget

Admissible == \/ inflightCount = 0
              \/ inflightBytes + Charge(Submitted) <= ByteBudget

\* submit() queues its block, still under the lock of the drain.
Enqueue ==
  /\ NothingReady
  /\ op = "submit"
  /\ Admissible
  /\ pending' = Append(pending, Submitted)
  /\ inflightBytes' = inflightBytes + Charge(Submitted)
  /\ inflightCount' = inflightCount + 1
  /\ caller' = "queued"
  /\ UNCHANGED <<op, nextSubmit, nextWrite, written, workerVars, done, spares,
                 failure, stopping>>

\* work_ready_.notify_one(), then take_spare() by the producer.
NotifyOneWorker ==
  /\ caller = "queued"
  /\ LET waiting == {w \in threads : worker[w] = "wait"}
     IN  \/ waiting = {} /\ UNCHANGED worker
         \/ \E w \in waiting : worker' = [worker EXCEPT ![w] = "check"]
  /\ spares' = IF spares = 0 THEN 0 ELSE spares - 1
  /\ caller' = "produce"
  /\ UNCHANGED <<op, nextSubmit, nextWrite, inflightBytes, inflightCount,
                 written, threads, job, pending, done, failure, stopping>>

\* submit() over budget, or finish() with work outstanding, blocks.
AwaitResult ==
  /\ NothingReady
  /\ \/ op = "submit" /\ ~Admissible
     \/ op = "finish" /\ inflightCount # 0
  /\ caller' = "wait"
  /\ UNCHANGED <<op, nextSubmit, nextWrite, inflightBytes, inflightCount,
                 written, workerVars, sharedVars>>

\* Mutant: finish() trusts an empty queue.
FinishReturnsOnEmptyQueue ==
  /\ NothingReady
  /\ op = "finish"
  /\ pending = <<>>
  /\ caller' = "returned"
  /\ UNCHANGED <<op, nextSubmit, nextWrite, inflightBytes, inflightCount,
                 written, workerVars, sharedVars>>

FinishReturns ==
  /\ NothingReady
  /\ op = "finish"
  /\ inflightCount = 0
  /\ caller' = "returned"
  /\ UNCHANGED <<op, nextSubmit, nextWrite, inflightBytes, inflightCount,
                 written, workerVars, sharedVars>>

\* ~OrderedBlockEncoder runs on both the normal and the exceptional path.
Stop ==
  /\ caller \in {"returned", "threw"}
  /\ ~stopping
  /\ stopping' = TRUE
  /\ pending' = <<>>
  /\ UNCHANGED <<callerVars, workerVars, done, spares, failure>>

\* stop() after releasing the lock: work_ready_.notify_all().
NotifyStop ==
  /\ stopping
  /\ caller \in {"returned", "threw"}
  /\ caller' = IF caller = "returned" THEN "joinReturned" ELSE "joinThrew"
  /\ worker' = [w \in threads |-> IF worker[w] = "wait" THEN "check" ELSE worker[w]]
  /\ UNCHANGED <<op, nextSubmit, nextWrite, inflightBytes, inflightCount,
                 written, threads, job, sharedVars>>

\* Every worker thread has been joined.
Join ==
  /\ caller \in {"joinReturned", "joinThrew"}
  /\ \A w \in threads : worker[w] = "exited"
  /\ caller' = IF caller = "joinReturned" THEN "complete" ELSE "failed"
  /\ UNCHANGED <<op, nextSubmit, nextWrite, inflightBytes, inflightCount,
                 written, workerVars, sharedVars>>

----------------------------------------------------------------------------
(* The worker threads.                                                     *)

WorkerExits(w) ==
  /\ worker[w] = "check"
  /\ stopping \/ failure
  /\ worker' = [worker EXCEPT ![w] = "exited"]
  /\ UNCHANGED <<threads, job, callerVars, sharedVars>>

\* Mutant: the job is read but not popped.
WorkerTakesWithoutPop(w) ==
  /\ worker[w] = "check"
  /\ ~stopping /\ ~failure
  /\ pending # <<>>
  /\ job' = [job EXCEPT ![w] = Head(pending)]
  /\ worker' = [worker EXCEPT ![w] = "encode"]
  /\ UNCHANGED <<threads, callerVars, pending, done, spares, failure, stopping>>

WorkerTakes(w) ==
  /\ worker[w] = "check"
  /\ ~stopping /\ ~failure
  /\ pending # <<>>
  /\ job' = [job EXCEPT ![w] = Head(pending)]
  /\ pending' = Tail(pending)
  /\ worker' = [worker EXCEPT ![w] = "encode"]
  /\ UNCHANGED <<threads, callerVars, done, spares, failure, stopping>>

WorkerWaits(w) ==
  /\ worker[w] = "check"
  /\ ~stopping /\ ~failure
  /\ pending = <<>>
  /\ worker' = [worker EXCEPT ![w] = "wait"]
  /\ UNCHANGED <<threads, job, callerVars, sharedVars>>

\* The block is encoded outside the lock and published under it.
WorkerPublishes(w) ==
  /\ worker[w] = "encode"
  /\ done' = done \cup {job[w]}
  /\ spares' = IF spares < MaxSpares THEN spares + 1 ELSE spares
  /\ job' = [job EXCEPT ![w] = 0]
  /\ worker' = [worker EXCEPT ![w] = "published"]
  /\ UNCHANGED <<threads, callerVars, pending, failure, stopping>>

WorkerFails(w) ==
  /\ worker[w] = "encode"
  /\ failure' = TRUE
  /\ pending' = <<>>
  /\ job' = [job EXCEPT ![w] = 0]
  /\ worker' = [worker EXCEPT ![w] = "broken"]
  /\ UNCHANGED <<threads, callerVars, done, spares, stopping>>

\* Mutant: results are published without a notification.
WakeNobody == UNCHANGED caller

WakeCaller == caller' = IF caller = "wait" THEN "drain" ELSE caller

\* result_ready_.notify_all() after a published result.
WorkerNotifies(w) ==
  /\ worker[w] = "published"
  /\ WakeCaller
  /\ worker' = [worker EXCEPT ![w] = "check"]
  /\ UNCHANGED <<op, nextSubmit, nextWrite, inflightBytes, inflightCount,
                 written, threads, job, sharedVars>>

\* After a failure both condition variables are notified and the thread ends.
WorkerNotifiesFailure(w) ==
  /\ worker[w] = "broken"
  /\ WakeCaller
  /\ worker' = [v \in threads |->
                  IF v = w THEN "exited"
                  ELSE IF worker[v] = "wait" THEN "check" ELSE worker[v]]
  /\ UNCHANGED <<op, nextSubmit, nextWrite, inflightBytes, inflightCount,
                 written, threads, job, sharedVars>>

----------------------------------------------------------------------------
Caller ==
  \/ SubmitCall \/ InlineWrite \/ InlineFailure \/ FinishCall
  \/ ProducerThrows \/ RethrowFailure \/ TakeReady \/ WriteBlock
  \/ WriteFails \/ NotifyWriteFailure \/ Enqueue \/ NotifyOneWorker
  \/ AwaitResult \/ FinishReturns \/ Stop \/ NotifyStop \/ Join

WorkerStep(w) ==
  /\ w \in threads
  /\ \/ WorkerExits(w) \/ WorkerTakes(w) \/ WorkerWaits(w)
     \/ WorkerPublishes(w) \/ WorkerFails(w) \/ WorkerNotifies(w)
     \/ WorkerNotifiesFailure(w)

\* The encoder object is gone.
Terminated == caller \in {"complete", "failed"} /\ UNCHANGED vars

Next == Caller \/ (\E w \in Worker : WorkerStep(w)) \/ Terminated

Spec == Init /\ [][Next]_vars

----------------------------------------------------------------------------
(* Properties.                                                             *)

TypeOK ==
  /\ threads \subseteq Worker
  /\ caller \in {"produce", "inline", "drain", "write", "wait", "queued", "notifyWork",
                 "returned", "threw", "joinReturned", "joinThrew",
                 "complete", "failed"}
  /\ op \in {"submit", "finish"}
  /\ worker \in [threads -> {"check", "wait", "encode", "published", "broken",
                            "exited"}]
  /\ job \in [threads -> 0..NumBlocks]
  /\ pending \in Seq(Block)
  /\ done \subseteq Block
  /\ nextSubmit \in 1..(NumBlocks + 1)
  /\ nextWrite \in 1..(NumBlocks + 1)
  /\ inflightBytes \in Nat
  /\ inflightCount \in Nat
  /\ spares \in 0..MaxSpares
  /\ failure \in BOOLEAN
  /\ stopping \in BOOLEAN
  /\ written \in Seq(Block)

\* Blocks are admitted in index order, so the accounts describe the interval
\* nextWrite..LastAdmitted.
LastAdmitted == nextWrite - 1 + inflightCount

\* submit() holds a claimed but unqueued block exactly while it may still block
\* or fail, and inflight_bytes_ is always the capacity of the admitted,
\* unwritten blocks: the figure the budget is enforced with never drifts.
AccountsExact ==
  /\ LastAdmitted \in {nextSubmit - 1, nextSubmit - 2}
  /\ caller \in {"produce", "queued", "returned", "joinReturned", "complete"}
       => LastAdmitted = nextSubmit - 1
  /\ caller \in {"drain", "write", "wait"}
       => LastAdmitted = IF op = "submit" THEN nextSubmit - 2 ELSE nextSubmit - 1
  /\ inflightBytes = Position[LastAdmitted] - Position[nextWrite - 1]

\* Memory stays within the budget, except for one block larger than it.
BudgetRespected == inflightBytes <= ByteBudget \/ inflightCount = 1

\* write_ sees every block once, in index order, whatever order the workers
\* finish in: the file is what a serial writer would have produced.
WrittenInOrder == written = [i \in 1..(nextWrite - 1) |-> i]

Held == {job[w] : w \in threads} \ {0}
BeingWritten == IF caller = "write" THEN {nextWrite} ELSE {}

\* Until something fails, every admitted block that is not yet written is in
\* exactly one place: queued once, with one worker, finished, or being written.
NoBlockLost ==
  ~failure /\ ~stopping =>
    /\ Range(pending) \cup Held \cup done \cup BeingWritten
         = nextWrite..LastAdmitted
    /\ \A i, j \in DOMAIN pending : pending[i] = pending[j] => i = j
    /\ \A v, w \in threads : job[v] = job[w] /\ job[v] # 0 => v = w
    /\ Range(pending) \cap (Held \cup done \cup BeingWritten) = {}
    /\ Held \cap (done \cup BeingWritten) = {}
    /\ done \cap BeingWritten = {}

\* An encoder failure on any worker reaches the caller: finish() cannot return
\* normally past it, however late the worker fails.
NoSilentFailure ==
  caller \in {"returned", "joinReturned", "complete"} => ~failure

\* The calling thread never waits for ever: a submit() over budget and a
\* finish() always return or throw, so no notification is lost, and the
\* destructor always joins its workers.
CallerReturns ==
  /\ caller = "wait" ~> caller # "wait"
  /\ caller \in {"returned", "threw"} ~> caller \in {"complete", "failed"}

\* What the caller of the encoder has learned so far.
Outcome == IF caller \in {"returned", "joinReturned", "complete"} THEN "complete"
           ELSE IF caller \in {"notifyWork", "threw", "joinThrew", "failed"}
                THEN "failed"
                ELSE "open"

\* The parallel encoder implements the serial writer.
Serial == INSTANCE SerialBlockWriter WITH
  accepted <- nextSubmit - 1,
  output <- written,
  outcome <- Outcome

ImplementsSerialWriter == Serial!SerialSpec
=============================================================================
