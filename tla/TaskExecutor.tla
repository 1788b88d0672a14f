---------------------------- MODULE TaskExecutor ----------------------------
(***************************************************************************)
(* The work-stealing executor of src/src/core/task_executor.hpp: one deque *)
(* per worker, an injection queue for other threads, and an event count    *)
(* that puts idle threads to sleep.  A thread that waits for a future runs *)
(* other tasks meanwhile, so tasks nest on its stack.                      *)
(*                                                                         *)
(* Every queue lock is a step of its own: a scan for work looks at one     *)
(* queue at a time and can miss a task queued behind it.  Timeouts are     *)
(* left out: the 10 ms one in wait_until_ready is said to serve only       *)
(* futures the executor did not hand out, so nothing here may need it.     *)
(*                                                                         *)
(* The event count is kept as its only use, whether it moved since a       *)
(* thread last read it; its 64-bit wrap-around is out of reach.            *)
(***************************************************************************)
EXTENDS Integers, Sequences, FiniteSets, SequencesExt

CONSTANTS
  Owner,     \* the constructing thread, worker zero
  Helpers,   \* helpers_
  Outsiders, \* other threads that submit and wait, such as chunk encoders
  Task,      \* tasks submitted to the executor
  Root,      \* Root[t]: what the owner and each outsider runs from the start
  Children   \* Children[x]: the tasks x submits, and then waits for in order

Workers == {Owner} \cup Helpers
Thread == Workers \cup Outsiders
Program == Task \cup {Root[t] : t \in {Owner} \cup Outsiders}

Injected == "injected_"
Queues == Workers \cup {Injected}
NoTask == "none"

\* A submit makes a task of its own, and a thread runs a program of its own.
ASSUME ExecutorAssumption ==
  /\ IsFiniteSet(Thread)
  /\ Owner \notin Helpers /\ Workers \cap Outsiders = {} /\ Injected \notin Workers
  /\ DOMAIN Root = {Owner} \cup Outsiders /\ NoTask \notin Task
  /\ \A t \in DOMAIN Root : Root[t] \notin Task
  /\ \A t, u \in DOMAIN Root : Root[t] = Root[u] => t = u
  /\ Children \in [Program -> Seq(Task)]
  /\ \A x, y \in Program : \A i \in DOMAIN Children[x], j \in DOMAIN Children[y] :
       Children[x][i] = Children[y][j] => x = y /\ i = j

VARIABLES
  queue,      \* queue[w]: queues_[w]->tasks; queue[Injected]: injected_
  pending,    \* pending_
  waiters,    \* future_waiters_
  stopping,   \* stopping_
  stack,      \* the tasks a thread is inside, innermost last
  submitted,  \* children each program has submitted
  awaited,    \* children each program has finished waiting for
  finished,   \* programs whose future is ready
  pc,         \* where each thread is
  moved,      \* epoch_ differs from the value the thread last observed
  unscanned,  \* victims a stealing thread has still to look at
  inHand      \* the task a thread popped and has not yet started

queueVars == <<queue, pending>>
progressVars == <<stack, submitted, awaited, finished>>
vars == <<queueVars, waiters, stopping, progressVars, pc, moved, unscanned,
          inHand>>

Init ==
  /\ queue = [q \in Queues |-> <<>>]
  /\ pending = 0
  /\ waiters = 0
  /\ stopping = FALSE
  /\ stack = [t \in Thread |-> IF t \in Helpers THEN <<>> ELSE <<Root[t]>>]
  /\ submitted = [x \in Program |-> 0]
  /\ awaited = [x \in Program |-> 0]
  /\ finished = {}
  /\ pc = [t \in Thread |-> IF t \in Helpers THEN "observe" ELSE "work"]
  /\ moved = [t \in Thread |-> FALSE]
  /\ unscanned = [t \in Thread |-> {}]
  /\ inHand = [t \in Thread |-> NoTask]

At(t, label) == pc[t] = label
Goto(t, label) == pc' = [pc EXCEPT ![t] = label]
Current(t) == Last(stack[t])
Awaiting(t) == Children[Current(t)][awaited[Current(t)] + 1]

----------------------------------------------------------------------------
(* signal(): the event count moves under wait_mutex_, then sleepers are    *)
(* notified.                                                               *)

EventMoves == moved' = [t \in Thread |-> TRUE]

Sleepers == {t \in Thread : pc[t] = "sleeping"}

\* A thread that is notified sleeps on if it has already seen this event.
Wakes(s) == moved[s] \/ stopping

\* notify_one; the notifier goes on to `next`.
WakeOne(t, next) ==
  \/ Sleepers = {} /\ Goto(t, next)
  \/ \E s \in Sleepers : pc' = [pc EXCEPT ![t] = next,
                                         ![s] = IF Wakes(s) THEN "observe" ELSE @]

WakeAll(t, next) ==
  pc' = [s \in Thread |->
           IF s = t THEN next
           ELSE IF s \in Sleepers /\ Wakes(s) THEN "observe" ELSE pc[s]]

----------------------------------------------------------------------------
(* submit()                                                                *)

SubmitAllowed(t) ==
  /\ At(t, "work")
  /\ stack[t] # <<>>
  /\ submitted[Current(t)] < Len(Children[Current(t)])
  /\ ~stopping
  /\ Goto(t, "submitting")
  /\ UNCHANGED <<queueVars, waiters, stopping, progressVars, moved, unscanned,
                 inHand>>

\* The task and the count become visible together, under the queue's lock.
Submit(t) ==
  LET x == Current(t)
      child == Children[x][submitted[x] + 1]
  IN  /\ At(t, "submitting")
      /\ queue' = [queue EXCEPT ![IF t \in Workers THEN t ELSE Injected] =
                      Append(@, child)]
      /\ pending' = pending + 1
      /\ submitted' = [submitted EXCEPT ![x] = @ + 1]
      /\ Goto(t, "submitted")
      /\ UNCHANGED <<waiters, stopping, stack, awaited, finished, moved,
                     unscanned, inHand>>

\* Mutant: a submit notifies without moving the event count.
SubmitSignalsNothing(t) ==
  /\ At(t, "submitted")
  /\ Goto(t, "notifyOne")
  /\ UNCHANGED <<queueVars, waiters, stopping, progressVars, moved, unscanned,
                 inHand>>

SubmitSignals(t) ==
  /\ At(t, "submitted")
  /\ EventMoves
  /\ Goto(t, "notifyOne")
  /\ UNCHANGED <<queueVars, waiters, stopping, progressVars, unscanned, inHand>>

SubmitNotifies(t) ==
  /\ At(t, "notifyOne")
  /\ WakeOne(t, "work")
  /\ UNCHANGED <<queueVars, waiters, stopping, progressVars, moved, unscanned,
                 inHand>>

\* "task submitted after executor shutdown": the submitting task ends with the
\* exception and waits for none of its children.
SubmitRefused(t) ==
  LET x == Current(t)
  IN  /\ At(t, "work")
      /\ stack[t] # <<>>
      /\ submitted[x] < Len(Children[x])
      /\ stopping
      /\ finished' = finished \cup {x}
      /\ Goto(t, "finished")
      /\ UNCHANGED <<queueVars, waiters, stopping, stack, submitted, awaited,
                     moved, unscanned, inHand>>

----------------------------------------------------------------------------
(* wait_until_ready()                                                      *)

\* The waiter registers before it looks at the future.
Register(t) ==
  LET x == Current(t)
  IN  /\ At(t, "work")
      /\ stack[t] # <<>>
      /\ submitted[x] = Len(Children[x])
      /\ awaited[x] < Len(Children[x])
      /\ waiters' = waiters + 1
      /\ Goto(t, "observe")
      /\ UNCHANGED <<queueVars, stopping, progressVars, moved, unscanned, inHand>>

\* observe(): the epoch is read before anything is looked at.
Observe(t) ==
  /\ At(t, "observe")
  /\ moved' = [moved EXCEPT ![t] = FALSE]
  /\ Goto(t, IF stack[t] = <<>> THEN "local" ELSE "check")
  /\ UNCHANGED <<queueVars, waiters, stopping, progressVars, unscanned, inHand>>

FutureNotReady(t) ==
  /\ At(t, "check")
  /\ Awaiting(t) \notin finished
  /\ Goto(t, IF t \in Workers THEN "local" ELSE "injected")
  /\ UNCHANGED <<queueVars, waiters, stopping, progressVars, moved, unscanned,
                 inHand>>

\* A ready waiter that may have consumed a submit's wake-up passes it on.
FutureReady(t) ==
  /\ At(t, "check")
  /\ Awaiting(t) \in finished
  /\ Goto(t, IF pending # 0 THEN "passOn" ELSE "unregister")
  /\ UNCHANGED <<queueVars, waiters, stopping, progressVars, moved, unscanned,
                 inHand>>

PassOnSignals(t) ==
  /\ At(t, "passOn")
  /\ EventMoves
  /\ Goto(t, "passOnNotify")
  /\ UNCHANGED <<queueVars, waiters, stopping, progressVars, unscanned, inHand>>

PassOnNotifies(t) ==
  /\ At(t, "passOnNotify")
  /\ WakeOne(t, "unregister")
  /\ UNCHANGED <<queueVars, waiters, stopping, progressVars, moved, unscanned,
                 inHand>>

Unregister(t) ==
  /\ At(t, "unregister")
  /\ waiters' = waiters - 1
  /\ awaited' = [awaited EXCEPT ![Current(t)] = @ + 1]
  /\ Goto(t, "work")
  /\ UNCHANGED <<queueVars, stopping, stack, submitted, finished, moved,
                 unscanned, inHand>>

----------------------------------------------------------------------------
(* run_one(): own deque from the back, then injected, then the fronts of   *)
(* the other deques, one at a time.                                        *)

\* Mutant: a worker looks at the back of its deque without removing it.
PopLocalByCopy(t) ==
  /\ At(t, "local")
  /\ IF queue[t] = <<>>
     THEN Goto(t, "injected") /\ UNCHANGED inHand
     ELSE /\ inHand' = [inHand EXCEPT ![t] = Last(queue[t])]
          /\ Goto(t, "taken")
  /\ UNCHANGED <<queueVars, waiters, stopping, progressVars, moved, unscanned>>

Take(t, q, x, rest) ==
  /\ queue[q] # <<>>
  /\ inHand' = [inHand EXCEPT ![t] = x]
  /\ queue' = [queue EXCEPT ![q] = rest]
  /\ Goto(t, "taken")

TakeFirst(t, q) == Take(t, q, Head(queue[q]), Tail(queue[q]))

PopLocal(t) ==
  /\ At(t, "local")
  /\ \/ queue[t] = <<>> /\ Goto(t, "injected") /\ UNCHANGED <<queue, inHand>>
     \/ Take(t, t, Last(queue[t]), Front(queue[t]))
  /\ UNCHANGED <<pending, waiters, stopping, progressVars, moved, unscanned>>

PopInjected(t) ==
  /\ At(t, "injected")
  /\ \/ /\ queue[Injected] = <<>>
        /\ unscanned' = [unscanned EXCEPT ![t] = Workers \ {t}]
        /\ Goto(t, IF Workers \ {t} = {} THEN "missed" ELSE "steal")
        /\ UNCHANGED <<queue, inHand>>
     \/ TakeFirst(t, Injected) /\ UNCHANGED unscanned
  /\ UNCHANGED <<pending, waiters, stopping, progressVars, moved>>

\* steal_cursor_ makes the order of the victims arbitrary.
StealFrom(t, victim) ==
  /\ At(t, "steal")
  /\ victim \in unscanned[t]
  /\ \/ /\ queue[victim] = <<>>
        /\ unscanned' = [unscanned EXCEPT ![t] = @ \ {victim}]
        /\ Goto(t, IF unscanned[t] = {victim} THEN "missed" ELSE "steal")
        /\ UNCHANGED <<queue, inHand>>
     \/ TakeFirst(t, victim) /\ unscanned' = [unscanned EXCEPT ![t] = {}]
  /\ UNCHANGED <<pending, waiters, stopping, progressVars, moved>>

Steal(t) == \E victim \in Workers : StealFrom(t, victim)

StartTask(t) ==
  /\ At(t, "taken")
  /\ pending' = pending - 1
  /\ stack' = [stack EXCEPT ![t] = Append(@, inHand[t])]
  /\ inHand' = [inHand EXCEPT ![t] = NoTask]
  /\ Goto(t, "work")
  /\ UNCHANGED <<queue, waiters, stopping, submitted, awaited, finished, moved,
                 unscanned>>

----------------------------------------------------------------------------
(* The task wrapper: the future becomes ready, then waiters are looked for. *)

FinishTask(t) ==
  LET x == Current(t)
  IN  /\ At(t, "work")
      /\ stack[t] # <<>>
      /\ x \in Task
      /\ submitted[x] = Len(Children[x])
      /\ awaited[x] = Len(Children[x])
      /\ finished' = finished \cup {x}
      /\ Goto(t, "finished")
      /\ UNCHANGED <<queueVars, waiters, stopping, stack, submitted, awaited,
                     moved, unscanned, inHand>>

\* Mutant: a finished task wakes nobody.
FinishSilently(t) ==
  /\ At(t, "finished")
  /\ Goto(t, "pop")
  /\ UNCHANGED <<queueVars, waiters, stopping, progressVars, moved, unscanned,
                 inHand>>

LookForWaiters(t) ==
  /\ At(t, "finished")
  /\ IF waiters # 0
     THEN EventMoves /\ Goto(t, "notifyAll")
     ELSE UNCHANGED moved /\ Goto(t, "pop")
  /\ UNCHANGED <<queueVars, waiters, stopping, progressVars, unscanned, inHand>>

NotifyWaiters(t) ==
  /\ At(t, "notifyAll")
  /\ WakeAll(t, "pop")
  /\ UNCHANGED <<queueVars, waiters, stopping, progressVars, moved, unscanned,
                 inHand>>

\* task() returns into the loop that ran it.
ReturnFromTask(t) ==
  /\ At(t, "pop")
  /\ stack' = [stack EXCEPT ![t] = Front(@)]
  /\ Goto(t, "observe")
  /\ UNCHANGED <<queueVars, waiters, stopping, submitted, awaited, finished,
                 moved, unscanned, inHand>>

----------------------------------------------------------------------------
(* Sleeping, worker_loop()'s exit and the destructor.                      *)

\* Mutant: a helper leaves as soon as shutdown is requested.
LeavesAtOnce(t) == t \in Helpers /\ stack[t] = <<>> /\ stopping

Leaves(t) == t \in Helpers /\ stack[t] = <<>> /\ stopping /\ pending = 0

HelperExits(t) ==
  /\ At(t, "missed")
  /\ Leaves(t)
  /\ Goto(t, "ended")
  /\ UNCHANGED <<queueVars, waiters, stopping, progressVars, moved, unscanned,
                 inHand>>

\* sleep_until_signalled: the thread sleeps only if nothing moved.
Sleep(t) ==
  /\ At(t, "missed")
  /\ ~Leaves(t)
  /\ Goto(t, IF moved[t] \/ stopping THEN "observe" ELSE "sleeping")
  /\ UNCHANGED <<queueVars, waiters, stopping, progressVars, moved, unscanned,
                 inHand>>

OutsiderDone(t) ==
  /\ t \in Outsiders
  /\ At(t, "work")
  /\ stack[t] = <<Root[t]>>
  /\ submitted[Root[t]] = Len(Children[Root[t]])
  /\ awaited[Root[t]] = Len(Children[Root[t]])
  /\ Goto(t, "ended")
  /\ UNCHANGED <<queueVars, waiters, stopping, progressVars, moved, unscanned,
                 inHand>>

\* ~TaskExecutor, once every outsider has let go of it.  The owner normally
\* waits for its tasks first; unwinding an exception it may not.
Shutdown ==
  /\ At(Owner, "work")
  /\ stack[Owner] = <<Root[Owner]>>
  /\ \A t \in Outsiders : pc[t] = "ended"
  /\ stopping' = TRUE
  /\ Goto(Owner, "shutdown")
  /\ UNCHANGED <<queueVars, waiters, progressVars, moved, unscanned, inHand>>

ShutdownSignals ==
  /\ At(Owner, "shutdown")
  /\ EventMoves
  /\ Goto(Owner, "shutdownNotify")
  /\ UNCHANGED <<queueVars, waiters, stopping, progressVars, unscanned, inHand>>

\* Mutant: the destructor joins helpers it did not wake.
ShutdownSilently ==
  /\ At(Owner, "shutdownNotify")
  /\ Goto(Owner, "join")
  /\ UNCHANGED <<queueVars, waiters, stopping, progressVars, moved, unscanned,
                 inHand>>

ShutdownNotifies ==
  /\ At(Owner, "shutdownNotify")
  /\ WakeAll(Owner, "join")
  /\ UNCHANGED <<queueVars, waiters, stopping, progressVars, moved, unscanned,
                 inHand>>

JoinHelpers ==
  /\ At(Owner, "join")
  /\ \A t \in Helpers : pc[t] = "ended"
  /\ Goto(Owner, "ended")
  /\ UNCHANGED <<queueVars, waiters, stopping, progressVars, moved, unscanned,
                 inHand>>

----------------------------------------------------------------------------
Step(t) ==
  \/ SubmitAllowed(t) \/ Submit(t) \/ SubmitSignals(t) \/ SubmitNotifies(t)
  \/ SubmitRefused(t)
  \/ Register(t) \/ Observe(t) \/ FutureNotReady(t) \/ FutureReady(t)
  \/ PassOnSignals(t) \/ PassOnNotifies(t) \/ Unregister(t)
  \/ PopLocal(t) \/ PopInjected(t) \/ Steal(t) \/ StartTask(t)
  \/ FinishTask(t) \/ LookForWaiters(t) \/ NotifyWaiters(t)
  \/ ReturnFromTask(t) \/ HelperExits(t) \/ Sleep(t) \/ OutsiderDone(t)

ShutdownStep == ShutdownSignals \/ ShutdownNotifies \/ JoinHelpers

AllEnded == (\A t \in Thread : pc[t] = "ended") /\ UNCHANGED vars

Next == (\E t \in Thread : Step(t)) \/ Shutdown \/ ShutdownStep \/ AllEnded

\* Threads keep running.
Fairness == (\A t \in Thread : WF_vars(Step(t))) /\ WF_vars(ShutdownStep)

Spec == Init /\ [][Next]_vars
FairSpec == Spec /\ Fairness

----------------------------------------------------------------------------
(* Properties.                                                             *)

TypeOK ==
  /\ queue \in [Queues -> Seq(Task)]
  /\ pending \in Nat /\ waiters \in Nat
  /\ stopping \in BOOLEAN
  /\ stack \in [Thread -> Seq(Program)]
  /\ submitted \in [Program -> Nat] /\ awaited \in [Program -> Nat]
  /\ finished \subseteq Program
  /\ pc \in [Thread ->
       {"work", "submitting", "submitted", "notifyOne", "observe", "check", "passOn",
        "passOnNotify", "unregister", "local", "injected", "steal", "taken",
        "missed", "sleeping", "finished", "notifyAll", "pop", "shutdown",
        "shutdownNotify", "join", "ended"}]
  /\ moved \in [Thread -> BOOLEAN]
  /\ unscanned \in [Thread -> SUBSET Workers]
  /\ inHand \in [Thread -> Task \cup {NoTask}]

\* The places of queued tasks.
Backlog == UNION {{q} \X DOMAIN queue[q] : q \in Queues}

\* pending_ counts exactly the tasks in the queues and those popped a moment
\* ago, so it cannot underflow and cannot read zero while a task is queued.
PendingExact ==
  pending = Cardinality(Backlog) + Cardinality({t \in Thread : pc[t] = "taken"})

\* Where a task is: in queues, in hands and on stacks.
QueuePlaces(x) == {<<"queue", p>> : p \in {p \in Backlog : queue[p[1]][p[2]] = x}}
HandPlaces(x) == {<<"hand", t>> : t \in {t \in Thread : inHand[t] = x}}
StackPlaces(x) ==
  UNION {{<<"stack", t, i>> : i \in {i \in DOMAIN stack[t] : stack[t][i] = x}} :
           t \in Thread}
Places(x) == QueuePlaces(x) \cup HandPlaces(x) \cup StackPlaces(x)

SubmittedTasks ==
  UNION {{Children[x][i] : i \in 1..submitted[x]} : x \in Program}

\* A submitted task is in one place only: one queue, one thread's hand, one
\* stack; once it has finished it can only be on the stack that ran it.  So
\* none is lost and none runs twice.
RunExactlyOnce ==
  \A x \in SubmittedTasks :
    \/ \E p \in Places(x) : Places(x) = {p} /\ (x \in finished => p \in StackPlaces(x))
    \/ x \in finished /\ Places(x) = {}

\* Threads that look for work, or are about to wake one that will.
Looking ==
  {t \in Thread : pc[t] \in {"submitted", "notifyOne", "observe", "check", "passOn",
                             "passOnNotify", "local", "injected", "steal", "missed"}}

\* No wake-up is lost on idle threads: while one sleeps, there are as many
\* threads on the way to the queues as there are tasks in them.
NoIdleHelper == Sleepers # {} => Cardinality(Backlog) <= Cardinality(Looking)

\* No wake-up is lost on waiters: when one sleeps though the task it waits for
\* has finished, a thread that just finished a task is about to wake all.
NoForgottenWaiter ==
  \A t \in Sleepers : stack[t] # <<>> /\ Awaiting(t) \in finished
                       => \E s \in Thread : pc[s] \in {"finished", "notifyAll"}

\* Neither is lost, though submit notifies one sleeper, of either kind, and a
\* finishing task notifies only when it reads future_waiters_ as not zero.
NoLostWakeUp == NoIdleHelper /\ NoForgottenWaiter

\* Every wait ends, however tasks nest on the waiting threads' stacks, and
\* without the help of a timeout: no registered waiter is left over for ever.
\* (There are finitely many tasks, so waits do not follow one another for ever.)
WaitsEnd == []<>(waiters = 0)

\* The destructor returns.
ShutdownEnds == stopping ~> pc[Owner] = "ended"

\* The two calls that may block return: wait() and the destructor.
CallsReturn == WaitsEnd /\ ShutdownEnds

\* If there is a helper, it returns with every submitted task run, those its
\* helpers submitted while it was stopping them included.
ShutdownDrains ==
  pc[Owner] = "ended" /\ Helpers # {} => SubmittedTasks \subseteq finished
=============================================================================
