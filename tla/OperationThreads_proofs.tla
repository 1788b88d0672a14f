----------------------- MODULE OperationThreads_proofs -----------------------
(***************************************************************************)
(* Proofs about what the threads of an operation share.                    *)
(*                                                                         *)
(* First TaskExecutor, for any helpers, outsiders and trees of tasks.      *)
(* IInv, the inductive invariant, is a conjunction of parts, each kept by  *)
(* a Step lemma of its own:                                                *)
(*   Frames, Shutting, Counted  where each thread is, on what stack, and   *)
(*                   how the destructor and the submits advance            *)
(*   Once            a task is in one place: a queue, a hand or a stack    *)
(*   Accounts        pending_ counts the queues and the hands              *)
(*   Registrations   future_waiters_ counts the tasks that wait            *)
(*   Woken           who waits for a ready future will look again          *)
(*   Scans           what lies in queues a thread has already looked into, *)
(*                   the event count unmoved, is still to be signalled     *)
(* The last two are why the missed wake-ups of NoForgottenWaiter and       *)
(* NoIdleHelper cannot happen; the rest supports them.                     *)
(*                                                                         *)
(* Then OperationControl, for any producers, samples, totals and bounds:   *)
(* what the frontend reads is never torn, what is published never runs     *)
(* backwards, and nothing passes a checkpoint after a cancel request.      *)
(***************************************************************************)
EXTENDS TaskExecutor, OperationControl, FiniteSetTheorems, SequenceTheorems, TLAPS


\* What a thread runs, it runs on its stack: the root of a thread that came
\* with one lies at the bottom, above it are tasks.
StackOK(t) ==
  /\ \A i \in DOMAIN stack[t] : stack[t][i] \in Task \/ (t \notin Helpers /\ i = 1)
  /\ t \notin Helpers => stack[t] # <<>> /\ stack[t][1] = Root[t]

EndLabels == {"shutdown", "shutdownNotify", "join"}

\* Where a thread is agrees with its stack and its hand.
PlaceOK(t) ==
  /\ pc[t] \in {"work", "submitting", "submitted", "notifyOne", "check", "passOn",
                "passOnNotify", "unregister", "finished", "notifyAll", "pop"}
       => stack[t] # <<>>
  /\ pc[t] \in {"finished", "notifyAll", "pop"} => Current(t) \in Task /\ Current(t) \in finished
  /\ pc[t] = "taken" => inHand[t] \in Task
  /\ pc[t] # "taken" => inHand[t] = NoTask
  /\ pc[t] = "local" => t \in Workers
  /\ pc[t] \in EndLabels => t = Owner
  /\ pc[t] \in EndLabels \cup {"ended"} =>
       stack[t] = IF t \in Helpers THEN <<>> ELSE <<Root[t]>>

Frames == \A t \in Thread : StackOK(t) /\ PlaceOK(t)

\* Who can still run once the destructor has begun.
Shutting ==
  /\ stopping <=> pc[Owner] \in EndLabels \cup {"ended"}
  /\ stopping => \A t \in Outsiders : pc[t] = "ended"
  /\ \A h \in Helpers : pc[h] = "ended" => stopping
  /\ pc[Owner] = "ended" => \A h \in Helpers : pc[h] = "ended"
  /\ Helpers # {} /\ (\A h \in Helpers : pc[h] = "ended") => pending = 0

\* A program submits its children once each.
Counted ==
  /\ \A x \in Program : submitted[x] <= Len(Children[x])
  /\ \A t \in Thread : pc[t] = "submitting" => submitted[Current(t)] < Len(Children[Current(t)])

----------------------------------------------------------------------------
(* Sequences.                                                              *)

\* A sequence with one more element at the end.
LEMMA Pushed ==
  ASSUME NEW S, NEW s \in Seq(S), NEW x \in S
  PROVE  /\ Append(s, x) \in Seq(S) /\ Append(s, x) # <<>>
         /\ Len(Append(s, x)) = Len(s) + 1 /\ Len(s) \in Nat
         /\ DOMAIN Append(s, x) = 1..(Len(s) + 1) /\ DOMAIN s = 1..Len(s)
         /\ \A i \in 1..Len(s) : Append(s, x)[i] = s[i]
         /\ Append(s, x)[Len(s) + 1] = x
         /\ Last(Append(s, x)) = x
  BY DEF Last

\* A sequence without its last element.
LEMMA Popped ==
  ASSUME NEW S, NEW s \in Seq(S), s # <<>>
  PROVE  /\ Front(s) \in Seq(S)
         /\ Len(Front(s)) = Len(s) - 1 /\ Len(s) \in Nat \ {0}
         /\ DOMAIN Front(s) = 1..(Len(s) - 1) /\ DOMAIN s = 1..Len(s)
         /\ \A i \in 1..(Len(s) - 1) : Front(s)[i] = s[i]
         /\ Last(s) = s[Len(s)] /\ Last(s) \in S
<1>1. Len(s) \in Nat \ {0} /\ DOMAIN s = 1..Len(s) /\ \A i \in 1..Len(s) : s[i] \in S
  OBVIOUS
<1>2. Front(s) = [i \in 1..(Len(s) - 1) |-> s[i]]
  BY <1>1 DEF Front
<1>3. Front(s) \in Seq(S)
  BY <1>1, <1>2
<1>4. Len(Front(s)) = Len(s) - 1
  BY <1>1, <1>2
<1> QED BY <1>1, <1>2, <1>3, <1>4 DEF Last

\* A sequence without its first element.
LEMMA Dequeued ==
  ASSUME NEW S, NEW s \in Seq(S), s # <<>>
  PROVE  /\ Tail(s) \in Seq(S)
         /\ Len(Tail(s)) = Len(s) - 1 /\ Len(s) \in Nat \ {0}
         /\ DOMAIN Tail(s) = 1..(Len(s) - 1) /\ DOMAIN s = 1..Len(s)
         /\ \A i \in 1..(Len(s) - 1) : Tail(s)[i] = s[i + 1]
         /\ Head(s) = s[1] /\ Head(s) \in S
  OBVIOUS
----------------------------------------------------------------------------
(* Types.                                                                  *)

\* The task at the top of a stack.
LEMMA CurrentIs ==
  ASSUME TypeOK, NEW t \in Thread, stack[t] # <<>>
  PROVE  /\ Current(t) \in Program /\ Current(t) = stack[t][Len(stack[t])]
         /\ Len(stack[t]) \in Nat \ {0} /\ stack[t] \in Seq(Program)
         /\ Len(stack[t]) \in DOMAIN stack[t]
<1>1. stack[t] \in Seq(Program)
  BY DEF TypeOK
<1> QED BY <1>1, Popped DEF Current

\* What a submit submits is a task.
LEMMA ChildIs ==
  ASSUME TypeOK, Frames, Counted, NEW t \in Thread, pc[t] = "submitting"
  PROVE  /\ Current(t) \in Program
         /\ submitted[Current(t)] + 1 \in DOMAIN Children[Current(t)]
         /\ Children[Current(t)][submitted[Current(t)] + 1] \in Task
<1>1. Current(t) \in Program
  BY CurrentIs DEF Frames, PlaceOK
<1>2. submitted[Current(t)] \in Nat /\ submitted[Current(t)] < Len(Children[Current(t)])
  BY <1>1 DEF TypeOK, Counted
<1>3. Children[Current(t)] \in Seq(Task)
  BY <1>1, ExecutorAssumption
<1> QED BY <1>1, <1>2, <1>3

\* Whatever is taken is a task, and the rest of the queue a queue.
LEMMA TakeTypes ==
  ASSUME TypeOK, NEW t \in Thread, NEW q \in Queues, NEW x, NEW rest, Take(t, q, x, rest),
         \/ x = Last(queue[q]) /\ rest = Front(queue[q])
         \/ x = Head(queue[q]) /\ rest = Tail(queue[q])
  PROVE  /\ x \in Task /\ rest \in Seq(Task)
         /\ queue' \in [Queues -> Seq(Task)] /\ inHand' \in [Thread -> Task \cup {NoTask}]
<1>1. queue[q] \in Seq(Task) /\ queue[q] # <<>>
  BY DEF TypeOK, Take
<1>2. x \in Task /\ rest \in Seq(Task)
  BY <1>1, Popped, Dequeued
<1> QED BY <1>2 DEF TypeOK, Take

\* What a notification does to the threads: it goes on to l, and of those
\* asleep some wake.
Notified(t, l) ==
  /\ pc' = [s \in Thread |-> pc'[s]] /\ pc'[t] = l
  /\ \A s \in Thread : \/ s = t
                       \/ pc'[s] = pc[s]
                       \/ pc[s] = "sleeping" /\ pc'[s] = "observe" /\ Wakes(s)

\* So do both notifications.
LEMMA Notification ==
  ASSUME TypeOK, NEW t \in Thread, NEW l, pc[t] # "sleeping", WakeOne(t, l) \/ WakeAll(t, l)
  PROVE  Notified(t, l)
<1>1. pc = [s \in Thread |-> pc[s]]
  BY DEF TypeOK
<1>2. CASE Sleepers = {} /\ Goto(t, l)
  BY <1>1, <1>2 DEF Goto, Notified
<1>3. ASSUME NEW s \in Sleepers,
             pc' = [pc EXCEPT ![t] = l, ![s] = IF Wakes(s) THEN "observe" ELSE @]
      PROVE  Notified(t, l)
  <2>1. s \in Thread /\ s # t /\ pc[s] = "sleeping"
    BY DEF Sleepers
  <2>2. CASE Wakes(s)
    BY <1>1, <1>3, <2>1, <2>2 DEF Notified
  <2>3. CASE ~Wakes(s)
    BY <1>1, <1>3, <2>1, <2>3 DEF Notified
  <2> QED BY <2>2, <2>3
<1>4. CASE WakeAll(t, l)
  BY <1>4 DEF WakeAll, Sleepers, Notified
<1> QED BY <1>2, <1>3, <1>4 DEF WakeOne

\* A step of one thread.
LEMMA Going ==
  ASSUME TypeOK, NEW t \in Thread, NEW l, Goto(t, l)
  PROVE  /\ pc' = [s \in Thread |-> pc'[s]] /\ pc'[t] = l
         /\ \A s \in Thread : s # t => pc'[s] = pc[s]
  BY DEF TypeOK, Goto
\* Every step keeps the types, given that the counters stay numbers.
LEMMA StepTypes ==
  ASSUME TypeOK, Frames, Counted, [Next]_vars, pending' \in Nat, waiters' \in Nat
  PROVE  TypeOK'
<1>1. CASE UNCHANGED vars
  BY <1>1 DEF TypeOK, vars, queueVars, progressVars
<1>2. ASSUME NEW t \in Thread, SubmitAllowed(t) PROVE TypeOK'
  BY <1>2 DEF TypeOK, SubmitAllowed, At, Goto, EventMoves, queueVars, progressVars
<1>3. ASSUME NEW t \in Thread, SubmitSignals(t) PROVE TypeOK'
  BY <1>3 DEF TypeOK, SubmitSignals, At, Goto, EventMoves, queueVars, progressVars
<1>4. ASSUME NEW t \in Thread, Register(t) PROVE TypeOK'
  BY <1>4 DEF TypeOK, Register, At, Goto, EventMoves, queueVars, progressVars
<1>5. ASSUME NEW t \in Thread, FutureNotReady(t) PROVE TypeOK'
  BY <1>5 DEF TypeOK, FutureNotReady, At, Goto, EventMoves, queueVars, progressVars
<1>6. ASSUME NEW t \in Thread, FutureReady(t) PROVE TypeOK'
  BY <1>6 DEF TypeOK, FutureReady, At, Goto, EventMoves, queueVars, progressVars
<1>7. ASSUME NEW t \in Thread, PassOnSignals(t) PROVE TypeOK'
  BY <1>7 DEF TypeOK, PassOnSignals, At, Goto, EventMoves, queueVars, progressVars
<1>8. ASSUME NEW t \in Thread, LookForWaiters(t) PROVE TypeOK'
  BY <1>8 DEF TypeOK, LookForWaiters, At, Goto, EventMoves, queueVars, progressVars
<1>9. ASSUME NEW t \in Thread, HelperExits(t) PROVE TypeOK'
  BY <1>9 DEF TypeOK, HelperExits, At, Goto, EventMoves, queueVars, progressVars
<1>10. ASSUME NEW t \in Thread, Sleep(t) PROVE TypeOK'
  BY <1>10 DEF TypeOK, Sleep, At, Goto, EventMoves, queueVars, progressVars
<1>11. ASSUME NEW t \in Thread, OutsiderDone(t) PROVE TypeOK'
  BY <1>11 DEF TypeOK, OutsiderDone, At, Goto, EventMoves, queueVars, progressVars
<1>12. ASSUME NEW t \in Thread, Observe(t) PROVE TypeOK'
  BY <1>12 DEF TypeOK, Observe, At, Goto, EventMoves, queueVars, progressVars
<1>13. ASSUME NEW t \in Thread, SubmitNotifies(t) PROVE TypeOK'
  <2>1. Notified(t, "work")
    BY <1>13, Notification DEF SubmitNotifies, At
  <2> QED BY <1>13, <2>1 DEF TypeOK, SubmitNotifies, Notified, queueVars, progressVars
<1>14. ASSUME NEW t \in Thread, PassOnNotifies(t) PROVE TypeOK'
  <2>1. Notified(t, "unregister")
    BY <1>14, Notification DEF PassOnNotifies, At
  <2> QED BY <1>14, <2>1 DEF TypeOK, PassOnNotifies, Notified, queueVars, progressVars
<1>15. ASSUME NEW t \in Thread, NotifyWaiters(t) PROVE TypeOK'
  <2>1. Notified(t, "pop")
    BY <1>15, Notification DEF NotifyWaiters, At
  <2> QED BY <1>15, <2>1 DEF TypeOK, NotifyWaiters, Notified, queueVars, progressVars
<1>16. ASSUME NEW t \in Thread, Submit(t) PROVE TypeOK'
  <2> DEFINE q == IF t \in Workers THEN t ELSE Injected
             x == Current(t)
             child == Children[x][submitted[x] + 1]
  <2>1. x \in Program /\ child \in Task /\ q \in Queues
    BY <1>16, ChildIs DEF Submit, At, Queues
  <2>2. queue' = [queue EXCEPT ![q] = Append(@, child)]
    BY <1>16 DEF Submit
  <2>3. submitted' = [submitted EXCEPT ![x] = @ + 1]
    BY <1>16 DEF Submit
  <2> HIDE DEF q, x, child
  <2>4. queue' \in [Queues -> Seq(Task)]
    BY <2>1, <2>2 DEF TypeOK
  <2>5. submitted' \in [Program -> Nat]
    BY <2>1, <2>3 DEF TypeOK
  <2> QED BY <1>16, <2>4, <2>5 DEF TypeOK, Submit, At, Goto
<1>17. ASSUME NEW t \in Thread, Unregister(t) PROVE TypeOK'
  <2>1. stack[t] # <<>>
    BY <1>17 DEF Frames, PlaceOK, Unregister, At
  <2>2. Current(t) \in Program
    BY <1>17, <2>1, CurrentIs
  <2> QED BY <1>17, <2>2 DEF TypeOK, Unregister, At, Goto, queueVars
<1>18. ASSUME NEW t \in Thread, SubmitRefused(t) PROVE TypeOK'
  <2>1. Current(t) \in Program
    BY <1>18, CurrentIs DEF SubmitRefused
  <2> QED BY <1>18, <2>1 DEF TypeOK, SubmitRefused, At, Goto, queueVars
<1>19. ASSUME NEW t \in Thread, FinishTask(t) PROVE TypeOK'
  <2>1. Current(t) \in Program
    BY <1>19, CurrentIs DEF FinishTask
  <2> QED BY <1>19, <2>1 DEF TypeOK, FinishTask, At, Goto, queueVars
<1>20. ASSUME NEW t \in Thread, PopLocal(t) PROVE TypeOK'
  <2>1. t \in Queues
    BY <1>20 DEF Frames, PlaceOK, PopLocal, At, Queues
  <2>2. queue' \in [Queues -> Seq(Task)] /\ inHand' \in [Thread -> Task \cup {NoTask}]
    BY <1>20, <2>1, TakeTypes DEF PopLocal, TypeOK
  <2> QED BY <1>20, <2>2 DEF TypeOK, PopLocal, Take, At, Goto, progressVars
<1>21. ASSUME NEW t \in Thread, PopInjected(t) PROVE TypeOK'
  <2>1. Injected \in Queues
    BY DEF Queues
  <2>2. queue' \in [Queues -> Seq(Task)] /\ inHand' \in [Thread -> Task \cup {NoTask}]
    BY <1>21, <2>1, TakeTypes DEF PopInjected, TakeFirst, TypeOK
  <2>3. pc' = [pc EXCEPT ![t] = pc'[t]] /\ pc'[t] \in {"missed", "steal", "taken"}
    BY <1>21 DEF TypeOK, PopInjected, TakeFirst, Take, Goto
  <2>4. unscanned' \in [Thread -> SUBSET Workers]
    BY <1>21 DEF TypeOK, PopInjected
  <2> QED BY <1>21, <2>2, <2>3, <2>4 DEF TypeOK, PopInjected, progressVars
<1>22. ASSUME NEW t \in Thread, NEW v \in Workers, StealFrom(t, v) PROVE TypeOK'
  <2>1. v \in Queues
    BY DEF Queues
  <2>2. queue' \in [Queues -> Seq(Task)] /\ inHand' \in [Thread -> Task \cup {NoTask}]
    BY <1>22, <2>1, TakeTypes DEF StealFrom, TakeFirst, TypeOK
  <2>3. pc' = [pc EXCEPT ![t] = pc'[t]] /\ pc'[t] \in {"missed", "steal", "taken"}
    BY <1>22 DEF TypeOK, StealFrom, TakeFirst, Take, Goto
  <2>4. unscanned' \in [Thread -> SUBSET Workers]
    BY <1>22 DEF TypeOK, StealFrom
  <2> QED BY <1>22, <2>2, <2>3, <2>4 DEF TypeOK, StealFrom, progressVars
<1>23. ASSUME NEW t \in Thread, StartTask(t) PROVE TypeOK'
  <2>1. inHand[t] \in Program
    BY <1>23 DEF Frames, PlaceOK, StartTask, At, Program
  <2>2. stack' \in [Thread -> Seq(Program)]
    BY <1>23, <2>1 DEF TypeOK, StartTask
  <2> QED BY <1>23, <2>2 DEF TypeOK, StartTask, At, Goto
<1>24. ASSUME NEW t \in Thread, ReturnFromTask(t) PROVE TypeOK'
  <2>1. stack[t] \in Seq(Program) /\ stack[t] # <<>>
    BY <1>24 DEF TypeOK, Frames, PlaceOK, ReturnFromTask, At
  <2>2. Front(stack[t]) \in Seq(Program)
    BY <2>1, Popped
  <2> QED BY <1>24, <2>2 DEF TypeOK, ReturnFromTask, At, Goto, queueVars
<1>25. CASE Shutdown
  BY <1>25 DEF TypeOK, Shutdown, At, Goto, EventMoves, queueVars, progressVars
<1>26. CASE ShutdownSignals
  BY <1>26 DEF TypeOK, ShutdownSignals, At, Goto, EventMoves, queueVars, progressVars
<1>27. CASE JoinHelpers
  BY <1>27 DEF TypeOK, JoinHelpers, At, Goto, EventMoves, queueVars, progressVars
<1>28. CASE ShutdownNotifies
  <2>1. Notified(Owner, "join")
    BY <1>28, Notification DEF ShutdownNotifies, At, Thread, Workers
  <2> QED BY <1>28, <2>1 DEF TypeOK, ShutdownNotifies, Notified, queueVars, progressVars
<1> QED BY <1>1, <1>2, <1>3, <1>4, <1>5, <1>6, <1>7, <1>8, <1>9, <1>10, <1>11, <1>12, <1>13, <1>14, <1>15, <1>16, <1>17, <1>18, <1>19, <1>20, <1>21, <1>22, <1>23, <1>24, <1>25, <1>26, <1>27, <1>28 DEF Next, Step, Steal, ShutdownStep, AllEnded

----------------------------------------------------------------------------
(* Threads and their stacks.                                               *)

\* What a step of thread t does to the others: some that slept wake.
OthersStay(t) ==
  /\ finished \subseteq finished'
  /\ \A u \in Thread : u # t =>
       /\ stack'[u] = stack[u] /\ inHand'[u] = inHand[u]
       /\ \/ pc'[u] = pc[u]
          \/ pc[u] = "sleeping" /\ pc'[u] = "observe" /\ Wakes(u)

\* A step of a thread is that.
LEMMA ThreadAlone ==
  ASSUME TypeOK, NEW t \in Thread, Step(t)
  PROVE  OthersStay(t)
<1>1. CASE SubmitAllowed(t)
  BY <1>1 DEF OthersStay, TypeOK, SubmitAllowed, Goto, progressVars
<1>2. CASE Submit(t)
  BY <1>2 DEF OthersStay, TypeOK, Submit, Goto, progressVars
<1>3. CASE SubmitSignals(t)
  BY <1>3 DEF OthersStay, TypeOK, SubmitSignals, Goto, progressVars
<1>4. CASE SubmitNotifies(t)
  <2>1. Notified(t, "work")
    BY <1>4, Notification DEF SubmitNotifies, At
  <2> QED BY <1>4, <2>1 DEF OthersStay, Notified, SubmitNotifies, progressVars
<1>5. CASE SubmitRefused(t)
  BY <1>5 DEF OthersStay, TypeOK, SubmitRefused, Goto, progressVars
<1>6. CASE Register(t)
  BY <1>6 DEF OthersStay, TypeOK, Register, Goto, progressVars
<1>7. CASE Observe(t)
  BY <1>7 DEF OthersStay, TypeOK, Observe, Goto, progressVars
<1>8. CASE FutureNotReady(t)
  BY <1>8 DEF OthersStay, TypeOK, FutureNotReady, Goto, progressVars
<1>9. CASE FutureReady(t)
  BY <1>9 DEF OthersStay, TypeOK, FutureReady, Goto, progressVars
<1>10. CASE PassOnSignals(t)
  BY <1>10 DEF OthersStay, TypeOK, PassOnSignals, Goto, progressVars
<1>11. CASE PassOnNotifies(t)
  <2>1. Notified(t, "unregister")
    BY <1>11, Notification DEF PassOnNotifies, At
  <2> QED BY <1>11, <2>1 DEF OthersStay, Notified, PassOnNotifies, progressVars
<1>12. CASE Unregister(t)
  BY <1>12 DEF OthersStay, TypeOK, Unregister, Goto, progressVars
<1>13. CASE PopLocal(t)
  BY <1>13 DEF OthersStay, TypeOK, PopLocal, Take, Goto, progressVars
<1>14. CASE PopInjected(t)
  BY <1>14 DEF OthersStay, TypeOK, PopInjected, TakeFirst, Take, Goto, progressVars
<1>15. CASE Steal(t)
  BY <1>15 DEF OthersStay, TypeOK, Steal, StealFrom, TakeFirst, Take, Goto, progressVars
<1>16. CASE StartTask(t)
  BY <1>16 DEF OthersStay, TypeOK, StartTask, Goto, progressVars
<1>17. CASE FinishTask(t)
  BY <1>17 DEF OthersStay, TypeOK, FinishTask, Goto, progressVars
<1>18. CASE LookForWaiters(t)
  BY <1>18 DEF OthersStay, TypeOK, LookForWaiters, Goto, progressVars
<1>19. CASE NotifyWaiters(t)
  <2>1. Notified(t, "pop")
    BY <1>19, Notification DEF NotifyWaiters, At
  <2> QED BY <1>19, <2>1 DEF OthersStay, Notified, NotifyWaiters, progressVars
<1>20. CASE ReturnFromTask(t)
  BY <1>20 DEF OthersStay, TypeOK, ReturnFromTask, Goto, progressVars
<1>21. CASE HelperExits(t)
  BY <1>21 DEF OthersStay, TypeOK, HelperExits, Goto, progressVars
<1>22. CASE Sleep(t)
  BY <1>22 DEF OthersStay, TypeOK, Sleep, Goto, progressVars
<1>23. CASE OutsiderDone(t)
  BY <1>23 DEF OthersStay, TypeOK, OutsiderDone, Goto, progressVars
<1> QED BY <1>1, <1>2, <1>3, <1>4, <1>5, <1>6, <1>7, <1>8, <1>9, <1>10, <1>11, <1>12, <1>13, <1>14, <1>15, <1>16, <1>17, <1>18, <1>19, <1>20, <1>21, <1>22, <1>23 DEF Step

\* A step of the destructor is the owner's.
LEMMA OwnerAlone ==
  ASSUME TypeOK, Shutdown \/ ShutdownStep
  PROVE  OthersStay(Owner)
<1>1. CASE ShutdownNotifies
  <2>1. Notified(Owner, "join")
    BY <1>1, Notification DEF ShutdownNotifies, At, Thread, Workers
  <2> QED BY <1>1, <2>1 DEF OthersStay, Notified, ShutdownNotifies, progressVars
<1>2. CASE Shutdown \/ ShutdownSignals \/ JoinHelpers
  BY <1>2 DEF OthersStay, TypeOK, Shutdown, ShutdownSignals, JoinHelpers, Goto, progressVars
<1> QED BY <1>1, <1>2 DEF ShutdownStep

\* Then the others are where they were.
LEMMA OthersPlaced ==
  ASSUME Frames, NEW t \in Thread, OthersStay(t), StackOK(t)', PlaceOK(t)'
  PROVE  Frames'
<1> SUFFICES ASSUME NEW u \in Thread, u # t PROVE StackOK(u)' /\ PlaceOK(u)'
  BY DEF Frames
<1>1. StackOK(u) /\ PlaceOK(u) /\ stack'[u] = stack[u] /\ inHand'[u] = inHand[u]
  BY DEF Frames, OthersStay
<1>2. StackOK(u)'
  BY <1>1 DEF StackOK
<1>3. PlaceOK(u)'
  <2>1. CASE pc'[u] = pc[u]
    BY <1>1, <2>1 DEF PlaceOK, OthersStay, Current
  <2>2. CASE pc[u] = "sleeping" /\ pc'[u] = "observe"
    BY <1>1, <2>2 DEF PlaceOK, EndLabels
  <2> QED BY <2>1, <2>2 DEF OthersStay
<1> QED BY <1>2, <1>3

\* Before the destructor begins, only helpers can be refused.
LEMMA RefusedHelper ==
  ASSUME Shutting, NEW t \in Thread, SubmitRefused(t)
  PROVE  t \in Helpers
  BY DEF Shutting, SubmitRefused, At, EndLabels, Thread, Workers

\* Every step keeps threads and stacks in agreement.
LEMMA StepFrames ==
  ASSUME TypeOK, TypeOK', Frames, Shutting, [Next]_vars
  PROVE  Frames'
<1>1. CASE UNCHANGED vars
  BY <1>1 DEF Frames, StackOK, PlaceOK, Current, vars, queueVars, progressVars
<1>2. ASSUME NEW t \in Thread, SubmitAllowed(t) PROVE Frames'
  <2>1. StackOK(t)' /\ PlaceOK(t)'
    BY <1>2 DEF SubmitAllowed, TypeOK, Frames, StackOK, PlaceOK, EndLabels, At, Goto, Current, progressVars
  <2> QED BY <1>2, <2>1, ThreadAlone, OthersPlaced DEF Step
<1>3. ASSUME NEW t \in Thread, Submit(t) PROVE Frames'
  <2>1. StackOK(t)' /\ PlaceOK(t)'
    BY <1>3 DEF Submit, TypeOK, Frames, StackOK, PlaceOK, EndLabels, At, Goto, Current, progressVars
  <2> QED BY <1>3, <2>1, ThreadAlone, OthersPlaced DEF Step
<1>4. ASSUME NEW t \in Thread, SubmitSignals(t) PROVE Frames'
  <2>1. StackOK(t)' /\ PlaceOK(t)'
    BY <1>4 DEF SubmitSignals, TypeOK, Frames, StackOK, PlaceOK, EndLabels, At, Goto, Current, progressVars
  <2> QED BY <1>4, <2>1, ThreadAlone, OthersPlaced DEF Step
<1>5. ASSUME NEW t \in Thread, SubmitNotifies(t) PROVE Frames'
  <2>1. Notified(t, "work")
    BY <1>5, Notification DEF SubmitNotifies, At
  <2>2. StackOK(t)' /\ PlaceOK(t)'
    BY <1>5, <2>1 DEF SubmitNotifies, Notified, Frames, StackOK, PlaceOK, EndLabels, At, Current, progressVars
  <2> QED BY <1>5, <2>2, ThreadAlone, OthersPlaced DEF Step
<1>6. ASSUME NEW t \in Thread, SubmitRefused(t) PROVE Frames'
  <2>1. StackOK(t)'
    BY <1>6 DEF SubmitRefused, Frames, StackOK
  <2>2. PlaceOK(t)'
    <3>1. t \in Helpers
      BY <1>6, RefusedHelper
    <3>2. Current(t) \in Task
      BY <1>6, <3>1, CurrentIs DEF SubmitRefused, Frames, StackOK
    <3> QED BY <1>6, <3>2 DEF SubmitRefused, TypeOK, Frames, PlaceOK, EndLabels, At, Goto, Current
  <2> QED BY <1>6, <2>1, <2>2, ThreadAlone, OthersPlaced DEF Step
<1>7. ASSUME NEW t \in Thread, Register(t) PROVE Frames'
  <2>1. StackOK(t)' /\ PlaceOK(t)'
    BY <1>7 DEF Register, TypeOK, Frames, StackOK, PlaceOK, EndLabels, At, Goto, Current, progressVars
  <2> QED BY <1>7, <2>1, ThreadAlone, OthersPlaced DEF Step
<1>8. ASSUME NEW t \in Thread, Observe(t) PROVE Frames'
  <2>1. StackOK(t)' /\ PlaceOK(t)'
    BY <1>8 DEF Observe, TypeOK, Frames, StackOK, PlaceOK, EndLabels, At, Goto, Current, Workers, progressVars
  <2> QED BY <1>8, <2>1, ThreadAlone, OthersPlaced DEF Step
<1>9. ASSUME NEW t \in Thread, FutureNotReady(t) PROVE Frames'
  <2>1. StackOK(t)' /\ PlaceOK(t)'
    BY <1>9 DEF FutureNotReady, TypeOK, Frames, StackOK, PlaceOK, EndLabels, At, Goto, Current, progressVars
  <2> QED BY <1>9, <2>1, ThreadAlone, OthersPlaced DEF Step
<1>10. ASSUME NEW t \in Thread, FutureReady(t) PROVE Frames'
  <2>1. StackOK(t)' /\ PlaceOK(t)'
    BY <1>10 DEF FutureReady, TypeOK, Frames, StackOK, PlaceOK, EndLabels, At, Goto, Current, progressVars
  <2> QED BY <1>10, <2>1, ThreadAlone, OthersPlaced DEF Step
<1>11. ASSUME NEW t \in Thread, PassOnSignals(t) PROVE Frames'
  <2>1. StackOK(t)' /\ PlaceOK(t)'
    BY <1>11 DEF PassOnSignals, TypeOK, Frames, StackOK, PlaceOK, EndLabels, At, Goto, Current, progressVars
  <2> QED BY <1>11, <2>1, ThreadAlone, OthersPlaced DEF Step
<1>12. ASSUME NEW t \in Thread, PassOnNotifies(t) PROVE Frames'
  <2>1. Notified(t, "unregister")
    BY <1>12, Notification DEF PassOnNotifies, At
  <2>2. StackOK(t)' /\ PlaceOK(t)'
    BY <1>12, <2>1 DEF PassOnNotifies, Notified, Frames, StackOK, PlaceOK, EndLabels, At, Current, progressVars
  <2> QED BY <1>12, <2>2, ThreadAlone, OthersPlaced DEF Step
<1>13. ASSUME NEW t \in Thread, Unregister(t) PROVE Frames'
  <2>1. StackOK(t)' /\ PlaceOK(t)'
    BY <1>13 DEF Unregister, TypeOK, Frames, StackOK, PlaceOK, EndLabels, At, Goto, Current, progressVars
  <2> QED BY <1>13, <2>1, ThreadAlone, OthersPlaced DEF Step
<1>14. ASSUME NEW t \in Thread, PopLocal(t) PROVE Frames'
  <2>1. StackOK(t)'
    BY <1>14 DEF PopLocal, Frames, StackOK, progressVars
  <2>2. PlaceOK(t)'
    <3>1. CASE Goto(t, "injected") /\ UNCHANGED inHand
      BY <1>14, <3>1 DEF PopLocal, TypeOK, Frames, PlaceOK, EndLabels, At, Goto, Current, progressVars
    <3>2. CASE Take(t, t, Last(queue[t]), Front(queue[t]))
      <4>1. Last(queue[t]) \in Task
        BY <1>14, <3>2, TakeTypes DEF Frames, PlaceOK, PopLocal, At, Queues
      <4> QED BY <1>14, <3>2, <4>1 DEF Take, PopLocal, TypeOK, PlaceOK, EndLabels, Goto
    <3> QED BY <1>14, <3>1, <3>2 DEF PopLocal
  <2> QED BY <1>14, <2>1, <2>2, ThreadAlone, OthersPlaced DEF Step
<1>15. ASSUME NEW t \in Thread, PopInjected(t) PROVE Frames'
  <2>1. StackOK(t)'
    BY <1>15 DEF PopInjected, Frames, StackOK, progressVars
  <2>2. PlaceOK(t)'
    <3>1. CASE UNCHANGED inHand /\ (Goto(t, "missed") \/ Goto(t, "steal"))
      BY <1>15, <3>1 DEF PopInjected, TypeOK, Frames, PlaceOK, EndLabels, At, Goto, Current, progressVars
    <3>2. CASE TakeFirst(t, Injected)
      <4>1. Head(queue[Injected]) \in Task
        BY <1>15, <3>2, TakeTypes DEF TakeFirst, Queues
      <4> QED BY <1>15, <3>2, <4>1 DEF TakeFirst, Take, PopInjected, TypeOK, PlaceOK, EndLabels, Goto
    <3> QED BY <1>15, <3>1, <3>2 DEF PopInjected
  <2> QED BY <1>15, <2>1, <2>2, ThreadAlone, OthersPlaced DEF Step
<1>16. ASSUME NEW t \in Thread, Steal(t) PROVE Frames'
  <2>1. PICK v \in Workers : StealFrom(t, v)
    BY <1>16 DEF Steal
  <2>2. StackOK(t)'
    BY <1>16, <2>1 DEF StealFrom, Frames, StackOK, progressVars
  <2>3. PlaceOK(t)'
    <3>1. CASE UNCHANGED inHand /\ (Goto(t, "missed") \/ Goto(t, "steal"))
      BY <1>16, <2>1, <3>1 DEF StealFrom, TypeOK, Frames, PlaceOK, EndLabels, At, Goto, Current, progressVars
    <3>2. CASE TakeFirst(t, v)
      <4>1. Head(queue[v]) \in Task
        BY <1>16, <3>2, TakeTypes DEF TakeFirst, Queues
      <4> QED BY <1>16, <2>1, <3>2, <4>1 DEF TakeFirst, Take, StealFrom, TypeOK, PlaceOK, EndLabels, Goto
    <3> QED BY <1>16, <2>1, <3>1, <3>2 DEF StealFrom
  <2> QED BY <1>16, <2>2, <2>3, ThreadAlone, OthersPlaced DEF Step
<1>17. ASSUME NEW t \in Thread, StartTask(t) PROVE Frames'
  <2>1. inHand[t] \in Task /\ inHand[t] \in Program
    BY <1>17 DEF Frames, PlaceOK, StartTask, At, Program
  <2>2. stack[t] \in Seq(Program) /\ stack'[t] = Append(stack[t], inHand[t])
    BY <1>17 DEF TypeOK, StartTask
  <2>3. StackOK(t)'
    BY <1>17, <2>1, <2>2, Pushed DEF Frames, StackOK
  <2>4. PlaceOK(t)'
    <3>1. stack'[t] # <<>>
      BY <2>1, <2>2, Pushed
    <3>2. pc'[t] = "work" /\ inHand'[t] = NoTask
      BY <1>17 DEF StartTask, TypeOK, Goto
    <3> QED BY <3>1, <3>2 DEF PlaceOK, EndLabels
  <2> QED BY <1>17, <2>3, <2>4, ThreadAlone, OthersPlaced DEF Step
<1>18. ASSUME NEW t \in Thread, FinishTask(t) PROVE Frames'
  <2>1. StackOK(t)' /\ PlaceOK(t)'
    BY <1>18 DEF FinishTask, TypeOK, Frames, StackOK, PlaceOK, EndLabels, At, Goto, Current, progressVars
  <2> QED BY <1>18, <2>1, ThreadAlone, OthersPlaced DEF Step
<1>19. ASSUME NEW t \in Thread, LookForWaiters(t) PROVE Frames'
  <2>1. StackOK(t)' /\ PlaceOK(t)'
    BY <1>19 DEF LookForWaiters, TypeOK, Frames, StackOK, PlaceOK, EndLabels, At, Goto, Current, progressVars
  <2> QED BY <1>19, <2>1, ThreadAlone, OthersPlaced DEF Step
<1>20. ASSUME NEW t \in Thread, NotifyWaiters(t) PROVE Frames'
  <2>1. Notified(t, "pop")
    BY <1>20, Notification DEF NotifyWaiters, At
  <2>2. StackOK(t)' /\ PlaceOK(t)'
    BY <1>20, <2>1 DEF NotifyWaiters, Notified, Frames, StackOK, PlaceOK, EndLabels, At, Current, progressVars
  <2> QED BY <1>20, <2>2, ThreadAlone, OthersPlaced DEF Step
<1>21. ASSUME NEW t \in Thread, ReturnFromTask(t) PROVE Frames'
  <2>1. stack[t] \in Seq(Program) /\ stack'[t] = Front(stack[t]) /\ stack[t] # <<>>
    BY <1>21 DEF TypeOK, ReturnFromTask, Frames, PlaceOK, At
  <2>2. Current(t) \in Task
    BY <1>21 DEF ReturnFromTask, Frames, PlaceOK, At
  <2>3. StackOK(t)'
    <3>1. CASE t \in Helpers
      BY <1>21, <2>1, <3>1, Popped DEF Frames, StackOK
    <3>2. CASE t \notin Helpers
      <4>1. stack[t][1] = Root[t] /\ Root[t] \notin Task
        BY <1>21, <3>2, ExecutorAssumption DEF Frames, StackOK, Thread, Workers
      <4>2. Len(stack[t]) # 1
        BY <1>21, <2>1, <2>2, <4>1, CurrentIs
      <4>3. stack'[t] # <<>> /\ 1 \in 1..(Len(stack[t]) - 1)
        <5>1. Len(stack'[t]) = Len(stack[t]) - 1 /\ Len(stack[t]) \in Nat \ {0}
          BY <2>1, Popped
        <5>2. Len(stack[t]) - 1 \in Nat \ {0}
          BY <4>2, <5>1
        <5>3. stack'[t] # <<>>
          BY <5>1, <5>2
        <5> QED BY <5>1, <5>2, <5>3
      <4>4. stack'[t][1] = stack[t][1]
        BY <2>1, <4>3, Popped
      <4>5. \A i \in DOMAIN stack'[t] : stack'[t][i] = stack[t][i] /\ i \in DOMAIN stack[t]
        <5> DEFINE n == Len(stack[t])
        <5>1. /\ DOMAIN stack'[t] = 1..(n - 1) /\ DOMAIN stack[t] = 1..n /\ n \in Nat \ {0}
              /\ \A i \in 1..(n - 1) : stack'[t][i] = stack[t][i]
          BY <2>1, Popped
        <5> HIDE DEF n
        <5> QED BY <5>1
      <4> QED BY <1>21, <3>2, <4>3, <4>4, <4>5 DEF Frames, StackOK
    <3> QED BY <3>1, <3>2
  <2>4. PlaceOK(t)'
    BY <1>21 DEF ReturnFromTask, TypeOK, Frames, PlaceOK, EndLabels, At, Goto
  <2> QED BY <1>21, <2>3, <2>4, ThreadAlone, OthersPlaced DEF Step
<1>22. ASSUME NEW t \in Thread, HelperExits(t) PROVE Frames'
  <2>1. StackOK(t)' /\ PlaceOK(t)'
    BY <1>22 DEF HelperExits, Leaves, TypeOK, Frames, StackOK, PlaceOK, EndLabels, At, Goto, Current, progressVars
  <2> QED BY <1>22, <2>1, ThreadAlone, OthersPlaced DEF Step
<1>23. ASSUME NEW t \in Thread, Sleep(t) PROVE Frames'
  <2>1. StackOK(t)' /\ PlaceOK(t)'
    BY <1>23 DEF Sleep, TypeOK, Frames, StackOK, PlaceOK, EndLabels, At, Goto, Current, progressVars
  <2> QED BY <1>23, <2>1, ThreadAlone, OthersPlaced DEF Step
<1>24. ASSUME NEW t \in Thread, OutsiderDone(t) PROVE Frames'
  <2>1. StackOK(t)'
    BY <1>24 DEF OutsiderDone, Frames, StackOK, progressVars
  <2>2. t \notin Helpers
    BY <1>24, ExecutorAssumption DEF OutsiderDone, Workers
  <2>3. PlaceOK(t)'
    BY <1>24, <2>2 DEF OutsiderDone, TypeOK, Frames, PlaceOK, EndLabels, At, Goto, progressVars
  <2> QED BY <1>24, <2>1, <2>3, ThreadAlone, OthersPlaced DEF Step
<1>25. CASE Shutdown
  <2>1. Owner \in Thread /\ Owner \notin Helpers
    BY ExecutorAssumption DEF Thread, Workers
  <2>2. UNCHANGED <<stack, inHand>>
    BY <1>25 DEF Shutdown, progressVars
  <2>3. StackOK(Owner)'
    BY <2>1, <2>2 DEF Frames, StackOK
  <2>4. PlaceOK(Owner)'
    BY <1>25, <2>1, <2>2 DEF Shutdown, TypeOK, Frames, PlaceOK, EndLabels, At, Goto
  <2> QED BY <1>25, <2>3, <2>4, OwnerAlone, OthersPlaced DEF ShutdownStep, Thread, Workers
<1>26. CASE ShutdownSignals
  <2>1. Owner \in Thread /\ Owner \notin Helpers
    BY ExecutorAssumption DEF Thread, Workers
  <2>2. UNCHANGED <<stack, inHand>>
    BY <1>26 DEF ShutdownSignals, progressVars
  <2>3. StackOK(Owner)'
    BY <2>1, <2>2 DEF Frames, StackOK
  <2>4. PlaceOK(Owner)'
    BY <1>26, <2>1, <2>2 DEF ShutdownSignals, TypeOK, Frames, PlaceOK, EndLabels, At, Goto
  <2> QED BY <1>26, <2>3, <2>4, OwnerAlone, OthersPlaced DEF ShutdownStep, Thread, Workers
<1>27. CASE ShutdownNotifies
  <2>1. Notified(Owner, "join")
    BY <1>27, Notification DEF ShutdownNotifies, At, Thread, Workers
  <2>2. StackOK(Owner)' /\ PlaceOK(Owner)'
    BY <1>27, <2>1 DEF ShutdownNotifies, Notified, Frames, StackOK, PlaceOK, EndLabels, At, Thread, Workers, progressVars
  <2> QED BY <1>27, <2>2, OwnerAlone, OthersPlaced DEF ShutdownStep, Thread, Workers
<1>28. CASE JoinHelpers
  <2>1. Owner \in Thread /\ Owner \notin Helpers
    BY ExecutorAssumption DEF Thread, Workers
  <2>2. UNCHANGED <<stack, inHand>>
    BY <1>28 DEF JoinHelpers, progressVars
  <2>3. StackOK(Owner)'
    BY <2>1, <2>2 DEF Frames, StackOK
  <2>4. PlaceOK(Owner)'
    BY <1>28, <2>1, <2>2 DEF JoinHelpers, TypeOK, Frames, PlaceOK, EndLabels, At, Goto
  <2> QED BY <1>28, <2>3, <2>4, OwnerAlone, OthersPlaced DEF ShutdownStep, Thread, Workers
<1> QED BY <1>1, <1>2, <1>3, <1>4, <1>5, <1>6, <1>7, <1>8, <1>9, <1>10, <1>11, <1>12, <1>13, <1>14, <1>15, <1>16, <1>17, <1>18, <1>19, <1>20, <1>21, <1>22, <1>23, <1>24, <1>25, <1>26, <1>27, <1>28 DEF Next, Step, ShutdownStep, AllEnded

----------------------------------------------------------------------------
(* The destructor.                                                         *)

\* A thread that goes from one label to another, none of them at the end.
LEMMA ShuttingKept ==
  ASSUME TypeOK, Shutting, NEW t \in Thread, OthersStay(t), stopping' = stopping,
         pc[t] \notin EndLabels \cup {"ended"}, pc'[t] \notin EndLabels \cup {"ended"}
  PROVE  Shutting'
<1>1. \A u \in Thread : \A l \in EndLabels \cup {"ended"} : pc'[u] = l => pc[u] = l
  BY DEF OthersStay, EndLabels
<1>2. \A u \in Thread : \A l \in EndLabels \cup {"ended"} : pc[u] = l => pc'[u] = l
  BY DEF OthersStay, EndLabels
<1>3. Owner \in Thread /\ Helpers \subseteq Thread /\ Outsiders \subseteq Thread
      /\ (t = Owner \/ t \in Helpers \/ t \in Outsiders)
  BY DEF Thread, Workers
<1>4. stopping => t \in Helpers
  BY <1>3 DEF Shutting
<1>5. stopping' <=> pc'[Owner] \in EndLabels \cup {"ended"}
  BY <1>1, <1>2, <1>3 DEF Shutting
<1>6. stopping' => \A u \in Outsiders : pc'[u] = "ended"
  BY <1>2, <1>3 DEF Shutting
<1>7. \A h \in Helpers : pc'[h] = "ended" => stopping'
  BY <1>1, <1>3 DEF Shutting
<1>8. pc'[Owner] # "ended"
  BY <1>1, <1>3, <1>4 DEF Shutting
<1>9. ~(Helpers # {} /\ \A h \in Helpers : pc'[h] = "ended")
  BY <1>4, <1>7
<1> QED BY <1>5, <1>6, <1>7, <1>8, <1>9 DEF Shutting

\* Every step keeps to the order of a shutdown.
LEMMA StepShutting ==
  ASSUME TypeOK, Frames, Shutting, [Next]_vars
  PROVE  Shutting'
<1>1. CASE UNCHANGED vars
  BY <1>1 DEF Shutting, vars, queueVars
<1>2. ASSUME NEW t \in Thread, SubmitAllowed(t) PROVE Shutting'
  BY <1>2, ThreadAlone, ShuttingKept DEF SubmitAllowed, TypeOK, EndLabels, At, Goto, Step
<1>3. ASSUME NEW t \in Thread, Submit(t) PROVE Shutting'
  BY <1>3, ThreadAlone, ShuttingKept DEF Submit, TypeOK, EndLabels, At, Goto, Step
<1>4. ASSUME NEW t \in Thread, SubmitSignals(t) PROVE Shutting'
  BY <1>4, ThreadAlone, ShuttingKept DEF SubmitSignals, TypeOK, EndLabels, At, Goto, Step
<1>5. ASSUME NEW t \in Thread, SubmitNotifies(t) PROVE Shutting'
  <2>1. Notified(t, "work")
    BY <1>5, Notification DEF SubmitNotifies, At
  <2> QED BY <1>5, <2>1, ThreadAlone, ShuttingKept DEF SubmitNotifies, Notified, EndLabels, At, Step
<1>6. ASSUME NEW t \in Thread, SubmitRefused(t) PROVE Shutting'
  BY <1>6, ThreadAlone, ShuttingKept DEF SubmitRefused, TypeOK, EndLabels, At, Goto, Step
<1>7. ASSUME NEW t \in Thread, Register(t) PROVE Shutting'
  BY <1>7, ThreadAlone, ShuttingKept DEF Register, TypeOK, EndLabels, At, Goto, Step
<1>8. ASSUME NEW t \in Thread, Observe(t) PROVE Shutting'
  BY <1>8, ThreadAlone, ShuttingKept DEF Observe, TypeOK, EndLabels, At, Goto, Step
<1>9. ASSUME NEW t \in Thread, FutureNotReady(t) PROVE Shutting'
  BY <1>9, ThreadAlone, ShuttingKept DEF FutureNotReady, TypeOK, EndLabels, At, Goto, Step
<1>10. ASSUME NEW t \in Thread, FutureReady(t) PROVE Shutting'
  BY <1>10, ThreadAlone, ShuttingKept DEF FutureReady, TypeOK, EndLabels, At, Goto, Step
<1>11. ASSUME NEW t \in Thread, PassOnSignals(t) PROVE Shutting'
  BY <1>11, ThreadAlone, ShuttingKept DEF PassOnSignals, TypeOK, EndLabels, At, Goto, Step
<1>12. ASSUME NEW t \in Thread, PassOnNotifies(t) PROVE Shutting'
  <2>1. Notified(t, "unregister")
    BY <1>12, Notification DEF PassOnNotifies, At
  <2> QED BY <1>12, <2>1, ThreadAlone, ShuttingKept DEF PassOnNotifies, Notified, EndLabels, At, Step
<1>13. ASSUME NEW t \in Thread, Unregister(t) PROVE Shutting'
  BY <1>13, ThreadAlone, ShuttingKept DEF Unregister, TypeOK, EndLabels, At, Goto, Step
<1>14. ASSUME NEW t \in Thread, PopLocal(t) PROVE Shutting'
  BY <1>14, ThreadAlone, ShuttingKept DEF PopLocal, Take, TypeOK, EndLabels, At, Goto, Step
<1>15. ASSUME NEW t \in Thread, PopInjected(t) PROVE Shutting'
  BY <1>15, ThreadAlone, ShuttingKept DEF PopInjected, TakeFirst, Take, TypeOK, EndLabels, At, Goto, Step
<1>16. ASSUME NEW t \in Thread, Steal(t) PROVE Shutting'
  BY <1>16, ThreadAlone, ShuttingKept DEF Steal, StealFrom, TakeFirst, Take, TypeOK, EndLabels, At, Goto, Step
<1>17. ASSUME NEW t \in Thread, StartTask(t) PROVE Shutting'
  BY <1>17, ThreadAlone, ShuttingKept DEF StartTask, TypeOK, EndLabels, At, Goto, Step
<1>18. ASSUME NEW t \in Thread, FinishTask(t) PROVE Shutting'
  BY <1>18, ThreadAlone, ShuttingKept DEF FinishTask, TypeOK, EndLabels, At, Goto, Step
<1>19. ASSUME NEW t \in Thread, LookForWaiters(t) PROVE Shutting'
  BY <1>19, ThreadAlone, ShuttingKept DEF LookForWaiters, TypeOK, EndLabels, At, Goto, Step
<1>20. ASSUME NEW t \in Thread, NotifyWaiters(t) PROVE Shutting'
  <2>1. Notified(t, "pop")
    BY <1>20, Notification DEF NotifyWaiters, At
  <2> QED BY <1>20, <2>1, ThreadAlone, ShuttingKept DEF NotifyWaiters, Notified, EndLabels, At, Step
<1>21. ASSUME NEW t \in Thread, ReturnFromTask(t) PROVE Shutting'
  BY <1>21, ThreadAlone, ShuttingKept DEF ReturnFromTask, TypeOK, EndLabels, At, Goto, Step
<1>22. ASSUME NEW t \in Thread, HelperExits(t) PROVE Shutting'
  <2>1. /\ t \in Helpers /\ stopping /\ pending = 0 /\ UNCHANGED <<stopping, pending>>
        /\ pc[t] = "missed" /\ pc'[t] = "ended" /\ \A u \in Thread : u # t => pc'[u] = pc[u]
    BY <1>22 DEF HelperExits, Leaves, At, Goto, TypeOK, queueVars
  <2>2. Owner # t /\ t \notin Outsiders /\ Helpers \subseteq Thread /\ Outsiders \subseteq Thread
        /\ Owner \in Thread
    BY <2>1, ExecutorAssumption DEF Thread, Workers
  <2> QED BY <2>1, <2>2 DEF Shutting
<1>23. ASSUME NEW t \in Thread, Sleep(t) PROVE Shutting'
  BY <1>23, ThreadAlone, ShuttingKept DEF Sleep, TypeOK, EndLabels, At, Goto, Step
<1>24. ASSUME NEW t \in Thread, OutsiderDone(t) PROVE Shutting'
  <2>1. /\ t \in Outsiders /\ UNCHANGED <<stopping, pending>>
        /\ pc'[t] = "ended" /\ \A u \in Thread : u # t => pc'[u] = pc[u]
    BY <1>24 DEF OutsiderDone, Goto, TypeOK, queueVars
  <2>2. Owner # t /\ t \notin Helpers /\ Helpers \subseteq Thread /\ Outsiders \subseteq Thread
        /\ Owner \in Thread
    BY <2>1, ExecutorAssumption DEF Thread, Workers
  <2> QED BY <2>1, <2>2 DEF Shutting
<1>25. CASE Shutdown
  <2>1. Owner \in Thread /\ Owner \notin Helpers /\ Owner \notin Outsiders
        /\ Helpers \subseteq Thread /\ Outsiders \subseteq Thread
    BY ExecutorAssumption DEF Thread, Workers
  <2>2. \A u \in Thread : u # Owner => pc'[u] = pc[u]
    BY <1>25 DEF Shutdown, Goto, TypeOK
  <2> QED BY <1>25, <2>1, <2>2 DEF Shutdown, Shutting, EndLabels, At, Goto, TypeOK, queueVars
<1>26. CASE ShutdownSignals
  <2>1. Owner \in Thread /\ Owner \notin Helpers /\ Owner \notin Outsiders
        /\ Helpers \subseteq Thread /\ Outsiders \subseteq Thread
    BY ExecutorAssumption DEF Thread, Workers
  <2>2. \A u \in Thread : u # Owner => pc'[u] = pc[u]
    BY <1>26 DEF ShutdownSignals, Goto, TypeOK
  <2> QED BY <1>26, <2>1, <2>2 DEF ShutdownSignals, Shutting, EndLabels, At, Goto, TypeOK, queueVars
<1>27. CASE ShutdownNotifies
  <2>1. Owner \in Thread /\ Owner \notin Helpers /\ Owner \notin Outsiders
        /\ Helpers \subseteq Thread /\ Outsiders \subseteq Thread
    BY ExecutorAssumption DEF Thread, Workers
  <2>2. Notified(Owner, "join")
    BY <1>27, <2>1, Notification DEF ShutdownNotifies, At
  <2>3. \A u \in Thread : u # Owner => (pc'[u] = "ended" <=> pc[u] = "ended")
    BY <2>2 DEF Notified
  <2> QED BY <1>27, <2>1, <2>2, <2>3 DEF ShutdownNotifies, Notified, Shutting, EndLabels, At, queueVars
<1>28. CASE JoinHelpers
  <2>1. Owner \in Thread /\ Owner \notin Helpers /\ Owner \notin Outsiders
        /\ Helpers \subseteq Thread /\ Outsiders \subseteq Thread
    BY ExecutorAssumption DEF Thread, Workers
  <2>2. \A u \in Thread : u # Owner => pc'[u] = pc[u]
    BY <1>28 DEF JoinHelpers, Goto, TypeOK
  <2> QED BY <1>28, <2>1, <2>2 DEF JoinHelpers, Shutting, EndLabels, At, Goto, TypeOK, queueVars
<1> QED BY <1>1, <1>2, <1>3, <1>4, <1>5, <1>6, <1>7, <1>8, <1>9, <1>10, <1>11, <1>12, <1>13, <1>14, <1>15, <1>16, <1>17, <1>18, <1>19, <1>20, <1>21, <1>22, <1>23, <1>24, <1>25, <1>26, <1>27, <1>28 DEF Next, Step, ShutdownStep, AllEnded

----------------------------------------------------------------------------
(* Where tasks are.                                                        *)

\* In a queue, in a hand, on a stack.
InQueues(x) == \E q \in Queues : \E i \in DOMAIN queue[q] : queue[q][i] = x
InHands(x) == \E t \in Thread : inHand[t] = x
OnStacks(x) == \E t \in Thread : \E i \in DOMAIN stack[t] : stack[t][i] = x

\* In no two places of one kind.
QueuesApart ==
  \A q, r \in Queues : \A i \in DOMAIN queue[q], j \in DOMAIN queue[r] :
    queue[q][i] = queue[r][j] => q = r /\ i = j
HandsApart == \A t, u \in Thread : inHand[t] = inHand[u] /\ inHand[t] # NoTask => t = u
StacksApart ==
  \A t, u \in Thread : \A i \in DOMAIN stack[t], j \in DOMAIN stack[u] :
    stack[t][i] = stack[u][j] => t = u /\ i = j

\* In places of one kind only; nowhere before it is submitted, somewhere until
\* it has finished, and from then on a stack at most.
OneKind ==
  /\ \A x \in Task : /\ ~(InQueues(x) /\ InHands(x))
                     /\ ~(InQueues(x) /\ OnStacks(x))
                     /\ ~(InHands(x) /\ OnStacks(x))
                     /\ InQueues(x) \/ InHands(x) \/ OnStacks(x) \/ x \in finished
                          => x \in SubmittedTasks
  /\ \A x \in SubmittedTasks : InQueues(x) \/ InHands(x) \/ OnStacks(x) \/ x \in finished
  /\ \A x \in Task : x \in finished => ~InQueues(x) /\ ~InHands(x)

Once == QueuesApart /\ HandsApart /\ StacksApart /\ OneKind

\* A task no queue has is queued.
LEMMA QueueGrows ==
  ASSUME TypeOK, QueuesApart, NEW q \in Queues, NEW x \in Task, ~InQueues(x),
         queue' = [queue EXCEPT ![q] = Append(@, x)]
  PROVE  QueuesApart' /\ \A y : InQueues(y)' <=> InQueues(y) \/ y = x
<1> DEFINE n == Len(queue[q])
<1>1. /\ queue'[q] = Append(queue[q], x) /\ queue[q] \in Seq(Task)
      /\ \A r \in Queues : r # q => queue'[r] = queue[r]
  BY DEF TypeOK
<1>2. /\ n \in Nat /\ DOMAIN queue'[q] = 1..(n + 1) /\ DOMAIN queue[q] = 1..n
      /\ \A i \in 1..n : queue'[q][i] = queue[q][i]
      /\ queue'[q][n + 1] = x
  BY <1>1, Pushed
<1> HIDE DEF n
<1>3. \A r \in Queues : \A i \in DOMAIN queue'[r] :
        \/ i \in DOMAIN queue[r] /\ queue'[r][i] = queue[r][i]
        \/ r = q /\ i = n + 1 /\ queue'[r][i] = x
  BY <1>1, <1>2
<1>4. \A r \in Queues : \A i \in DOMAIN queue[r] :
        i \in DOMAIN queue'[r] /\ queue'[r][i] = queue[r][i] /\ queue[r][i] # x
  BY <1>1, <1>2 DEF InQueues
<1>5. QueuesApart'
  BY <1>3, <1>4 DEF QueuesApart
<1>6. \A y : InQueues(y)' => InQueues(y) \/ y = x
  BY <1>3 DEF InQueues
<1>7. \A y : InQueues(y) => InQueues(y)'
  BY <1>4 DEF InQueues
<1>8. InQueues(x)'
  BY <1>2 DEF InQueues
<1> QED BY <1>5, <1>6, <1>7, <1>8

\* A task is taken out of the front or the back of a queue.
LEMMA QueueShrinks ==
  ASSUME TypeOK, QueuesApart, NEW t \in Thread, NEW q \in Queues, NEW x, NEW rest,
         Take(t, q, x, rest),
         \/ x = Last(queue[q]) /\ rest = Front(queue[q])
         \/ x = Head(queue[q]) /\ rest = Tail(queue[q])
  PROVE  /\ QueuesApart' /\ InQueues(x)
         /\ \A y : InQueues(y)' <=> InQueues(y) /\ y # x
<1> DEFINE n == Len(queue[q])
<1>1. /\ queue'[q] = rest /\ queue[q] \in Seq(Task) /\ queue[q] # <<>>
      /\ \A r \in Queues : r # q => queue'[r] = queue[r]
  BY DEF TypeOK, Take
<1>2. n \in Nat \ {0} /\ DOMAIN queue[q] = 1..n /\ DOMAIN queue'[q] = 1..(n - 1)
  BY <1>1, Popped, Dequeued
<1> HIDE DEF n
<1> DEFINE Shift(d, k) ==
             /\ k \in 1..n /\ x = queue[q][k]
             /\ \A i \in 1..(n - 1) : i + d \in 1..n /\ i + d # k /\ queue'[q][i] = queue[q][i + d]
             /\ \A j \in 1..n : j # k => j - d \in 1..(n - 1) /\ queue'[q][j - d] = queue[q][j]
<1>3. ASSUME x = Last(queue[q]), rest = Front(queue[q])
      PROVE  \E d \in {0, 1}, k \in 1..n : Shift(d, k)
  <2>1. x = queue[q][n] /\ \A i \in 1..(n - 1) : queue'[q][i] = queue[q][i]
    BY <1>1, <1>3, Popped DEF n
  <2>2. /\ n \in 1..n
        /\ \A i \in 1..(n - 1) : i + 0 = i /\ i \in 1..n /\ i # n
        /\ \A j \in 1..n : j # n => j - 0 = j /\ j \in 1..(n - 1)
    BY <1>2
  <2>3. Shift(0, n)
    BY <2>1, <2>2
  <2> QED BY <2>2, <2>3
<1>4. ASSUME x = Head(queue[q]), rest = Tail(queue[q])
      PROVE  \E d \in {0, 1}, k \in 1..n : Shift(d, k)
  <2>1. x = queue[q][1] /\ \A i \in 1..(n - 1) : queue'[q][i] = queue[q][i + 1]
    BY <1>1, <1>4, Dequeued DEF n
  <2>2. /\ 1 \in 1..n
        /\ \A i \in 1..(n - 1) : i + 1 \in 1..n /\ i + 1 # 1
        /\ \A j \in 1..n : j # 1 => j - 1 \in 1..(n - 1) /\ (j - 1) + 1 = j
    BY <1>2
  <2>3. Shift(1, 1)
    BY <2>1, <2>2
  <2> QED BY <2>2, <2>3
<1>5. PICK d \in {0, 1}, k \in 1..n : Shift(d, k)
  <2> HIDE DEF Shift
  <2> QED BY <1>3, <1>4
<1>6. \A i \in DOMAIN queue'[q] : /\ i + d \in DOMAIN queue[q] /\ i + d # k
                                  /\ queue'[q][i] = queue[q][i + d]
  BY <1>2, <1>5
<1>7. \A j \in DOMAIN queue[q] : j # k => j - d \in DOMAIN queue'[q] /\ queue'[q][j - d] = queue[q][j]
  BY <1>2, <1>5
<1>8. k \in DOMAIN queue[q] /\ x = queue[q][k]
  BY <1>2, <1>5
<1>9. InQueues(x) /\ \A r \in Queues : \A i \in DOMAIN queue[r] : queue[r][i] = x => r = q /\ i = k
  BY <1>8 DEF QueuesApart, InQueues
<1>10. QueuesApart'
  <2> SUFFICES ASSUME NEW r \in Queues, NEW s \in Queues, NEW i \in DOMAIN queue'[r],
                      NEW j \in DOMAIN queue'[s], queue'[r][i] = queue'[s][j]
               PROVE  r = s /\ i = j
    BY DEF QueuesApart
  <2>1. i \in Int /\ j \in Int
    <3>1. queue[r] \in Seq(Task) /\ queue[s] \in Seq(Task)
      BY DEF TypeOK
    <3> QED BY <1>1, <1>2, <3>1
  <2>2. CASE r = q /\ s = q
    BY <1>6, <2>1, <2>2 DEF QueuesApart
  <2>3. CASE r = q /\ s # q
    BY <1>1, <1>6, <2>3 DEF QueuesApart
  <2>4. CASE r # q /\ s = q
    BY <1>1, <1>6, <2>4 DEF QueuesApart
  <2>5. CASE r # q /\ s # q
    BY <1>1, <2>5 DEF QueuesApart
  <2> QED BY <2>2, <2>3, <2>4, <2>5
<1>11. \A y : InQueues(y)' => InQueues(y) /\ y # x
  <2> SUFFICES ASSUME NEW y, NEW r \in Queues, NEW i \in DOMAIN queue'[r], queue'[r][i] = y
               PROVE  InQueues(y) /\ y # x
    BY DEF InQueues
  <2>1. CASE r = q
    BY <1>6, <1>9, <2>1 DEF InQueues
  <2>2. CASE r # q
    BY <1>1, <1>9, <2>2 DEF InQueues
  <2> QED BY <2>1, <2>2
<1>12. \A y : InQueues(y) /\ y # x => InQueues(y)'
  <2> SUFFICES ASSUME NEW y, NEW r \in Queues, NEW i \in DOMAIN queue[r], queue[r][i] = y, y # x
               PROVE  InQueues(y)'
    BY DEF InQueues
  <2>1. CASE r = q
    BY <1>8, <1>7, <2>1 DEF InQueues
  <2>2. CASE r # q
    BY <1>1, <2>2 DEF InQueues
  <2> QED BY <2>1, <2>2
<1> QED BY <1>9, <1>10, <1>11, <1>12

\* A program goes onto a stack.
LEMMA StackGrows ==
  ASSUME TypeOK, StacksApart, NEW t \in Thread, NEW x \in Program, ~OnStacks(x),
         stack' = [stack EXCEPT ![t] = Append(@, x)]
  PROVE  StacksApart' /\ \A y : OnStacks(y)' <=> OnStacks(y) \/ y = x
<1> DEFINE n == Len(stack[t])
<1>1. /\ stack'[t] = Append(stack[t], x) /\ stack[t] \in Seq(Program)
      /\ \A u \in Thread : u # t => stack'[u] = stack[u]
  BY DEF TypeOK
<1>2. /\ n \in Nat /\ DOMAIN stack'[t] = 1..(n + 1) /\ DOMAIN stack[t] = 1..n
      /\ \A i \in 1..n : stack'[t][i] = stack[t][i]
      /\ stack'[t][n + 1] = x
  BY <1>1, Pushed
<1> HIDE DEF n
<1>3. \A u \in Thread : \A i \in DOMAIN stack'[u] :
        \/ i \in DOMAIN stack[u] /\ stack'[u][i] = stack[u][i]
        \/ u = t /\ i = n + 1 /\ stack'[u][i] = x
  BY <1>1, <1>2
<1>4. \A u \in Thread : \A i \in DOMAIN stack[u] :
        i \in DOMAIN stack'[u] /\ stack'[u][i] = stack[u][i] /\ stack[u][i] # x
  BY <1>1, <1>2 DEF OnStacks
<1>5. StacksApart'
  BY <1>3, <1>4 DEF StacksApart
<1>6. \A y : OnStacks(y)' => OnStacks(y) \/ y = x
  BY <1>3 DEF OnStacks
<1>7. \A y : OnStacks(y) => OnStacks(y)'
  BY <1>4 DEF OnStacks
<1>8. OnStacks(x)'
  BY <1>2 DEF OnStacks
<1> QED BY <1>5, <1>6, <1>7, <1>8

\* The program on top leaves a stack.
LEMMA StackShrinks ==
  ASSUME TypeOK, StacksApart, NEW t \in Thread, stack[t] # <<>>,
         stack' = [stack EXCEPT ![t] = Front(@)]
  PROVE  StacksApart' /\ \A y : OnStacks(y)' <=> OnStacks(y) /\ y # Current(t)
<1> DEFINE n == Len(stack[t])
<1>1. /\ stack'[t] = Front(stack[t]) /\ stack[t] \in Seq(Program)
      /\ \A u \in Thread : u # t => stack'[u] = stack[u]
  BY DEF TypeOK
<1>2. /\ n \in Nat \ {0} /\ DOMAIN stack'[t] = 1..(n - 1) /\ DOMAIN stack[t] = 1..n
      /\ \A i \in 1..(n - 1) : stack'[t][i] = stack[t][i]
      /\ Current(t) = stack[t][n]
  BY <1>1, Popped DEF Current
<1> HIDE DEF n
<1>3. \A u \in Thread : \A i \in DOMAIN stack'[u] :
        i \in DOMAIN stack[u] /\ stack'[u][i] = stack[u][i] /\ ~(u = t /\ i = n)
  BY <1>1, <1>2
<1>4. \A u \in Thread : \A i \in DOMAIN stack[u] :
        ~(u = t /\ i = n) => i \in DOMAIN stack'[u] /\ stack'[u][i] = stack[u][i]
  BY <1>1, <1>2
<1>5. StacksApart'
  BY <1>3 DEF StacksApart
<1>6. \A y : OnStacks(y)' => OnStacks(y) /\ y # Current(t)
  BY <1>2, <1>3 DEF OnStacks, StacksApart
<1>7. \A y : OnStacks(y) /\ y # Current(t) => OnStacks(y)'
  BY <1>2, <1>4 DEF OnStacks
<1> QED BY <1>5, <1>6, <1>7

\* No two threads are in the same program.
LEMMA CurrentApart ==
  ASSUME TypeOK, StacksApart, NEW t \in Thread, NEW u \in Thread,
         stack[t] # <<>>, stack[u] # <<>>, Current(t) = Current(u)
  PROVE  t = u
  BY CurrentIs DEF StacksApart

\* What is submitted was not submitted before.
LEMMA NewTask ==
  ASSUME TypeOK, Frames, Counted, NEW t \in Thread, Submit(t)
  PROVE  LET child == Children[Current(t)][submitted[Current(t)] + 1]
         IN  /\ child \in Task /\ child \notin SubmittedTasks
             /\ SubmittedTasks' = SubmittedTasks \cup {child}
<1> DEFINE x == Current(t)
           n == submitted[x]
           child == Children[x][n + 1]
<1>1. /\ x \in Program /\ n + 1 \in DOMAIN Children[x] /\ child \in Task
      /\ submitted' = [submitted EXCEPT ![x] = n + 1] /\ submitted \in [Program -> Nat]
  BY ChildIs DEF Submit, At, TypeOK
<1>2. \A y \in Program : /\ Children[y] \in Seq(Task)
                         /\ \A i \in 1..submitted[y] : i \in DOMAIN Children[y]
  <2> SUFFICES ASSUME NEW y \in Program
               PROVE  /\ Children[y] \in Seq(Task)
                      /\ \A i \in 1..submitted[y] : i \in DOMAIN Children[y]
    OBVIOUS
  <2>1. Children[y] \in Seq(Task)
    BY ExecutorAssumption
  <2>2. submitted[y] \in Nat /\ submitted[y] <= Len(Children[y])
    BY DEF TypeOK, Counted
  <2> QED BY <2>1, <2>2
<1> HIDE DEF x, n
<1>3. child \notin SubmittedTasks
  <2> SUFFICES ASSUME NEW y \in Program, NEW i \in 1..submitted[y], Children[y][i] = child
               PROVE  FALSE
    BY DEF SubmittedTasks
  <2>1. y = x /\ i = n + 1
    BY <1>1, <1>2, ExecutorAssumption
  <2> QED BY <1>1, <2>1 DEF n
<1>4. SubmittedTasks \subseteq SubmittedTasks' /\ child \in SubmittedTasks'
  <2>1. \A y \in Program : 1..submitted[y] \subseteq 1..submitted'[y]
    BY <1>1 DEF n
  <2>2. n + 1 \in 1..submitted'[x]
    BY <1>1 DEF n
  <2> QED BY <1>1, <2>1, <2>2 DEF SubmittedTasks
<1>5. SubmittedTasks' \subseteq SubmittedTasks \cup {child}
  <2> SUFFICES ASSUME NEW y \in Program, NEW i \in 1..submitted'[y], Children[y][i] # child
               PROVE  Children[y][i] \in SubmittedTasks
    BY DEF SubmittedTasks
  <2>1. i \in 1..submitted[y]
    BY <1>1 DEF n
  <2> QED BY <2>1 DEF SubmittedTasks
<1>6. child \in Task
  BY <1>1
<1> USE DEF x, n
<1> QED BY <1>3, <1>4, <1>5, <1>6

\* Programs still submit their children once each.
LEMMA StepCounted ==
  ASSUME TypeOK, Frames, Counted, Once, [Next]_vars
  PROVE  Counted'
<1>1. ASSUME NEW t \in Thread, OthersStay(t), UNCHANGED submitted, pc'[t] # "submitting"
      PROVE  Counted'
  BY <1>1 DEF Counted, OthersStay, Current
<1>2. CASE UNCHANGED vars
  BY <1>2 DEF Counted, Current, vars, progressVars
<1>3. ASSUME NEW t \in Thread, SubmitAllowed(t) PROVE Counted'
  <2>1. UNCHANGED <<submitted, stack>> /\ submitted[Current(t)] < Len(Children[Current(t)])
        /\ \A u \in Thread : u # t => pc'[u] = pc[u]
    BY <1>3 DEF SubmitAllowed, Goto, TypeOK, progressVars
  <2> QED BY <2>1 DEF Counted, Current
<1>4. ASSUME NEW t \in Thread, Submit(t) PROVE Counted'
  <2> DEFINE x == Current(t)
  <2>1. /\ x \in Program /\ submitted' = [submitted EXCEPT ![x] = submitted[x] + 1]
        /\ submitted[x] < Len(Children[x]) /\ stack[t] # <<>> /\ UNCHANGED stack
        /\ Children[x] \in Seq(Task) /\ submitted \in [Program -> Nat]
    <3>1. x \in Program /\ Children[x] \in Seq(Task)
      BY <1>4, ChildIs, ExecutorAssumption DEF Submit, At
    <3>2. submitted[x] < Len(Children[x]) /\ stack[t] # <<>>
      BY <1>4 DEF Submit, At, Counted, Frames, PlaceOK
    <3> QED BY <1>4, <3>1, <3>2 DEF Submit, TypeOK
  <2>2. \A u \in Thread : pc'[u] = "submitting" => u # t /\ pc[u] = "submitting"
    BY <1>4 DEF Submit, Goto, TypeOK
  <2>3. \A u \in Thread : pc[u] = "submitting" /\ u # t => Current(u) # x /\ Current(u) \in Program
    BY <1>4, <2>1, CurrentApart, CurrentIs DEF Once, Frames, PlaceOK
  <2> HIDE DEF x
  <2>4. \A y \in Program : submitted'[y] <= Len(Children[y])
    <3>1. submitted[x] \in Nat /\ Len(Children[x]) \in Nat
      BY <2>1
    <3>2. submitted'[x] <= Len(Children[x])
      BY <2>1, <3>1
    <3> QED BY <2>1, <3>2 DEF Counted
  <2>5. \A u \in Thread : pc'[u] = "submitting" => submitted'[Current(u)] < Len(Children[Current(u)])
    BY <2>1, <2>2, <2>3 DEF Counted, TypeOK
  <2> QED BY <2>1, <2>4, <2>5 DEF Counted, Current
<1>5. ASSUME NEW t \in Thread, SubmitSignals(t) PROVE Counted'
  BY <1>1, <1>5, ThreadAlone DEF SubmitSignals, TypeOK, Goto, progressVars, Step
<1>6. ASSUME NEW t \in Thread, SubmitNotifies(t) PROVE Counted'
  <2>1. Notified(t, "work")
    BY <1>6, Notification DEF SubmitNotifies, At
  <2> QED BY <1>1, <1>6, <2>1, ThreadAlone DEF SubmitNotifies, Notified, progressVars, Step
<1>7. ASSUME NEW t \in Thread, SubmitRefused(t) PROVE Counted'
  BY <1>1, <1>7, ThreadAlone DEF SubmitRefused, TypeOK, Goto, progressVars, Step
<1>8. ASSUME NEW t \in Thread, Register(t) PROVE Counted'
  BY <1>1, <1>8, ThreadAlone DEF Register, TypeOK, Goto, progressVars, Step
<1>9. ASSUME NEW t \in Thread, Observe(t) PROVE Counted'
  BY <1>1, <1>9, ThreadAlone DEF Observe, TypeOK, Goto, progressVars, Step
<1>10. ASSUME NEW t \in Thread, FutureNotReady(t) PROVE Counted'
  BY <1>1, <1>10, ThreadAlone DEF FutureNotReady, TypeOK, Goto, progressVars, Step
<1>11. ASSUME NEW t \in Thread, FutureReady(t) PROVE Counted'
  BY <1>1, <1>11, ThreadAlone DEF FutureReady, TypeOK, Goto, progressVars, Step
<1>12. ASSUME NEW t \in Thread, PassOnSignals(t) PROVE Counted'
  BY <1>1, <1>12, ThreadAlone DEF PassOnSignals, TypeOK, Goto, progressVars, Step
<1>13. ASSUME NEW t \in Thread, PassOnNotifies(t) PROVE Counted'
  <2>1. Notified(t, "unregister")
    BY <1>13, Notification DEF PassOnNotifies, At
  <2> QED BY <1>1, <1>13, <2>1, ThreadAlone DEF PassOnNotifies, Notified, progressVars, Step
<1>14. ASSUME NEW t \in Thread, Unregister(t) PROVE Counted'
  BY <1>1, <1>14, ThreadAlone DEF Unregister, TypeOK, Goto, progressVars, Step
<1>15. ASSUME NEW t \in Thread, PopLocal(t) PROVE Counted'
  BY <1>1, <1>15, ThreadAlone DEF PopLocal, Take, TypeOK, Goto, progressVars, Step
<1>16. ASSUME NEW t \in Thread, PopInjected(t) PROVE Counted'
  BY <1>1, <1>16, ThreadAlone DEF PopInjected, TakeFirst, Take, TypeOK, Goto, progressVars, Step
<1>17. ASSUME NEW t \in Thread, Steal(t) PROVE Counted'
  BY <1>1, <1>17, ThreadAlone DEF Steal, StealFrom, TakeFirst, Take, TypeOK, Goto, progressVars, Step
<1>18. ASSUME NEW t \in Thread, StartTask(t) PROVE Counted'
  BY <1>1, <1>18, ThreadAlone DEF StartTask, TypeOK, Goto, progressVars, Step
<1>19. ASSUME NEW t \in Thread, FinishTask(t) PROVE Counted'
  BY <1>1, <1>19, ThreadAlone DEF FinishTask, TypeOK, Goto, progressVars, Step
<1>20. ASSUME NEW t \in Thread, LookForWaiters(t) PROVE Counted'
  BY <1>1, <1>20, ThreadAlone DEF LookForWaiters, TypeOK, Goto, progressVars, Step
<1>21. ASSUME NEW t \in Thread, NotifyWaiters(t) PROVE Counted'
  <2>1. Notified(t, "pop")
    BY <1>21, Notification DEF NotifyWaiters, At
  <2> QED BY <1>1, <1>21, <2>1, ThreadAlone DEF NotifyWaiters, Notified, progressVars, Step
<1>22. ASSUME NEW t \in Thread, ReturnFromTask(t) PROVE Counted'
  BY <1>1, <1>22, ThreadAlone DEF ReturnFromTask, TypeOK, Goto, progressVars, Step
<1>23. ASSUME NEW t \in Thread, HelperExits(t) PROVE Counted'
  BY <1>1, <1>23, ThreadAlone DEF HelperExits, TypeOK, Goto, progressVars, Step
<1>24. ASSUME NEW t \in Thread, Sleep(t) PROVE Counted'
  BY <1>1, <1>24, ThreadAlone DEF Sleep, TypeOK, Goto, progressVars, Step
<1>25. ASSUME NEW t \in Thread, OutsiderDone(t) PROVE Counted'
  BY <1>1, <1>25, ThreadAlone DEF OutsiderDone, TypeOK, Goto, progressVars, Step
<1>26. CASE Shutdown
  <2>1. Owner \in Thread
    BY DEF Thread, Workers
  <2> QED BY <1>1, <1>26, <2>1, OwnerAlone DEF Shutdown, Goto, TypeOK, progressVars, ShutdownStep
<1>27. CASE ShutdownSignals
  <2>1. Owner \in Thread
    BY DEF Thread, Workers
  <2> QED BY <1>1, <1>27, <2>1, OwnerAlone DEF ShutdownSignals, Goto, TypeOK, progressVars, ShutdownStep
<1>28. CASE ShutdownNotifies
  <2>1. Notified(Owner, "join") /\ Owner \in Thread
    BY <1>28, Notification DEF ShutdownNotifies, At, Thread, Workers
  <2> QED BY <1>1, <1>28, <2>1, OwnerAlone DEF ShutdownNotifies, Notified, progressVars, ShutdownStep
<1>29. CASE JoinHelpers
  <2>1. Owner \in Thread
    BY DEF Thread, Workers
  <2> QED BY <1>1, <1>29, <2>1, OwnerAlone DEF JoinHelpers, Goto, TypeOK, progressVars, ShutdownStep
<1> QED BY <1>2, <1>3, <1>4, <1>5, <1>6, <1>7, <1>8, <1>9, <1>10, <1>11, <1>12, <1>13, <1>14, <1>15, <1>16, <1>17, <1>18, <1>19, <1>20, <1>21, <1>22, <1>23, <1>24, <1>25, <1>26, <1>27, <1>28, <1>29 DEF Next, Step, ShutdownStep, AllEnded

\* Tasks stay where they are when nothing moves them.
LEMMA OnceKept ==
  ASSUME Once, UNCHANGED <<queue, inHand, stack, finished, submitted>>
  PROVE  Once'
<1>1. QueuesApart' /\ HandsApart' /\ StacksApart'
  BY DEF Once, QueuesApart, HandsApart, StacksApart
<1>2. \A x : (InQueues(x)' <=> InQueues(x)) /\ (InHands(x)' <=> InHands(x))
             /\ (OnStacks(x)' <=> OnStacks(x))
  BY DEF InQueues, InHands, OnStacks
<1>3. SubmittedTasks' = SubmittedTasks
  BY DEF SubmittedTasks
<1> QED BY <1>1, <1>2, <1>3 DEF Once, OneKind

\* A submitted task is in a queue.
LEMMA SubmitOnce ==
  ASSUME TypeOK, Frames, Counted, Once, NEW t \in Thread, Submit(t)
  PROVE  Once'
<1> DEFINE x == Children[Current(t)][submitted[Current(t)] + 1]
           q == IF t \in Workers THEN t ELSE Injected
<1>1. x \in Task /\ x \notin SubmittedTasks /\ SubmittedTasks' = SubmittedTasks \cup {x}
  BY NewTask
<1>2. queue' = [queue EXCEPT ![q] = Append(@, x)] /\ UNCHANGED <<inHand, stack, finished>>
  BY DEF Submit
<1>3. q \in Queues
  BY DEF Queues
<1> HIDE DEF x, q
<1>4. ~InQueues(x) /\ ~InHands(x) /\ ~OnStacks(x) /\ x \notin finished
  BY <1>1 DEF Once, OneKind
<1>5. QueuesApart' /\ \A y : InQueues(y)' <=> InQueues(y) \/ y = x
  BY <1>1, <1>2, <1>3, <1>4, QueueGrows DEF Once
<1>6. HandsApart' /\ StacksApart'
  BY <1>2 DEF Once, HandsApart, StacksApart
<1>7. \A y : (InHands(y)' <=> InHands(y)) /\ (OnStacks(y)' <=> OnStacks(y))
  BY <1>2 DEF InHands, OnStacks
<1>8. OneKind'
  BY <1>1, <1>2, <1>4, <1>5, <1>7 DEF Once, OneKind
<1> QED BY <1>5, <1>6, <1>8 DEF Once

\* What is submitted are tasks.
LEMMA SubmittedAreTasks ==
  ASSUME TypeOK, Counted
  PROVE  SubmittedTasks \subseteq Task
<1> SUFFICES ASSUME NEW x \in Program, NEW i \in 1..submitted[x]
             PROVE  Children[x][i] \in Task
  BY DEF SubmittedTasks
<1>1. Children[x] \in Seq(Task) /\ submitted[x] \in Nat /\ submitted[x] <= Len(Children[x])
  BY ExecutorAssumption DEF TypeOK, Counted
<1> QED BY <1>1

\* A task taken is in a hand.
LEMMA TakeOnce ==
  ASSUME TypeOK, Counted, Once, NEW t \in Thread, inHand[t] = NoTask,
         NEW q \in Queues, NEW x, NEW rest, Take(t, q, x, rest),
         \/ x = Last(queue[q]) /\ rest = Front(queue[q])
         \/ x = Head(queue[q]) /\ rest = Tail(queue[q]),
         UNCHANGED <<stack, finished, submitted>>
  PROVE  Once'
<1>1. x \in Task /\ x # NoTask
  BY TakeTypes, ExecutorAssumption
<1>2. QueuesApart' /\ InQueues(x) /\ \A y : InQueues(y)' <=> InQueues(y) /\ y # x
  BY QueueShrinks DEF Once
<1>3. ~InHands(x) /\ ~OnStacks(x) /\ x \notin finished
  BY <1>1, <1>2 DEF Once, OneKind
<1>4. inHand'[t] = x /\ \A u \in Thread : u # t => inHand'[u] = inHand[u]
  BY DEF Take, TypeOK
<1>5. HandsApart'
  BY <1>3, <1>4 DEF Once, HandsApart, InHands
<1>6. \A y \in Task : InHands(y)' <=> InHands(y) \/ y = x
  BY <1>4, ExecutorAssumption DEF InHands
<1>7. StacksApart' /\ \A y : OnStacks(y)' <=> OnStacks(y)
  BY DEF Once, StacksApart, OnStacks
<1>8. SubmittedTasks' = SubmittedTasks /\ SubmittedTasks \subseteq Task
  BY SubmittedAreTasks DEF SubmittedTasks
<1>9. OneKind'
  <2>1. OneKind
    BY DEF Once
  <2>2. \A y \in Task : /\ ~(InQueues(y) /\ InHands(y))'
                        /\ ~(InQueues(y) /\ OnStacks(y))'
                        /\ ~(InHands(y) /\ OnStacks(y))'
    BY <1>2, <1>3, <1>6, <1>7, <2>1 DEF OneKind
  <2>3. \A y \in Task : (InQueues(y) \/ InHands(y) \/ OnStacks(y) \/ y \in finished)'
                        => y \in SubmittedTasks
    BY <1>1, <1>2, <1>6, <1>7, <2>1 DEF OneKind
  <2>4. \A y \in SubmittedTasks : (InQueues(y) \/ InHands(y) \/ OnStacks(y) \/ y \in finished)'
    BY <1>2, <1>6, <1>7, <1>8, <2>1 DEF OneKind
  <2>5. \A y \in Task : y \in finished => ~InQueues(y)' /\ ~InHands(y)'
    BY <1>2, <1>3, <1>6, <2>1 DEF OneKind
  <2> QED BY <1>8, <2>2, <2>3, <2>4, <2>5 DEF OneKind
<1> QED BY <1>2, <1>5, <1>7, <1>9 DEF Once

\* A task started is on a stack.
LEMMA StartOnce ==
  ASSUME TypeOK, Frames, Counted, Once, NEW t \in Thread, StartTask(t)
  PROVE  Once'
<1> DEFINE x == inHand[t]
<1>1. x \in Task /\ x \in Program /\ x # NoTask /\ InHands(x)
  BY ExecutorAssumption DEF Frames, PlaceOK, StartTask, At, Program, InHands
<1>2. ~InQueues(x) /\ ~OnStacks(x) /\ x \notin finished
  BY <1>1 DEF Once, OneKind
<1>3. stack' = [stack EXCEPT ![t] = Append(@, x)] /\ UNCHANGED <<queue, finished, submitted>>
  BY DEF StartTask
<1>4. inHand'[t] = NoTask /\ \A u \in Thread : u # t => inHand'[u] = inHand[u]
  BY DEF StartTask, TypeOK
<1>5. StacksApart' /\ \A y : OnStacks(y)' <=> OnStacks(y) \/ y = x
  BY <1>1, <1>2, <1>3, StackGrows DEF Once
<1>6. HandsApart'
  BY <1>4 DEF Once, HandsApart
<1>7. \A y \in Task : InHands(y)' <=> InHands(y) /\ y # x
  <2>1. \A u \in Thread : u # t => inHand[u] # x
    BY <1>1 DEF Once, HandsApart
  <2>2. \A y \in Task : y # NoTask
    BY ExecutorAssumption
  <2> QED BY <1>4, <2>1, <2>2 DEF InHands
<1>8. QueuesApart' /\ \A y : InQueues(y)' <=> InQueues(y)
  BY <1>3 DEF Once, QueuesApart, InQueues
<1>9. SubmittedTasks' = SubmittedTasks /\ SubmittedTasks \subseteq Task
  BY <1>3, SubmittedAreTasks DEF SubmittedTasks
<1> HIDE DEF x
<1>10. OneKind'
  <2>1. OneKind
    BY DEF Once
  <2>2. \A y \in Task : /\ ~(InQueues(y) /\ InHands(y))'
                        /\ ~(InQueues(y) /\ OnStacks(y))'
                        /\ ~(InHands(y) /\ OnStacks(y))'
    BY <1>2, <1>5, <1>7, <1>8, <2>1 DEF OneKind
  <2>3. \A y \in Task : (InQueues(y) \/ InHands(y) \/ OnStacks(y) \/ y \in finished)'
                        => y \in SubmittedTasks
    BY <1>1, <1>3, <1>5, <1>7, <1>8, <2>1 DEF OneKind
  <2>4. \A y \in SubmittedTasks : (InQueues(y) \/ InHands(y) \/ OnStacks(y) \/ y \in finished)'
    BY <1>3, <1>5, <1>7, <1>8, <1>9, <2>1 DEF OneKind
  <2>5. \A y \in Task : y \in finished' => ~InQueues(y)' /\ ~InHands(y)'
    BY <1>3, <1>7, <1>8, <2>1 DEF OneKind
  <2> QED BY <1>9, <2>2, <2>3, <2>4, <2>5 DEF OneKind
<1> QED BY <1>5, <1>6, <1>8, <1>10 DEF Once

\* A task is finished on the stack that ran it.
LEMMA FinishOnce ==
  ASSUME TypeOK, Frames, Once, NEW t \in Thread, stack[t] # <<>>, Current(t) \in Task,
         finished' = finished \cup {Current(t)}, UNCHANGED <<queue, inHand, stack, submitted>>
  PROVE  Once'
<1> DEFINE x == Current(t)
<1>1. x \in Task /\ OnStacks(x)
  BY CurrentIs DEF OnStacks
<1> HIDE DEF x
<1>2. ~InQueues(x) /\ ~InHands(x) /\ x \in SubmittedTasks
  BY <1>1 DEF Once, OneKind
<1>3. QueuesApart' /\ HandsApart' /\ StacksApart'
  BY DEF Once, QueuesApart, HandsApart, StacksApart
<1>4. \A y : (InQueues(y)' <=> InQueues(y)) /\ (InHands(y)' <=> InHands(y))
             /\ (OnStacks(y)' <=> OnStacks(y))
  BY DEF InQueues, InHands, OnStacks
<1>5. SubmittedTasks' = SubmittedTasks
  BY DEF SubmittedTasks
<1>6. finished' = finished \cup {x}
  BY DEF x
<1>7. OneKind'
  BY <1>1, <1>2, <1>4, <1>5, <1>6 DEF Once, OneKind
<1> QED BY <1>3, <1>7 DEF Once

\* A task that has finished leaves its stack.
LEMMA ReturnOnce ==
  ASSUME TypeOK, Frames, Counted, Once, NEW t \in Thread, ReturnFromTask(t)
  PROVE  Once'
<1> DEFINE x == Current(t)
<1>1. stack[t] # <<>> /\ x \in Task /\ x \in finished
  BY DEF Frames, PlaceOK, ReturnFromTask, At
<1>2. stack' = [stack EXCEPT ![t] = Front(@)] /\ UNCHANGED <<queue, inHand, finished, submitted>>
  BY DEF ReturnFromTask, queueVars
<1>3. StacksApart' /\ \A y : OnStacks(y)' <=> OnStacks(y) /\ y # x
  BY <1>1, <1>2, StackShrinks DEF Once
<1> HIDE DEF x
<1>4. QueuesApart' /\ HandsApart'
  BY <1>2 DEF Once, QueuesApart, HandsApart
<1>5. \A y : (InQueues(y)' <=> InQueues(y)) /\ (InHands(y)' <=> InHands(y))
  BY <1>2 DEF InQueues, InHands
<1>6. SubmittedTasks' = SubmittedTasks
  BY <1>2 DEF SubmittedTasks
<1>7. OneKind'
  BY <1>1, <1>2, <1>3, <1>5, <1>6 DEF Once, OneKind
<1> QED BY <1>3, <1>4, <1>7 DEF Once

\* Every step keeps submitted tasks in one place.
LEMMA StepOnce ==
  ASSUME TypeOK, Frames, Shutting, Counted, Once, [Next]_vars
  PROVE  Once'
<1>1. CASE UNCHANGED vars
  BY <1>1, OnceKept DEF vars, queueVars, progressVars
<1>2. ASSUME NEW t \in Thread, SubmitAllowed(t) PROVE Once'
  BY <1>2, OnceKept DEF SubmitAllowed, queueVars, progressVars
<1>3. ASSUME NEW t \in Thread, Submit(t) PROVE Once'
  BY <1>3, SubmitOnce
<1>4. ASSUME NEW t \in Thread, SubmitSignals(t) PROVE Once'
  BY <1>4, OnceKept DEF SubmitSignals, queueVars, progressVars
<1>5. ASSUME NEW t \in Thread, SubmitNotifies(t) PROVE Once'
  BY <1>5, OnceKept DEF SubmitNotifies, queueVars, progressVars
<1>6. ASSUME NEW t \in Thread, SubmitRefused(t) PROVE Once'
  <2>1. t \in Helpers
    BY <1>6, RefusedHelper
  <2>2. Current(t) \in Task
    BY <1>6, <2>1, CurrentIs DEF SubmitRefused, Frames, StackOK
  <2> QED BY <1>6, <2>2, FinishOnce DEF SubmitRefused, queueVars
<1>7. ASSUME NEW t \in Thread, Register(t) PROVE Once'
  BY <1>7, OnceKept DEF Register, queueVars, progressVars
<1>8. ASSUME NEW t \in Thread, Observe(t) PROVE Once'
  BY <1>8, OnceKept DEF Observe, queueVars, progressVars
<1>9. ASSUME NEW t \in Thread, FutureNotReady(t) PROVE Once'
  BY <1>9, OnceKept DEF FutureNotReady, queueVars, progressVars
<1>10. ASSUME NEW t \in Thread, FutureReady(t) PROVE Once'
  BY <1>10, OnceKept DEF FutureReady, queueVars, progressVars
<1>11. ASSUME NEW t \in Thread, PassOnSignals(t) PROVE Once'
  BY <1>11, OnceKept DEF PassOnSignals, queueVars, progressVars
<1>12. ASSUME NEW t \in Thread, PassOnNotifies(t) PROVE Once'
  BY <1>12, OnceKept DEF PassOnNotifies, queueVars, progressVars
<1>13. ASSUME NEW t \in Thread, Unregister(t) PROVE Once'
  BY <1>13, OnceKept DEF Unregister, queueVars, progressVars
<1>14. ASSUME NEW t \in Thread, PopLocal(t) PROVE Once'
  <2>1. CASE UNCHANGED <<queue, inHand>>
    BY <1>14, <2>1, OnceKept DEF PopLocal, progressVars
  <2>2. CASE Take(t, t, Last(queue[t]), Front(queue[t]))
    <3>1. inHand[t] = NoTask /\ t \in Queues
      BY <1>14 DEF PopLocal, At, Frames, PlaceOK, Queues
    <3> QED BY <1>14, <2>2, <3>1, TakeOnce DEF PopLocal, progressVars
  <2> QED BY <1>14, <2>1, <2>2 DEF PopLocal
<1>15. ASSUME NEW t \in Thread, PopInjected(t) PROVE Once'
  <2>1. CASE UNCHANGED <<queue, inHand>>
    BY <1>15, <2>1, OnceKept DEF PopInjected, progressVars
  <2>2. CASE TakeFirst(t, Injected)
    <3>1. inHand[t] = NoTask /\ Injected \in Queues
      BY <1>15 DEF PopInjected, At, Frames, PlaceOK, Queues
    <3> QED BY <1>15, <2>2, <3>1, TakeOnce DEF PopInjected, TakeFirst, progressVars
  <2> QED BY <1>15, <2>1, <2>2 DEF PopInjected
<1>16. ASSUME NEW t \in Thread, Steal(t) PROVE Once'
  <2>1. PICK v \in Workers : StealFrom(t, v)
    BY <1>16 DEF Steal
  <2>2. CASE UNCHANGED <<queue, inHand>>
    BY <2>1, <2>2, OnceKept DEF StealFrom, progressVars
  <2>3. CASE TakeFirst(t, v)
    <3>1. inHand[t] = NoTask /\ v \in Queues
      BY <1>16, <2>1 DEF StealFrom, At, Frames, PlaceOK, Queues
    <3> QED BY <1>16, <2>1, <2>3, <3>1, TakeOnce DEF StealFrom, TakeFirst, progressVars
  <2> QED BY <2>1, <2>2, <2>3 DEF StealFrom
<1>17. ASSUME NEW t \in Thread, StartTask(t) PROVE Once'
  BY <1>17, StartOnce
<1>18. ASSUME NEW t \in Thread, FinishTask(t) PROVE Once'
  BY <1>18, FinishOnce DEF FinishTask, queueVars
<1>19. ASSUME NEW t \in Thread, LookForWaiters(t) PROVE Once'
  BY <1>19, OnceKept DEF LookForWaiters, queueVars, progressVars
<1>20. ASSUME NEW t \in Thread, NotifyWaiters(t) PROVE Once'
  BY <1>20, OnceKept DEF NotifyWaiters, queueVars, progressVars
<1>21. ASSUME NEW t \in Thread, ReturnFromTask(t) PROVE Once'
  BY <1>21, ReturnOnce
<1>22. ASSUME NEW t \in Thread, HelperExits(t) PROVE Once'
  BY <1>22, OnceKept DEF HelperExits, queueVars, progressVars
<1>23. ASSUME NEW t \in Thread, Sleep(t) PROVE Once'
  BY <1>23, OnceKept DEF Sleep, queueVars, progressVars
<1>24. ASSUME NEW t \in Thread, OutsiderDone(t) PROVE Once'
  BY <1>24, OnceKept DEF OutsiderDone, queueVars, progressVars
<1>25. CASE Shutdown
  BY <1>25, OnceKept DEF Shutdown, queueVars, progressVars
<1>26. CASE ShutdownSignals
  BY <1>26, OnceKept DEF ShutdownSignals, queueVars, progressVars
<1>27. CASE ShutdownNotifies
  BY <1>27, OnceKept DEF ShutdownNotifies, queueVars, progressVars
<1>28. CASE JoinHelpers
  BY <1>28, OnceKept DEF JoinHelpers, queueVars, progressVars
<1> QED BY <1>1, <1>2, <1>3, <1>4, <1>5, <1>6, <1>7, <1>8, <1>9, <1>10, <1>11, <1>12, <1>13, <1>14, <1>15, <1>16, <1>17, <1>18, <1>19, <1>20, <1>21, <1>22, <1>23, <1>24, <1>25, <1>26, <1>27, <1>28 DEF Next, Step, ShutdownStep, AllEnded

\* The places of tasks in the queues.
ArePlaces ==
  /\ \A q, i : <<q, i>> \in Backlog <=> q \in Queues /\ i \in DOMAIN queue[q]
  /\ \A p \in Backlog : p = <<p[1], p[2]>> /\ p[1] \in Queues /\ p[2] \in DOMAIN queue[p[1]]

\* They are that in every state.
LEMMA BacklogPlaces == ArePlaces
<1>1. ASSUME NEW q, NEW i
      PROVE  <<q, i>> \in Backlog <=> q \in Queues /\ i \in DOMAIN queue[q]
  BY DEF Backlog
<1>2. ASSUME NEW p \in Backlog
      PROVE  p = <<p[1], p[2]>> /\ p[1] \in Queues /\ p[2] \in DOMAIN queue[p[1]]
  <2>1. PICK q \in Queues : p \in {q} \X DOMAIN queue[q]
    BY <1>2 DEF Backlog
  <2> QED BY <2>1
<1> QED BY <1>1, <1>2 DEF ArePlaces

\* Tasks in one place only are in one place only.
LEMMA OncePlaced ==
  ASSUME TypeOK, Counted, Once
  PROVE  RunExactlyOnce
<1> SUFFICES ASSUME NEW x \in SubmittedTasks
             PROVE  \/ \E p \in Places(x) : /\ Places(x) = {p}
                                            /\ x \in finished => p \in StackPlaces(x)
                    \/ x \in finished /\ Places(x) = {}
  BY DEF RunExactlyOnce
<1>1. x \in Task /\ x # NoTask
  BY SubmittedAreTasks, ExecutorAssumption
<1>2. /\ \A p \in QueuePlaces(x) : \E q \in Queues : \E i \in DOMAIN queue[q] :
           p = <<"queue", <<q, i>>>> /\ queue[q][i] = x
      /\ \A q \in Queues : \A i \in DOMAIN queue[q] :
           queue[q][i] = x => <<"queue", <<q, i>>>> \in QueuePlaces(x)
  <2>1. ASSUME NEW p \in QueuePlaces(x)
        PROVE  \E q \in Queues : \E i \in DOMAIN queue[q] :
                 p = <<"queue", <<q, i>>>> /\ queue[q][i] = x
    <3>1. PICK r \in Backlog : p = <<"queue", r>> /\ queue[r[1]][r[2]] = x
      BY <2>1 DEF QueuePlaces
    <3>2. r = <<r[1], r[2]>> /\ r[1] \in Queues /\ r[2] \in DOMAIN queue[r[1]]
      BY BacklogPlaces DEF ArePlaces
    <3> QED BY <3>1, <3>2
  <2>2. ASSUME NEW q \in Queues, NEW i \in DOMAIN queue[q], queue[q][i] = x
        PROVE  <<"queue", <<q, i>>>> \in QueuePlaces(x)
    <3>1. <<q, i>> \in Backlog
      BY BacklogPlaces DEF ArePlaces
    <3> QED BY <2>2, <3>1 DEF QueuePlaces
  <2> QED BY <2>1, <2>2
<1>3. /\ \A p \in HandPlaces(x) : \E t \in Thread : p = <<"hand", t>> /\ inHand[t] = x
      /\ \A t \in Thread : inHand[t] = x => <<"hand", t>> \in HandPlaces(x)
  BY DEF HandPlaces
<1>4. /\ \A p \in StackPlaces(x) : \E t \in Thread : \E i \in DOMAIN stack[t] :
           p = <<"stack", t, i>> /\ stack[t][i] = x
      /\ \A t \in Thread : \A i \in DOMAIN stack[t] :
           stack[t][i] = x => <<"stack", t, i>> \in StackPlaces(x)
  BY DEF StackPlaces
<1>5. CASE InQueues(x)
  <2>1. PICK q \in Queues : \E i \in DOMAIN queue[q] : queue[q][i] = x
    BY <1>5 DEF InQueues
  <2>2. PICK i \in DOMAIN queue[q] : queue[q][i] = x
    BY <2>1
  <2>3. QueuePlaces(x) = {<<"queue", <<q, i>>>>}
    BY <1>2, <2>2 DEF Once, QueuesApart
  <2>4. HandPlaces(x) = {} /\ StackPlaces(x) = {} /\ x \notin finished
    BY <1>1, <1>3, <1>4, <1>5 DEF Once, OneKind, InHands, OnStacks
  <2> QED BY <2>3, <2>4 DEF Places
<1>6. CASE InHands(x)
  <2>1. PICK t \in Thread : inHand[t] = x
    BY <1>6 DEF InHands
  <2>2. HandPlaces(x) = {<<"hand", t>>}
    BY <1>1, <1>3, <2>1 DEF Once, HandsApart
  <2>3. QueuePlaces(x) = {} /\ StackPlaces(x) = {} /\ x \notin finished
    BY <1>1, <1>2, <1>4, <1>6 DEF Once, OneKind, InQueues, OnStacks
  <2> QED BY <2>2, <2>3 DEF Places
<1>7. CASE OnStacks(x)
  <2>1. PICK t \in Thread : \E i \in DOMAIN stack[t] : stack[t][i] = x
    BY <1>7 DEF OnStacks
  <2>2. PICK i \in DOMAIN stack[t] : stack[t][i] = x
    BY <2>1
  <2>3. StackPlaces(x) = {<<"stack", t, i>>}
    BY <1>4, <2>2 DEF Once, StacksApart
  <2>4. QueuePlaces(x) = {} /\ HandPlaces(x) = {}
    BY <1>1, <1>2, <1>3, <1>7 DEF Once, OneKind, InQueues, InHands
  <2> QED BY <2>3, <2>4 DEF Places
<1>8. CASE ~InQueues(x) /\ ~InHands(x) /\ ~OnStacks(x)
  <2>1. x \in finished
    BY <1>8 DEF Once, OneKind
  <2>2. Places(x) = {}
    BY <1>2, <1>3, <1>4, <1>8 DEF Places, InQueues, InHands, OnStacks
  <2> QED BY <2>1, <2>2
<1> QED BY <1>5, <1>6, <1>7, <1>8

----------------------------------------------------------------------------
(* The count of tasks not yet started.                                     *)

\* Threads with a task in hand.
Taken == {t \in Thread : pc[t] = "taken"}

Accounts == IsFiniteSet(Backlog) /\ PendingExact

\* A submit adds one place.
LEMMA BacklogGrows ==
  ASSUME TypeOK, NEW q \in Queues, NEW x \in Task, queue' = [queue EXCEPT ![q] = Append(@, x)]
  PROVE  LET p == <<q, Len(queue[q]) + 1>>
         IN  p \notin Backlog /\ Backlog' = Backlog \cup {p}
<1> DEFINE n == Len(queue[q])
           p == <<q, n + 1>>
<1>1. /\ queue'[q] = Append(queue[q], x) /\ queue[q] \in Seq(Task)
      /\ \A r \in Queues : r # q => queue'[r] = queue[r]
  BY DEF TypeOK
<1>2. n \in Nat /\ DOMAIN queue'[q] = 1..(n + 1) /\ DOMAIN queue[q] = 1..n
  BY <1>1, Pushed
<1> HIDE DEF n
<1>3. p \notin Backlog
  BY <1>2, BacklogPlaces DEF ArePlaces
<1>4. \A r, i : r \in Queues /\ i \in DOMAIN queue'[r]
                <=> (r \in Queues /\ i \in DOMAIN queue[r]) \/ <<r, i>> = p
  <2>1. 1..(n + 1) = (1..n) \cup {n + 1}
    BY <1>2
  <2> QED BY <1>1, <1>2, <2>1
<1> HIDE DEF p
<1>5. ArePlaces'
  BY BacklogPlaces, PTL
<1>6. p = <<p[1], p[2]>>
  BY DEF p
<1>7. Backlog' = Backlog \cup {p}
  BY <1>4, <1>5, <1>6, BacklogPlaces DEF ArePlaces
<1> QED BY <1>3, <1>7 DEF n, p

\* Taking a task leaves one place less.
LEMMA BacklogShrinks ==
  ASSUME TypeOK, NEW t \in Thread, NEW q \in Queues, NEW x, NEW rest, Take(t, q, x, rest),
         \/ x = Last(queue[q]) /\ rest = Front(queue[q])
         \/ x = Head(queue[q]) /\ rest = Tail(queue[q])
  PROVE  LET p == <<q, Len(queue[q])>>
         IN  p \in Backlog /\ Backlog' = Backlog \ {p}
<1> DEFINE n == Len(queue[q])
           p == <<q, n>>
<1>1. /\ queue'[q] = rest /\ queue[q] \in Seq(Task) /\ queue[q] # <<>>
      /\ \A r \in Queues : r # q => queue'[r] = queue[r]
  BY DEF TypeOK, Take
<1>2. n \in Nat \ {0} /\ DOMAIN queue[q] = 1..n /\ DOMAIN queue'[q] = 1..(n - 1)
  BY <1>1, Popped, Dequeued
<1> HIDE DEF n
<1>3. p \in Backlog
  BY <1>2, BacklogPlaces DEF ArePlaces
<1>4. \A r, i : r \in Queues /\ i \in DOMAIN queue'[r]
                <=> (r \in Queues /\ i \in DOMAIN queue[r]) /\ <<r, i>> # p
  <2>1. 1..(n - 1) = (1..n) \ {n}
    BY <1>2
  <2> QED BY <1>1, <1>2, <2>1
<1> HIDE DEF p
<1>5. ArePlaces'
  BY BacklogPlaces, PTL
<1>6. Backlog' = Backlog \ {p}
  BY <1>4, <1>5, BacklogPlaces DEF ArePlaces
<1> QED BY <1>3, <1>6 DEF n, p

\* There are finitely many threads.
LEMMA TakenFinite == IsFiniteSet(Taken) /\ IsFiniteSet(Taken')
  BY FS_Subset, ExecutorAssumption DEF Taken

\* A step of t that takes and starts nothing.
LEMMA AccountsKept ==
  ASSUME Accounts, NEW t \in Thread, OthersStay(t), pc[t] # "taken", pc'[t] # "taken",
         UNCHANGED <<queue, pending>>
  PROVE  Accounts'
<1>1. Taken' = Taken
  BY DEF OthersStay, Taken
<1>2. Backlog' = Backlog
  BY DEF Backlog
<1> QED BY <1>1, <1>2 DEF Accounts, PendingExact, Taken

\* Submitting counts one more.
LEMMA SubmitAccounts ==
  ASSUME TypeOK, Frames, Counted, Accounts, NEW t \in Thread, Submit(t)
  PROVE  Accounts'
<1> DEFINE x == Children[Current(t)][submitted[Current(t)] + 1]
           q == IF t \in Workers THEN t ELSE Injected
<1>1. queue' = [queue EXCEPT ![q] = Append(@, x)] /\ pending' = pending + 1
  BY DEF Submit
<1>2. x \in Task /\ q \in Queues
  BY ChildIs DEF Submit, At, Queues
<1> HIDE DEF x, q
<1>3. PICK p : p \notin Backlog /\ Backlog' = Backlog \cup {p}
  BY <1>1, <1>2, BacklogGrows
<1>4. Taken' = Taken
  BY DEF Submit, At, Goto, TypeOK, Taken
<1>5. IsFiniteSet(Backlog) /\ pending = Cardinality(Backlog) + Cardinality(Taken)
  BY DEF Accounts, PendingExact, Taken
<1>6. IsFiniteSet(Backlog') /\ Cardinality(Backlog') = Cardinality(Backlog) + 1
  BY <1>3, <1>5, FS_AddElement
<1>7. Cardinality(Backlog) \in Nat /\ Cardinality(Taken) \in Nat
  BY <1>5, FS_CardinalityType, TakenFinite
<1>8. pending' = Cardinality(Backlog') + Cardinality(Taken')
  BY <1>1, <1>4, <1>5, <1>6, <1>7
<1> QED BY <1>6, <1>8 DEF Accounts, PendingExact, Taken

\* Taking moves a task from the queues to a hand.
LEMMA TakeAccounts ==
  ASSUME TypeOK, Accounts, NEW t \in Thread, pc[t] # "taken",
         NEW q \in Queues, NEW x, NEW rest, Take(t, q, x, rest),
         \/ x = Last(queue[q]) /\ rest = Front(queue[q])
         \/ x = Head(queue[q]) /\ rest = Tail(queue[q]),
         UNCHANGED pending
  PROVE  Accounts'
<1>1. PICK p : p \in Backlog /\ Backlog' = Backlog \ {p}
  BY BacklogShrinks
<1>2. Taken' = Taken \cup {t} /\ t \notin Taken
  BY DEF Take, Goto, TypeOK, Taken
<1>3. IsFiniteSet(Backlog) /\ pending = Cardinality(Backlog) + Cardinality(Taken)
  BY DEF Accounts, PendingExact, Taken
<1>4. IsFiniteSet(Backlog') /\ Cardinality(Backlog') = Cardinality(Backlog) - 1
  BY <1>1, <1>3, FS_RemoveElement
<1>5. Cardinality(Taken') = Cardinality(Taken) + 1
  BY <1>2, FS_AddElement, TakenFinite
<1>6. Cardinality(Backlog) \in Nat /\ Cardinality(Taken) \in Nat
  BY <1>3, FS_CardinalityType, TakenFinite
<1> QED BY <1>3, <1>4, <1>5, <1>6 DEF Accounts, PendingExact, Taken

\* Starting counts one less.
LEMMA StartAccounts ==
  ASSUME TypeOK, Accounts, NEW t \in Thread, StartTask(t)
  PROVE  Accounts'
<1>1. Backlog' = Backlog /\ pending' = pending - 1
  BY DEF StartTask, Backlog
<1>2. Taken' = Taken \ {t} /\ t \in Taken
  BY DEF StartTask, At, Goto, TypeOK, Taken
<1>3. IsFiniteSet(Backlog) /\ pending = Cardinality(Backlog) + Cardinality(Taken)
  BY DEF Accounts, PendingExact, Taken
<1>4. Cardinality(Taken') = Cardinality(Taken) - 1
  BY <1>2, FS_RemoveElement, TakenFinite
<1>5. Cardinality(Backlog) \in Nat /\ Cardinality(Taken) \in Nat
  BY <1>3, FS_CardinalityType, TakenFinite
<1> QED BY <1>1, <1>3, <1>4, <1>5 DEF Accounts, PendingExact, Taken

\* Every step keeps the count exact.
LEMMA StepAccounts ==
  ASSUME TypeOK, Frames, Counted, Accounts, [Next]_vars
  PROVE  Accounts'
<1>1. CASE UNCHANGED vars
  BY <1>1 DEF Accounts, PendingExact, Backlog, vars, queueVars
<1>2. ASSUME NEW t \in Thread, SubmitAllowed(t) PROVE Accounts'
  BY <1>2, ThreadAlone, AccountsKept DEF SubmitAllowed, At, Goto, TypeOK, queueVars, Step
<1>3. ASSUME NEW t \in Thread, Submit(t) PROVE Accounts'
  BY <1>3, SubmitAccounts
<1>4. ASSUME NEW t \in Thread, SubmitSignals(t) PROVE Accounts'
  BY <1>4, ThreadAlone, AccountsKept DEF SubmitSignals, At, Goto, TypeOK, queueVars, Step
<1>5. ASSUME NEW t \in Thread, SubmitNotifies(t) PROVE Accounts'
  <2>1. Notified(t, "work")
    BY <1>5, Notification DEF SubmitNotifies, At
  <2> QED BY <1>5, <2>1, ThreadAlone, AccountsKept DEF SubmitNotifies, Notified, At, queueVars, Step
<1>6. ASSUME NEW t \in Thread, SubmitRefused(t) PROVE Accounts'
  BY <1>6, ThreadAlone, AccountsKept DEF SubmitRefused, At, Goto, TypeOK, queueVars, Step
<1>7. ASSUME NEW t \in Thread, Register(t) PROVE Accounts'
  BY <1>7, ThreadAlone, AccountsKept DEF Register, At, Goto, TypeOK, queueVars, Step
<1>8. ASSUME NEW t \in Thread, Observe(t) PROVE Accounts'
  BY <1>8, ThreadAlone, AccountsKept DEF Observe, At, Goto, TypeOK, queueVars, Step
<1>9. ASSUME NEW t \in Thread, FutureNotReady(t) PROVE Accounts'
  BY <1>9, ThreadAlone, AccountsKept DEF FutureNotReady, At, Goto, TypeOK, queueVars, Step
<1>10. ASSUME NEW t \in Thread, FutureReady(t) PROVE Accounts'
  BY <1>10, ThreadAlone, AccountsKept DEF FutureReady, At, Goto, TypeOK, queueVars, Step
<1>11. ASSUME NEW t \in Thread, PassOnSignals(t) PROVE Accounts'
  BY <1>11, ThreadAlone, AccountsKept DEF PassOnSignals, At, Goto, TypeOK, queueVars, Step
<1>12. ASSUME NEW t \in Thread, PassOnNotifies(t) PROVE Accounts'
  <2>1. Notified(t, "unregister")
    BY <1>12, Notification DEF PassOnNotifies, At
  <2> QED BY <1>12, <2>1, ThreadAlone, AccountsKept DEF PassOnNotifies, Notified, At, queueVars, Step
<1>13. ASSUME NEW t \in Thread, Unregister(t) PROVE Accounts'
  BY <1>13, ThreadAlone, AccountsKept DEF Unregister, At, Goto, TypeOK, queueVars, Step
<1>14. ASSUME NEW t \in Thread, PopLocal(t) PROVE Accounts'
  <2>1. CASE UNCHANGED <<queue, inHand>> /\ Goto(t, "injected")
    BY <1>14, <2>1, ThreadAlone, AccountsKept DEF PopLocal, At, Goto, TypeOK, Step
  <2>2. CASE Take(t, t, Last(queue[t]), Front(queue[t]))
    <3>1. t \in Queues
      BY <1>14 DEF PopLocal, At, Frames, PlaceOK, Queues
    <3> QED BY <1>14, <2>2, <3>1, TakeAccounts DEF PopLocal, At
  <2> QED BY <1>14, <2>1, <2>2 DEF PopLocal
<1>15. ASSUME NEW t \in Thread, PopInjected(t) PROVE Accounts'
  <2>1. CASE UNCHANGED <<queue, inHand>> /\ (Goto(t, "missed") \/ Goto(t, "steal"))
    BY <1>15, <2>1, ThreadAlone, AccountsKept DEF PopInjected, At, Goto, TypeOK, Step
  <2>2. CASE TakeFirst(t, Injected)
    <3>1. Injected \in Queues
      BY DEF Queues
    <3> QED BY <1>15, <2>2, <3>1, TakeAccounts DEF PopInjected, TakeFirst, At
  <2> QED BY <1>15, <2>1, <2>2 DEF PopInjected
<1>16. ASSUME NEW t \in Thread, Steal(t) PROVE Accounts'
  <2>1. PICK v \in Workers : StealFrom(t, v)
    BY <1>16 DEF Steal
  <2>2. CASE UNCHANGED <<queue, inHand>> /\ (Goto(t, "missed") \/ Goto(t, "steal"))
    BY <1>16, <2>1, <2>2, ThreadAlone, AccountsKept DEF StealFrom, At, Goto, TypeOK, Step
  <2>3. CASE TakeFirst(t, v)
    <3>1. v \in Queues
      BY DEF Queues
    <3> QED BY <1>16, <2>1, <2>3, <3>1, TakeAccounts DEF StealFrom, TakeFirst, At
  <2> QED BY <2>1, <2>2, <2>3 DEF StealFrom
<1>17. ASSUME NEW t \in Thread, StartTask(t) PROVE Accounts'
  BY <1>17, StartAccounts
<1>18. ASSUME NEW t \in Thread, FinishTask(t) PROVE Accounts'
  BY <1>18, ThreadAlone, AccountsKept DEF FinishTask, At, Goto, TypeOK, queueVars, Step
<1>19. ASSUME NEW t \in Thread, LookForWaiters(t) PROVE Accounts'
  BY <1>19, ThreadAlone, AccountsKept DEF LookForWaiters, At, Goto, TypeOK, queueVars, Step
<1>20. ASSUME NEW t \in Thread, NotifyWaiters(t) PROVE Accounts'
  <2>1. Notified(t, "pop")
    BY <1>20, Notification DEF NotifyWaiters, At
  <2> QED BY <1>20, <2>1, ThreadAlone, AccountsKept DEF NotifyWaiters, Notified, At, queueVars, Step
<1>21. ASSUME NEW t \in Thread, ReturnFromTask(t) PROVE Accounts'
  BY <1>21, ThreadAlone, AccountsKept DEF ReturnFromTask, At, Goto, TypeOK, queueVars, Step
<1>22. ASSUME NEW t \in Thread, HelperExits(t) PROVE Accounts'
  BY <1>22, ThreadAlone, AccountsKept DEF HelperExits, At, Goto, TypeOK, queueVars, Step
<1>23. ASSUME NEW t \in Thread, Sleep(t) PROVE Accounts'
  BY <1>23, ThreadAlone, AccountsKept DEF Sleep, At, Goto, TypeOK, queueVars, Step
<1>24. ASSUME NEW t \in Thread, OutsiderDone(t) PROVE Accounts'
  BY <1>24, ThreadAlone, AccountsKept DEF OutsiderDone, At, Goto, TypeOK, queueVars, Step
<1>25. CASE Shutdown
  <2>1. Owner \in Thread
    BY DEF Thread, Workers
  <2> QED BY <1>25, <2>1, OwnerAlone, AccountsKept DEF Shutdown, At, Goto, TypeOK, queueVars, ShutdownStep
<1>26. CASE ShutdownSignals
  <2>1. Owner \in Thread
    BY DEF Thread, Workers
  <2> QED BY <1>26, <2>1, OwnerAlone, AccountsKept DEF ShutdownSignals, At, Goto, TypeOK, queueVars, ShutdownStep
<1>27. CASE ShutdownNotifies
  <2>1. Notified(Owner, "join") /\ Owner \in Thread
    BY <1>27, Notification DEF ShutdownNotifies, At, Thread, Workers
  <2> QED BY <1>27, <2>1, OwnerAlone, AccountsKept DEF ShutdownNotifies, Notified, At, queueVars, ShutdownStep
<1>28. CASE JoinHelpers
  <2>1. Owner \in Thread
    BY DEF Thread, Workers
  <2> QED BY <1>28, <2>1, OwnerAlone, AccountsKept DEF JoinHelpers, At, Goto, TypeOK, queueVars, ShutdownStep
<1> QED BY <1>1, <1>2, <1>3, <1>4, <1>5, <1>6, <1>7, <1>8, <1>9, <1>10, <1>11, <1>12, <1>13, <1>14, <1>15, <1>16, <1>17, <1>18, <1>19, <1>20, <1>21, <1>22, <1>23, <1>24, <1>25, <1>26, <1>27, <1>28 DEF Next, Step, ShutdownStep, AllEnded

----------------------------------------------------------------------------
(* The count of registered waiters.                                        *)

\* A thread here is inside the wait, or the loop, of the task on its top.
WaitLabels == {"observe", "check", "passOn", "passOnNotify", "unregister", "local",
               "injected", "steal", "taken", "missed", "sleeping"}

\* The tasks on stacks that wait: those below the top, and those on top of a
\* thread inside a wait.
Waiting(t) == {i \in DOMAIN stack[t] : i < Len(stack[t]) \/ pc[t] \in WaitLabels}
Registered == UNION {{t} \X Waiting(t) : t \in Thread}

Registrations == IsFiniteSet(Registered) /\ waiters = Cardinality(Registered)

\* The pairs in that set.
RegisteredPairs ==
  /\ \A t, i : <<t, i>> \in Registered <=> t \in Thread /\ i \in Waiting(t)
  /\ \A p \in Registered : p = <<p[1], p[2]>>

\* They are that in every state.
LEMMA RegisteredAre == RegisteredPairs
<1>1. ASSUME NEW t, NEW i
      PROVE  <<t, i>> \in Registered <=> t \in Thread /\ i \in Waiting(t)
  BY DEF Registered
<1>2. ASSUME NEW p \in Registered
      PROVE  p = <<p[1], p[2]>>
  <2>1. PICK t \in Thread : p \in {t} \X Waiting(t)
    BY <1>2 DEF Registered
  <2> QED BY <2>1
<1> QED BY <1>1, <1>2 DEF RegisteredPairs

\* A step of t leaves the others waiting where they were.
LEMMA OthersWait ==
  ASSUME NEW t \in Thread, OthersStay(t), NEW u \in Thread, u # t
  PROVE  Waiting(u)' = Waiting(u)
<1>1. stack'[u] = stack[u] /\ (pc'[u] \in WaitLabels <=> pc[u] \in WaitLabels)
  BY DEF OthersStay, WaitLabels
<1> QED BY <1>1 DEF Waiting

\* A step that registers nobody.
LEMMA RegistrationsKept ==
  ASSUME Registrations, NEW t \in Thread, OthersStay(t), Waiting(t)' = Waiting(t),
         waiters' = waiters
  PROVE  Registrations'
<1>1. \A u \in Thread : Waiting(u)' = Waiting(u)
  BY OthersWait
<1>2. Registered' = Registered
  <2>1. RegisteredPairs'
    BY RegisteredAre, PTL
  <2> QED BY <1>1, <2>1, RegisteredAre DEF RegisteredPairs
<1> QED BY <1>2 DEF Registrations

\* In particular one that stays inside, or outside, a wait.
LEMMA WaitingKept ==
  ASSUME NEW t \in Thread, stack'[t] = stack[t], pc'[t] \in WaitLabels <=> pc[t] \in WaitLabels
  PROVE  Waiting(t)' = Waiting(t)
  BY DEF Waiting

\* Registering adds the task on top.
LEMMA RegisterRegistrations ==
  ASSUME TypeOK, Registrations, NEW t \in Thread, Register(t)
  PROVE  Registrations'
<1> DEFINE n == Len(stack[t])
<1>1. n \in Nat /\ DOMAIN stack[t] = 1..n /\ n \in 1..n
  BY CurrentIs DEF Register
<1>2. /\ stack'[t] = stack[t] /\ pc[t] = "work" /\ pc'[t] = "observe" /\ waiters' = waiters + 1
      /\ OthersStay(t)
  BY ThreadAlone DEF Register, At, Goto, TypeOK, progressVars, Step
<1> HIDE DEF n
<1>3. Waiting(t) = 1..(n - 1) /\ Waiting(t)' = 1..n
  BY <1>1, <1>2 DEF Waiting, WaitLabels, n
<1>4. Waiting(t)' = Waiting(t) \cup {n} /\ n \notin Waiting(t)
  BY <1>1, <1>3
<1>5. \A u \in Thread : u # t => Waiting(u)' = Waiting(u)
  BY <1>2, OthersWait
<1>6. Registered' = Registered \cup {<<t, n>>} /\ <<t, n>> \notin Registered
  <2>1. RegisteredPairs'
    BY RegisteredAre, PTL
  <2> QED BY <1>4, <1>5, <2>1, RegisteredAre DEF RegisteredPairs
<1>7. IsFiniteSet(Registered') /\ Cardinality(Registered') = Cardinality(Registered) + 1
  BY <1>6, FS_AddElement DEF Registrations
<1> QED BY <1>2, <1>7 DEF Registrations

\* Unregistering removes it.
LEMMA UnregisterRegistrations ==
  ASSUME TypeOK, Frames, Registrations, NEW t \in Thread, Unregister(t)
  PROVE  Registrations'
<1> DEFINE n == Len(stack[t])
<1>1. n \in Nat /\ DOMAIN stack[t] = 1..n /\ n \in 1..n
  <2>1. stack[t] # <<>>
    BY DEF Unregister, At, Frames, PlaceOK
  <2>2. n \in Nat \ {0} /\ stack[t] \in Seq(Program)
    BY <2>1, CurrentIs
  <2> QED BY <2>2
<1>2. /\ stack'[t] = stack[t] /\ pc[t] = "unregister" /\ pc'[t] = "work"
      /\ waiters' = waiters - 1 /\ OthersStay(t)
  BY ThreadAlone DEF Unregister, At, Goto, TypeOK, progressVars, Step
<1> HIDE DEF n
<1>3. Waiting(t) = 1..n /\ Waiting(t)' = 1..(n - 1)
  BY <1>1, <1>2 DEF Waiting, WaitLabels, n
<1>4. Waiting(t)' = Waiting(t) \ {n} /\ n \in Waiting(t)
  BY <1>1, <1>3
<1>5. \A u \in Thread : u # t => Waiting(u)' = Waiting(u)
  BY <1>2, OthersWait
<1>6. Registered' = Registered \ {<<t, n>>} /\ <<t, n>> \in Registered
  <2>1. RegisteredPairs'
    BY RegisteredAre, PTL
  <2> QED BY <1>4, <1>5, <2>1, RegisteredAre DEF RegisteredPairs
<1>7. IsFiniteSet(Registered') /\ Cardinality(Registered') = Cardinality(Registered) - 1
  BY <1>6, FS_RemoveElement DEF Registrations
<1> QED BY <1>2, <1>7 DEF Registrations

\* A task started leaves all below it waiting.
LEMMA StartRegistrations ==
  ASSUME TypeOK, Frames, Registrations, NEW t \in Thread, StartTask(t)
  PROVE  Registrations'
<1> DEFINE n == Len(stack[t])
<1>1. /\ stack[t] \in Seq(Program) /\ inHand[t] \in Program /\ stack'[t] = Append(stack[t], inHand[t])
      /\ pc[t] = "taken" /\ pc'[t] = "work" /\ waiters' = waiters /\ OthersStay(t)
  BY ThreadAlone DEF StartTask, At, Goto, TypeOK, Step, Frames, PlaceOK, Program
<1>2. n \in Nat /\ DOMAIN stack[t] = 1..n /\ DOMAIN stack'[t] = 1..(n + 1) /\ Len(stack'[t]) = n + 1
  BY <1>1, Pushed
<1> HIDE DEF n
<1>3. Waiting(t) = 1..n
  BY <1>1, <1>2 DEF Waiting, WaitLabels
<1>4. Waiting(t)' = 1..n
  BY <1>1, <1>2 DEF Waiting, WaitLabels
<1> QED BY <1>1, <1>3, <1>4, RegistrationsKept

\* So does one that returns.
LEMMA ReturnRegistrations ==
  ASSUME TypeOK, Frames, Registrations, NEW t \in Thread, ReturnFromTask(t)
  PROVE  Registrations'
<1> DEFINE n == Len(stack[t])
<1>1. /\ stack[t] \in Seq(Program) /\ stack[t] # <<>> /\ stack'[t] = Front(stack[t])
      /\ pc[t] = "pop" /\ pc'[t] = "observe" /\ waiters' = waiters /\ OthersStay(t)
  BY ThreadAlone DEF ReturnFromTask, At, Goto, TypeOK, Step, Frames, PlaceOK
<1>2. /\ n \in Nat \ {0} /\ DOMAIN stack[t] = 1..n /\ DOMAIN stack'[t] = 1..(n - 1)
  BY <1>1, Popped
<1>3. Waiting(t) = 1..(n - 1)
  BY <1>1, <1>2 DEF Waiting, WaitLabels
<1> HIDE DEF n
<1>4. Waiting(t)' = 1..(n - 1)
  BY <1>1, <1>2 DEF Waiting, WaitLabels
<1> QED BY <1>1, <1>3, <1>4, RegistrationsKept

\* Every step keeps the count of waiters.
LEMMA StepRegistrations ==
  ASSUME TypeOK, Frames, Registrations, [Next]_vars
  PROVE  Registrations'
<1>1. CASE UNCHANGED vars
  BY <1>1 DEF Registrations, Registered, Waiting, vars, progressVars
<1>2. ASSUME NEW t \in Thread, SubmitAllowed(t) PROVE Registrations'
  BY <1>2, ThreadAlone, RegistrationsKept, WaitingKept DEF SubmitAllowed, At, Goto, TypeOK, WaitLabels, progressVars, Step
<1>3. ASSUME NEW t \in Thread, Submit(t) PROVE Registrations'
  BY <1>3, ThreadAlone, RegistrationsKept, WaitingKept DEF Submit, At, Goto, TypeOK, WaitLabels, progressVars, Step
<1>4. ASSUME NEW t \in Thread, SubmitSignals(t) PROVE Registrations'
  BY <1>4, ThreadAlone, RegistrationsKept, WaitingKept DEF SubmitSignals, At, Goto, TypeOK, WaitLabels, progressVars, Step
<1>5. ASSUME NEW t \in Thread, SubmitNotifies(t) PROVE Registrations'
  <2>1. Notified(t, "work")
    BY <1>5, Notification DEF SubmitNotifies, At
  <2> QED BY <1>5, <2>1, ThreadAlone, RegistrationsKept, WaitingKept DEF SubmitNotifies, Notified, At, WaitLabels, progressVars, Step
<1>6. ASSUME NEW t \in Thread, SubmitRefused(t) PROVE Registrations'
  BY <1>6, ThreadAlone, RegistrationsKept, WaitingKept DEF SubmitRefused, At, Goto, TypeOK, WaitLabels, progressVars, Step
<1>7. ASSUME NEW t \in Thread, Register(t) PROVE Registrations'
  BY <1>7, RegisterRegistrations
<1>8. ASSUME NEW t \in Thread, Observe(t) PROVE Registrations'
  BY <1>8, ThreadAlone, RegistrationsKept, WaitingKept DEF Observe, At, Goto, TypeOK, WaitLabels, progressVars, Step
<1>9. ASSUME NEW t \in Thread, FutureNotReady(t) PROVE Registrations'
  BY <1>9, ThreadAlone, RegistrationsKept, WaitingKept DEF FutureNotReady, At, Goto, TypeOK, WaitLabels, progressVars, Step
<1>10. ASSUME NEW t \in Thread, FutureReady(t) PROVE Registrations'
  BY <1>10, ThreadAlone, RegistrationsKept, WaitingKept DEF FutureReady, At, Goto, TypeOK, WaitLabels, progressVars, Step
<1>11. ASSUME NEW t \in Thread, PassOnSignals(t) PROVE Registrations'
  BY <1>11, ThreadAlone, RegistrationsKept, WaitingKept DEF PassOnSignals, At, Goto, TypeOK, WaitLabels, progressVars, Step
<1>12. ASSUME NEW t \in Thread, PassOnNotifies(t) PROVE Registrations'
  <2>1. Notified(t, "unregister")
    BY <1>12, Notification DEF PassOnNotifies, At
  <2> QED BY <1>12, <2>1, ThreadAlone, RegistrationsKept, WaitingKept DEF PassOnNotifies, Notified, At, WaitLabels, progressVars, Step
<1>13. ASSUME NEW t \in Thread, Unregister(t) PROVE Registrations'
  BY <1>13, UnregisterRegistrations
<1>14. ASSUME NEW t \in Thread, PopLocal(t) PROVE Registrations'
  BY <1>14, ThreadAlone, RegistrationsKept, WaitingKept DEF PopLocal, Take, At, Goto, TypeOK, WaitLabels, progressVars, Step
<1>15. ASSUME NEW t \in Thread, PopInjected(t) PROVE Registrations'
  BY <1>15, ThreadAlone, RegistrationsKept, WaitingKept DEF PopInjected, TakeFirst, Take, At, Goto, TypeOK, WaitLabels, progressVars, Step
<1>16. ASSUME NEW t \in Thread, Steal(t) PROVE Registrations'
  BY <1>16, ThreadAlone, RegistrationsKept, WaitingKept DEF Steal, StealFrom, TakeFirst, Take, At, Goto, TypeOK, WaitLabels, progressVars, Step
<1>17. ASSUME NEW t \in Thread, StartTask(t) PROVE Registrations'
  BY <1>17, StartRegistrations
<1>18. ASSUME NEW t \in Thread, FinishTask(t) PROVE Registrations'
  BY <1>18, ThreadAlone, RegistrationsKept, WaitingKept DEF FinishTask, At, Goto, TypeOK, WaitLabels, progressVars, Step
<1>19. ASSUME NEW t \in Thread, LookForWaiters(t) PROVE Registrations'
  BY <1>19, ThreadAlone, RegistrationsKept, WaitingKept DEF LookForWaiters, At, Goto, TypeOK, WaitLabels, progressVars, Step
<1>20. ASSUME NEW t \in Thread, NotifyWaiters(t) PROVE Registrations'
  <2>1. Notified(t, "pop")
    BY <1>20, Notification DEF NotifyWaiters, At
  <2> QED BY <1>20, <2>1, ThreadAlone, RegistrationsKept, WaitingKept DEF NotifyWaiters, Notified, At, WaitLabels, progressVars, Step
<1>21. ASSUME NEW t \in Thread, ReturnFromTask(t) PROVE Registrations'
  BY <1>21, ReturnRegistrations
<1>22. ASSUME NEW t \in Thread, HelperExits(t) PROVE Registrations'
  <2>1. stack'[t] = <<>> /\ stack[t] = <<>> /\ waiters' = waiters
    BY <1>22 DEF HelperExits, Leaves, progressVars
  <2>2. Waiting(t)' = Waiting(t)
    BY <2>1 DEF Waiting
  <2> QED BY <1>22, <2>1, <2>2, ThreadAlone, RegistrationsKept DEF Step
<1>23. ASSUME NEW t \in Thread, Sleep(t) PROVE Registrations'
  BY <1>23, ThreadAlone, RegistrationsKept, WaitingKept DEF Sleep, At, Goto, TypeOK, WaitLabels, progressVars, Step
<1>24. ASSUME NEW t \in Thread, OutsiderDone(t) PROVE Registrations'
  BY <1>24, ThreadAlone, RegistrationsKept, WaitingKept DEF OutsiderDone, At, Goto, TypeOK, WaitLabels, progressVars, Step
<1>25. CASE Shutdown
  <2>1. Owner \in Thread
    BY DEF Thread, Workers
  <2> QED BY <1>25, <2>1, OwnerAlone, RegistrationsKept, WaitingKept DEF Shutdown, At, Goto, TypeOK, WaitLabels, progressVars, ShutdownStep
<1>26. CASE ShutdownSignals
  <2>1. Owner \in Thread
    BY DEF Thread, Workers
  <2> QED BY <1>26, <2>1, OwnerAlone, RegistrationsKept, WaitingKept DEF ShutdownSignals, At, Goto, TypeOK, WaitLabels, progressVars, ShutdownStep
<1>27. CASE ShutdownNotifies
  <2>1. Notified(Owner, "join") /\ Owner \in Thread
    BY <1>27, Notification DEF ShutdownNotifies, At, Thread, Workers
  <2> QED BY <1>27, <2>1, OwnerAlone, RegistrationsKept, WaitingKept DEF ShutdownNotifies, Notified, At, WaitLabels, progressVars, ShutdownStep
<1>28. CASE JoinHelpers
  <2>1. Owner \in Thread
    BY DEF Thread, Workers
  <2> QED BY <1>28, <2>1, OwnerAlone, RegistrationsKept, WaitingKept DEF JoinHelpers, At, Goto, TypeOK, WaitLabels, progressVars, ShutdownStep
<1> QED BY <1>1, <1>2, <1>3, <1>4, <1>5, <1>6, <1>7, <1>8, <1>9, <1>10, <1>11, <1>12, <1>13, <1>14, <1>15, <1>16, <1>17, <1>18, <1>19, <1>20, <1>21, <1>22, <1>23, <1>24, <1>25, <1>26, <1>27, <1>28 DEF Next, Step, ShutdownStep, AllEnded

\* Whoever waits is counted.
LEMMA WaiterCounted ==
  ASSUME TypeOK, Registrations, NEW t \in Thread, stack[t] # <<>>, pc[t] \in WaitLabels
  PROVE  waiters # 0
<1>1. <<t, Len(stack[t])>> \in Registered
  BY CurrentIs, RegisteredAre DEF RegisteredPairs, Waiting
<1> QED BY <1>1, FS_EmptySet DEF Registrations

----------------------------------------------------------------------------
(* Waiters whose future is ready.                                          *)

\* A thread here has seen its future not ready and looks at it again only
\* after a signal.
LookingLabels == {"local", "injected", "steal", "missed", "sleeping"}

Overdue(t) == stack[t] # <<>> /\ pc[t] \in LookingLabels /\ Awaiting(t) \in finished

\* When its future is ready it will look again, or a thread that finished a
\* task has still to signal, or has signalled and has still to notify.
Woken ==
  \A t \in Thread : Overdue(t) =>
    \/ moved[t] /\ pc[t] # "sleeping"
    \/ \E s \in Thread : pc[s] = "finished"
    \/ moved[t] /\ \E s \in Thread : pc[s] = "notifyAll"

\* A step of t that finishes nothing and is not a notification of all.
LEMMA WokenKept ==
  ASSUME Woken, NEW t \in Thread, OthersStay(t), finished' = finished, awaited' = awaited,
         pc[t] \notin {"finished", "notifyAll"},
         \A u \in Thread : u # t /\ moved[u] => moved'[u],
         \/ pc'[t] \notin LookingLabels
         \/ ~Overdue(t)'
         \/ /\ pc[t] \in LookingLabels /\ stack'[t] = stack[t] /\ moved'[t] = moved[t]
            /\ pc'[t] = "sleeping" => ~moved[t]
  PROVE  Woken'
<1> SUFFICES ASSUME NEW u \in Thread, Overdue(u)'
             PROVE  (\/ moved[u] /\ pc[u] # "sleeping"
                     \/ \E s \in Thread : pc[s] = "finished"
                     \/ moved[u] /\ \E s \in Thread : pc[s] = "notifyAll")'
  BY DEF Woken
<1>1. \A s \in Thread : pc[s] \in {"finished", "notifyAll"} => pc'[s] = pc[s]
  BY DEF OthersStay
<1>2. CASE u = t
  <2>1. Overdue(t) /\ moved'[t] = moved[t] /\ (pc'[t] = "sleeping" => ~moved[t])
    BY <1>2 DEF Overdue, Awaiting, Current
  <2> QED BY <1>1, <1>2, <2>1 DEF Woken
<1>3. CASE u # t
  <2>1. stack'[u] = stack[u] /\ pc'[u] = pc[u]
    BY <1>3 DEF OthersStay, Overdue, LookingLabels
  <2>2. Overdue(u)
    BY <2>1 DEF Overdue, Awaiting, Current
  <2> QED BY <1>1, <1>3, <2>1, <2>2 DEF Woken
<1> QED BY <1>2, <1>3

\* No step leaves a waiter behind.
LEMMA StepWoken ==
  ASSUME TypeOK, Frames, Once, Registrations, Woken, [Next]_vars
  PROVE  Woken'
<1>1. CASE UNCHANGED vars
  BY <1>1 DEF Woken, Overdue, Awaiting, Current, vars, progressVars
<1>2. ASSUME NEW t \in Thread, SubmitAllowed(t) PROVE Woken'
  BY <1>2, ThreadAlone, WokenKept DEF SubmitAllowed, At, Goto, TypeOK, EventMoves, LookingLabels, progressVars, Step
<1>3. ASSUME NEW t \in Thread, Submit(t) PROVE Woken'
  BY <1>3, ThreadAlone, WokenKept DEF Submit, At, Goto, TypeOK, EventMoves, LookingLabels, progressVars, Step
<1>4. ASSUME NEW t \in Thread, SubmitSignals(t) PROVE Woken'
  BY <1>4, ThreadAlone, WokenKept DEF SubmitSignals, At, Goto, TypeOK, EventMoves, LookingLabels, progressVars, Step
<1>5. ASSUME NEW t \in Thread, SubmitNotifies(t) PROVE Woken'
  <2>1. Notified(t, "work")
    BY <1>5, Notification DEF SubmitNotifies, At
  <2> QED BY <1>5, <2>1, ThreadAlone, WokenKept DEF SubmitNotifies, Notified, At, LookingLabels, progressVars, Step
<1>6. ASSUME NEW t \in Thread, SubmitRefused(t) PROVE Woken'
  <2>1. pc'[t] = "finished"
    BY <1>6 DEF SubmitRefused, Goto, TypeOK
  <2> QED BY <1>6, <2>1 DEF Woken
<1>7. ASSUME NEW t \in Thread, Register(t) PROVE Woken'
  BY <1>7, ThreadAlone, WokenKept DEF Register, At, Goto, TypeOK, EventMoves, LookingLabels, progressVars, Step
<1>8. ASSUME NEW t \in Thread, Observe(t) PROVE Woken'
  <2>1. ~Overdue(t)'
    BY <1>8 DEF Observe, Goto, TypeOK, Overdue, LookingLabels, progressVars
  <2> QED BY <1>8, <2>1, ThreadAlone, WokenKept DEF Observe, At, Goto, TypeOK, progressVars, Step
<1>9. ASSUME NEW t \in Thread, FutureNotReady(t) PROVE Woken'
  <2>1. ~Overdue(t)'
    BY <1>9 DEF FutureNotReady, Overdue, Awaiting, Current, progressVars
  <2> QED BY <1>9, <2>1, ThreadAlone, WokenKept DEF FutureNotReady, At, Goto, TypeOK, progressVars, Step
<1>10. ASSUME NEW t \in Thread, FutureReady(t) PROVE Woken'
  BY <1>10, ThreadAlone, WokenKept DEF FutureReady, At, Goto, TypeOK, EventMoves, LookingLabels, progressVars, Step
<1>11. ASSUME NEW t \in Thread, PassOnSignals(t) PROVE Woken'
  BY <1>11, ThreadAlone, WokenKept DEF PassOnSignals, At, Goto, TypeOK, EventMoves, LookingLabels, progressVars, Step
<1>12. ASSUME NEW t \in Thread, PassOnNotifies(t) PROVE Woken'
  <2>1. Notified(t, "unregister")
    BY <1>12, Notification DEF PassOnNotifies, At
  <2> QED BY <1>12, <2>1, ThreadAlone, WokenKept DEF PassOnNotifies, Notified, At, LookingLabels, progressVars, Step
<1>13. ASSUME NEW t \in Thread, Unregister(t) PROVE Woken'
  <2>1. OthersStay(t) /\ stack[t] # <<>>
    BY <1>13, ThreadAlone DEF Unregister, At, Frames, PlaceOK, Step
  <2>2. /\ pc[t] = "unregister" /\ pc'[t] = "work" /\ finished' = finished /\ moved' = moved
        /\ stack' = stack /\ awaited' = [awaited EXCEPT ![Current(t)] = awaited[Current(t)] + 1]
    BY <1>13 DEF Unregister, At, Goto, TypeOK
  <2> SUFFICES ASSUME NEW u \in Thread, Overdue(u)'
               PROVE  (\/ moved[u] /\ pc[u] # "sleeping"
                       \/ \E s \in Thread : pc[s] = "finished"
                       \/ moved[u] /\ \E s \in Thread : pc[s] = "notifyAll")'
    BY DEF Woken
  <2>3. \A s \in Thread : pc[s] \in {"finished", "notifyAll"} => pc'[s] = pc[s]
    BY <2>1, <2>2 DEF OthersStay
  <2>4. u # t /\ pc'[u] = pc[u] /\ stack[u] # <<>>
    BY <2>1, <2>2 DEF OthersStay, Overdue, LookingLabels
  <2>5. Current(u) # Current(t) /\ Current(u) \in Program
    BY <1>13, <2>1, <2>4, CurrentApart, CurrentIs DEF Once
  <2>6. awaited'[Current(u)] = awaited[Current(u)]
    BY <2>2, <2>5 DEF TypeOK
  <2>7. Overdue(u)
    BY <2>2, <2>4, <2>6 DEF Overdue, Awaiting, Current
  <2> QED BY <2>2, <2>3, <2>4, <2>7 DEF Woken
<1>14. ASSUME NEW t \in Thread, PopLocal(t) PROVE Woken'
  <2>1. OthersStay(t) /\ UNCHANGED <<stack, awaited, finished, moved>>
    BY <1>14, ThreadAlone DEF PopLocal, progressVars, Step
  <2>2. pc[t] \in {"local", "injected", "steal"}
        /\ pc'[t] \in {"injected", "steal", "missed", "taken"}
    BY <1>14 DEF PopLocal, Take, At, Goto, TypeOK
  <2> QED BY <1>14, <2>1, <2>2, WokenKept DEF LookingLabels
<1>15. ASSUME NEW t \in Thread, PopInjected(t) PROVE Woken'
  <2>1. OthersStay(t) /\ UNCHANGED <<stack, awaited, finished, moved>>
    BY <1>15, ThreadAlone DEF PopInjected, progressVars, Step
  <2>2. pc[t] \in {"local", "injected", "steal"}
        /\ pc'[t] \in {"injected", "steal", "missed", "taken"}
    BY <1>15 DEF PopInjected, TakeFirst, Take, At, Goto, TypeOK
  <2> QED BY <1>15, <2>1, <2>2, WokenKept DEF LookingLabels
<1>16. ASSUME NEW t \in Thread, Steal(t) PROVE Woken'
  <2>1. OthersStay(t) /\ UNCHANGED <<stack, awaited, finished, moved>>
    BY <1>16, ThreadAlone DEF Steal, StealFrom, progressVars, Step
  <2>2. pc[t] \in {"local", "injected", "steal"}
        /\ pc'[t] \in {"injected", "steal", "missed", "taken"}
    BY <1>16 DEF Steal, StealFrom, TakeFirst, Take, At, Goto, TypeOK
  <2> QED BY <1>16, <2>1, <2>2, WokenKept DEF LookingLabels
<1>17. ASSUME NEW t \in Thread, StartTask(t) PROVE Woken'
  BY <1>17, ThreadAlone, WokenKept DEF StartTask, At, Goto, TypeOK, EventMoves, LookingLabels, progressVars, Step
<1>18. ASSUME NEW t \in Thread, FinishTask(t) PROVE Woken'
  <2>1. pc'[t] = "finished"
    BY <1>18 DEF FinishTask, Goto, TypeOK
  <2> QED BY <1>18, <2>1 DEF Woken
<1>19. ASSUME NEW t \in Thread, LookForWaiters(t) PROVE Woken'
  <2>1. OthersStay(t) /\ pc[t] = "finished" /\ UNCHANGED <<stack, awaited, finished>>
    BY <1>19, ThreadAlone DEF LookForWaiters, At, Step, progressVars
  <2>2. CASE waiters # 0
    <3>1. pc'[t] = "notifyAll" /\ \A u \in Thread : moved'[u] = TRUE
      BY <1>19, <2>2 DEF LookForWaiters, EventMoves, Goto, TypeOK
    <3> QED BY <1>19, <3>1 DEF Woken
  <2>3. CASE waiters = 0
    <3>1. pc'[t] = "pop"
      BY <1>19, <2>3 DEF LookForWaiters, Goto, TypeOK
    <3>2. ASSUME NEW u \in Thread, Overdue(u)' PROVE FALSE
      <4>1. u # t /\ pc[u] \in LookingLabels /\ stack[u] # <<>>
        BY <2>1, <3>1, <3>2 DEF OthersStay, Overdue, LookingLabels
      <4> QED BY <2>3, <4>1, WaiterCounted DEF LookingLabels, WaitLabels
    <3> QED BY <3>2 DEF Woken
  <2> QED BY <2>2, <2>3
<1>20. ASSUME NEW t \in Thread, NotifyWaiters(t) PROVE Woken'
  <2>1. /\ pc[t] = "notifyAll" /\ pc'[t] = "pop"
        /\ \A u \in Thread : u # t => pc'[u] = IF u \in Sleepers /\ Wakes(u) THEN "observe" ELSE pc[u]
    BY <1>20 DEF NotifyWaiters, At, WakeAll
  <2>2. UNCHANGED <<stack, awaited, finished, moved>>
    BY <1>20 DEF NotifyWaiters, progressVars
  <2> SUFFICES ASSUME NEW u \in Thread, Overdue(u)'
               PROVE  (\/ moved[u] /\ pc[u] # "sleeping"
                       \/ \E s \in Thread : pc[s] = "finished")'
    BY DEF Woken
  <2>3. u # t /\ pc'[u] = pc[u]
    BY <2>1 DEF Overdue, LookingLabels
  <2>4. Overdue(u)
    BY <2>2, <2>3 DEF Overdue, Awaiting, Current
  <2>5. moved[u] => pc[u] # "sleeping"
    BY <2>1, <2>3 DEF Sleepers, Wakes
  <2>6. \A s \in Thread : pc[s] = "finished" => pc'[s] = "finished"
    BY <2>1 DEF Sleepers
  <2> QED BY <2>2, <2>3, <2>4, <2>5, <2>6 DEF Woken
<1>21. ASSUME NEW t \in Thread, ReturnFromTask(t) PROVE Woken'
  BY <1>21, ThreadAlone, WokenKept DEF ReturnFromTask, At, Goto, TypeOK, EventMoves, LookingLabels, progressVars, Step
<1>22. ASSUME NEW t \in Thread, HelperExits(t) PROVE Woken'
  BY <1>22, ThreadAlone, WokenKept DEF HelperExits, At, Goto, TypeOK, EventMoves, LookingLabels, progressVars, Step
<1>23. ASSUME NEW t \in Thread, Sleep(t) PROVE Woken'
  BY <1>23, ThreadAlone, WokenKept DEF Sleep, At, Goto, TypeOK, EventMoves, LookingLabels, progressVars, Step
<1>24. ASSUME NEW t \in Thread, OutsiderDone(t) PROVE Woken'
  BY <1>24, ThreadAlone, WokenKept DEF OutsiderDone, At, Goto, TypeOK, EventMoves, LookingLabels, progressVars, Step
<1>25. CASE Shutdown
  <2>1. Owner \in Thread
    BY DEF Thread, Workers
  <2> QED BY <1>25, <2>1, OwnerAlone, WokenKept DEF Shutdown, At, Goto, TypeOK, EventMoves, LookingLabels, progressVars, ShutdownStep
<1>26. CASE ShutdownSignals
  <2>1. Owner \in Thread
    BY DEF Thread, Workers
  <2> QED BY <1>26, <2>1, OwnerAlone, WokenKept DEF ShutdownSignals, At, Goto, TypeOK, EventMoves, LookingLabels, progressVars, ShutdownStep
<1>27. CASE ShutdownNotifies
  <2>1. Notified(Owner, "join") /\ Owner \in Thread
    BY <1>27, Notification DEF ShutdownNotifies, At, Thread, Workers
  <2> QED BY <1>27, <2>1, OwnerAlone, WokenKept DEF ShutdownNotifies, Notified, At, LookingLabels, progressVars, ShutdownStep
<1>28. CASE JoinHelpers
  <2>1. Owner \in Thread
    BY DEF Thread, Workers
  <2> QED BY <1>28, <2>1, OwnerAlone, WokenKept DEF JoinHelpers, At, Goto, TypeOK, EventMoves, LookingLabels, progressVars, ShutdownStep
<1> QED BY <1>1, <1>2, <1>3, <1>4, <1>5, <1>6, <1>7, <1>8, <1>9, <1>10, <1>11, <1>12, <1>13, <1>14, <1>15, <1>16, <1>17, <1>18, <1>19, <1>20, <1>21, <1>22, <1>23, <1>24, <1>25, <1>26, <1>27, <1>28 DEF Next, Step, ShutdownStep, AllEnded

\* So none is forgotten.
LEMMA WokenRemembered ==
  ASSUME Woken
  PROVE  NoForgottenWaiter
  BY DEF Woken, Overdue, LookingLabels, Sleepers, NoForgottenWaiter

----------------------------------------------------------------------------
(* What a thread that found nothing knows.                                 *)

\* The queues a thread has looked into since it observed the event count.
Scanned(t) == IF pc[t] = "local" THEN {}
              ELSE IF pc[t] = "injected" THEN Workers \cap {t}
              ELSE IF pc[t] = "steal" THEN Queues \ unscanned[t]
              ELSE Queues

Seen(t) == {p \in Backlog : p[1] \in Scanned(t)}

\* Threads that queued a task and have still to signal it.
Announced == {t \in Thread : pc[t] = "submitted"}

\* While the event count has not moved, what lies in the queues a thread has
\* looked into came there after it looked and has still to be signalled.
Scans ==
  \A t \in Thread : pc[t] \in LookingLabels /\ ~moved[t]
                      => Cardinality(Seen(t)) <= Cardinality(Announced)

\* The sets are finite.
LEMMA SeenFinite ==
  ASSUME IsFiniteSet(Backlog), NEW t
  PROVE  IsFiniteSet(Seen(t)) /\ Cardinality(Seen(t)) \in Nat
  BY FS_Subset, FS_CardinalityType DEF Seen

\* In every state too.
LEMMA AnnouncedFinite ==
  /\ IsFiniteSet(Announced) /\ Cardinality(Announced) \in Nat
  /\ IsFiniteSet(Announced') /\ Cardinality(Announced') \in Nat
  /\ IsFiniteSet(Looking) /\ Cardinality(Looking) \in Nat
  /\ IsFiniteSet(Looking') /\ Cardinality(Looking') \in Nat
<1>1. /\ Announced \in SUBSET Thread /\ Announced' \in SUBSET Thread
      /\ Looking \in SUBSET Thread /\ Looking' \in SUBSET Thread
  BY DEF Announced, Looking
<1>2. IsFiniteSet(Thread)
  BY ExecutorAssumption
<1> QED BY <1>1, <1>2, FS_Subset, FS_CardinalityType

\* A step of t that queues nothing and signals nothing.
LEMMA ScansKept ==
  ASSUME Scans, IsFiniteSet(Backlog), NEW t \in Thread, OthersStay(t),
         Backlog' \subseteq Backlog, pc[t] # "submitted", pc'[t] # "submitted",
         \A u \in Thread : u # t => unscanned'[u] = unscanned[u] /\ (moved[u] => moved'[u]),
         \/ pc'[t] \notin LookingLabels
         \/ moved'[t]
         \/ Seen(t)' = {}
         \/ pc[t] \in LookingLabels /\ moved'[t] = moved[t] /\ Seen(t)' \subseteq Seen(t)
  PROVE  Scans'
<1> SUFFICES ASSUME NEW u \in Thread, pc'[u] \in LookingLabels, ~moved'[u]
             PROVE  Cardinality(Seen(u)') <= Cardinality(Announced')
  BY DEF Scans
<1>1. Announced' = Announced
  BY DEF OthersStay, Announced
<1>2. CASE Seen(u)' = {}
  BY <1>2, FS_EmptySet, AnnouncedFinite
<1>3. CASE Seen(u)' # {}
  <2>1. pc[u] \in LookingLabels /\ ~moved[u] /\ Seen(u)' \subseteq Seen(u)
    <3>1. CASE u = t
      BY <1>3, <3>1
    <3>2. CASE u # t
      <4>1. pc'[u] = pc[u]
        BY <3>2 DEF OthersStay, LookingLabels
      <4>2. Scanned(u)' = Scanned(u)
        BY <3>2, <4>1 DEF Scanned
      <4> QED BY <3>2, <4>1, <4>2 DEF Seen
    <3> QED BY <3>1, <3>2
  <2>2. Cardinality(Seen(u)) <= Cardinality(Announced)
    BY <2>1 DEF Scans
  <2>3. /\ Cardinality(Seen(u)') <= Cardinality(Seen(u))
        /\ Cardinality(Seen(u)') \in Nat /\ Cardinality(Seen(u)) \in Nat
    BY <2>1, SeenFinite, FS_Subset, FS_CardinalityType
  <2> QED BY <1>1, <2>2, <2>3, AnnouncedFinite
<1> QED BY <1>2, <1>3

\* Submitting adds a task and one to signal it.
LEMMA SubmitScans ==
  ASSUME TypeOK, Frames, Counted, Accounts, Scans, NEW t \in Thread, Submit(t)
  PROVE  Scans'
<1> DEFINE x == Children[Current(t)][submitted[Current(t)] + 1]
           q == IF t \in Workers THEN t ELSE Injected
<1>1. queue' = [queue EXCEPT ![q] = Append(@, x)] /\ UNCHANGED <<moved, unscanned>>
  BY DEF Submit
<1>2. x \in Task /\ q \in Queues
  BY ChildIs DEF Submit, At, Queues
<1> HIDE DEF x, q
<1>3. PICK p : p \notin Backlog /\ Backlog' = Backlog \cup {p}
  BY <1>1, <1>2, BacklogGrows
<1>4. Announced' = Announced \cup {t} /\ t \notin Announced
  BY DEF Submit, At, Goto, TypeOK, Announced
<1>5. Cardinality(Announced') = Cardinality(Announced) + 1
  BY <1>4, FS_AddElement, AnnouncedFinite
<1> SUFFICES ASSUME NEW u \in Thread, pc'[u] \in LookingLabels, ~moved'[u]
             PROVE  Cardinality(Seen(u)') <= Cardinality(Announced')
  BY DEF Scans
<1>6. pc'[u] = pc[u] /\ ~moved[u]
  BY <1>1 DEF Submit, Goto, TypeOK, LookingLabels
<1>7. Scanned(u)' = Scanned(u)
  BY <1>1, <1>6 DEF Scanned
<1>8. Seen(u)' \subseteq Seen(u) \cup {p}
  BY <1>3, <1>7 DEF Seen
<1>9. IsFiniteSet(Seen(u)) /\ Cardinality(Seen(u)) \in Nat
  BY SeenFinite DEF Accounts
<1>10. /\ IsFiniteSet(Seen(u) \cup {p}) /\ Cardinality(Seen(u) \cup {p}) \in Nat
       /\ Cardinality(Seen(u) \cup {p}) <= Cardinality(Seen(u)) + 1
  <2>1. /\ IsFiniteSet(Seen(u) \cup {p})
        /\ Cardinality(Seen(u) \cup {p})
             = IF p \in Seen(u) THEN Cardinality(Seen(u)) ELSE Cardinality(Seen(u)) + 1
    BY <1>9, FS_AddElement
  <2>2. Cardinality(Seen(u) \cup {p}) \in Nat
    BY <2>1, FS_CardinalityType
  <2> QED BY <1>9, <2>1, <2>2
<1>11. /\ Cardinality(Seen(u)') <= Cardinality(Seen(u) \cup {p})
       /\ Cardinality(Seen(u)') \in Nat
  BY <1>8, <1>10, FS_Subset, FS_CardinalityType
<1>12. Cardinality(Seen(u)) <= Cardinality(Announced)
  BY <1>6 DEF Scans
<1> QED BY <1>5, <1>9, <1>10, <1>11, <1>12, AnnouncedFinite

\* What is taken was in the backlog.
LEMMA TakeBacklog ==
  ASSUME TypeOK, NEW t \in Thread, NEW q \in Queues, NEW x, NEW rest, Take(t, q, x, rest),
         \/ x = Last(queue[q]) /\ rest = Front(queue[q])
         \/ x = Head(queue[q]) /\ rest = Tail(queue[q])
  PROVE  Backlog' \subseteq Backlog
  BY BacklogShrinks

\* Nothing is seen in an empty queue.
LEMMA NothingSeen ==
  ASSUME NEW q, queue[q] = <<>>, NEW p \in Backlog
  PROVE  p[1] # q
  BY BacklogPlaces DEF ArePlaces

\* Every step keeps what threads know.
LEMMA StepScans ==
  ASSUME TypeOK, Frames, Counted, Accounts, Scans, [Next]_vars
  PROVE  Scans'
<1> USE DEF Accounts
<1>1. CASE UNCHANGED vars
  BY <1>1 DEF Scans, Seen, Scanned, Backlog, Announced, vars, queueVars
<1>2. ASSUME NEW t \in Thread, SubmitAllowed(t) PROVE Scans'
  <2>1. Backlog' = Backlog
    BY <1>2 DEF SubmitAllowed, Backlog, queueVars
  <2> QED BY <1>2, <2>1, ThreadAlone, ScansKept DEF SubmitAllowed, At, Goto, TypeOK, LookingLabels, Step
<1>3. ASSUME NEW t \in Thread, Submit(t) PROVE Scans'
  BY <1>3, SubmitScans
<1>4. ASSUME NEW t \in Thread, SubmitSignals(t) PROVE Scans'
  <2>1. \A u \in Thread : moved'[u] = TRUE
    BY <1>4 DEF SubmitSignals, EventMoves
  <2> QED BY <2>1 DEF Scans
<1>5. ASSUME NEW t \in Thread, SubmitNotifies(t) PROVE Scans'
  <2>1. Notified(t, "work")
    BY <1>5, Notification DEF SubmitNotifies, At
  <2>2. Backlog' = Backlog
    BY <1>5 DEF SubmitNotifies, Backlog, queueVars
  <2> QED BY <1>5, <2>1, <2>2, ThreadAlone, ScansKept DEF SubmitNotifies, Notified, At, LookingLabels, Step
<1>6. ASSUME NEW t \in Thread, SubmitRefused(t) PROVE Scans'
  <2>1. Backlog' = Backlog
    BY <1>6 DEF SubmitRefused, Backlog, queueVars
  <2> QED BY <1>6, <2>1, ThreadAlone, ScansKept DEF SubmitRefused, At, Goto, TypeOK, LookingLabels, Step
<1>7. ASSUME NEW t \in Thread, Register(t) PROVE Scans'
  <2>1. Backlog' = Backlog
    BY <1>7 DEF Register, Backlog, queueVars
  <2> QED BY <1>7, <2>1, ThreadAlone, ScansKept DEF Register, At, Goto, TypeOK, LookingLabels, Step
<1>8. ASSUME NEW t \in Thread, Observe(t) PROVE Scans'
  <2>1. Backlog' = Backlog
    BY <1>8 DEF Observe, Backlog, queueVars
  <2>2. pc'[t] = "local" => Seen(t)' = {}
    BY DEF Seen, Scanned
  <2>3. \A u \in Thread : u # t => moved'[u] = moved[u]
    BY <1>8 DEF Observe, TypeOK
  <2>4. pc'[t] \in {"local", "check"}
    BY <1>8 DEF Observe, Goto, TypeOK
  <2> QED BY <1>8, <2>1, <2>2, <2>3, <2>4, ThreadAlone, ScansKept DEF Observe, At, LookingLabels, Step
<1>9. ASSUME NEW t \in Thread, FutureNotReady(t) PROVE Scans'
  <2>1. Backlog' = Backlog
    BY <1>9 DEF FutureNotReady, Backlog, queueVars
  <2>2. pc'[t] = "local" \/ (pc'[t] = "injected" /\ t \notin Workers)
    BY <1>9 DEF FutureNotReady, Goto, TypeOK
  <2>3. Seen(t)' = {}
    BY <2>2 DEF Seen, Scanned
  <2> QED BY <1>9, <2>1, <2>2, <2>3, ThreadAlone, ScansKept DEF FutureNotReady, At, LookingLabels, Step
<1>10. ASSUME NEW t \in Thread, FutureReady(t) PROVE Scans'
  <2>1. Backlog' = Backlog
    BY <1>10 DEF FutureReady, Backlog, queueVars
  <2> QED BY <1>10, <2>1, ThreadAlone, ScansKept DEF FutureReady, At, Goto, TypeOK, LookingLabels, Step
<1>11. ASSUME NEW t \in Thread, PassOnSignals(t) PROVE Scans'
  <2>1. \A u \in Thread : moved'[u] = TRUE
    BY <1>11 DEF PassOnSignals, EventMoves
  <2> QED BY <2>1 DEF Scans
<1>12. ASSUME NEW t \in Thread, PassOnNotifies(t) PROVE Scans'
  <2>1. Notified(t, "unregister")
    BY <1>12, Notification DEF PassOnNotifies, At
  <2>2. Backlog' = Backlog
    BY <1>12 DEF PassOnNotifies, Backlog, queueVars
  <2> QED BY <1>12, <2>1, <2>2, ThreadAlone, ScansKept DEF PassOnNotifies, Notified, At, LookingLabels, Step
<1>13. ASSUME NEW t \in Thread, Unregister(t) PROVE Scans'
  <2>1. Backlog' = Backlog
    BY <1>13 DEF Unregister, Backlog, queueVars
  <2> QED BY <1>13, <2>1, ThreadAlone, ScansKept DEF Unregister, At, Goto, TypeOK, LookingLabels, Step
<1>14. ASSUME NEW t \in Thread, PopLocal(t) PROVE Scans'
  <2>1. CASE queue[t] = <<>> /\ Goto(t, "injected") /\ UNCHANGED queue
    <3>1. Backlog' = Backlog
      BY <2>1 DEF Backlog
    <3>2. pc'[t] = "injected"
      BY <1>14, <2>1 DEF Goto, TypeOK
    <3>3. Seen(t)' = {}
      BY <2>1, <3>1, <3>2, NothingSeen DEF Seen, Scanned
    <3> QED BY <1>14, <3>1, <3>2, <3>3, ThreadAlone, ScansKept DEF PopLocal, At, Step
  <2>2. CASE Take(t, t, Last(queue[t]), Front(queue[t]))
    <3>1. t \in Queues
      BY <1>14 DEF PopLocal, At, Frames, PlaceOK, Queues
    <3>2. Backlog' \subseteq Backlog
      BY <1>14, <2>2, <3>1, TakeBacklog
    <3>3. pc'[t] = "taken"
      BY <1>14, <2>2 DEF Take, Goto, TypeOK
    <3> QED BY <1>14, <3>2, <3>3, ThreadAlone, ScansKept DEF PopLocal, At, LookingLabels, Step
  <2> QED BY <1>14, <2>1, <2>2 DEF PopLocal
<1>15. ASSUME NEW t \in Thread, PopInjected(t) PROVE Scans'
  <2>1. CASE /\ queue[Injected] = <<>> /\ UNCHANGED queue
             /\ unscanned' = [unscanned EXCEPT ![t] = Workers \ {t}]
             /\ Goto(t, IF Workers \ {t} = {} THEN "missed" ELSE "steal")
    <3>1. Backlog' = Backlog
      BY <2>1 DEF Backlog
    <3>2. pc'[t] = (IF Workers \ {t} = {} THEN "missed" ELSE "steal") /\ pc[t] = "injected"
      BY <1>15, <2>1 DEF Goto, TypeOK, PopInjected, At
    <3>3. unscanned'[t] = Workers \ {t} /\ \A u \in Thread : u # t => unscanned'[u] = unscanned[u]
      BY <1>15, <2>1 DEF TypeOK
    <3>4. Scanned(t)' \subseteq Scanned(t) \cup {Injected}
      BY <3>2, <3>3 DEF Scanned, Queues
    <3>5. Seen(t)' \subseteq Seen(t)
      BY <2>1, <3>1, <3>4, NothingSeen DEF Seen
    <3> QED BY <1>15, <3>1, <3>2, <3>3, <3>5, ThreadAlone, ScansKept DEF PopInjected, LookingLabels, Step
  <2>2. CASE TakeFirst(t, Injected) /\ UNCHANGED unscanned
    <3>1. Injected \in Queues
      BY DEF Queues
    <3>2. Backlog' \subseteq Backlog
      BY <1>15, <2>2, <3>1, TakeBacklog DEF TakeFirst
    <3>3. pc'[t] = "taken"
      BY <1>15, <2>2 DEF TakeFirst, Take, Goto, TypeOK
    <3> QED BY <1>15, <2>2, <3>2, <3>3, ThreadAlone, ScansKept DEF PopInjected, At, LookingLabels, Step
  <2> QED BY <1>15, <2>1, <2>2 DEF PopInjected
<1>16. ASSUME NEW t \in Thread, Steal(t) PROVE Scans'
  <2>1. PICK v \in Workers : StealFrom(t, v)
    BY <1>16 DEF Steal
  <2>2. CASE /\ queue[v] = <<>> /\ UNCHANGED queue
             /\ unscanned' = [unscanned EXCEPT ![t] = unscanned[t] \ {v}]
             /\ Goto(t, IF unscanned[t] = {v} THEN "missed" ELSE "steal")
    <3>1. Backlog' = Backlog
      BY <2>2 DEF Backlog
    <3>2. pc'[t] = (IF unscanned[t] = {v} THEN "missed" ELSE "steal") /\ pc[t] = "steal"
      BY <1>16, <2>1, <2>2 DEF Goto, TypeOK, StealFrom, At
    <3>3. /\ unscanned'[t] = unscanned[t] \ {v}
          /\ \A u \in Thread : u # t => unscanned'[u] = unscanned[u]
      BY <1>16, <2>2 DEF TypeOK
    <3>4. Scanned(t)' \subseteq Scanned(t) \cup {v}
      BY <3>2, <3>3 DEF Scanned
    <3>5. Seen(t)' \subseteq Seen(t)
      BY <2>2, <3>1, <3>4, NothingSeen DEF Seen
    <3> QED BY <1>16, <2>1, <3>1, <3>2, <3>3, <3>5, ThreadAlone, ScansKept DEF StealFrom, LookingLabels, Step
  <2>3. CASE TakeFirst(t, v) /\ unscanned' = [unscanned EXCEPT ![t] = {}]
    <3>1. v \in Queues
      BY DEF Queues
    <3>2. Backlog' \subseteq Backlog
      BY <1>16, <2>3, <3>1, TakeBacklog DEF TakeFirst
    <3>3. pc'[t] = "taken" /\ \A u \in Thread : u # t => unscanned'[u] = unscanned[u]
      BY <1>16, <2>3 DEF TakeFirst, Take, Goto, TypeOK
    <3> QED BY <1>16, <2>1, <3>2, <3>3, ThreadAlone, ScansKept DEF StealFrom, At, LookingLabels, Step
  <2> QED BY <2>1, <2>2, <2>3 DEF StealFrom
<1>17. ASSUME NEW t \in Thread, StartTask(t) PROVE Scans'
  <2>1. Backlog' = Backlog
    BY <1>17 DEF StartTask, Backlog, queueVars
  <2> QED BY <1>17, <2>1, ThreadAlone, ScansKept DEF StartTask, At, Goto, TypeOK, LookingLabels, Step
<1>18. ASSUME NEW t \in Thread, FinishTask(t) PROVE Scans'
  <2>1. Backlog' = Backlog
    BY <1>18 DEF FinishTask, Backlog, queueVars
  <2> QED BY <1>18, <2>1, ThreadAlone, ScansKept DEF FinishTask, At, Goto, TypeOK, LookingLabels, Step
<1>19. ASSUME NEW t \in Thread, LookForWaiters(t) PROVE Scans'
  <2>1. CASE waiters # 0
    <3>1. \A u \in Thread : moved'[u] = TRUE
      BY <1>19, <2>1 DEF LookForWaiters, EventMoves
    <3> QED BY <3>1 DEF Scans
  <2>2. CASE waiters = 0
    <3>1. Backlog' = Backlog
      BY <1>19 DEF LookForWaiters, Backlog, queueVars
    <3>2. Goto(t, "pop") /\ UNCHANGED <<moved, unscanned>>
      BY <1>19, <2>2 DEF LookForWaiters
    <3> QED BY <1>19, <3>1, <3>2, ThreadAlone, ScansKept DEF LookForWaiters, At, Goto, TypeOK, LookingLabels, Step
  <2> QED BY <2>1, <2>2
<1>20. ASSUME NEW t \in Thread, NotifyWaiters(t) PROVE Scans'
  <2>1. Notified(t, "pop")
    BY <1>20, Notification DEF NotifyWaiters, At
  <2>2. Backlog' = Backlog
    BY <1>20 DEF NotifyWaiters, Backlog, queueVars
  <2> QED BY <1>20, <2>1, <2>2, ThreadAlone, ScansKept DEF NotifyWaiters, Notified, At, LookingLabels, Step
<1>21. ASSUME NEW t \in Thread, ReturnFromTask(t) PROVE Scans'
  <2>1. Backlog' = Backlog
    BY <1>21 DEF ReturnFromTask, Backlog, queueVars
  <2> QED BY <1>21, <2>1, ThreadAlone, ScansKept DEF ReturnFromTask, At, Goto, TypeOK, LookingLabels, Step
<1>22. ASSUME NEW t \in Thread, HelperExits(t) PROVE Scans'
  <2>1. Backlog' = Backlog
    BY <1>22 DEF HelperExits, Backlog, queueVars
  <2> QED BY <1>22, <2>1, ThreadAlone, ScansKept DEF HelperExits, At, Goto, TypeOK, LookingLabels, Step
<1>23. ASSUME NEW t \in Thread, Sleep(t) PROVE Scans'
  <2>1. Backlog' = Backlog
    BY <1>23 DEF Sleep, Backlog, queueVars
  <2>2. pc[t] = "missed" /\ pc'[t] \in {"observe", "sleeping"}
    BY <1>23 DEF Sleep, At, Goto, TypeOK
  <2>3. pc'[t] = "sleeping" => Seen(t)' = Seen(t)
    BY <1>23, <2>1, <2>2 DEF Seen, Scanned
  <2> QED BY <1>23, <2>1, <2>2, <2>3, ThreadAlone, ScansKept DEF Sleep, LookingLabels, Step
<1>24. ASSUME NEW t \in Thread, OutsiderDone(t) PROVE Scans'
  <2>1. Backlog' = Backlog
    BY <1>24 DEF OutsiderDone, Backlog, queueVars
  <2> QED BY <1>24, <2>1, ThreadAlone, ScansKept DEF OutsiderDone, At, Goto, TypeOK, LookingLabels, Step
<1>25. CASE Shutdown
  <2>1. Owner \in Thread
    BY DEF Thread, Workers
  <2>2. Backlog' = Backlog
    BY <1>25 DEF Shutdown, Backlog, queueVars
  <2> QED BY <1>25, <2>1, <2>2, OwnerAlone, ScansKept DEF Shutdown, At, Goto, TypeOK, LookingLabels, ShutdownStep
<1>26. CASE ShutdownSignals
  <2>1. \A u \in Thread : moved'[u] = TRUE
    BY <1>26 DEF ShutdownSignals, EventMoves
  <2> QED BY <2>1 DEF Scans
<1>27. CASE ShutdownNotifies
  <2>1. Notified(Owner, "join") /\ Owner \in Thread
    BY <1>27, Notification DEF ShutdownNotifies, At, Thread, Workers
  <2>2. Backlog' = Backlog
    BY <1>27 DEF ShutdownNotifies, Backlog, queueVars
  <2> QED BY <1>27, <2>1, <2>2, OwnerAlone, ScansKept DEF ShutdownNotifies, Notified, At, LookingLabels, ShutdownStep
<1>28. CASE JoinHelpers
  <2>1. Owner \in Thread
    BY DEF Thread, Workers
  <2>2. Backlog' = Backlog
    BY <1>28 DEF JoinHelpers, Backlog, queueVars
  <2> QED BY <1>28, <2>1, <2>2, OwnerAlone, ScansKept DEF JoinHelpers, At, Goto, TypeOK, LookingLabels, ShutdownStep
<1> QED BY <1>1, <1>2, <1>3, <1>4, <1>5, <1>6, <1>7, <1>8, <1>9, <1>10, <1>11, <1>12, <1>13, <1>14, <1>15, <1>16, <1>17, <1>18, <1>19, <1>20, <1>21, <1>22, <1>23, <1>24, <1>25, <1>26, <1>27, <1>28 DEF Next, Step, ShutdownStep, AllEnded

----------------------------------------------------------------------------
(* Idle threads.                                                           *)

LookingFor == {"submitted", "notifyOne", "observe", "check", "passOn", "passOnNotify",
               "local", "injected", "steal", "missed"}

\* Smaller sets have fewer elements.
LEMMA Fewer ==
  ASSUME NEW S, NEW T, IsFiniteSet(T), S \subseteq T
  PROVE  Cardinality(S) <= Cardinality(T) /\ Cardinality(S) \in Nat /\ Cardinality(T) \in Nat
  BY FS_Subset, FS_CardinalityType

\* Who missed, or sleeps, and saw no signal knows of the whole backlog.
LEMMA AllSeen ==
  ASSUME Scans, NEW t \in Thread, pc[t] \in {"missed", "sleeping"}, ~moved[t]
  PROVE  Cardinality(Backlog) <= Cardinality(Announced)
<1>1. Seen(t) = Backlog
  BY BacklogPlaces DEF Seen, Scanned, ArePlaces
<1> QED BY <1>1 DEF Scans, LookingLabels

\* Then it is enough that those who announced it are still on their way.
LEMMA IdleAnnounced ==
  ASSUME Accounts, Cardinality(Backlog) <= Cardinality(Announced),
         Backlog' = Backlog, Announced \subseteq Looking'
  PROVE  NoIdleHelper'
<1>1. Cardinality(Announced) <= Cardinality(Looking')
  BY Fewer, AnnouncedFinite
<1>2. Cardinality(Backlog) \in Nat
  BY FS_CardinalityType DEF Accounts
<1> QED BY <1>1, <1>2, AnnouncedFinite DEF NoIdleHelper

\* A step of t that queues nothing and does not keep t from looking.
LEMMA IdleKept ==
  ASSUME Accounts, NoIdleHelper, NEW t \in Thread, OthersStay(t), Backlog' \subseteq Backlog,
         pc'[t] # "sleeping", pc[t] \in LookingFor => pc'[t] \in LookingFor
  PROVE  NoIdleHelper'
<1> SUFFICES ASSUME Sleepers' # {}
             PROVE  Cardinality(Backlog') <= Cardinality(Looking')
  BY DEF NoIdleHelper
<1>1. Sleepers' \subseteq Sleepers
  BY DEF Sleepers, OthersStay
<1>2. Looking \subseteq Looking'
  BY DEF Looking, OthersStay, LookingFor
<1>3. Cardinality(Backlog) <= Cardinality(Looking)
  BY <1>1 DEF NoIdleHelper
<1>4. Cardinality(Looking) <= Cardinality(Looking')
  BY <1>2, Fewer, AnnouncedFinite
<1>5. /\ Cardinality(Backlog') <= Cardinality(Backlog)
      /\ Cardinality(Backlog') \in Nat /\ Cardinality(Backlog) \in Nat
  BY Fewer DEF Accounts
<1> QED BY <1>3, <1>4, <1>5, AnnouncedFinite

\* Waking one thread: it looks in the notifier's place, or has no need to.
LEMMA WakeIdle ==
  ASSUME TypeOK, Accounts, Scans, NoIdleHelper, NEW t \in Thread, NEW l,
         pc[t] \in LookingFor, pc[t] # "submitted", l # "sleeping", WakeOne(t, l),
         Backlog' = Backlog
  PROVE  NoIdleHelper'
<1>1. CASE Sleepers = {} /\ Goto(t, l)
  <2>1. Sleepers' = {}
    BY <1>1 DEF Goto, TypeOK, Sleepers
  <2> QED BY <2>1 DEF NoIdleHelper
<1>2. ASSUME NEW s \in Sleepers,
             pc' = [pc EXCEPT ![t] = l, ![s] = IF Wakes(s) THEN "observe" ELSE @]
      PROVE  NoIdleHelper'
  <2>1. s \in Thread /\ s # t /\ pc[s] = "sleeping"
    BY DEF Sleepers, LookingFor
  <2>2. CASE Wakes(s)
    <3>1. pc' = [pc EXCEPT ![t] = l, ![s] = "observe"]
      BY <1>2, <2>2
    <3>2. (Looking \ {t}) \cup {s} \subseteq Looking'
      BY <2>1, <3>1 DEF TypeOK, Looking
    <3>3. t \in Looking /\ s \notin Looking
      BY <2>1 DEF Looking, LookingFor
    <3> DEFINE R == Looking \ {t}
    <3>4. IsFiniteSet(R) /\ Cardinality(R) = Cardinality(Looking) - 1 /\ s \notin R
      BY <3>3, FS_RemoveElement, AnnouncedFinite
    <3>5. R \cup {s} \subseteq Looking'
      BY <3>2
    <3> HIDE DEF R
    <3>6. IsFiniteSet(R \cup {s}) /\ Cardinality(R \cup {s}) = Cardinality(R) + 1
      BY <3>4, FS_AddElement
    <3>7. Cardinality(R \cup {s}) <= Cardinality(Looking')
      BY <3>5, Fewer, AnnouncedFinite
    <3>8. Cardinality(Looking) <= Cardinality(Looking')
      BY <3>4, <3>6, <3>7, AnnouncedFinite
    <3>9. Cardinality(Backlog) <= Cardinality(Looking) /\ Cardinality(Backlog) \in Nat
      BY <1>2, FS_CardinalityType DEF NoIdleHelper, Accounts
    <3> QED BY <3>8, <3>9, AnnouncedFinite DEF NoIdleHelper
  <2>3. CASE ~Wakes(s)
    <3>1. pc' = [pc EXCEPT ![t] = l]
      BY <1>2, <2>1, <2>3 DEF TypeOK
    <3>2. Announced \subseteq Looking'
      BY <3>1 DEF TypeOK, Announced, Looking
    <3>3. Cardinality(Backlog) <= Cardinality(Announced)
      BY <2>1, <2>3, AllSeen DEF Wakes
    <3> QED BY <3>2, <3>3, IdleAnnounced
  <2> QED BY <2>2, <2>3
<1> QED BY <1>1, <1>2 DEF WakeOne

\* Submitting adds a task, and the submitter is on its way to wake someone.
LEMMA SubmitIdle ==
  ASSUME TypeOK, Frames, Counted, Accounts, NoIdleHelper, NEW t \in Thread, Submit(t)
  PROVE  NoIdleHelper'
<1> DEFINE x == Children[Current(t)][submitted[Current(t)] + 1]
           q == IF t \in Workers THEN t ELSE Injected
<1>1. queue' = [queue EXCEPT ![q] = Append(@, x)]
  BY DEF Submit
<1>2. x \in Task /\ q \in Queues
  BY ChildIs DEF Submit, At, Queues
<1> HIDE DEF x, q
<1>3. PICK p : p \notin Backlog /\ Backlog' = Backlog \cup {p}
  BY <1>1, <1>2, BacklogGrows
<1>4. pc[t] = "submitting" /\ pc' = [pc EXCEPT ![t] = "submitted"]
  BY DEF Submit, At, Goto
<1>5. Looking' = Looking \cup {t} /\ t \notin Looking /\ Sleepers' = Sleepers
  BY <1>4 DEF TypeOK, Looking, Sleepers
<1>6. Cardinality(Looking') = Cardinality(Looking) + 1
  BY <1>5, FS_AddElement, AnnouncedFinite
<1>7. Cardinality(Backlog') = Cardinality(Backlog) + 1 /\ Cardinality(Backlog) \in Nat
  BY <1>3, FS_AddElement, FS_CardinalityType DEF Accounts
<1> QED BY <1>5, <1>6, <1>7, AnnouncedFinite DEF NoIdleHelper

\* Whoever takes a task stops looking, and the task is gone.
LEMMA TakeIdle ==
  ASSUME TypeOK, Accounts, NoIdleHelper, NEW t \in Thread, pc[t] \in LookingFor,
         NEW q \in Queues, NEW x, NEW rest, Take(t, q, x, rest),
         \/ x = Last(queue[q]) /\ rest = Front(queue[q])
         \/ x = Head(queue[q]) /\ rest = Tail(queue[q])
  PROVE  NoIdleHelper'
<1>1. PICK p : p \in Backlog /\ Backlog' = Backlog \ {p}
  BY BacklogShrinks
<1>2. pc' = [pc EXCEPT ![t] = "taken"]
  BY DEF Take, Goto
<1>3. Looking' = Looking \ {t} /\ t \in Looking /\ Sleepers' \subseteq Sleepers
  BY <1>2 DEF TypeOK, Looking, LookingFor, Sleepers
<1>4. Cardinality(Looking') = Cardinality(Looking) - 1
  BY <1>3, FS_RemoveElement, AnnouncedFinite
<1>5. Cardinality(Backlog') = Cardinality(Backlog) - 1 /\ Cardinality(Backlog) \in Nat
  BY <1>1, FS_RemoveElement, FS_CardinalityType DEF Accounts
<1> QED BY <1>3, <1>4, <1>5, AnnouncedFinite DEF NoIdleHelper

\* While the count is zero nothing is queued.
LEMMA NothingPending ==
  ASSUME Accounts, pending = 0
  PROVE  Backlog = {}
<1>1. Cardinality(Backlog) = 0
  BY FS_CardinalityType, TakenFinite DEF Accounts, PendingExact, Taken
<1> QED BY <1>1, FS_EmptySet DEF Accounts

\* With nothing queued nothing is missed.
LEMMA IdleEmpty ==
  ASSUME Backlog' = {}
  PROVE  NoIdleHelper'
  BY FS_EmptySet, AnnouncedFinite DEF NoIdleHelper

\* No step leaves a task to sleeping threads.
LEMMA StepIdle ==
  ASSUME TypeOK, Frames, Counted, Accounts, Scans, NoIdleHelper, [Next]_vars
  PROVE  NoIdleHelper'
<1>1. CASE UNCHANGED vars
  BY <1>1 DEF NoIdleHelper, Sleepers, Backlog, Looking, vars, queueVars
<1>2. ASSUME NEW t \in Thread, SubmitAllowed(t) PROVE NoIdleHelper'
  <2>1. Backlog' = Backlog
    BY <1>2 DEF SubmitAllowed, Backlog, queueVars
  <2> QED BY <1>2, <2>1, ThreadAlone, IdleKept DEF SubmitAllowed, At, Goto, TypeOK, LookingFor, Step
<1>3. ASSUME NEW t \in Thread, Submit(t) PROVE NoIdleHelper'
  BY <1>3, SubmitIdle
<1>4. ASSUME NEW t \in Thread, SubmitSignals(t) PROVE NoIdleHelper'
  <2>1. Backlog' = Backlog
    BY <1>4 DEF SubmitSignals, Backlog, queueVars
  <2> QED BY <1>4, <2>1, ThreadAlone, IdleKept DEF SubmitSignals, At, Goto, TypeOK, LookingFor, Step
<1>5. ASSUME NEW t \in Thread, SubmitNotifies(t) PROVE NoIdleHelper'
  <2>1. Backlog' = Backlog
    BY <1>5 DEF SubmitNotifies, Backlog, queueVars
  <2> QED BY <1>5, <2>1, WakeIdle DEF SubmitNotifies, At, LookingFor
<1>6. ASSUME NEW t \in Thread, SubmitRefused(t) PROVE NoIdleHelper'
  <2>1. Backlog' = Backlog
    BY <1>6 DEF SubmitRefused, Backlog, queueVars
  <2> QED BY <1>6, <2>1, ThreadAlone, IdleKept DEF SubmitRefused, At, Goto, TypeOK, LookingFor, Step
<1>7. ASSUME NEW t \in Thread, Register(t) PROVE NoIdleHelper'
  <2>1. Backlog' = Backlog
    BY <1>7 DEF Register, Backlog, queueVars
  <2> QED BY <1>7, <2>1, ThreadAlone, IdleKept DEF Register, At, Goto, TypeOK, LookingFor, Step
<1>8. ASSUME NEW t \in Thread, Observe(t) PROVE NoIdleHelper'
  <2>1. Backlog' = Backlog
    BY <1>8 DEF Observe, Backlog, queueVars
  <2> QED BY <1>8, <2>1, ThreadAlone, IdleKept DEF Observe, At, Goto, TypeOK, LookingFor, Step
<1>9. ASSUME NEW t \in Thread, FutureNotReady(t) PROVE NoIdleHelper'
  <2>1. Backlog' = Backlog
    BY <1>9 DEF FutureNotReady, Backlog, queueVars
  <2> QED BY <1>9, <2>1, ThreadAlone, IdleKept DEF FutureNotReady, At, Goto, TypeOK, LookingFor, Step
<1>10. ASSUME NEW t \in Thread, FutureReady(t) PROVE NoIdleHelper'
  <2>1. Backlog' = Backlog
    BY <1>10 DEF FutureReady, Backlog, queueVars
  <2>2. CASE pending = 0
    BY <2>1, <2>2, NothingPending, IdleEmpty
  <2>3. CASE pending # 0
    <3>1. pc'[t] = "passOn"
      BY <1>10, <2>3 DEF FutureReady, Goto, TypeOK
    <3> QED BY <1>10, <2>1, <3>1, ThreadAlone, IdleKept DEF LookingFor, Step
  <2> QED BY <2>2, <2>3
<1>11. ASSUME NEW t \in Thread, PassOnSignals(t) PROVE NoIdleHelper'
  <2>1. Backlog' = Backlog
    BY <1>11 DEF PassOnSignals, Backlog, queueVars
  <2> QED BY <1>11, <2>1, ThreadAlone, IdleKept DEF PassOnSignals, At, Goto, TypeOK, LookingFor, Step
<1>12. ASSUME NEW t \in Thread, PassOnNotifies(t) PROVE NoIdleHelper'
  <2>1. Backlog' = Backlog
    BY <1>12 DEF PassOnNotifies, Backlog, queueVars
  <2> QED BY <1>12, <2>1, WakeIdle DEF PassOnNotifies, At, LookingFor
<1>13. ASSUME NEW t \in Thread, Unregister(t) PROVE NoIdleHelper'
  <2>1. Backlog' = Backlog
    BY <1>13 DEF Unregister, Backlog, queueVars
  <2> QED BY <1>13, <2>1, ThreadAlone, IdleKept DEF Unregister, At, Goto, TypeOK, LookingFor, Step
<1>14. ASSUME NEW t \in Thread, PopLocal(t) PROVE NoIdleHelper'
  <2>1. CASE Goto(t, "injected") /\ UNCHANGED queue
    <3>1. Backlog' = Backlog
      BY <2>1 DEF Backlog
    <3>2. pc'[t] = "injected"
      BY <1>14, <2>1 DEF Goto, TypeOK
    <3> QED BY <1>14, <3>1, <3>2, ThreadAlone, IdleKept DEF LookingFor, Step
  <2>2. CASE Take(t, t, Last(queue[t]), Front(queue[t]))
    <3>1. t \in Queues /\ pc[t] \in LookingFor
      BY <1>14 DEF PopLocal, At, Frames, PlaceOK, Queues, LookingFor
    <3> QED BY <1>14, <2>2, <3>1, TakeIdle
  <2> QED BY <1>14, <2>1, <2>2 DEF PopLocal
<1>15. ASSUME NEW t \in Thread, PopInjected(t) PROVE NoIdleHelper'
  <2>1. CASE UNCHANGED queue /\ (Goto(t, "missed") \/ Goto(t, "steal"))
    <3>1. Backlog' = Backlog
      BY <2>1 DEF Backlog
    <3>2. pc'[t] \in {"missed", "steal"}
      BY <1>15, <2>1 DEF Goto, TypeOK
    <3> QED BY <1>15, <3>1, <3>2, ThreadAlone, IdleKept DEF LookingFor, Step
  <2>2. CASE TakeFirst(t, Injected)
    <3>1. Injected \in Queues /\ pc[t] \in LookingFor
      BY <1>15 DEF PopInjected, At, Queues, LookingFor
    <3> QED BY <1>15, <2>2, <3>1, TakeIdle DEF TakeFirst
  <2> QED BY <1>15, <2>1, <2>2 DEF PopInjected
<1>16. ASSUME NEW t \in Thread, Steal(t) PROVE NoIdleHelper'
  <2>1. PICK v \in Workers : StealFrom(t, v)
    BY <1>16 DEF Steal
  <2>2. CASE UNCHANGED queue /\ (Goto(t, "missed") \/ Goto(t, "steal"))
    <3>1. Backlog' = Backlog
      BY <2>2 DEF Backlog
    <3>2. pc'[t] \in {"missed", "steal"}
      BY <1>16, <2>2 DEF Goto, TypeOK
    <3> QED BY <1>16, <3>1, <3>2, ThreadAlone, IdleKept DEF LookingFor, Step
  <2>3. CASE TakeFirst(t, v)
    <3>1. v \in Queues /\ pc[t] \in LookingFor
      BY <1>16, <2>1 DEF StealFrom, At, Queues, LookingFor
    <3> QED BY <1>16, <2>3, <3>1, TakeIdle DEF TakeFirst
  <2> QED BY <2>1, <2>2, <2>3 DEF StealFrom
<1>17. ASSUME NEW t \in Thread, StartTask(t) PROVE NoIdleHelper'
  <2>1. Backlog' = Backlog
    BY <1>17 DEF StartTask, Backlog, queueVars
  <2> QED BY <1>17, <2>1, ThreadAlone, IdleKept DEF StartTask, At, Goto, TypeOK, LookingFor, Step
<1>18. ASSUME NEW t \in Thread, FinishTask(t) PROVE NoIdleHelper'
  <2>1. Backlog' = Backlog
    BY <1>18 DEF FinishTask, Backlog, queueVars
  <2> QED BY <1>18, <2>1, ThreadAlone, IdleKept DEF FinishTask, At, Goto, TypeOK, LookingFor, Step
<1>19. ASSUME NEW t \in Thread, LookForWaiters(t) PROVE NoIdleHelper'
  <2>1. Backlog' = Backlog
    BY <1>19 DEF LookForWaiters, Backlog, queueVars
  <2> QED BY <1>19, <2>1, ThreadAlone, IdleKept DEF LookForWaiters, At, Goto, TypeOK, LookingFor, Step
<1>20. ASSUME NEW t \in Thread, NotifyWaiters(t) PROVE NoIdleHelper'
  <2>1. Notified(t, "pop")
    BY <1>20, Notification DEF NotifyWaiters, At
  <2>2. Backlog' = Backlog
    BY <1>20 DEF NotifyWaiters, Backlog, queueVars
  <2> QED BY <1>20, <2>1, <2>2, ThreadAlone, IdleKept DEF NotifyWaiters, Notified, At, LookingFor, Step
<1>21. ASSUME NEW t \in Thread, ReturnFromTask(t) PROVE NoIdleHelper'
  <2>1. Backlog' = Backlog
    BY <1>21 DEF ReturnFromTask, Backlog, queueVars
  <2> QED BY <1>21, <2>1, ThreadAlone, IdleKept DEF ReturnFromTask, At, Goto, TypeOK, LookingFor, Step
<1>22. ASSUME NEW t \in Thread, HelperExits(t) PROVE NoIdleHelper'
  <2>1. Backlog' = Backlog
    BY <1>22 DEF HelperExits, Backlog, queueVars
  <2>2. pending = 0
    BY <1>22 DEF HelperExits, Leaves
  <2> QED BY <2>1, <2>2, NothingPending, IdleEmpty
<1>23. ASSUME NEW t \in Thread, Sleep(t) PROVE NoIdleHelper'
  <2>1. Backlog' = Backlog
    BY <1>23 DEF Sleep, Backlog, queueVars
  <2>2. pc[t] = "missed"
    BY <1>23 DEF Sleep, At
  <2>3. CASE moved[t] \/ stopping
    <3>1. pc'[t] = "observe"
      BY <1>23, <2>3 DEF Sleep, Goto, TypeOK
    <3> QED BY <1>23, <2>1, <3>1, ThreadAlone, IdleKept DEF LookingFor, Step
  <2>4. CASE ~(moved[t] \/ stopping)
    <3>1. Announced \subseteq Looking'
      BY <1>23, <2>2 DEF Sleep, Goto, TypeOK, Announced, Looking
    <3> QED BY <1>23, <2>1, <2>2, <2>4, <3>1, AllSeen, IdleAnnounced
  <2> QED BY <2>3, <2>4
<1>24. ASSUME NEW t \in Thread, OutsiderDone(t) PROVE NoIdleHelper'
  <2>1. Backlog' = Backlog
    BY <1>24 DEF OutsiderDone, Backlog, queueVars
  <2> QED BY <1>24, <2>1, ThreadAlone, IdleKept DEF OutsiderDone, At, Goto, TypeOK, LookingFor, Step
<1>25. CASE Shutdown
  <2>1. Owner \in Thread
    BY DEF Thread, Workers
  <2>2. Backlog' = Backlog
    BY <1>25 DEF Shutdown, Backlog, queueVars
  <2> QED BY <1>25, <2>1, <2>2, OwnerAlone, IdleKept DEF Shutdown, At, Goto, TypeOK, LookingFor, ShutdownStep
<1>26. CASE ShutdownSignals
  <2>1. Owner \in Thread
    BY DEF Thread, Workers
  <2>2. Backlog' = Backlog
    BY <1>26 DEF ShutdownSignals, Backlog, queueVars
  <2> QED BY <1>26, <2>1, <2>2, OwnerAlone, IdleKept DEF ShutdownSignals, At, Goto, TypeOK, LookingFor, ShutdownStep
<1>27. CASE ShutdownNotifies
  <2>1. Notified(Owner, "join") /\ Owner \in Thread
    BY <1>27, Notification DEF ShutdownNotifies, At, Thread, Workers
  <2>2. Backlog' = Backlog
    BY <1>27 DEF ShutdownNotifies, Backlog, queueVars
  <2> QED BY <1>27, <2>1, <2>2, OwnerAlone, IdleKept DEF ShutdownNotifies, Notified, At, LookingFor, ShutdownStep
<1>28. CASE JoinHelpers
  <2>1. Owner \in Thread
    BY DEF Thread, Workers
  <2>2. Backlog' = Backlog
    BY <1>28 DEF JoinHelpers, Backlog, queueVars
  <2> QED BY <1>28, <2>1, <2>2, OwnerAlone, IdleKept DEF JoinHelpers, At, Goto, TypeOK, LookingFor, ShutdownStep
<1> QED BY <1>1, <1>2, <1>3, <1>4, <1>5, <1>6, <1>7, <1>8, <1>9, <1>10, <1>11, <1>12, <1>13, <1>14, <1>15, <1>16, <1>17, <1>18, <1>19, <1>20, <1>21, <1>22, <1>23, <1>24, <1>25, <1>26, <1>27, <1>28 DEF Next, Step, ShutdownStep, AllEnded

----------------------------------------------------------------------------
(* The inductive invariant.                                                *)

\* Types; stacks and hands; the order of a shutdown; submissions; one place
\* per task; the two counts; who will look again; who knows of what.
IInv ==
  /\ TypeOK /\ Frames /\ Shutting /\ Counted /\ Once
  /\ Accounts /\ Registrations /\ Woken /\ Scans /\ NoIdleHelper

\* It holds at the start.
LEMMA InitInv ==
  ASSUME Init
  PROVE  IInv
<1>1. /\ Owner \in Thread /\ Owner \notin Helpers /\ Helpers \subseteq Thread
      /\ \A t \in Thread : t \notin Helpers => t \in {Owner} \cup Outsiders
      /\ \A h \in Helpers : h \notin Outsiders /\ h # Owner
  BY ExecutorAssumption DEF Thread, Workers
<1>2. \A t \in Thread : t \notin Helpers => Root[t] \in Program /\ Root[t] \notin Task
  BY <1>1, ExecutorAssumption DEF Program
<1>3. TypeOK
  <2>1. \A t \in Thread : (IF t \in Helpers THEN <<>> ELSE <<Root[t]>>) \in Seq(Program)
    BY <1>2
  <2>2. stack \in [Thread -> Seq(Program)]
    BY <2>1 DEF Init
  <2>3. queue \in [Queues -> Seq(Task)]
    BY DEF Init
  <2> QED BY <2>2, <2>3 DEF Init, TypeOK
<1>4. \A t \in Thread : stack[t] = IF t \in Helpers THEN <<>> ELSE <<Root[t]>>
  BY DEF Init
<1>5. \A t \in Thread : pc[t] = IF t \in Helpers THEN "observe" ELSE "work"
  BY DEF Init
<1>6. \A t \in Thread : \A i \in DOMAIN stack[t] : t \notin Helpers /\ i = 1 /\ stack[t][i] = Root[t]
  <2> SUFFICES ASSUME NEW t \in Thread, NEW i \in DOMAIN stack[t]
               PROVE  t \notin Helpers /\ i = 1 /\ stack[t][i] = Root[t]
    OBVIOUS
  <2>1. CASE t \in Helpers
    <3>1. stack[t] = <<>>
      BY <1>4, <2>1
    <3>2. i \in 1..0
      BY <3>1
    <3> QED BY <3>2
  <2>2. CASE t \notin Helpers
    <3>1. stack[t] = <<Root[t]>>
      BY <1>4, <2>2
    <3>2. i = 1
      BY <3>1
    <3> QED BY <2>2, <3>1, <3>2
  <2> QED BY <2>1, <2>2
<1>7. Frames
  BY <1>4, <1>5, <1>6 DEF Init, Frames, StackOK, PlaceOK, EndLabels
<1>8. Shutting
  BY <1>1, <1>5 DEF Init, Shutting, EndLabels
<1>9. Counted
  <2>1. \A x \in Program : submitted[x] = 0 /\ Len(Children[x]) \in Nat
    BY ExecutorAssumption DEF Init
  <2> QED BY <1>5, <2>1 DEF Counted
<1>10. SubmittedTasks = {}
  BY DEF Init, SubmittedTasks
<1>11. \A x : ~InQueues(x)
  BY DEF Init, InQueues
<1>12. \A x \in Task : ~InHands(x) /\ ~OnStacks(x)
  <2>1. \A x \in Task : ~InHands(x)
    BY ExecutorAssumption DEF Init, InHands
  <2>2. \A x \in Task : ~OnStacks(x)
    BY <1>2, <1>6 DEF OnStacks
  <2> QED BY <2>1, <2>2
<1>13. Once
  <2>1. QueuesApart
    BY DEF Init, QueuesApart
  <2>2. HandsApart
    BY DEF Init, HandsApart
  <2>3. StacksApart
    BY <1>1, <1>6, ExecutorAssumption DEF StacksApart
  <2>4. OneKind
    BY <1>10, <1>11, <1>12 DEF Init, OneKind
  <2> QED BY <2>1, <2>2, <2>3, <2>4 DEF Once
<1>14. Accounts
  <2>1. Backlog = {}
    BY DEF Init, Backlog
  <2>2. {t \in Thread : pc[t] = "taken"} = {}
    BY <1>5
  <2>3. pending = 0
    BY DEF Init
  <2> QED BY <2>1, <2>2, <2>3, FS_EmptySet DEF Accounts, PendingExact
<1>15. Registrations
  <2>1. \A t \in Thread : Waiting(t) = {}
    <3> SUFFICES ASSUME NEW t \in Thread, NEW i \in Waiting(t) PROVE FALSE
      OBVIOUS
    <3>1. i \in DOMAIN stack[t] /\ (i < Len(stack[t]) \/ pc[t] \in WaitLabels)
      BY DEF Waiting
    <3>2. t \notin Helpers /\ i = 1 /\ stack[t] = <<Root[t]>> /\ pc[t] = "work"
      BY <1>4, <1>5, <1>6, <3>1
    <3>3. Len(stack[t]) = 1
      BY <3>2
    <3> QED BY <3>1, <3>2, <3>3 DEF WaitLabels
  <2>2. Registered = {}
    BY <2>1 DEF Registered
  <2>3. waiters = 0
    BY DEF Init
  <2> QED BY <2>2, <2>3, FS_EmptySet DEF Registrations
<1>16. Woken /\ Scans /\ NoIdleHelper
  BY <1>5 DEF Woken, Overdue, Scans, LookingLabels, NoIdleHelper, Sleepers
<1> QED BY <1>3, <1>7, <1>8, <1>9, <1>13, <1>14, <1>15, <1>16 DEF IInv

\* Every step keeps it.
LEMMA StepInv ==
  ASSUME IInv, [Next]_vars
  PROVE  IInv'
<1>1. /\ TypeOK /\ Frames /\ Shutting /\ Counted /\ Once
      /\ Accounts /\ Registrations /\ Woken /\ Scans /\ NoIdleHelper
  BY DEF IInv
<1>2. Accounts' /\ Registrations' /\ Shutting'
  BY <1>1, StepAccounts, StepRegistrations, StepShutting
<1>3. pending' \in Nat /\ waiters' \in Nat
  <2>1. Cardinality(Backlog') \in Nat /\ pending' = Cardinality(Backlog') + Cardinality(Taken')
    BY <1>2, FS_CardinalityType DEF Accounts, PendingExact, Taken
  <2>2. Cardinality(Taken') \in Nat
    BY TakenFinite, FS_CardinalityType
  <2>3. waiters' \in Nat
    BY <1>2, FS_CardinalityType DEF Registrations
  <2> QED BY <2>1, <2>2, <2>3
<1>4. TypeOK'
  BY <1>1, <1>3, StepTypes
<1>5. Frames'
  BY <1>1, <1>4, StepFrames
<1>6. Counted' /\ Once'
  BY <1>1, StepCounted, StepOnce
<1>7. Woken' /\ Scans' /\ NoIdleHelper'
  BY <1>1, StepWoken, StepScans, StepIdle
<1> QED BY <1>2, <1>4, <1>5, <1>6, <1>7 DEF IInv

\* When the destructor returns there is nothing left to run.
LEMMA Drained ==
  ASSUME IInv
  PROVE  ShutdownDrains
<1> SUFFICES ASSUME pc[Owner] = "ended", Helpers # {}, NEW x \in SubmittedTasks
             PROVE  x \in finished
  BY DEF ShutdownDrains
<1> USE DEF IInv
<1>1. x \in Task /\ x # NoTask
  BY SubmittedAreTasks, ExecutorAssumption
<1>2. stopping /\ pending = 0
  BY DEF Shutting
<1>3. \A t \in Thread : pc[t] = "ended"
  BY <1>2 DEF Shutting, Thread, Workers
<1>4. ~InQueues(x)
  <2>1. Backlog = {}
    BY <1>2, NothingPending
  <2> QED BY <2>1, BacklogPlaces DEF ArePlaces, InQueues
<1>5. ~InHands(x)
  BY <1>1, <1>3 DEF InHands, Frames, PlaceOK
<1>6. ~OnStacks(x)
  <2> SUFFICES ASSUME NEW t \in Thread, NEW i \in DOMAIN stack[t], stack[t][i] = x
               PROVE  FALSE
    BY DEF OnStacks
  <2>1. stack[t] = IF t \in Helpers THEN <<>> ELSE <<Root[t]>>
    BY <1>3 DEF Frames, PlaceOK
  <2>2. t \notin Helpers /\ x = Root[t] /\ t \in {Owner} \cup Outsiders
    BY <2>1 DEF Thread, Workers
  <2> QED BY <1>1, <2>2, ExecutorAssumption
<1> QED BY <1>4, <1>5, <1>6 DEF Once, OneKind

----------------------------------------------------------------------------
(* The theorems.                                                           *)

\* The inductive invariant holds of the executor, whatever its threads and
\* tasks.
THEOREM Invariance == Spec => []IInv
<1>1. Init => IInv
  BY InitInv
<1>2. IInv /\ [Next]_vars => IInv'
  BY StepInv
<1> QED BY <1>1, <1>2, PTL DEF Spec

\* Every variable keeps its type: pending_ and future_waiters_, unsigned in the
\* code, never go below zero.
THEOREM TypeCorrect == Spec => []TypeOK
<1>1. IInv => TypeOK
  BY DEF IInv
<1> QED BY <1>1, Invariance, PTL

\* pending_ is the number of tasks queued or in hand (submit, run_one).
THEOREM PendingIsExact == Spec => []PendingExact
<1>1. IInv => PendingExact
  BY DEF IInv, Accounts
<1> QED BY <1>1, Invariance, PTL

\* No task is lost, duplicated or run a second time (submit, run_one, steal).
THEOREM TasksRunOnce == Spec => []RunExactlyOnce
<1>1. IInv => RunExactlyOnce
  BY OncePlaced DEF IInv
<1> QED BY <1>1, Invariance, PTL

\* No wake-up of a submit is lost, though scans look at one queue at a time and
\* notify_one may pick a thread that needs none (signal, sleep_until_signalled).
THEOREM NoHelperIdles == Spec => []NoIdleHelper
<1>1. IInv => NoIdleHelper
  BY DEF IInv
<1> QED BY <1>1, Invariance, PTL

\* No wake-up of a finished task is lost, though it signals only if it reads
\* future_waiters_ as not zero (wait_until_ready, the task's wrapper).
THEOREM NoWaiterForgotten == Spec => []NoForgottenWaiter
<1>1. IInv => NoForgottenWaiter
  BY WokenRemembered DEF IInv
<1> QED BY <1>1, Invariance, PTL

\* The two together: whoever sleeps while there is something to do has a
\* thread on its way to do it or to wake him (signal's notify_one and
\* notify_all).
THEOREM NoWakeUpLost == Spec => []NoLostWakeUp
<1>1. NoIdleHelper /\ NoForgottenWaiter => NoLostWakeUp
  BY DEF NoLostWakeUp
<1> QED BY <1>1, NoHelperIdles, NoWaiterForgotten, PTL

\* The destructor drops no task (worker_loop's exit, ~TaskExecutor).
THEOREM DestructorDrains == Spec => []ShutdownDrains
<1>1. IInv => ShutdownDrains
  BY Drained
<1> QED BY <1>1, Invariance, PTL

----------------------------------------------------------------------------
(* OperationControl.                                                       *)


\* Between taking the spin lock and releasing it, and while the version is odd.
Publishing(t) == place[t] \in {"open", "store", "close", "clear"}
Storing(t) == place[t] \in {"store", "close"}

\* The spin lock keeps publishers apart.
OnePublisher ==
  /\ \A t \in Producer : Publishing(t) => writer
  /\ \A t, u \in Producer : Publishing(t) /\ Publishing(u) => t = u

\* The version counts the samples published, twice, and is odd meanwhile.
VersionCounts ==
  /\ (\A t \in Producer : ~Storing(t)) => version = 2 * Len(history)
  /\ \A t \in Producer : Storing(t) => version = 2 * Len(history) + 1

\* The fields are those of the last sample, or are on their way to the next.
BoardFollows ==
  /\ (\A t \in Producer : ~Storing(t)) /\ history # <<>>
       => board = history[Len(history)]
  /\ \A t \in Producer : place[t] # "store" => field[t] = 1
  /\ \A t \in Producer : place[t] = "store" =>
       \A i \in 1..(field[t] - 1) : board[Fields[i]] = sample[t][Fields[i]]
  /\ \A t \in Producer : place[t] = "close" => board = sample[t]

\* What a poll has loaded is of the board as long as the version stands still.
PollFollows ==
  poll.next # 0 =>
    /\ 0 < poll.before /\ poll.before <= version
    /\ version = poll.before =>
         /\ \A t \in Producer : ~Storing(t)
         /\ \A i \in 1..(poll.next - 1) : poll.fields[Fields[i]] = board[Fields[i]]

\* The snapshot is one of the samples published.
SnapshotKept ==
  /\ snapshot.seq <= Len(history)
  /\ snapshot.seq # 0 => snapshot.fields = history[snapshot.seq]

\* A sample may come after another.
Follows(s, prev) ==
  /\ SameEpoch(s, prev) => prev.bytes <= s.bytes
  /\ SameTotals(s, prev) => prev.out <= s.out

\* The sample being published may come after the last one.
Rising ==
  /\ \A i \in 1..(Len(history) - 1) : Follows(history[i + 1], history[i])
  /\ \A t \in Producer :
       place[t] \in {"open", "store", "close"} /\ history # <<>>
         => Follows(sample[t], history[Len(history)])

\* A report that came late knows of the request.
CancelSeen == \A t \in Producer : late[t] => cancelled

BoardInv == OnePublisher /\ VersionCounts /\ BoardFollows /\ PollFollows
            /\ SnapshotKept /\ Rising

\* The inductive invariant.
ControlInv == ControlTypeOK /\ BoardInv /\ CancelSeen /\ CancelIsFinal

----------------------------------------------------------------------------
(* Types.                                                                  *)

\* The zeroed statistics are statistics.
LEMMA UnsetIsSample == Unset \in Sample
  BY ControlAssumption DEF ControlAssumption, Sample, Unset

\* Normalising changes numbers only, and makes the sample one that may come next.
LEMMA NormalisedFollows ==
  ASSUME NEW s \in Sample, version \in Nat, board \in Sample
  PROVE  /\ Normalised(s) \in Sample
         /\ version # 0 => Follows(Normalised(s), board)
<1>1. CASE version = 0
  BY <1>1 DEF Normalised
<1>2. CASE version # 0
  <2> DEFINE b == IF SameEpoch(s, board) THEN Bigger(s.bytes, board.bytes) ELSE s.bytes
             o == IF SameTotals(s, board) THEN Bigger(s.out, board.out) ELSE s.out
  <2>1. Normalised(s) = [s EXCEPT !.bytes = b, !.out = o]
    BY <1>2 DEF Normalised
  <2>2. b \in Nat /\ o \in Nat
    BY DEF Sample, Bigger
  <2>3. SameEpoch(s, board) => board.bytes <= b
    BY DEF Sample, Bigger
  <2>4. SameTotals(s, board) => board.out <= o
    BY DEF Sample, Bigger
  <2> HIDE DEF b, o
  <2>5. /\ Normalised(s) \in Sample
        /\ Normalised(s).stage = s.stage
        /\ Normalised(s).bytes = b /\ Normalised(s).out = o
    BY <2>1, <2>2 DEF Sample
  <2> QED BY <2>3, <2>4, <2>5 DEF Follows, SameEpoch, SameTotals
<1> QED BY <1>1, <1>2

\* The three fields of the board.
LEMMA FieldNames ==
  /\ Len(Fields) = 3 /\ DOMAIN Fields = 1..3
  /\ Fields[1] = "stage" /\ Fields[2] = "bytes" /\ Fields[3] = "out"
  BY DEF Fields

\* The initial state has its types.
LEMMA TypeInit == ControlInit => ControlTypeOK
<1> SUFFICES ASSUME ControlInit PROVE ControlTypeOK
  OBVIOUS
<1>1. history \in Seq(Sample)
  BY DEF ControlInit
<1>2. place \in [Producer -> Place] /\ sample \in [Producer -> Sample]
  BY UnsetIsSample DEF ControlInit, Place
<1>3. field \in [Producer -> DOMAIN Fields] /\ late \in [Producer -> BOOLEAN]
  BY FieldNames DEF ControlInit
<1>4. /\ poll \in [before : Nat, next : 0..(Len(Fields) + 1), fields : Sample]
      /\ snapshot \in [seq : Nat, fields : Sample]
  BY UnsetIsSample, FieldNames DEF ControlInit, Idle
<1> QED BY <1>1, <1>2, <1>3, <1>4, UnsetIsSample DEF ControlInit, ControlTypeOK

\* So has every next one.
LEMMA TypeStep == ControlTypeOK /\ [ControlNext]_controlVars => ControlTypeOK'
<1> SUFFICES ASSUME ControlTypeOK, [ControlNext]_controlVars PROVE ControlTypeOK'
  OBVIOUS
<1> USE DEF ControlTypeOK, Place
<1>1. ASSUME NEW t \in Producer, BeginReport(t) PROVE ControlTypeOK'
  BY <1>1, ControlAssumption
  DEF ControlAssumption, BeginReport, Goes, gateVars, boardVars, frontendVars, pollVars
<1>2. ASSUME NEW t \in Producer, AcquireWriter(t) PROVE ControlTypeOK'
  <2>1. Normalised(sample[t]) \in Sample
    BY NormalisedFollows
  <2>2. CASE WorthPublishing(Normalised(sample[t]))
    BY <1>2, <2>1, <2>2 DEF AcquireWriter, Goes, gateVars, frontendVars, pollVars
  <2>3. CASE ~WorthPublishing(Normalised(sample[t]))
    BY <1>2, <2>3, UnsetIsSample
    DEF AcquireWriter, Returns, Goes, gateVars, frontendVars, pollVars
  <2> QED BY <2>2, <2>3
<1>3. ASSUME NEW t \in Producer, StoreField(t) PROVE ControlTypeOK'
  <2>1. board' \in Sample
    BY <1>3, FieldNames DEF StoreField, Sample
  <2>2. field' \in [Producer -> DOMAIN Fields]
    BY <1>3, FieldNames DEF StoreField
  <2> QED BY <1>3, <2>1, <2>2 DEF StoreField, Goes, gateVars, frontendVars, pollVars
<1>4. ASSUME NEW t \in Producer, ProducerStep(t), ~AcquireWriter(t), ~StoreField(t)
      PROVE ControlTypeOK'
  <2> USE DEF Goes, gateVars, boardVars, frontendVars, pollVars
  <2>1. CASE LoadPaused(t) \/ LoadCancelled(t) \/ LockGate(t)
    BY <2>1 DEF LoadPaused, LoadCancelled, LockGate
  <2>2. CASE EvalPaused(t) \/ EvalCancelled(t) \/ Block(t)
    BY <2>2 DEF EvalPaused, EvalCancelled, Block
  <2>3. CASE OpenVersion(t)
    BY <2>3 DEF OpenVersion
  <2>4. CASE CloseVersion(t)
    <3>1. sample[t] \in Sample
      OBVIOUS
    <3>2. history' \in Seq(Sample)
      BY <2>4, <3>1 DEF CloseVersion
    <3> QED BY <2>4, <3>2 DEF CloseVersion
  <2>5. CASE ClearWriter(t)
    BY <2>5, UnsetIsSample DEF ClearWriter, Returns
  <2> QED BY <1>4, <2>1, <2>2, <2>3, <2>4, <2>5 DEF ProducerStep
<1>5. CASE PollStep
  <2>1. CASE PollBegins
    BY <2>1, UnsetIsSample, FieldNames
    DEF PollBegins, gateVars, boardVars, producerVars, frontendVars
  <2>2. CASE PollLoads
    <3>1. PICK i \in 1..3 : i = poll.next
      BY <2>2, FieldNames DEF PollLoads
    <3>2. [poll.fields EXCEPT ![Fields[i]] = board[Fields[i]]] \in Sample
      BY FieldNames DEF Sample
    <3>3. poll' = [before |-> poll.before, next |-> i + 1,
                   fields |-> [poll.fields EXCEPT ![Fields[i]] = board[Fields[i]]]]
      BY <2>2, <3>1, FieldNames DEF PollLoads
    <3>4. poll' \in [before : Nat, next : 0..(Len(Fields) + 1), fields : Sample]
      BY <3>2, <3>3, FieldNames
    <3> QED BY <2>2, <3>4
            DEF PollLoads, gateVars, boardVars, producerVars, frontendVars
  <2>3. CASE PollEnds
    BY <2>3, UnsetIsSample, FieldNames
    DEF PollEnds, Idle, gateVars, boardVars, producerVars, frontendVars
  <2> QED BY <1>5, <2>1, <2>2, <2>3 DEF PollStep
<1>6. CASE FrontendStep \/ Command
  BY <1>6 DEF FrontendStep, Command, CancelUnpauses, NotifyAll, Pause, Resume, RequestCancel,
              gateVars, boardVars, producerVars, pollVars
<1>7. CASE UNCHANGED controlVars
  BY <1>7 DEF controlVars, gateVars, boardVars, producerVars, frontendVars, pollVars
<1> QED BY <1>1, <1>2, <1>3, <1>4, <1>5, <1>6, <1>7 DEF ControlNext

----------------------------------------------------------------------------
(* The board, the polls and the history.                                   *)

\* A step that is not about publishing or polling.
LEMMA Quiet ==
  ASSUME ControlTypeOK, BoardInv, UNCHANGED <<boardVars, field, pollVars>>,
         \A t \in Producer : \/ place'[t] = place[t] /\ sample'[t] = sample[t]
                             \/ ~Publishing(t) /\ ~Publishing(t)'
  PROVE  BoardInv'
<1> USE DEF Publishing, Storing, boardVars, pollVars, BoardInv
<1>1. OnePublisher' /\ VersionCounts'
  BY DEF OnePublisher, VersionCounts
<1>2. BoardFollows'
  BY DEF BoardFollows
<1>3. PollFollows'
  BY DEF PollFollows
<1>4. SnapshotKept'
  BY DEF SnapshotKept
<1>5. Rising'
  BY DEF Rising
<1> QED BY <1>1, <1>2, <1>3, <1>4, <1>5

\* While a producer publishes nobody else does.
LEMMA Alone ==
  ASSUME BoardInv, NEW t \in Producer, Publishing(t)
  PROVE  \A u \in Producer \ {t} : ~Publishing(u) /\ ~Storing(u)
  BY DEF BoardInv, OnePublisher, Publishing, Storing

\* Taking the publish flag keeps the board consistent.
LEMMA BoardAcquires ==
  ASSUME ControlTypeOK, BoardInv, NEW t \in Producer, AcquireWriter(t)
  PROVE  BoardInv'
<1> DEFINE s == Normalised(sample[t])
<1>1. /\ place[t] = "spin" /\ ~writer
      /\ \A u \in Producer : ~Publishing(u) /\ ~Storing(u)
  BY DEF AcquireWriter, BoardInv, OnePublisher, Publishing, Storing
<1>2. CASE ~WorthPublishing(s)
  BY <1>1, <1>2, Quiet
  DEF AcquireWriter, Returns, Goes, ControlTypeOK, Publishing, boardVars, gateVars, pollVars,
      frontendVars
<1>3. CASE WorthPublishing(s)
  <2>1. /\ writer' = TRUE
        /\ sample' = [sample EXCEPT ![t] = s]
        /\ place' = [place EXCEPT ![t] = "open"]
        /\ UNCHANGED <<version, board, history, field, poll, snapshot>>
    BY <1>3 DEF AcquireWriter, Goes, pollVars
  <2>2. history # <<>> => version # 0 /\ board = history[Len(history)]
    BY <1>1 DEF BoardInv, VersionCounts, BoardFollows, ControlTypeOK
  <2>3. history # <<>> => Follows(s, history[Len(history)])
    BY <2>2, NormalisedFollows DEF ControlTypeOK
  <2> HIDE DEF s
  <2> USE DEF ControlTypeOK, BoardInv
  <2>4. OnePublisher'
    BY <1>1, <2>1 DEF OnePublisher, Publishing
  <2>5. VersionCounts'
    BY <1>1, <2>1 DEF VersionCounts, Storing
  <2>6. BoardFollows'
    BY <1>1, <2>1 DEF BoardFollows, Storing
  <2>7. PollFollows'
    BY <1>1, <2>1 DEF PollFollows, Storing
  <2>8. SnapshotKept'
    BY <2>1 DEF SnapshotKept
  <2>9. Rising'
    <3>1. \A u \in Producer \ {t} : place'[u] = place[u] /\ place[u] \notin {"open", "store", "close"}
      BY <1>1, <2>1 DEF Publishing
    <3>2. sample'[t] = s
      BY <2>1
    <3> QED BY <2>1, <2>3, <3>1, <3>2 DEF Rising
  <2> QED BY <2>4, <2>5, <2>6, <2>7, <2>8, <2>9
<1> QED BY <1>2, <1>3

\* So does making the version odd,
LEMMA BoardOpens ==
  ASSUME ControlTypeOK, BoardInv, NEW t \in Producer, OpenVersion(t)
  PROVE  BoardInv'
<1>1. /\ place[t] = "open" /\ place' = [place EXCEPT ![t] = "store"] /\ version' = version + 1
      /\ UNCHANGED <<writer, board, history, field, sample, poll, snapshot>>
  BY DEF OpenVersion, Goes, pollVars
<1>2. \A u \in Producer : ~Storing(u)
  BY <1>1, Alone DEF Publishing, Storing
<1>3. \A u \in Producer \ {t} : place'[u] = place[u] /\ ~Publishing(u)
  BY <1>1, Alone DEF Publishing, ControlTypeOK
<1> USE DEF ControlTypeOK, BoardInv
<1>4. OnePublisher'
  BY <1>1, <1>3 DEF OnePublisher, Publishing
<1>5. VersionCounts'
  BY <1>1, <1>2, <1>3 DEF VersionCounts, Storing, Publishing
<1>6. BoardFollows'
  BY <1>1, <1>2, <1>3 DEF BoardFollows, Storing, Publishing
<1>7. PollFollows'
  BY <1>1, <1>2 DEF PollFollows
<1>8. SnapshotKept'
  BY <1>1 DEF SnapshotKept
<1>9. Rising'
  BY <1>1, <1>3 DEF Rising, Publishing
<1> QED BY <1>4, <1>5, <1>6, <1>7, <1>8, <1>9

\* Samples that agree in the three fields are the same.
LEMMA EqualSamples ==
  ASSUME NEW a \in Sample, NEW b \in Sample,
         a.stage = b.stage, a.bytes = b.bytes, a.out = b.out
  PROVE  a = b
  BY DEF Sample

\* So does storing a field,
LEMMA BoardStores ==
  ASSUME ControlTypeOK, BoardInv, NEW t \in Producer, StoreField(t)
  PROVE  BoardInv'
<1> DEFINE i == field[t]
<1>1. /\ place[t] = "store" /\ i \in 1..3
      /\ board' = [board EXCEPT ![Fields[i]] = sample[t][Fields[i]]]
      /\ field' = [field EXCEPT ![t] = IF i = 3 THEN 1 ELSE i + 1]
      /\ place' = [place EXCEPT ![t] = IF i = 3 THEN "close" ELSE "store"]
      /\ UNCHANGED <<writer, version, history, sample, poll, snapshot>>
  BY FieldNames DEF StoreField, Goes, pollVars, ControlTypeOK
<1>2. \A u \in Producer \ {t} : place'[u] = place[u] /\ ~Publishing(u) /\ ~Storing(u)
  BY <1>1, Alone DEF Publishing, ControlTypeOK
<1>3. place'[t] = (IF i = 3 THEN "close" ELSE "store") /\ Storing(t) /\ Storing(t)'
  BY <1>1 DEF ControlTypeOK, Storing
<1> USE DEF ControlTypeOK, BoardInv
<1>4. OnePublisher'
  BY <1>1, <1>2 DEF OnePublisher, Publishing
<1>5. VersionCounts'
  BY <1>1, <1>2, <1>3 DEF VersionCounts, Storing
<1>6. BoardFollows'
  <2>1. \A j \in 1..i : board'[Fields[j]] = sample[t][Fields[j]]
    <3>1. \A j \in 1..(i - 1) : board[Fields[j]] = sample[t][Fields[j]]
      BY <1>1 DEF BoardFollows
    <3>2. Fields[i] \in DOMAIN board
      BY <1>1, FieldNames DEF Sample
    <3>3. board'[Fields[i]] = sample[t][Fields[i]]
      BY <1>1, <3>2
    <3>4. ASSUME NEW j \in 1..(i - 1) PROVE board'[Fields[j]] = board[Fields[j]]
      <4>1. Fields[j] # Fields[i]
        BY <1>1, FieldNames
      <4> QED BY <1>1, <4>1 DEF Sample
    <3> QED BY <1>1, <3>1, <3>3, <3>4
  <2>2. i = 3 => board' = sample[t]
    <3>1. board' \in Sample /\ sample[t] \in Sample
      BY <1>1, FieldNames DEF Sample
    <3>2. i = 3 => /\ board'.stage = sample[t].stage /\ board'.bytes = sample[t].bytes
                   /\ board'.out = sample[t].out
      BY <2>1, FieldNames
    <3> QED BY <3>1, <3>2, EqualSamples
  <2> HIDE DEF i
  <2>3. \A u \in Producer : place'[u] # "store" => field'[u] = 1
    BY <1>1, <1>2, <1>3 DEF BoardFollows
  <2>4. \A u \in Producer : place'[u] = "store" =>
          u = t /\ field'[u] - 1 = i
    BY <1>1, <1>2, <1>3 DEF Publishing
  <2>5. \A u \in Producer : place'[u] = "close" => u = t /\ i = 3
    BY <1>1, <1>2, <1>3 DEF Publishing
  <2> QED BY <1>1, <1>3, <2>1, <2>2, <2>3, <2>4, <2>5 DEF BoardFollows
<1>7. PollFollows'
  BY <1>1, <1>3 DEF PollFollows
<1>8. SnapshotKept'
  BY <1>1 DEF SnapshotKept
<1>9. Rising'
  BY <1>1, <1>2 DEF Rising, Publishing
<1> QED BY <1>4, <1>5, <1>6, <1>7, <1>8, <1>9

\* making the version even again,
LEMMA BoardCloses ==
  ASSUME ControlTypeOK, BoardInv, NEW t \in Producer, CloseVersion(t)
  PROVE  BoardInv'
<1> DEFINE n == Len(history)
<1>1. /\ place[t] = "close" /\ place' = [place EXCEPT ![t] = "clear"] /\ version' = version + 1
      /\ history' = Append(history, sample[t])
      /\ UNCHANGED <<writer, board, field, sample, poll, snapshot>>
  BY DEF CloseVersion, Goes, pollVars
<1>2. \A u \in Producer \ {t} : place'[u] = place[u] /\ ~Publishing(u) /\ ~Storing(u)
  BY <1>1, Alone DEF Publishing, ControlTypeOK
<1>3. Storing(t) /\ version = 2 * n + 1 /\ place'[t] = "clear"
  BY <1>1 DEF ControlTypeOK, BoardInv, Storing, VersionCounts
<1>4. /\ Len(history') = n + 1 /\ n \in Nat /\ history'[n + 1] = sample[t]
      /\ \A k \in 1..n : history'[k] = history[k]
  BY <1>1 DEF ControlTypeOK
<1>5. \A u \in Producer : ~Storing(u)'
  BY <1>2, <1>3 DEF Storing
<1> HIDE DEF n
<1> USE DEF ControlTypeOK, BoardInv
<1>6. OnePublisher'
  BY <1>1, <1>2 DEF OnePublisher, Publishing
<1>7. VersionCounts'
  <2>1. version' = 2 * Len(history')
    BY <1>1, <1>3, <1>4
  <2> QED BY <1>5, <2>1 DEF VersionCounts
<1>8. BoardFollows'
  BY <1>1, <1>2, <1>3, <1>4, <1>5 DEF BoardFollows, Storing, Publishing
<1>9. PollFollows'
  BY <1>1, <1>3 DEF PollFollows
<1>10. SnapshotKept'
  BY <1>1, <1>4 DEF SnapshotKept, n
<1>11. Rising'
  <2>1. \A k \in 1..(n - 1) : Follows(history'[k + 1], history'[k])
    BY <1>4 DEF Rising, n
  <2>2. n # 0 => Follows(history'[n + 1], history'[n])
    BY <1>1, <1>4 DEF Rising, n
  <2>3. \A u \in Producer : place'[u] \notin {"open", "store", "close"}
    BY <1>2, <1>3 DEF Publishing
  <2> QED BY <1>4, <2>1, <2>2, <2>3 DEF Rising
<1> QED BY <1>6, <1>7, <1>8, <1>9, <1>10, <1>11

\* releasing the publish flag,
LEMMA BoardClears ==
  ASSUME ControlTypeOK, BoardInv, NEW t \in Producer, ClearWriter(t)
  PROVE  BoardInv'
<1>1. /\ place[t] = "clear" /\ place' = [place EXCEPT ![t] = "idle"]
      /\ sample' = [sample EXCEPT ![t] = Unset]
      /\ UNCHANGED <<version, board, history, field, poll, snapshot>>
  BY DEF ClearWriter, Returns, Goes, pollVars
<1>2. \A u \in Producer \ {t} : /\ place'[u] = place[u] /\ sample'[u] = sample[u]
                                 /\ ~Publishing(u)
  BY <1>1, Alone DEF Publishing, ControlTypeOK
<1>3. \A u \in Producer : ~Storing(u) /\ ~Storing(u)' /\ ~Publishing(u)'
  BY <1>1, <1>2 DEF Publishing, Storing, ControlTypeOK
<1> USE DEF ControlTypeOK, BoardInv
<1>4. OnePublisher'
  BY <1>3 DEF OnePublisher
<1>5. VersionCounts'
  BY <1>1, <1>3 DEF VersionCounts
<1>6. BoardFollows'
  BY <1>1, <1>2, <1>3 DEF BoardFollows, Storing
<1>7. PollFollows'
  BY <1>1, <1>3 DEF PollFollows
<1>8. SnapshotKept'
  BY <1>1 DEF SnapshotKept
<1>9. Rising'
  BY <1>1, <1>3 DEF Rising, Publishing
<1> QED BY <1>4, <1>5, <1>6, <1>7, <1>8, <1>9

\* and every step of a reader.
LEMMA BoardPolled == ASSUME ControlTypeOK, BoardInv, PollStep PROVE BoardInv'
<1>1. /\ UNCHANGED <<boardVars, place, sample, field>>
      /\ OnePublisher' /\ VersionCounts' /\ BoardFollows' /\ Rising'
  <2>1. UNCHANGED <<boardVars, place, sample, field>>
    BY DEF PollStep, PollBegins, PollLoads, PollEnds, producerVars
  <2> QED BY <2>1 DEF BoardInv, OnePublisher, VersionCounts, BoardFollows, Rising,
                      Publishing, Storing, boardVars
<1> USE DEF ControlTypeOK, BoardInv
<1>2. CASE PollBegins
  <2>1. /\ version % 2 = 0 /\ version # 0 /\ snapshot' = snapshot
        /\ poll' = [before |-> version, next |-> 1, fields |-> Unset]
    BY <1>2 DEF PollBegins
  <2>2. \A t \in Producer : ~Storing(t)
    BY <2>1 DEF VersionCounts
  <2> QED BY <1>1, <2>1, <2>2 DEF PollFollows, SnapshotKept, Storing, boardVars
<1>3. CASE PollLoads
  <2>1. PICK i \in 1..3 :
          /\ poll.next = i
          /\ poll' = [poll EXCEPT !.fields[Fields[i]] = board[Fields[i]], !.next = i + 1]
          /\ snapshot' = snapshot
    BY <1>3, FieldNames DEF PollLoads
  <2>2. /\ poll'.next = i + 1 /\ poll'.before = poll.before
        /\ poll'.fields = [poll.fields EXCEPT ![Fields[i]] = board[Fields[i]]]
    BY <2>1
  <2>3. ASSUME version = poll.before
        PROVE  \A j \in 1..i : poll'.fields[Fields[j]] = board[Fields[j]]
    <3>1. \A j \in 1..(i - 1) : poll.fields[Fields[j]] = board[Fields[j]]
      BY <2>1, <2>3 DEF PollFollows
    <3>2. CASE i = 1
      BY <2>2, <3>2, FieldNames DEF Sample
    <3>3. CASE i = 2
      BY <2>2, <3>1, <3>3, FieldNames DEF Sample
    <3>4. CASE i = 3
      BY <2>2, <3>1, <3>4, FieldNames DEF Sample
    <3> QED BY <3>2, <3>3, <3>4
  <2> QED BY <1>1, <2>1, <2>2, <2>3 DEF PollFollows, SnapshotKept, Storing, boardVars
<1>4. CASE PollEnds
  <2>1. /\ poll.next = 4 /\ poll'.next = 0
        /\ snapshot' = IF version = poll.before
                       THEN [seq |-> version \div 2, fields |-> poll.fields]
                       ELSE snapshot
    BY <1>4, FieldNames DEF PollEnds, Idle
  <2>2. ASSUME version = poll.before
        PROVE  /\ version = 2 * Len(history) /\ history # <<>>
               /\ poll.fields = history[Len(history)]
    <3>1. /\ \A t \in Producer : ~Storing(t)
          /\ \A j \in 1..3 : poll.fields[Fields[j]] = board[Fields[j]]
          /\ version > 0
      BY <2>1, <2>2 DEF PollFollows
    <3>2. version = 2 * Len(history) /\ history # <<>>
      BY <3>1 DEF VersionCounts
    <3>3. /\ poll.fields.stage = board.stage /\ poll.fields.bytes = board.bytes
          /\ poll.fields.out = board.out
      BY <3>1, FieldNames
    <3>4. poll.fields = board
      BY <3>3, EqualSamples
    <3> QED BY <3>1, <3>2, <3>4 DEF BoardFollows
  <2>3. SnapshotKept'
    <3>1. CASE version = poll.before
      <4>1. snapshot' = [seq |-> Len(history), fields |-> history[Len(history)]]
        BY <2>1, <2>2, <3>1
      <4> QED BY <1>1, <4>1 DEF SnapshotKept, boardVars
    <3>2. CASE version # poll.before
      BY <1>1, <2>1, <3>2 DEF SnapshotKept, boardVars
    <3> QED BY <3>1, <3>2
  <2> QED BY <1>1, <2>1, <2>3 DEF PollFollows
<1> QED BY <1>2, <1>3, <1>4 DEF PollStep

\* A new board is consistent.
LEMMA BoardInit == ControlInit => BoardInv
  BY DEF ControlInit, BoardInv, OnePublisher, VersionCounts, BoardFollows, PollFollows,
         SnapshotKept, Rising, Publishing, Storing, Idle

\* And every step keeps it so.
LEMMA BoardStep == ControlTypeOK /\ BoardInv /\ [ControlNext]_controlVars => BoardInv'
<1> SUFFICES ASSUME ControlTypeOK, BoardInv, [ControlNext]_controlVars PROVE BoardInv'
  OBVIOUS
<1>1. ASSUME NEW t \in Producer, BeginReport(t) PROVE BoardInv'
  BY <1>1, Quiet DEF BeginReport, Goes, ControlTypeOK, Publishing, boardVars, pollVars
<1>2. ASSUME NEW t \in Producer, ProducerStep(t) PROVE BoardInv'
  <2>1. CASE \/ LoadPaused(t) \/ LoadCancelled(t) \/ LockGate(t) \/ EvalPaused(t)
             \/ EvalCancelled(t) \/ Block(t)
    BY <2>1, Quiet
    DEF LoadPaused, LoadCancelled, LockGate, EvalPaused, EvalCancelled, Block, Goes,
        ControlTypeOK, Publishing, boardVars, pollVars
  <2> QED BY <1>2, <2>1, BoardAcquires, BoardOpens, BoardStores, BoardCloses, BoardClears
          DEF ProducerStep
<1>3. CASE FrontendStep \/ Command
  BY <1>3, Quiet
  DEF FrontendStep, Command, CancelUnpauses, NotifyAll, Pause, Resume, RequestCancel,
      ControlTypeOK, Publishing, boardVars, producerVars, pollVars
<1>4. CASE UNCHANGED controlVars
  BY <1>4, Quiet DEF controlVars, producerVars, boardVars, pollVars
<1> QED BY <1>1, <1>2, <1>3, <1>4, BoardPolled DEF ControlNext

----------------------------------------------------------------------------
(* The gate.                                                               *)

\* A cancellation is seen and stays, whatever the step.
LEMMA GateStep ==
  ControlTypeOK /\ CancelSeen /\ CancelIsFinal /\ [ControlNext]_controlVars => CancelSeen' /\ CancelIsFinal'
<1> SUFFICES ASSUME ControlTypeOK, CancelSeen, CancelIsFinal, [ControlNext]_controlVars
             PROVE  CancelSeen' /\ CancelIsFinal'
  OBVIOUS
<1> USE DEF ControlTypeOK, CancelSeen, CancelIsFinal
<1>1. ASSUME NEW t \in Producer, BeginReport(t) PROVE CancelSeen' /\ CancelIsFinal'
  BY <1>1 DEF BeginReport, Goes, gateVars
<1>2. ASSUME NEW t \in Producer, ProducerStep(t) PROVE CancelSeen' /\ CancelIsFinal'
  <2>1. cancelled' = cancelled /\ late' = late
    BY <1>2 DEF ProducerStep, LoadPaused, LoadCancelled, LockGate, EvalPaused, EvalCancelled,
                Block, AcquireWriter, OpenVersion, StoreField, CloseVersion, ClearWriter,
                gateVars
  <2>2. \A u \in Producer \ {t} : place'[u] = place[u]
    BY <1>2 DEF ProducerStep, LoadPaused, LoadCancelled, LockGate, EvalPaused, EvalCancelled,
                Block, AcquireWriter, OpenVersion, StoreField, CloseVersion, ClearWriter,
                Returns, Goes
  <2>3. late[t] => place'[t] \notin {"spin", "open", "store", "close", "clear"}
    BY <1>2 DEF ProducerStep, LoadPaused, LoadCancelled, LockGate, EvalPaused, EvalCancelled,
                Block, AcquireWriter, OpenVersion, StoreField, CloseVersion, ClearWriter,
                Returns, Goes
  <2> QED BY <2>1, <2>2, <2>3
<1>3. CASE PollStep
  BY <1>3 DEF PollStep, PollBegins, PollLoads, PollEnds, gateVars, producerVars
<1>4. CASE FrontendStep \/ Command
  <2>1. late' = late
    BY <1>4 DEF FrontendStep, Command, CancelUnpauses, NotifyAll, Pause, Resume,
                RequestCancel, producerVars
  <2>3. cancelled' = cancelled \/ cancelled' = TRUE
    BY <1>4 DEF FrontendStep, Command, CancelUnpauses, NotifyAll, Pause, Resume,
                RequestCancel, gateVars
  <2>2. \A t \in Producer : place'[t] = place[t] \/ place'[t] = "lockGate"
    BY <1>4 DEF FrontendStep, Command, CancelUnpauses, NotifyAll, Pause, Resume,
                RequestCancel, producerVars
  <2> QED BY <2>1, <2>2, <2>3
<1>5. CASE UNCHANGED controlVars
  BY <1>5 DEF controlVars, gateVars, producerVars
<1> QED BY <1>1, <1>2, <1>3, <1>4, <1>5 DEF ControlNext

----------------------------------------------------------------------------
(* The theorems.                                                           *)

\* The inductive invariant holds in every reachable state.
THEOREM ControlInvariance == ControlSpec => []ControlInv
<1>1. ControlInit => ControlInv
  BY TypeInit, BoardInit DEF ControlInit, ControlInv, CancelSeen, CancelIsFinal
<1>2. ControlInv /\ [ControlNext]_controlVars => ControlInv'
  BY TypeStep, BoardStep, GateStep DEF ControlInv
<1> QED BY <1>1, <1>2, PTL DEF ControlSpec

\* The variables keep their types.
THEOREM ControlTypes == ControlSpec => []ControlTypeOK
<1>1. ControlInv => ControlTypeOK
  BY DEF ControlInv
<1> QED BY <1>1, ControlInvariance, PTL

\* latest_progress() returns samples as report() published them, whole.
THEOREM SnapshotsAreWhole == ControlSpec => []SnapshotCoherent
<1>1. ControlInv => SnapshotCoherent
  BY DEF ControlInv, BoardInv, SnapshotKept, SnapshotCoherent
<1> QED BY <1>1, ControlInvariance, PTL

\* The progress report() publishes never falls within an epoch.
THEOREM ProgressNeverFalls == ControlSpec => []HighWater
<1>1. ControlInv => HighWater
  BY DEF ControlInv, BoardInv, Rising, Follows, HighWater
<1> QED BY <1>1, ControlInvariance, PTL

\* checkpoint() lets nothing through that came after the cancel request.
THEOREM NothingPassesCancel == ControlSpec => []CancelIsFinal
<1>1. ControlInv => CancelIsFinal
  BY DEF ControlInv
<1> QED BY <1>1, ControlInvariance, PTL
==============================================================================
