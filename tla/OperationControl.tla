-------------------------- MODULE OperationControl --------------------------
(***************************************************************************)
(* OperationControl of src/include/axiom/axiom.hpp, the one object an      *)
(* operation's threads share with its frontend: the pause and cancel gate  *)
(* every report passes first (checkpoint), and the progress sample that    *)
(* producers normalise and publish behind a sequence number and frontends  *)
(* read without blocking them (report, latest_progress).                   *)
(*                                                                         *)
(* Every atomic load and store is a step.  Of the 21 progress fields the   *)
(* model keeps the stage (which stands for the totals and the path that    *)
(* change with it), the completed bytes and the output size: one of each   *)
(* kind the normalisation distinguishes.                                   *)
(***************************************************************************)
EXTENDS Integers, Sequences, FiniteSets

CONSTANTS
  Producer,    \* the operation's threads
  Samples,     \* what they may report: [stage, bytes, out]
  Total,       \* total_bytes of each stage
  Quantum,     \* kPublishQuantum
  MaxReports,  \* bound: reports in all
  MaxPauses    \* bound: how often the frontend pauses

Pipeline == {"reading", "compressing", "writing"}

\* A progress sample.
Sample == [stage : DOMAIN Total, bytes : Nat, out : Nat]

ASSUME ControlAssumption ==
  /\ "reading" \in DOMAIN Total
  /\ Samples \subseteq Sample
  /\ {Quantum, MaxReports, MaxPauses} \subseteq Nat
  /\ "nobody" \notin Producer

\* The order in which the fields are stored, and in which they are loaded.
Fields == <<"stage", "bytes", "out">>

Unset == [stage |-> "reading", bytes |-> 0, out |-> 0]

VARIABLES
  paused,     \* paused_
  cancelled,  \* cancelled_
  gateOwner,  \* the producer holding pause_mutex_, or "nobody"
  writer,     \* progress_writer_ is set
  version,    \* progress_version_
  board,      \* the published fields
  history,    \* the samples published, in sequence order
  place,      \* where each producer is
  sample,     \* what it reports, normalised where it is
  field,      \* the next field it stores
  reports,    \* reports begun so far
  late,       \* it entered checkpoint() after the cancel request
  frontend,   \* where the frontend thread is
  pauses,     \* pauses so far
  poll,       \* the snapshot being read: [before, next, fields]
  snapshot    \* the last snapshot returned: [seq, fields]

gateVars == <<paused, cancelled, gateOwner>>
boardVars == <<writer, version, board, history>>
producerVars == <<place, sample, field, reports, late>>
frontendVars == <<frontend, pauses>>
pollVars == <<poll, snapshot>>
controlVars == <<gateVars, boardVars, producerVars, frontendVars, pollVars>>

Idle == [before |-> 0, next |-> 0, fields |-> Unset]

ControlInit ==
  /\ paused = FALSE /\ cancelled = FALSE /\ gateOwner = "nobody"
  /\ writer = FALSE /\ version = 0 /\ board = Unset /\ history = <<>>
  /\ place = [t \in Producer |-> "idle"]
  /\ sample = [t \in Producer |-> Unset]
  /\ field = [t \in Producer |-> 1]
  /\ reports = 0
  /\ late = [t \in Producer |-> FALSE]
  /\ frontend = "ready" /\ pauses = 0
  /\ poll = Idle
  /\ snapshot = [seq |-> 0, fields |-> Unset]

Goes(t, label) == place' = [place EXCEPT ![t] = label]

----------------------------------------------------------------------------
(* checkpoint(), on entry to report().                                     *)

BeginReport(t) ==
  /\ place[t] = "idle"
  /\ reports < MaxReports
  /\ \E s \in Samples : sample' = [sample EXCEPT ![t] = s]
  /\ reports' = reports + 1
  /\ late' = [late EXCEPT ![t] = cancelled]
  /\ Goes(t, "checkpoint")
  /\ UNCHANGED <<gateVars, boardVars, field, frontendVars, pollVars>>

\* The unpaused fast path looks at the two flags one after the other.
LoadPaused(t) ==
  /\ place[t] = "checkpoint"
  /\ Goes(t, IF paused THEN "lockGate" ELSE "fastPath")
  /\ UNCHANGED <<gateVars, boardVars, sample, field, reports, late,
                 frontendVars, pollVars>>

\* Mutant: leaving the pause wait is taken for a permission to go on.
LoadCancelledFastOnly(t) ==
  /\ place[t] \in {"fastPath", "gatePassed"}
  /\ Goes(t, IF cancelled /\ place[t] = "fastPath" THEN "threw" ELSE "spin")
  /\ gateOwner' = IF gateOwner = t THEN "nobody" ELSE gateOwner
  /\ UNCHANGED <<paused, cancelled, boardVars, sample, field, reports, late,
                 frontendVars, pollVars>>

LoadCancelled(t) ==
  /\ place[t] \in {"fastPath", "gatePassed"}
  /\ Goes(t, IF cancelled THEN "threw" ELSE "spin")
  /\ gateOwner' = IF gateOwner = t THEN "nobody" ELSE gateOwner
  /\ UNCHANGED <<paused, cancelled, boardVars, sample, field, reports, late,
                 frontendVars, pollVars>>

\* pause_mutex_ is taken, by a first wait or by a notified one.
LockGate(t) ==
  /\ place[t] = "lockGate"
  /\ gateOwner = "nobody"
  /\ gateOwner' = t
  /\ Goes(t, "evalPaused")
  /\ UNCHANGED <<paused, cancelled, boardVars, sample, field, reports, late,
                 frontendVars, pollVars>>

\* The wait's predicate: !paused_ || cancelled_, two loads.
EvalPaused(t) ==
  /\ place[t] = "evalPaused"
  /\ Goes(t, IF paused THEN "evalCancelled" ELSE "gatePassed")
  /\ UNCHANGED <<gateVars, boardVars, sample, field, reports, late,
                 frontendVars, pollVars>>

EvalCancelled(t) ==
  /\ place[t] = "evalCancelled"
  /\ Goes(t, IF cancelled THEN "gatePassed" ELSE "block")
  /\ UNCHANGED <<gateVars, boardVars, sample, field, reports, late,
                 frontendVars, pollVars>>

\* The predicate was false: the mutex is released and the thread sleeps.
Block(t) ==
  /\ place[t] = "block"
  /\ Goes(t, "blocked")
  /\ gateOwner' = "nobody"
  /\ UNCHANGED <<paused, cancelled, boardVars, sample, field, reports, late,
                 frontendVars, pollVars>>

----------------------------------------------------------------------------
(* report(): normalise and publish under progress_writer_.                 *)

Bigger(a, b) == IF a >= b THEN a ELSE b

SameTotals(s, prev) == Total[s.stage] = Total[prev.stage]
SameEpoch(s, prev) ==
  /\ SameTotals(s, prev)
  /\ s.stage = prev.stage \/ {s.stage, prev.stage} \subseteq Pipeline

\* Mutant: every stage is an epoch of its own.
NormalisedPerStage(s) ==
  IF version = 0 \/ s.stage # board.stage THEN s
  ELSE [s EXCEPT !.bytes = Bigger(@, board.bytes), !.out = Bigger(@, board.out)]

\* Completed bytes never fall within one epoch, nor the output size while the
\* totals stay.
Normalised(s) ==
  IF version = 0 THEN s
  ELSE [s EXCEPT !.bytes = IF SameEpoch(s, board) THEN Bigger(@, board.bytes) ELSE @,
                 !.out = IF SameTotals(s, board) THEN Bigger(@, board.out) ELSE @]

\* Worth publishing: a boundary, or a quantum of progress.
WorthPublishing(s) ==
  \/ version = 0
  \/ s.stage # board.stage
  \/ Total[s.stage] > 0 /\ s.bytes >= Total[s.stage]
  \/ s.bytes >= board.bytes + Quantum
  \/ s.out >= board.out + Quantum

Returns(t) == Goes(t, "idle") /\ sample' = [sample EXCEPT ![t] = Unset]

\* The spin lock is taken and the report is normalised under it; a report that
\* is not worth publishing releases it again.
AcquireWriter(t) ==
  /\ place[t] = "spin"
  /\ ~writer
  /\ LET s == Normalised(sample[t])
     IN  IF WorthPublishing(s)
         THEN /\ writer' = TRUE
              /\ sample' = [sample EXCEPT ![t] = s]
              /\ Goes(t, "open")
         ELSE Returns(t) /\ UNCHANGED writer
  /\ UNCHANGED <<gateVars, version, board, history, field, reports, late,
                 frontendVars, pollVars>>

\* The version turns odd: writer active.
OpenVersion(t) ==
  /\ place[t] = "open"
  /\ version' = version + 1
  /\ Goes(t, "store")
  /\ UNCHANGED <<gateVars, writer, board, history, sample, field, reports, late,
                 frontendVars, pollVars>>

StoreField(t) ==
  /\ place[t] = "store"
  /\ board' = [board EXCEPT ![Fields[field[t]]] = sample[t][Fields[field[t]]]]
  /\ field' = [field EXCEPT ![t] = IF @ = Len(Fields) THEN 1 ELSE @ + 1]
  /\ Goes(t, IF field[t] = Len(Fields) THEN "close" ELSE "store")
  /\ UNCHANGED <<gateVars, writer, version, history, sample, reports, late,
                 frontendVars, pollVars>>

\* The version turns even again.
CloseVersion(t) ==
  /\ place[t] = "close"
  /\ version' = version + 1
  /\ history' = Append(history, sample[t])
  /\ Goes(t, "clear")
  /\ UNCHANGED <<gateVars, writer, board, sample, field, reports, late,
                 frontendVars, pollVars>>

\* The spin lock is released; the callback that follows gets the sample by value.
ClearWriter(t) ==
  /\ place[t] = "clear"
  /\ writer' = FALSE
  /\ Returns(t)
  /\ UNCHANGED <<gateVars, version, board, history, field, reports, late,
                 frontendVars, pollVars>>

----------------------------------------------------------------------------
(* latest_progress(): one frontend thread polls.                           *)

PollBegins ==
  /\ poll.next = 0
  /\ version # 0
  /\ version % 2 = 0
  /\ poll' = [before |-> version, next |-> 1, fields |-> Unset]
  /\ UNCHANGED <<gateVars, boardVars, producerVars, frontendVars, snapshot>>

PollLoads ==
  /\ poll.next \in DOMAIN Fields
  /\ poll' = [poll EXCEPT !.fields[Fields[poll.next]] = board[Fields[poll.next]],
                          !.next = @ + 1]
  /\ UNCHANGED <<gateVars, boardVars, producerVars, frontendVars, snapshot>>

\* Mutant: the second version check is left out.
PollEndsUnchecked ==
  /\ poll.next = Len(Fields) + 1
  /\ snapshot' = [seq |-> poll.before \div 2, fields |-> poll.fields]
  /\ poll' = Idle
  /\ UNCHANGED <<gateVars, boardVars, producerVars, frontendVars>>

\* The version is read again; a sample that raced a writer is thrown away.
PollEnds ==
  /\ poll.next = Len(Fields) + 1
  /\ snapshot' = IF version = poll.before
                 THEN [seq |-> version \div 2, fields |-> poll.fields]
                 ELSE snapshot
  /\ poll' = Idle
  /\ UNCHANGED <<gateVars, boardVars, producerVars, frontendVars>>

----------------------------------------------------------------------------
(* set_paused() and request_cancel(), from the frontend: plain stores,     *)
(* without pause_mutex_, and then a notification.                          *)

Pause ==
  /\ frontend = "ready"
  /\ ~paused
  /\ pauses < MaxPauses
  /\ pauses' = pauses + 1
  /\ paused' = TRUE
  /\ UNCHANGED <<cancelled, gateOwner, boardVars, producerVars, frontend, pollVars>>

Resume ==
  /\ frontend = "ready"
  /\ paused
  /\ paused' = FALSE
  /\ frontend' = "notify"
  /\ UNCHANGED <<cancelled, gateOwner, boardVars, producerVars, pauses, pollVars>>

RequestCancel ==
  /\ frontend = "ready"
  /\ ~cancelled
  /\ cancelled' = TRUE
  /\ frontend' = "unpause"
  /\ UNCHANGED <<paused, gateOwner, boardVars, producerVars, pauses, pollVars>>

CancelUnpauses ==
  /\ frontend = "unpause"
  /\ paused' = FALSE
  /\ frontend' = "notify"
  /\ UNCHANGED <<cancelled, gateOwner, boardVars, producerVars, pauses, pollVars>>

\* pause_cv_.notify_all(): the threads asleep now, and only those, wake.
NotifyAll ==
  /\ frontend = "notify"
  /\ frontend' = "ready"
  /\ place' = [t \in Producer |->
                IF place[t] = "blocked" THEN "lockGate" ELSE place[t]]
  /\ UNCHANGED <<gateVars, boardVars, sample, field, reports, late, pauses,
                 pollVars>>

----------------------------------------------------------------------------
ProducerStep(t) ==
  \/ LoadPaused(t) \/ LoadCancelled(t) \/ LockGate(t) \/ EvalPaused(t)
  \/ EvalCancelled(t) \/ Block(t) \/ AcquireWriter(t) \/ OpenVersion(t)
  \/ StoreField(t) \/ CloseVersion(t) \/ ClearWriter(t)

PollStep == PollBegins \/ PollLoads \/ PollEnds
FrontendStep == CancelUnpauses \/ NotifyAll
Command == Pause \/ Resume \/ RequestCancel

ControlNext == (\E t \in Producer : BeginReport(t) \/ ProducerStep(t))
        \/ PollStep \/ FrontendStep \/ Command

\* Threads keep running; what the user asks for and how often is free.
ControlFairness ==
  /\ \A t \in Producer : WF_controlVars(ProducerStep(t))
  /\ WF_controlVars(FrontendStep)

ControlSpec == ControlInit /\ [][ControlNext]_controlVars
FairControl == ControlSpec /\ ControlFairness

----------------------------------------------------------------------------
(* Properties.                                                             *)

Place == {"idle", "checkpoint", "fastPath", "lockGate", "evalPaused",
          "evalCancelled", "gatePassed", "block", "blocked", "threw", "spin",
          "open", "store", "close", "clear"}

ControlTypeOK ==
  /\ paused \in BOOLEAN /\ cancelled \in BOOLEAN /\ writer \in BOOLEAN
  /\ gateOwner \in Producer \cup {"nobody"}
  /\ version \in Nat
  /\ board \in Sample
  /\ history \in Seq(Sample)
  /\ place \in [Producer -> Place]
  /\ sample \in [Producer -> Sample]
  /\ field \in [Producer -> DOMAIN Fields]
  /\ late \in [Producer -> BOOLEAN]
  /\ frontend \in {"ready", "unpause", "notify"}
  /\ poll \in [before : Nat, next : 0..(Len(Fields) + 1), fields : Sample]
  /\ snapshot \in [seq : Nat, fields : Sample]

\* A snapshot is never a mixture of two reports: it is exactly the sample that
\* was published under its sequence number, although the fields are read one
\* by one while producers keep writing.
SnapshotCoherent ==
  snapshot.seq # 0 => snapshot.fields = history[snapshot.seq]

\* A delayed producer never moves the bar backwards: in sequence order the
\* completed bytes of one epoch and the output size never fall.
HighWater ==
  \A i \in 1..(Len(history) - 1) :
    /\ SameEpoch(history[i + 1], history[i]) => history[i].bytes <= history[i + 1].bytes
    /\ SameTotals(history[i + 1], history[i]) => history[i].out <= history[i + 1].out

\* A checkpoint entered after the cancel request never lets its thread through,
\* whatever pauses and resumes happen around it.
CancelIsFinal == \A t \in Producer : late[t] => place[t] \notin
                   {"spin", "open", "store", "close", "clear"}

\* "Cancel ... requests cancellation at the next safe checkpoint": a thread
\* waiting in a checkpoint is released by the request.
CancelReleases ==
  \A t \in Producer : (cancelled /\ place[t] = "blocked") ~> place[t] # "blocked"
=============================================================================
