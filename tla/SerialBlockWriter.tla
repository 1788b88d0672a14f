------------------------- MODULE SerialBlockWriter -------------------------
(***************************************************************************)
(* What a serial archive writer promises for a run of blocks: the caller   *)
(* hands blocks over in index order, each is written once, in that order,  *)
(* and the writer stops for good at the first failure.  Blocks handed over *)
(* but not yet written may be abandoned; nothing is ever written ahead of  *)
(* an earlier block.                                                       *)
(***************************************************************************)
EXTENDS Naturals, Sequences

VARIABLES
  accepted,   \* how many blocks the caller has handed over
  output,     \* the indices written to the archive, in file order
  outcome     \* "open", "complete" or "failed"

serialVars == <<accepted, output, outcome>>

SerialInit ==
  /\ accepted = 0
  /\ output = <<>>
  /\ outcome = "open"

Accept ==
  /\ outcome = "open"
  /\ accepted' = accepted + 1
  /\ UNCHANGED <<output, outcome>>

WriteNext ==
  /\ outcome = "open"
  /\ Len(output) < accepted
  /\ output' = Append(output, Len(output) + 1)
  /\ UNCHANGED <<accepted, outcome>>

\* finish() returns: only when nothing handed over is still unwritten.
Complete ==
  /\ outcome = "open"
  /\ Len(output) = accepted
  /\ outcome' = "complete"
  /\ UNCHANGED <<accepted, output>>

\* submit() or finish() rethrows, or the caller gives up.
Fail ==
  /\ outcome = "open"
  /\ outcome' = "failed"
  /\ UNCHANGED <<accepted, output>>

SerialNext == Accept \/ WriteNext \/ Complete \/ Fail

SerialSpec == SerialInit /\ [][SerialNext]_serialVars
=============================================================================
