------------------------- MODULE MCOperationControl -------------------------
(* Instances of OperationControl for TLC. *)
EXTENDS OperationControl, TLC

CONSTANTS p1, p2

Report(stage, bytes, out) == [stage |-> stage, bytes |-> bytes, out |-> out]

\* Reader and writer of one pipeline, and a later stage over the same totals.
MCSamples == {Report("reading", 2, 0), Report("writing", 1, 1), Report("finalizing", 1, 0)}
MCTotal == [stage \in {"reading", "writing", "finalizing"} |-> 3]
=============================================================================
