--------------------------- MODULE MCBlockSource ---------------------------
(* Instances of BlockSource for TLC. *)
EXTENDS BlockSource, TLC

CONSTANTS w1, w2

\* An empty block (charged as one byte), two that fit the budget together with
\* it, and one larger than the whole budget.
MCSize == <<0, 2, 3, 9>>

\* No plan; a plan that three reads can run past; one that returns to a block
\* it can keep, and one to a block it cannot; one with the oversized block in
\* the middle.
MCPlans == {<<>>, <<1, 2>>, <<1, 2, 1>>, <<2, 3, 2>>, <<2, 4, 3>>}
=============================================================================
