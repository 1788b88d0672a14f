--------------------------- MODULE MCChunkedEntries ---------------------------
(* Instances of ChunkedEntries for TLC. *)
EXTENDS ChunkedEntries, TLC

CONSTANTS w1, w2, k1, k2, k3, k4, k5

\* Every tree of two files of at most two chunks over three identities, and one
\* tree of four new chunks, two of them met again.
File == UNION {[1..n -> {k1, k2, k3}] : n \in 0..2}
MCInputs == {<<f, g>> : f \in File, g \in File}
            \cup {<<<<k2, k3, k4>>, <<k3, k5, k2>>>>}
MCBase == <<k1>>
MCSizes == (k1 :> 1) @@ (k2 :> 2) @@ (k3 :> 3) @@ (k4 :> 1) @@ (k5 :> 4)

\* Capacities 2, 3, 1 and 5: with a budget of 4 the first two blocks do not fit
\* together, the second and third do, and the last is larger than the budget.
MCPosition == (0 :> 0) @@ <<2, 5, 6, 11>>
=============================================================================
