--------------------------- MODULE MCTaskExecutor ---------------------------
(* Instances of TaskExecutor for TLC. *)
EXTENDS TaskExecutor, TLC

CONSTANTS owner, h, x1, main, encoder, p, q, p1, e

\* The owner forks p and q; p forks p1 from whichever thread runs it; an
\* outsider injects e.
MCRoot == (owner :> main) @@ (x1 :> encoder)
MCChildren == (main :> <<p, q>>) @@ (encoder :> <<e>>) @@ (p :> <<p1>>)
              @@ (q :> <<>>) @@ (p1 :> <<>>) @@ (e :> <<>>)
=============================================================================
