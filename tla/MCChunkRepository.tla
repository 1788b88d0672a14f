------------------------ MODULE MCChunkRepository ------------------------
(***************************************************************************)
(* Three chunks, so that tables are renumbered with gaps before, between   *)
(* and behind what is kept; files that share chunks; a hard link, a        *)
(* directory with a file in it, and the same path as file and as           *)
(* directory; moves of a file, of a subtree, and of both at once.          *)
(***************************************************************************)
EXTENDS ChunkRepository

A == <<"a">>
B == <<"b">>
D == <<"d">>
DA == <<"d", "a">>

FileOf(data) == [kind |-> "file", data |-> data]
LinkTo(path) == [kind |-> "link", target |-> path]
Dir == [kind |-> "dir"]

CONSTANTS monday, tuesday, friday

MCNames == {monday, tuesday, friday}

SameNames == Permutations(MCNames)

MCPaths == {A, B, D, DA}

MCTrees ==
  {(A :> FileOf(<<"x", "y">>)) @@ (B :> LinkTo(A)),
   A :> FileOf(<<"z", "y">>),
   (D :> Dir) @@ (DA :> FileOf(<<"z">>)) @@ (B :> FileOf(<<"x">>)),
   A :> Dir}

MCMoves ==
  {A :> DA, D :> A, B :> D, (A :> B) @@ (DA :> A)}
=============================================================================
