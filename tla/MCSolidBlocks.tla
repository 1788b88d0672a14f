---------------------------- MODULE MCSolidBlocks ----------------------------
(* Instances of SolidBlocks for TLC. *)
EXTENDS SolidBlocks, TLC

CONSTANTS w1, w2, x, y, f, g, h

Regular(path, class, node) == [path |-> path, kind |-> "file", class |-> class, node |-> node]
Other(path, kind) == [path |-> path, kind |-> kind, class |-> 0, node |-> Nil]
Long(n) == [i \in 1..n |-> IF i % 3 = 0 THEN y ELSE x]

Operation == [threads |-> {w1}, items |-> <<>>, disk |-> <<>>, base |-> <<>>,
              held |-> <<>>, contents |-> {}, changes |-> 0, unreadable |-> FALSE,
              follow |-> FALSE]

\* Three files, any of which may hold the same bytes, while two of them change.
Contents == {<<>>, <<x, x>>, <<x, y>>}
Changing ==
  {[Operation EXCEPT
      !.items = <<Regular("a", 1, f), Regular("b", 1, g), Regular("c", 1, h)>>,
      !.disk = (f :> <<x, x>>) @@ (g :> c) @@ (h :> d),
      !.contents = Contents, !.changes = 1] : c, d \in Contents \ {<<>>}}

\* The archive holds bytes already, in a block with another file before them.
Holding ==
  {[Operation EXCEPT
      !.items = <<Regular("a", 1, f), Regular("b", 2, g)>>,
      !.disk = (f :> c) @@ (g :> d),
      !.base = <<<<y, x>>, <<x, y>>>>,
      !.held = <<[content |-> <<y>>, first |-> 1, offset |-> 0],
                 [content |-> <<x, x>>, first |-> 1, offset |-> 1],
                 [content |-> <<y>>, first |-> 2, offset |-> 1]>>,
      !.contents = Contents, !.changes = 1] : c, d \in Contents}

\* Every kind of item, in an order the writer rearranges; some cannot be read.
Kinds ==
  {[Operation EXCEPT
      !.items = <<Regular("a", 2, f), Regular("b", 1, g), Other("d", "dir"),
                  Regular("e", 1, f), Other("l", "symlink"), Other("r", "reparse"),
                  Regular("s", 2, g)>>,
      !.disk = (f :> <<x, y, y>>) @@ (g :> <<x>>),
      !.unreadable = TRUE]}

\* More blocks than fit in the pipeline.
Filling ==
  {[Operation EXCEPT !.threads = t, !.items = <<Regular("a", 1, f)>>, !.disk = (f :> Long(n))] :
     <<t, n>> \in {<<{w1}, 9>>, <<{w1, w2}, 11>>}}

\* Progress.
Followed ==
  {[Operation EXCEPT !.threads = {w1, w2}, !.items = <<Regular("a", 1, f)>>,
                     !.disk = (f :> Long(4)), !.follow = TRUE]}

MCSlice == {x, y}
MCCases == Changing \cup Holding \cup Kinds \cup Filling \cup Followed
=============================================================================
