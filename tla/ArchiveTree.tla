---------------------------- MODULE ArchiveTree ----------------------------
(***************************************************************************)
(* The catalogue of an AXAR archive, as src/src/archive/container.cpp      *)
(* validates, moves and resolves it: a function from paths to entries.  A  *)
(* path is the sequence of its names.  An entry has a kind: a "file" has   *)
(* data, its chunks (identities in a tree on disk, references in an        *)
(* archive), a "link" the target it shares bytes with, a "dir" nothing.    *)
(* Symbolic links are left out.                                            *)
(***************************************************************************)
EXTENDS Naturals, SequencesExt, Functions

NoEntries == [p \in {} |-> {}]

\* What an entry record holds of each kind.
IsEntry(entry) ==
  \/ entry = [kind |-> "dir"]
  \/ entry.kind = "link" /\ entry = [kind |-> "link", target |-> entry.target]
  \/ /\ entry.kind = "file" /\ entry = [kind |-> "file", data |-> entry.data]
     /\ entry.data \in Seq(Range(entry.data))

IsTree(tree) ==
  tree = [p \in DOMAIN tree |-> tree[p]] /\ \A p \in DOMAIN tree : IsEntry(tree[p])

\* is_same_or_child
Under(path, root) == IsPrefix(root, path)

\* find_non_directory_ancestor finds nothing.
WellFormed(tree) ==
  \A p, q \in DOMAIN tree : p # q /\ Under(q, p) => tree[p].kind = "dir"

\* The links a reader can give bytes to: those that name a file entry.
LinkResolves(tree, p) ==
  tree[p].target \in DOMAIN tree /\ tree[tree[p].target].kind = "file"

Links(tree) == {p \in DOMAIN tree : tree[p].kind = "link"}

Files(tree) == {p \in DOMAIN tree : tree[p].kind = "file"}

LinksResolve(tree) == \A p \in Links(tree) : LinkResolves(tree, p)

\* The chunks, or chunk references, of all files.
ContentOf(tree) == UNION {Range(tree[p].data) : p \in Files(tree)}

\* Every chunk or reference of every file, put through the function f.
MapContent(tree, f) ==
  [p \in DOMAIN tree |->
     IF p \in Files(tree)
     THEN [tree[p] EXCEPT !.data = [k \in DOMAIN tree[p].data |-> f[tree[p].data[k]]]]
     ELSE tree[p]]

\* The entries of tree at the paths kept, without the links whose target is
\* not among targets.
Keeping(tree, kept, targets) ==
  Restrict(tree, {p \in kept : p \in Links(tree) => tree[p].target \in targets})

\* The entries of items, put over those of tree.
Over(items, tree) ==
  [p \in DOMAIN items \cup DOMAIN tree |->
     IF p \in DOMAIN items THEN items[p] ELSE tree[p]]

\* Tables that lose elements: the new index of one that is kept is how many are
\* kept up to it.
Renumbered(i, kept) == Cardinality({k \in kept : k <= i})

KeptAt(k, kept) == CHOOSE i \in kept : Renumbered(i, kept) = k

Compacted(table, kept) ==
  [k \in 1..Cardinality(kept) |-> table[KeptAt(k, kept)]]

\* A history without the snapshots that have one of names.
Without(history, names) ==
  Compacted(history, {i \in DOMAIN history : history[i].name \notin names})

\* A batch of moves is a function from sources to destinations.
MovesAllowed(moves) ==
  \A s \in DOMAIN moves :
    /\ ~Under(moves[s], s)
    /\ \A t \in DOMAIN moves \ {s} :
         moves[s] # moves[t] /\ ~Under(s, t) /\ ~Under(moves[s], t)

\* moved_path: the first source the path lies under; allowed sources do not
\* overlap.
MovedPath(path, moves) ==
  IF \A s \in DOMAIN moves : ~Under(path, s) THEN path
  ELSE LET s == CHOOSE s \in DOMAIN moves : Under(path, s)
       IN  moves[s] \o SubSeq(path, Len(s) + 1, Len(path))

\* No two entries end up at one path.
MoveIsInjective(tree, moves) ==
  \A p, q \in DOMAIN tree : MovedPath(p, moves) = MovedPath(q, moves) => p = q

\* Entries move with their paths, links follow the path they name.
MovedTree(tree, moves) ==
  [q \in {MovedPath(p, moves) : p \in DOMAIN tree} |->
     LET entry == tree[CHOOSE p \in DOMAIN tree : MovedPath(p, moves) = q]
     IN  IF entry.kind = "link"
         THEN [entry EXCEPT !.target = MovedPath(@, moves)] ELSE entry]
=============================================================================
