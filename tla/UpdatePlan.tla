----------------------------- MODULE UpdatePlan -----------------------------
(***************************************************************************)
(* What an update of an archive from the file system selects, refuses and  *)
(* leaves: the scan of the sources, the validation of what it found, the   *)
(* selection of update, fresh and sync, and the new entry list, all of     *)
(* src/src/archive/container.cpp; and the preview of the same update that  *)
(* the graphical shell computes on its own from a listing of the archive,  *)
(* src/src/gui/archive_update_plan.cpp.                                    *)
(*                                                                         *)
(* A path is the sequence of its names. A source tree is a function from   *)
(* paths to files (a node number, its content and time), directories,      *)
(* which may be closed to the user, and symbolic links; an archive is its  *)
(* list of entries. Which blocks hold the bytes is left to SolidBlocks and *)
(* ChunkedEntries; an entry here has the content itself. Modes are "add",  *)
(* "update", "fresh" and "sync".                                           *)
(***************************************************************************)
EXTENDS Naturals, Sequences, SequencesExt, FiniteSetsExt

Below(p, q) == IsStrictPrefix(q, p)

PathsOf(list) == {list[i].path : i \in DOMAIN list}

\* Every path index keeps the first of several entries at one path.
FirstIndex(list, p) == Min({i \in DOMAIN list : list[i].path = p})
FirstAt(list, p) == list[FirstIndex(list, p)]

\* The elements of a list at the places in I, in their order.
Nth(I, k) == CHOOSE i \in I : Cardinality({j \in I : j <= i}) = k
Picked(list, I) == [k \in 1..Cardinality(I) |-> list[Nth(I, k)]]

----------------------------------------------------------------------------
(* Scanning.                                                               *)

\* An item of the scan.
Item(path, found) ==
  [path |-> path, kind |-> found.kind, node |-> found.node,
   content |-> found.content, mtime |-> found.mtime, target |-> found.target]

Hidden(tree, from, p) ==
  \E q \in DOMAIN tree : tree[q].closed /\ IsPrefix(from, q) /\ Below(p, q)

\* scan_input_at for each input: the source itself and all beneath it, under the
\* destination it is mapped to.  (scan_input maps an input to its own name.)  What
\* is in a directory that may not be read is passed over without a word.
Scan(tree, order, inputs) ==
  LET Mapped(in, p) == in.to \o SubSeq(p, Len(in.from) + 1, Len(p))
      Found(in) == Picked(order, {i \in DOMAIN order :
                                    /\ order[i] \in DOMAIN tree
                                    /\ IsPrefix(in.from, order[i])
                                    /\ ~Hidden(tree, in.from, order[i])})
  IN  FlattenSeq([k \in DOMAIN inputs |->
        [i \in DOMAIN Found(inputs[k]) |->
           Item(Mapped(inputs[k], Found(inputs[k])[i]), tree[Found(inputs[k])[i]])]])

\* An input that does not exist ends the scan.
ScanFails(tree, inputs) == \E k \in DOMAIN inputs : inputs[k].from \notin DOMAIN tree

----------------------------------------------------------------------------
(* Validation.                                                             *)

\* find_non_directory_ancestor finds something.
BeneathNonDirectory(list, p) ==
  \E q \in PathsOf(list) : Below(p, q) /\ FirstAt(list, q).kind # "dir"

\* validate_incoming_items
IncomingValid(items) ==
  /\ \A i, j \in DOMAIN items : items[i].path = items[j].path => i = j
  /\ \A p \in PathsOf(items) : ~BeneathNonDirectory(items, p)

\* same_mapped_entry_class: a hard link is file-like.
FileLike(kind) == kind \in {"file", "hardlink"}
SameClass(stored, incoming) == stored = incoming \/ (FileLike(stored) /\ FileLike(incoming))

\* validate_mapped_items
MappedValid(items, entries) ==
  /\ IncomingValid(items)
  /\ \A i \in DOMAIN items :
       LET it == items[i]
       IN  /\ it.path \in PathsOf(entries)
                => SameClass(FirstAt(entries, it.path).kind, it.kind)
           /\ ~BeneathNonDirectory(entries, it.path)
           /\ it.kind # "dir" => \A q \in PathsOf(entries) : ~Below(q, it.path)

----------------------------------------------------------------------------
(* Selection, and what the archive holds afterwards.                       *)

\* Mutant: what is as old as the entry is taken too.
SelectNotOlder(items, entries, freshOnly) ==
  Picked(items, {i \in DOMAIN items :
    LET it == items[i]
    IN  IF it.path \notin PathsOf(entries) THEN ~freshOnly
        ELSE it.kind = "file" /\ it.mtime >= FirstAt(entries, it.path).mtime})

\* select_update_items: directories and links only when they are missing, files
\* also when they are newer, by whole seconds.
SelectUpdateItems(items, entries, freshOnly) ==
  Picked(items, {i \in DOMAIN items :
    LET it == items[i]
    IN  IF it.path \notin PathsOf(entries) THEN ~freshOnly
        ELSE it.kind = "file" /\ it.mtime > FirstAt(entries, it.path).mtime})

\* compress_items_into takes links and directories first, then files.  (The order
\* among files is SolidBlocks'.)
Ordered(items) == Picked(items, {i \in DOMAIN items : items[i].kind # "file"})
                    \o Picked(items, {i \in DOMAIN items : items[i].kind = "file"})

\* The files before the i-th item that are the same file.
Earlier(list, i) == {j \in 1..(i - 1) : list[j].kind = "file" /\ list[j].node = list[i].node}

\* The entries it adds for the items: the second path of a node is a hard link
\* without a time of its own.
Stored(items) ==
  LET list == Ordered(items)
      Entry(i) ==
        LET it == list[i]
        IN  IF it.kind = "file" /\ Earlier(list, i) # {}
            THEN [path |-> it.path, kind |-> "hardlink", content |-> <<>>, mtime |-> 0,
                  target |-> list[Min(Earlier(list, i))].path]
            ELSE [path |-> it.path, kind |-> it.kind, content |-> it.content,
                  mtime |-> it.mtime, target |-> it.target]
  IN  [i \in DOMAIN list |-> Entry(i)]

\* append_items_to_archive_indexed: new items replace entries of their path; a
\* sync also drops what is not wanted, and links whose target is gone with it.
Appended(entries, items) ==
  Picked(entries, {i \in DOMAIN entries : entries[i].path \notin PathsOf(items)})
    \o Stored(items)

\* Mutant: what is not wanted stays.
SynchronizedWithStale(entries, items, wanted) == Appended(entries, items)

Synchronized(entries, items, wanted) ==
  LET kept == Picked(entries, {i \in DOMAIN entries : /\ entries[i].path \in wanted
                                                     /\ entries[i].path \notin PathsOf(items)})
      retained == PathsOf(kept) \cup PathsOf(items)
  IN  Picked(kept, {i \in DOMAIN kept : kept[i].kind = "hardlink" => kept[i].target \in retained})
        \o Stored(items)

\* What add_to_archive, update_archive and sync_archive write of the items they
\* scanned.
Selected(items, entries, mode) ==
  IF mode = "add" THEN items ELSE SelectUpdateItems(items, entries, mode = "fresh")

Updated(items, entries, mode) ==
  IF Selected(items, entries, mode) = <<>>
     /\ (mode = "sync" => PathsOf(entries) \subseteq PathsOf(items))
  THEN entries
  ELSE IF mode = "sync"
  THEN Synchronized(entries, Selected(items, entries, mode), PathsOf(items))
  ELSE Appended(entries, Selected(items, entries, mode))

----------------------------------------------------------------------------
(* build_archive_update_plan.                                              *)

\* A listed entry is a directory, a symbolic link or else a file.
EntryClass(kind) == IF kind \in {"dir", "symlink"} THEN kind ELSE "file"

Conflicts(items, entries) ==
  {p \in PathsOf(items) :
     LET it == FirstAt(items, p)
         old == {entries[i] : i \in DOMAIN entries}
     IN  \/ Cardinality({i \in DOMAIN items : items[i].path = p}) > 1
         \/ /\ p \in PathsOf(entries)
            /\ EntryClass(FirstAt(entries, p).kind) # EntryClass(it.kind)
         \/ it.kind # "dir" /\ \E q \in PathsOf(items) : Below(q, p)
         \/ \E e \in old : e.kind # "dir" /\ Below(p, e.path)
         \/ it.kind # "dir" /\ \E e \in old : Below(e.path, p)}

\* The action of one row.
PlannedAction(it, items, entries, mode) ==
  LET stored == it.path \in PathsOf(entries)
  IN  IF it.path \in Conflicts(items, entries) THEN "conflict"
      ELSE IF mode = "add" THEN IF stored THEN "replace" ELSE "add"
      ELSE IF ~stored THEN IF mode = "fresh" THEN "ignored" ELSE "add"
      ELSE IF it.kind = "file" /\ it.mtime > FirstAt(entries, it.path).mtime THEN "replace"
      ELSE "unchanged"

\* The rows, as a set: they are sorted, and compared with those of another scan.
\* Only files are measured; where a link leads is not part of a row.
Plan(items, entries, mode) ==
  {[path |-> items[i].path, action |-> PlannedAction(items[i], items, entries, mode),
    kind |-> EntryClass(items[i].kind), size |-> Len(items[i].content),
    mtime |-> IF items[i].kind = "file" THEN items[i].mtime ELSE 0] : i \in DOMAIN items}
  \cup
  (IF mode # "sync" THEN {}
   ELSE {[path |-> p, action |-> "remove", kind |-> EntryClass(FirstAt(entries, p).kind),
          size |-> Len(FirstAt(entries, p).content), mtime |-> FirstAt(entries, p).mtime] :
           p \in PathsOf(entries) \ PathsOf(items)})

RowsOf(plan, action) == {r.path : r \in {r \in plan : r.action = action}}

\* can_apply, without the additional effects.
CanApply(plan) ==
  /\ RowsOf(plan, "conflict") = {}
  /\ \E a \in {"add", "replace", "remove"} : RowsOf(plan, a) # {}

----------------------------------------------------------------------------
(* check_directory_structure, the part of `test` about the entry list.     *)

Dangling(list) ==
  {i \in DOMAIN list : /\ list[i].kind = "hardlink"
                       /\ \/ list[i].target \notin PathsOf(list)
                          \/ FirstAt(list, list[i].target).kind # "file"}

\* is_safe_relative, for paths of names: none of them climbs.
Unsafe(list) == {i \in DOMAIN list : ".." \in Range(list[i].path)}

TestFails(list) == Dangling(list) \cup Unsafe(list) # {}

\* Mutant: an entry beneath a file passes without a warning.
TestWarnsOfDuplicates(list) ==
  \E i, j \in DOMAIN list : i # j /\ list[i].path = list[j].path

TestWarns(list) ==
  \/ \E i, j \in DOMAIN list : i # j /\ list[i].path = list[j].path
  \/ \E p \in PathsOf(list) : BeneathNonDirectory(list, p)
=============================================================================
