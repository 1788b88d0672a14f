---------------------------- MODULE ContentStore ----------------------------
(***************************************************************************)
(* What a deduplicated archive promises, without chunks, blocks or keys:   *)
(* a catalogue that reads back what was put into it, and a history of      *)
(* named trees that only grows at its end and only shrinks in front of it. *)
(* Repacking, signing and encryption do not show.  The operations are      *)
(* those of src/src/archive/container.cpp (see ChunkRepository).           *)
(***************************************************************************)
EXTENDS ArchiveTree

CONSTANTS
  Trees,  \* trees that may be captured
  Moves,  \* batches of moves
  Names   \* snapshot names

VARIABLES
  current,  \* the catalogue
  history,  \* the snapshots kept, oldest first
  locked

storeVars == <<current, history, locked>>

StoreInit ==
  /\ current \in Trees
  /\ history \in {<<>>} \cup {<<[name |-> n, tree |-> current]>> : n \in Names}
  /\ locked = FALSE

\* A snapshot is the tree that was captured, and becomes the catalogue.
Take ==
  /\ ~locked
  /\ history # <<>>
  /\ current' \in Trees
  /\ \E n \in Names :
       /\ \A i \in 1..Len(history) : history[i].name # n
       /\ history' = Append(history, [name |-> n, tree |-> current'])
  /\ UNCHANGED locked

\* Snapshots may be dropped, the newest never.
Drop ==
  /\ ~locked
  /\ \E dropped \in SUBSET Names :
       /\ history # <<>>
       /\ Last(history).name \notin dropped
       /\ history' = Without(history, dropped)
  /\ UNCHANGED <<current, locked>>

\* An edit of the catalogue puts a tree over it and leaves entries out; what
\* stays is what it was.
EditOf(before, after) ==
  \E items \in Trees \cup {NoEntries} :
    LET kept == DOMAIN after \ DOMAIN items
    IN  /\ kept \subseteq DOMAIN before
        /\ after = Over(items, Restrict(before, kept))

\* The history is never touched.
Edit ==
  /\ ~locked
  /\ UNCHANGED history
  /\ locked' \in BOOLEAN
  /\ EditOf(current, current')

Rename ==
  /\ ~locked
  /\ UNCHANGED <<history, locked>>
  /\ \E moves \in Moves : current' = MovedTree(current, moves)

StoreNext == Edit \/ Rename \/ Take \/ Drop

StoreSpec == StoreInit /\ [][StoreNext]_storeVars
=============================================================================
