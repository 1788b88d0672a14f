-------------------------- MODULE ChunkRepository --------------------------
(***************************************************************************)
(* The chunk-addressed archives of src/src/archive/container.cpp, snapshot *)
(* repositories and live deduplicated archives, over any sequence of       *)
(* operations: capture, snapshot add and prune, add and sync, delete,      *)
(* move, sign, lock and repack.  All of them share one chunk table, whose  *)
(* indices, like those of the blocks behind it, are what entries are made  *)
(* of; repacking renumbers both.                                           *)
(*                                                                         *)
(* An operation is one step: how it is made atomic on disk is modelled in  *)
(* ArchiveGenerations, how chunks are written in ChunkedEntries.  An       *)
(* operation that throws changes nothing and is left out.                  *)
(***************************************************************************)
EXTENDS ArchiveTree, FiniteSetsExt

CONSTANTS
  Trees,         \* trees of files that may be captured, whole or in part
  Paths,         \* bound: the paths a move may lead to
  Moves,         \* batches of moves
  Names,         \* snapshot names
  MaxGeneration  \* the greatest generation number

ASSUME RepositoryAssumption ==
  /\ \A tree \in Trees :
       /\ IsTree(tree) /\ WellFormed(tree) /\ LinksResolve(tree)
       /\ IsFiniteSet(ContentOf(tree)) /\ DOMAIN tree \subseteq Paths
  /\ MaxGeneration \in Nat

VARIABLES
  profile,     \* "live" (meta.live_dedup) or "snapshot"
  encrypted,   \* meta.encryption.enabled
  blocks,      \* per block: the chunk it holds, the index it was sealed under
  chunks,      \* per chunk: its identity and its block
  entries,     \* the live catalogue
  snapshots,   \* meta.snapshots: names and catalogues, oldest first
  generation,  \* of the directory; 0 after a rewrite
  signature,   \* <<>>, or <<the digest that was signed>>
  locked       \* meta.locked

vars == <<profile, encrypted, blocks, chunks, entries, snapshots, generation,
          signature, locked>>

\* archive_signature_digest: header, blocks, catalogues, tables, flags and
\* generation; everything but the signature.
Digest == <<blocks, chunks, entries, snapshots, generation, locked>>

----------------------------------------------------------------------------
(* Capturing files into the chunk table.                                   *)

\* The associated data of a block, 0 in a plaintext archive.
Sealed(index) == IF encrypted THEN index ELSE 0

\* Chunks the table does not know, in the order they are met; the order is
\* of no consequence here.
NewChunks(tree) ==
  SetToSeq(ContentOf(tree) \ {chunks[i].identity : i \in DOMAIN chunks})

ChunksWith(tree) ==
  LET new == NewChunks(tree)
  IN  chunks \o [k \in DOMAIN new |-> [identity |-> new[k], block |-> Len(blocks) + k]]

BlocksWith(tree) ==
  LET new == NewChunks(tree)
  IN  blocks \o [k \in DOMAIN new |->
                   [content |-> new[k], sealed |-> Sealed(Len(blocks) + k)]]

\* build_snapshot_chunk_lookup: the first chunk of an identity.
Lookup(table, id) == Min({i \in DOMAIN table : table[i].identity = id})

\* The entries build_chunked_entries returns.
Captured(tree) ==
  LET table == ChunksWith(tree)
  IN  MapContent(tree, [id \in ContentOf(tree) |-> Lookup(table, id)])

\* create_chunked_archive_impl.
Created(tree) ==
  LET order == SetToSeq(ContentOf(tree))
  IN  /\ blocks = [k \in DOMAIN order |-> [content |-> order[k], sealed |-> Sealed(k)]]
      /\ chunks = [k \in DOMAIN order |-> [identity |-> order[k], block |-> k]]
      /\ entries = MapContent(tree, [id \in ContentOf(tree) |-> Lookup(chunks, id)])

Init ==
  /\ profile \in {"live", "snapshot"}
  /\ encrypted \in BOOLEAN
  /\ \E tree \in Trees : Created(tree)
  /\ IF profile = "live" THEN snapshots = <<>>
     ELSE \E n \in Names : snapshots = <<[name |-> n, entries |-> entries]>>
  /\ generation = 0
  /\ signature = <<>>
  /\ locked = FALSE

----------------------------------------------------------------------------
(* Snapshots.                                                              *)

SnapshotNames == {snapshots[i].name : i \in DOMAIN snapshots}

\* add_archive_snapshot: a generation whose catalogue is the new snapshot's.
AddSnapshot(name, tree) ==
  /\ profile = "snapshot" /\ ~locked
  /\ name \notin SnapshotNames
  /\ generation < MaxGeneration
  /\ blocks' = BlocksWith(tree)
  /\ chunks' = ChunksWith(tree)
  /\ entries' = Captured(tree)
  /\ snapshots' = Append(snapshots, [name |-> name, entries |-> Captured(tree)])
  /\ generation' = generation + 1
  /\ signature' = <<>>
  /\ UNCHANGED <<profile, encrypted, locked>>

\* prune_archive_snapshots: a directory without the named snapshots; their
\* chunks stay until a repack.
Prune(names) ==
  /\ profile = "snapshot" /\ ~locked
  /\ names # {} /\ names \subseteq SnapshotNames
  /\ Last(snapshots).name \notin names
  /\ generation < MaxGeneration
  /\ snapshots' = Without(snapshots, names)
  /\ generation' = generation + 1
  /\ signature' = <<>>
  /\ UNCHANGED <<profile, encrypted, blocks, chunks, entries, locked>>

----------------------------------------------------------------------------
(* Edits of the live catalogue.                                            *)

\* add, update and fresh, which differ in the part of the scanned tree they
\* select.
Add(items) ==
  /\ profile = "live" /\ ~locked
  /\ generation < MaxGeneration
  /\ blocks' = BlocksWith(items)
  /\ chunks' = ChunksWith(items)
  /\ entries' = Over(Captured(items), entries)
  /\ WellFormed(entries')
  /\ generation' = generation + 1
  /\ signature' = <<>>
  /\ UNCHANGED <<profile, encrypted, snapshots, locked>>

\* Where a directory goes that needs no new blocks: appended, or, since
\* predicted_version does not count the chunk table, rewritten through a
\* temporary file when a snapshot repository has no other feature of AXAR v5.
MetadataGeneration ==
  \/ generation < MaxGeneration /\ generation' = generation + 1
  \/ profile = "snapshot" /\ generation' = 0

\* ArchiveSyncFinalization: what a caller asks for besides.
Finalize(sign, lock) ==
  /\ locked' = (locked \/ lock)
  /\ signature' = IF sign THEN <<Digest'>> ELSE <<>>

\* The catalogue of a sync: what was captured, and the entries kept, which
\* are still there and no newer on disk, but for links whose target is gone.
Synced(items, kept) ==
  Over(Captured(items), Keeping(entries, kept, kept \cup DOMAIN items))

\* sync_archive_items that selected some items; refused by a snapshot
\* repository.
Sync(items, kept) ==
  /\ profile = "live" /\ ~locked
  /\ kept \subseteq DOMAIN entries \ DOMAIN items
  /\ generation < MaxGeneration
  /\ blocks' = BlocksWith(items)
  /\ chunks' = ChunksWith(items)
  /\ entries' = Synced(items, kept)
  /\ WellFormed(entries')
  /\ generation' = generation + 1
  /\ UNCHANGED <<profile, encrypted, snapshots>>
  /\ \E sign, lock \in BOOLEAN : Finalize(sign, lock)

\* sync_archive_items that found nothing newer, only paths that are gone: the
\* profile is not looked at.
SyncRemovals(kept) ==
  /\ ~locked
  /\ kept \subseteq DOMAIN entries /\ kept # DOMAIN entries
  /\ entries' = Synced(NoEntries, kept)
  /\ MetadataGeneration
  /\ UNCHANGED <<profile, encrypted, blocks, chunks, snapshots>>
  /\ \E sign, lock \in BOOLEAN : Finalize(sign, lock)

\* finalize_archive_metadata, sign_archive, lock_archive.
SetMetadata(sign, lock) ==
  /\ ~locked
  /\ sign \/ lock
  /\ MetadataGeneration
  /\ UNCHANGED <<profile, encrypted, blocks, chunks, entries, snapshots>>
  /\ Finalize(sign, lock)

\* Paths a delete of targets leaves: a directory takes its subtree along.
KeptByDelete(targets) ==
  {p \in DOMAIN entries : \A t \in targets : ~Under(p, t)}

\* Mutant: links are kept whatever becomes of their targets.
DeleteKeepingLinks(targets) ==
  /\ profile = "live" /\ ~locked
  /\ entries' = Restrict(entries, KeptByDelete(targets))
  /\ generation' = 0
  /\ UNCHANGED <<profile, encrypted, blocks, chunks, snapshots, signature, locked>>

\* delete_from_archive of a live archive, a rewritten directory.  Other edits
\* remove the signature; this one leaves it.
Delete(targets) ==
  /\ profile = "live" /\ ~locked
  /\ entries' = Keeping(entries, KeptByDelete(targets), KeptByDelete(targets))
  /\ generation' = 0
  /\ UNCHANGED <<profile, encrypted, blocks, chunks, snapshots, signature, locked>>

\* Mutant: a move, too, leaves the signature.
MoveSigned(moves) ==
  /\ profile = "live" /\ ~locked
  /\ MovesAllowed(moves)
  /\ \A s \in DOMAIN moves : \E p \in DOMAIN entries : Under(p, s)
  /\ MoveIsInjective(entries, moves)
  /\ entries' = MovedTree(entries, moves)
  /\ DOMAIN entries' \subseteq Paths
  /\ WellFormed(entries')
  /\ LinksResolve(entries')
  /\ generation' = 0
  /\ UNCHANGED <<profile, encrypted, blocks, chunks, snapshots, signature, locked>>

\* move_archive_entries
Move(moves) ==
  /\ profile = "live" /\ ~locked
  /\ MovesAllowed(moves)
  /\ \A s \in DOMAIN moves : \E p \in DOMAIN entries : Under(p, s)
  /\ MoveIsInjective(entries, moves)
  /\ entries' = MovedTree(entries, moves)
  /\ DOMAIN entries' \subseteq Paths
  /\ WellFormed(entries')
  /\ LinksResolve(entries')
  /\ generation' = 0
  /\ signature' = <<>>
  /\ UNCHANGED <<profile, encrypted, blocks, chunks, snapshots, locked>>

----------------------------------------------------------------------------
(* Repacking.                                                              *)

\* Every catalogue an archive holds, the live one and its history.
Catalogues == {entries} \cup {snapshots[i].entries : i \in DOMAIN snapshots}

References == UNION {ContentOf(c) : c \in Catalogues}

\* Mutant: every block counts as referenced.
EveryBlock == DOMAIN blocks

\* live_blocks
LiveBlocks == {chunks[r].block : r \in References}

LiveChunks == {i \in DOMAIN chunks : chunks[i].block \in LiveBlocks}

\* Mutant: a block is copied as it was sealed.
CopiedBlock(old) == blocks[old]

\* An encrypted block is opened under its old index and sealed under the new.
RepackedBlock(old) ==
  [blocks[old] EXCEPT !.sealed = Sealed(Renumbered(old, LiveBlocks))]

RepackedChunk(old) == [chunks[old] EXCEPT !.block = Renumbered(@, LiveBlocks)]

Remapped(catalogue) ==
  LET kept == LiveChunks
  IN  MapContent(catalogue, [ref \in ContentOf(catalogue) |-> Renumbered(ref, kept)])

\* Mutant: the snapshots keep their references.
SnapshotsUnmapped == snapshots

RemappedSnapshots ==
  [i \in DOMAIN snapshots |->
     [snapshots[i] EXCEPT !.entries = Remapped(snapshots[i].entries)]]

\* repack_snapshot_archive
Repack ==
  /\ ~locked
  /\ generation' = 0
  /\ signature' = <<>>
  /\ \A b \in LiveBlocks : blocks[b].sealed = Sealed(b)
  /\ blocks' = Compacted([b \in DOMAIN blocks |-> RepackedBlock(b)], LiveBlocks)
  /\ chunks' = Compacted([i \in DOMAIN chunks |-> RepackedChunk(i)], LiveChunks)
  /\ entries' = Remapped(entries)
  /\ snapshots' = RemappedSnapshots
  /\ UNCHANGED <<profile, encrypted, locked>>

----------------------------------------------------------------------------
Next ==
  \/ \E n \in Names, tree \in Trees : AddSnapshot(n, tree)
  \/ \E names \in SUBSET Names : Prune(names)
  \/ \E items \in Trees : Add(items)
  \/ \E items \in Trees, kept \in SUBSET DOMAIN entries : Sync(items, kept)
  \/ \E kept \in SUBSET DOMAIN entries : SyncRemovals(kept)
  \/ \E sign, lock \in BOOLEAN : SetMetadata(sign, lock)
  \/ \E targets \in SUBSET Paths : Delete(targets)
  \/ \E moves \in Moves : Move(moves)
  \/ Repack

Spec == Init /\ [][Next]_vars

----------------------------------------------------------------------------
(* Properties.                                                             *)

\* Whatever sequence of operations made it, an archive passes the checks of
\* load_index (validate_chunk_index): its history fits its profile, snapshot
\* names are unique, references stay inside the tables, and no catalogue has
\* an entry under something that is not a directory.
IndexValid ==
  /\ profile \in {"live", "snapshot"} /\ encrypted \in BOOLEAN
  /\ generation \in 0..MaxGeneration /\ locked \in BOOLEAN
  /\ (profile = "snapshot") = (snapshots # <<>>)
  /\ \A i, j \in DOMAIN snapshots : snapshots[i].name = snapshots[j].name => i = j
  /\ \A i \in DOMAIN chunks : chunks[i].block \in DOMAIN blocks
  /\ \A c \in Catalogues : ContentOf(c) \subseteq DOMAIN chunks /\ WellFormed(c)

\* What a reader gets for a reference: it opens the block under its index and
\* checks the bytes against the chunk's identity.
Read(ref) ==
  LET chunk == chunks[ref]
      block == blocks[chunk.block]
  IN  IF block.sealed = Sealed(chunk.block) /\ block.content = chunk.identity
      THEN block.content ELSE "unreadable"

Restored(catalogue) ==
  MapContent(catalogue, [ref \in ContentOf(catalogue) |-> Read(ref)])

\* Through every renumbering and resealing, the live catalogue and every
\* snapshot that was not pruned read back exactly what was captured; no edit
\* of the catalogue reaches into the history, and a locked archive keeps its
\* contents.
Store == INSTANCE ContentStore WITH
  current <- Restored(entries),
  history <- [i \in DOMAIN snapshots |->
                [name |-> snapshots[i].name, tree |-> Restored(snapshots[i].entries)]],
  locked <- locked

ImplementsStore == Store!StoreSpec

\* Repacking leaves one block for each chunk some catalogue still names, and
\* nothing else: replaced, deleted and pruned data is gone.
RepackReclaims ==
  [][Repack => {blocks'[i].content : i \in DOMAIN blocks'}
                 = {chunks[r].identity : r \in References}
               /\ Len(blocks') = Cardinality(References)]_vars

\* Every step but the delete of a live archive leaves a signature that holds
\* for what the archive has become, or none.
SignatureTracksArchive ==
  [][ \/ signature' \in {<<>>, <<Digest'>>}
      \/ \E targets \in SUBSET Paths : Delete(targets) ]_vars

\* A hard link loses the file it shares bytes with only to an update that puts
\* something that is not a file in that file's place; never to a delete, a
\* sync's removals, a move or a repack.
LinksLostOnlyByReplacement ==
  [][ LinksResolve(entries) /\ ~LinksResolve(entries') =>
        \E p \in Links(entries) :
          /\ entries[p].target \in DOMAIN entries'
          /\ entries'[entries[p].target].kind # "file" ]_vars

\* Any edit removes the stale signature (docs/FORMAT.md:965), so that a test of
\* an archive that carries one succeeds (test_archive, container.cpp:11466).
NoStaleSignature == signature \in {<<>>, <<Digest>>}

\* Content mutations other than snapshot operations are rejected by a snapshot
\* repository (docs/FORMAT.md:483), whose live directory is the newest snapshot
\* (docs/FORMAT.md:470).
LiveIsNewest == profile = "snapshot" => entries = Last(snapshots).entries
=============================================================================
