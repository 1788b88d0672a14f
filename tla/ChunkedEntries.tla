--------------------------- MODULE ChunkedEntries ---------------------------
(***************************************************************************)
(* build_chunked_entries of src/src/archive/container.cpp: the deduplicat- *)
(* ing writer of snapshot and live-dedup archives, composed with the       *)
(* OrderedBlockEncoder it feeds.  A chunk's identity enters the lookup as  *)
(* soon as its block index is assigned, while the chunk is still waiting   *)
(* to be compressed; its offset is filled in when the payload is written.  *)
(*                                                                         *)
(* Items other than readable regular files (directories, links, skipped    *)
(* files) contribute entries without chunks and are left out.  A payload   *)
(* is the identity of the chunk it holds; identities are taken to be       *)
(* collision-free, as a 32-byte BLAKE3 (or keyed) digest is.               *)
(***************************************************************************)
EXTENDS OrderedBlockEncoder, SequencesExt, FiniteSetsExt

CONSTANTS
  Identity,   \* chunk identities
  BaseOrder,  \* the identities an existing archive already stores, in order
  Inputs,     \* the trees that may be captured: sequences of files, each a
              \* sequence of identities
  PayloadSize \* compressed size of each chunk

ASSUME ChunkAssumption ==
  /\ BaseOrder \in Seq(Identity)
  /\ \A i, j \in 1..Len(BaseOrder) : BaseOrder[i] = BaseOrder[j] => i = j
  /\ \A tree \in Inputs : tree \in Seq(Seq(Identity))
  /\ PayloadSize \in [Identity -> Nat \ {0}]

Base == Len(BaseOrder)

VARIABLES
  input,     \* the tree being captured
  file,      \* the file being read
  offset,    \* chunks of it already read
  refs,      \* entry.chunk_refs of the file being read
  entries,   \* finished entries: their chunk_refs
  lookup,    \* lookup: chunk index per identity known so far
  chunks,    \* chunks: identity and block index
  blocks,    \* blocks: compressed offset and size (0, 0 until written)
  archive    \* payload start offset -> identity of the chunk stored there

chunkVars == <<input, file, offset, refs, entries, lookup, chunks, blocks,
               archive>>

allVars == <<vars, chunkVars>>

\* f, with x mapped to v.
Mapped(f, x, v) == [y \in DOMAIN f \cup {x} |-> IF y = x THEN v ELSE f[y]]

\* Where chunk i starts when payloads lie back to back in that order.
SizeBefore(order, i) == SumFunction([j \in 1..(i - 1) |-> PayloadSize[order[j]]])

\* written: where the next payload goes.
EndOfPayloads == SumFunction([at \in DOMAIN archive |-> PayloadSize[archive[at]]])

ChunkInit ==
  /\ Init
  /\ input \in Inputs
  /\ file = 1
  /\ offset = 0
  /\ refs = <<>>
  /\ entries = <<>>
  /\ chunks = [i \in 1..Base |-> [identity |-> BaseOrder[i], block |-> i]]
  /\ lookup = [id \in Range(BaseOrder) |->
                 CHOOSE i \in 1..Base : BaseOrder[i] = id]
  /\ blocks = [i \in 1..Base |->
                 [offset |-> SizeBefore(BaseOrder, i), size |-> PayloadSize[BaseOrder[i]]]]
  /\ archive = [at \in {SizeBefore(BaseOrder, i) : i \in 1..Base} |->
                  BaseOrder[CHOOSE i \in 1..Base : SizeBefore(BaseOrder, i) = at]]

Reading == caller = "produce" /\ file <= Len(input)

MoreToRead == Reading /\ offset < Len(input[file])

NextIdentity == input[file][offset + 1]

\* A chunk whose identity is known costs nothing but a reference, even while
\* the block it refers to is still being compressed.
ReuseChunk ==
  /\ MoreToRead
  /\ NextIdentity \in DOMAIN lookup
  /\ refs' = Append(refs, lookup[NextIdentity])
  /\ offset' = offset + 1
  /\ UNCHANGED <<vars, input, file, entries, lookup, chunks, blocks, archive>>

\* Mutant: the chunk record forgets the blocks already in the archive.
SubmitChunkFromZero ==
  /\ MoreToRead
  /\ NextIdentity \notin DOMAIN lookup
  /\ SubmitCall
  /\ blocks' = Append(blocks, [offset |-> 0, size |-> 0])
  /\ chunks' = Append(chunks, [identity |-> NextIdentity, block |-> nextSubmit])
  /\ lookup' = Mapped(lookup, NextIdentity, Len(chunks) + 1)
  /\ refs' = Append(refs, Len(chunks) + 1)
  /\ offset' = offset + 1
  /\ UNCHANGED <<input, file, entries, archive>>

\* A new chunk: block and chunk are numbered and published in the lookup, then
\* submitted.
SubmitChunk ==
  /\ MoreToRead
  /\ NextIdentity \notin DOMAIN lookup
  /\ SubmitCall
  /\ blocks' = Append(blocks, [offset |-> 0, size |-> 0])
  /\ chunks' = Append(chunks, [identity |-> NextIdentity, block |-> Len(blocks) + 1])
  /\ lookup' = Mapped(lookup, NextIdentity, Len(chunks) + 1)
  /\ refs' = Append(refs, Len(chunks) + 1)
  /\ offset' = offset + 1
  /\ UNCHANGED <<input, file, entries, archive>>

FileDone ==
  /\ Reading
  /\ offset = Len(input[file])
  /\ entries' = Append(entries, refs)
  /\ refs' = <<>>
  /\ file' = file + 1
  /\ offset' = 0
  /\ UNCHANGED <<vars, input, lookup, chunks, blocks, archive>>

\* finish() once every item has been captured.
CaptureDone ==
  /\ caller = "produce"
  /\ file = Len(input) + 1
  /\ FinishCall
  /\ UNCHANGED chunkVars

\* The block the writer callback is handed, and the payload submitted with it:
\* chunk records and submissions are made in step, behind the base chunks.
WrittenBlock == Base + nextWrite
WrittenIdentity == chunks[Base + nextWrite].identity

\* Mutant: the offset is sampled after the payload went out.
RecordPayloadAfterwards ==
  /\ archive' = Mapped(archive, EndOfPayloads, WrittenIdentity)
  /\ blocks' = [blocks EXCEPT ![WrittenBlock] =
                  [offset |-> EndOfPayloads + PayloadSize[WrittenIdentity],
                   size |-> PayloadSize[WrittenIdentity]]]
  /\ UNCHANGED <<input, file, offset, refs, entries, lookup, chunks>>

\* The writer callback: append the payload and record where it went.
RecordPayload ==
  /\ archive' = Mapped(archive, EndOfPayloads, WrittenIdentity)
  /\ blocks' = [blocks EXCEPT ![WrittenBlock] =
                  [offset |-> EndOfPayloads, size |-> PayloadSize[WrittenIdentity]]]
  /\ UNCHANGED <<input, file, offset, refs, entries, lookup, chunks>>

WritePayload == (WriteBlock \/ InlineWrite) /\ RecordPayload

\* Everything else the encoder does in the calling thread.
EncoderStep ==
  /\ \/ InlineFailure \/ ProducerThrows \/ RethrowFailure \/ TakeReady
     \/ WriteFails \/ NotifyWriteFailure \/ Enqueue \/ NotifyOneWorker
     \/ AwaitResult \/ FinishReturns \/ Stop \/ NotifyStop \/ Join
  /\ UNCHANGED chunkVars

CaptureStep == ReuseChunk \/ SubmitChunk \/ FileDone \/ CaptureDone
               \/ WritePayload \/ EncoderStep

EncodeStep(w) == WorkerStep(w) /\ UNCHANGED chunkVars

ChunkNext == CaptureStep \/ (\E w \in Worker : EncodeStep(w))
             \/ (Terminated /\ UNCHANGED chunkVars)

ChunkSpec == ChunkInit /\ [][ChunkNext]_allVars

\* Every thread the operating system runs eventually takes its next step: the
\* capture goes on, as reads and writes return or throw, and so does every encoder
\* thread.
ChunkFairSpec ==
  ChunkSpec /\ WF_allVars(CaptureStep) /\ \A w \in Worker : WF_allVars(EncodeStep(w))

----------------------------------------------------------------------------
(* Properties.                                                             *)

ChunkTypeOK ==
  /\ TypeOK
  /\ input \in Inputs
  /\ file \in 1..(Len(input) + 1)
  /\ refs \in Seq(1..Len(chunks))
  /\ \A i \in 1..Len(entries) : entries[i] \in Seq(1..Len(chunks))
  /\ \A id \in DOMAIN lookup : lookup[id] \in 1..Len(chunks)
  /\ Range(archive) \subseteq Identity

\* What a reader of the archive gets for a chunk reference.
Restored(ref) ==
  LET b == blocks[chunks[ref].block]
  IN  IF b.size = 0 \/ b.offset \notin DOMAIN archive THEN "missing"
      ELSE archive[b.offset]

Returned == caller \in {"returned", "joinReturned", "complete"}

\* A capture that returns restores every file exactly: every reference,
\* including those taken from the lookup before the block was written, points
\* at the bytes that were read.
RestoresInput ==
  Returned =>
    /\ Len(entries) = Len(input)
    /\ \A i \in 1..Len(input) :
         [k \in 1..Len(entries[i]) |-> Restored(entries[i][k])] = input[i]

\* A serial writer numbers an identity when it meets it for the first time ...
Numbering(order, id) == IF Contains(order, id) THEN order ELSE Append(order, id)

\* ... so these are the numberings after each chunk of a file, and after each
\* file of a tree.
AfterChunks(order, read) ==
  LET after[k \in 0..Len(read)] ==
        IF k = 0 THEN order ELSE Numbering(after[k - 1], read[k])
  IN  after

AfterFiles(tree) ==
  LET after[i \in 0..Len(tree)] ==
        IF i = 0 THEN BaseOrder ELSE AfterChunks(after[i - 1], tree[i])[Len(tree[i])]
  IN  after

FirstSeen == AfterFiles(input)[Len(input)]

\* The directory is the one a serial writer would produce, whatever order the
\* workers finish in: chunks numbered in order of first sight, payloads back
\* to back in that order.
SerialDirectory ==
  Returned =>
    LET order == FirstSeen
    IN  /\ Len(blocks) = Len(order)
        /\ \A i \in 1..Len(order) :
             /\ chunks[i] = [identity |-> order[i], block |-> i]
             /\ blocks[i] = [offset |-> SizeBefore(order, i),
                             size |-> PayloadSize[order[i]]]
=============================================================================
