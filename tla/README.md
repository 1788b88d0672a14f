# AxiomCompress: verification project

TLA+ models of AxiomCompress, a C++ compressor and archiver (library, command
line, Win32 shell), with TLC runs that check them on small instances and proofs,
checked by TLAPS: about both writers of blocks (the encoder with the capture that drives it, and
solid compression), the reader's block cache, the executor, the control threads share with a
frontend, updates with their preview, extraction, appended generations, and deduplicated archives
with their history. Paths such as
`src/archive/container.cpp` are relative to the repository; `PROJECT.json` names
the lines behind every definition.

- [1. The system](#1-the-system)
- [2. Modules, and how they correspond to the code](#2-modules-and-how-they-correspond-to-the-code)
- [3. Runs and bounds](#3-runs-and-bounds)
- [4. Fairness](#4-fairness)
- [5. What is proved](#5-what-is-proved)
- [6. Findings](#6-findings)
- [7. What is not modelled](#7-what-is-not-modelled)
- [8. Plan](#8-plan)

To run: `tlc -config MCX.cfg MCX.tla` for a model, `tlapm M.tla` for a proof module.

## 1. The system

The library has three layers. The **codec** (`src/codec`, `src/entropy`) turns one
block of bytes into a payload. The **AXC stream** (`src/core/archive.cpp`) cuts a
byte stream into blocks. The **archive container** (`src/archive/container.cpp`,
by far the largest file) keeps the `.axar` format: a header, solid or
content-defined blocks, a directory, optional recovery data, a footer, and
generations appended behind it. Frontends drive the container through
`include/axiom/axiom.hpp`, and share one `OperationControl` with it.

### Components, their state, operations and hazards

| Component | State | Operations | How it interacts | What is hard | What makes it correct |
|---|---|---|---|---|---|
| Ordered block encoder (`container.cpp`, `OrderedBlockEncoder`) | job queue, finished payloads, next index to submit and write, bytes and blocks in flight, spare encoders, failure, stop flag | constructor, `submit`, `finish`, destructor; worker loop | fed by chunk capture; calls a writer callback in index order | several threads on two condition variables, a byte budget, failure in any thread | payloads written once and in order, memory bounded, failures reported, callers return |
| Chunked capture (`build_chunked_entries`) | lookup of identities, chunk and block tables, entries | read an item, reuse or submit a chunk, writer callback | composes with the encoder | references are taken before offsets are known | restores the input, stores an identity once, same directory as a serial run |
| Decoded block source (`BlockSource`) | slots, cached bytes, reader's position in the plan, pinned and demanded block, read-ahead failure | `plan`, `acquire`, read-ahead loop, eviction, destructor | used by extraction, verification, rebuilding | a reader off its plan races the workers for one budget | budget kept, bytes in use not evicted, no lost demand |
| Task executor (`core/task_executor.hpp`) | a deque per worker, injection queue, pending count, event count, waiter count, stop flag | `submit`, `wait`, work search, worker loop, destructor | used by codec and solid-block compression; encoder threads inject into it | work stealing, nested tasks, sleep and wake | no task lost or run twice, no lost wake-up, shutdown drains |
| Operation control (`axiom.hpp`) | pause and cancel flags, published progress fields, version | `checkpoint`, `report`, `latest_progress`, `set_paused`, `request_cancel` | every worker of an operation, and its frontend | atomics without a lock | no torn samples, progress never falls, cancel is final and prompt |
| Archive updates and generations (`container.cpp`) | the archive file, a temporary file, directory and block tables, previous layout | append, rewrite, sign, protect, replace, open | uses encoder or solid-block compression to write blocks, `core/file_replace.hpp` to replace files | crash or failure between any two writes | the archive always opens with old or new contents, history stays reachable, signatures verify |
| Snapshot repository (`container.cpp`) | block and chunk tables, live catalogue, snapshots, signature, lock | create, add, list, restore, prune, repack | chunked capture, generations | indices shared by many catalogues and renumbered by repacking | every retained catalogue reads back what was captured |
| Live deduplicated archive (`container.cpp`) | the same without snapshots | add, update, fresh, sync, delete, move, sign, lock, repack | chunked capture, generations | catalogue edits, links and signatures | what is kept is unchanged, no dangling links, no stale signature |
| Delete, move, repack of solid archives | directory, live and dead blocks | rebuild through a temporary file | block source, replace | mapping of kept blocks | what is kept is unchanged |
| Update and sync planning (`update_archive`, `sync_archive`, `gui/archive_update_plan.cpp`) | source tree, entry list, rows of a preview | scan, validate, select, merge; preview, approve | feeds updates; the shell computes its preview with code of its own | changes of kind, ties of times, hard links, a source that changes between preview and approval | what was approved is what happens; a sync makes the archive the source |
| Solid-block compression (`compress_items_into`) | buffer, candidates for reuse, pending and finished blocks, counters of progress | order, group, reuse, coalesce, read, flush, compress, write | executor, operation control | one condition variable for everyone, files that change while they are read | each entry leads to the bytes its digest names, in any interleaving; a missed change is found by the next update |
| Extraction (`extract_entries_impl`, `core/exclusive_file.hpp`) | staged file, files written by this run, deferred links and directories | select, refuse, skip, stage, verify, rename, link | block source | partial failure, what the destination holds already | a file appears whole or not at all, nothing else changes, success means restored |
| Recovery and repair (`core/reed_solomon.cpp`) | parity shards, damaged shards | build, verify, repair | generations place the data | damage to the service itself | repair within capacity restores the bytes |
| Volumes | parts and their index | split, join, verify | container files | missing or mixed parts | joined bytes equal the source |
| Encryption, key slots, signatures (`core/crypto.cpp`) | keys, slots | seal, open, add/remove slot | container headers | cryptography | out of reach |
| AXC stream, block codec, LZ77, transforms, entropy coders | local buffers | encode, decode | executor | numerical code | decode inverts encode |
| Checksums, CPU detection, metadata, paths | none | pure functions, OS calls | everywhere | - | - |
| Benchmark, estimator | samples | measure | executor | - | - |
| ZIP backend, foreign formats | library handles | adapters | frontends | external code | - |
| SFX, command line, Win32 shell | windows, dialogs, settings | dispatch | all of the above | GUI threads | - |

### Interactions

A frontend starts an operation on its own thread and keeps an `OperationControl`.
The operation reports through it from every thread it uses; each report is a
checkpoint that may block (pause) or throw (cancel). Writing goes capture or
solid blocks -> encoder threads or executor tasks -> writer callback -> archive
file -> directory, extension, footer, recovery data. Reading goes footer search
-> directory -> block source -> slices. `PROJECT.json` lists the hazards of each
at the line where it bites.

## 2. Modules, and how they correspond to the code

| Module | Models | Composes |
|---|---|---|
| `SerialBlockWriter` | what the encoder promises: a writer that accepts, writes in order, completes or fails | - |
| `OrderedBlockEncoder` | the parallel encoder | refines `SerialBlockWriter` (`ImplementsSerialWriter`) |
| `ChunkedEntries` | `build_chunked_entries` | EXTENDS `OrderedBlockEncoder` |
| `ChunkedEntries_proofs` | theorems about both | - |
| `SolidBlocks` | `compress_items_into` | refines `SerialBlockWriter` (`ImplementsSerialWriter`) |
| `SolidBlocks_proofs` | theorems about it | - |
| `UpdatePlan` | scan, validation, selection, merge; the shell's preview; the structural part of `test` (pure operators) | - |
| `Extraction` | `extract_entries_impl` and `StagedFile` on a file system | EXTENDS `UpdatePlan` |
| `RoundTrip` | source, update with or without preview, archive, extraction | EXTENDS `Extraction` |
| `RoundTrip_proofs` | theorems about `UpdatePlan`, `Extraction` and `RoundTrip` | - |
| `BlockSource` | the reader's cache and read-ahead | - |
| `BlockSource_proofs` | theorems about it | - |
| `TaskExecutor` | the work-stealing executor | - |
| `OperationControl` | pause, cancel, progress | - |
| `OperationThreads_proofs` | theorems about `TaskExecutor` and `OperationControl`, which the threads of one operation share | - |
| `ArchiveGenerations` | the file on disk through updates, crashes, damage and repair | - |
| `ArchiveGenerations_proofs` | theorems about it | - |
| `NumberSets` | lemmas about `Min` and `Max`, sums, and joined sequences, for six modules of proofs | - |
| `ArchiveTree` | catalogues: paths, links, moves (pure operators) | - |
| `ContentStore` | what a deduplicated archive promises: a catalogue and a history of named trees | EXTENDS `ArchiveTree` |
| `ChunkRepository` | snapshot repositories and live deduplicated archives | EXTENDS `ArchiveTree`, refines `ContentStore` (`ImplementsStore`) |
| `ChunkRepository_proofs` | theorems about it | - |

`MC*` modules instantiate them. Definitions marked "Mutant" are plausible bugs, each
breaking one property; `PROJECT.json` says which. They are not part of any `Next`.
`OperationThreads_proofs` extends two specifications, so those of `OperationControl` are named
for it: `ControlInit`, `ControlNext`, `ControlSpec`.

**OrderedBlockEncoder.** Every section between lock and unlock of `mutex_` is one
step, and what happens outside (encoding, the writer callback, notifications) is a
step of its own. A condition variable is the set of threads asleep on it; a
notification takes a thread out of that set, and a wait re-evaluates its condition
afterwards. `WorkerNotifiesFailure` performs both `notify_all`s at once: no state
is read between them. Block sizes are differences of an increasing function
`Position`, so that the in-flight bytes are one subtraction. The partial bytes a
failed write leaves behind are not part of this module (they are `Torn` in
`ArchiveGenerations`); a thread that cannot be started in the constructor takes
the same `stop()` path and is left out. With no worker threads (`threads = {}`)
the serial path of `submit()` is taken.

**ChunkedEntries** adds the producer: identities are looked up, blocks are numbered
before they are compressed, and the writer callback records offset and size when
the payload is written. Chunk boundaries and bytes are abstracted to an identity.
Entries without chunks (directories, links, skipped files) are left out.

**SolidBlocks** is the other writer: a reader that packs files into solid blocks, one or
two workers, one mutex and one condition variable on which all of them sleep with
different conditions. Every critical section, every notification and every atomic
load and store of the progress counters is a step. A file's content is a sequence
of slices, one per read, and may change between any two reads (`Change`), which
moves its time stamp by some ticks of the file system's clock, within a second or into the
next. The writer compares whole stamps (`source_stamp`); the archive keeps, and the next
update compares, whole seconds (`mtime`, `Seconds`, the constant `Second` being the ticks of
one). Content digests are free of collisions, so an identity is the
content. `drain_completed` and `flush_block` are parts of the reader's program with
`resume` as their return address. `Full` waits until the *next block in order* is
finished, not for room, as the code does. `publish_progress` adds
`completed_bytes` and `inflight_done` in one expression; the module takes them to be
loaded in that order, the other order being one the build could choose too, under
which a block moving between the loads is counted twice (the maximum would then
run ahead of the truth). Left out: large blocks staged in spool files, sparse maps
and streams (they are copied beside the bytes), ranges marked for transforms, a
change that leaves the file system's time stamp as it was, to the tick: then all comparisons
of the writer see the file unchanged too.

**UpdatePlan** has no state. `Scan` is `scan_input_at`, including what it passes over
without a word: a directory that may not be read (`Hidden`). `MappedValid` is the
validation of the library, `Conflicts` that of the shell's preview, translated from
different files and compared by a theorem and by a run. A path is a sequence of
names; paths are compared byte by byte, as both do. Times are whole seconds.

**Extraction** runs on a file system of directories, links and files, where several
files may name one inode: writing to a file one should have replaced, or linking
to a file one has not written, shows as a change of another path. The steps are
those between which a process may die; the errors the code ignores are ignored:
`create_directories` may give up anywhere on its way (`Directories`), a target may not be
removed (`Removals`), `copy_file` may fail (`Copied`), and the time of a directory may not be
set (`RestoreDirectory`). The code keeps no trace of them; the history variable `ignored`
remembers the directories for which one was not looked at, and no action reads it. That the
status of a path cannot be read is left out. `Throw` stands for a cancel and for every failure of a read,
write or close. A file's streams, times and permissions are one step that may
warn, and `strict_metadata` makes the warning an error. Staging names are
random and created exclusively; one name, the constant `StagingName`, stands for them. What is
assumed of the data: paths in archives and sources have at least one name and none of them the
staging name (`Named`), a link of the file system leads to a path without links (a chain of
links is one to its end), and a directory holds whatever is there (`IsArchive`,
`IsFileSystem`).

**RoundTrip** lets a user change the source before an update, between scan and
approval of a preview and after it, runs the update the code would run, and
extracts the archive that results into an empty place; `Cases` also starts
extractions of given archives into given destinations, with faults. An update is
one step here: how it is made atomic on disk is `ArchiveGenerations`, what happens
when files change while they are read is `SolidBlocks`. Files of a source have a time other
than zero, which is what entries of hard links have; the archive an update begins with was
made of items that had passed validation (`RoundTripAssumption`).

**BlockSource.** `slots_` is a function from blocks to `none`, `decoding`, `ready` or
`failed`. While the reader is looking a block up it holds the lock (`LockFree`);
a decode runs outside it. The reader's 50 ms wait can end at any time
(`WaitEnds`), which covers the timeout, a notification and a spurious wake-up.
The reader may skip, repeat or leave planned reads, destroy the source at any
idle moment, and be cancelled. A worker can die from an allocation failure after
it took a demand (`WorkerBreaks`, `WorkerReports`). Not separate: an allocation
failure inside `make_room_locked`'s candidate list.

**TaskExecutor.** Each queue lock is a step; a scan looks at one queue at a time, so
a task may move behind the scanner's back. The deques and the injection queue are one
function `queue`. `submit` looks at the stop flag, queues, signals and notifies in four
steps. The event count is a flag per thread, `moved`: whether `epoch_` changed since that
thread observed it; a notified thread that has not seen it move sleeps on (`Wakes`), as the
predicate of the wait says. Waiting threads run other tasks, so each thread has a stack of
tasks. A load that can only be followed by a later one of a value that stays (a future that
is ready, the stop flag) is one step with it. The 10 ms timeout of
outside waiters is left out, which makes the liveness claims stricter than the
code needs.

**OperationControl.** Every atomic load and store is a step. The 21 progress fields
are reduced to three, one of each kind the normalisation treats differently:
`stage` (standing for totals and path), `bytes` (never falls inside an epoch) and
`out` (never falls while totals stay). Memory ordering is sequentially consistent:
on weakly ordered processors the relaxed field stores could become visible
before the odd version, since the writer has no fence after it
(`axiom.hpp:277`); that is outside the model.

**ArchiveGenerations.** A file is a sequence of segments (header, blocks,
directories, extensions, recovery services, footers, torn bytes) and an offset is
a position in it. Opening a file is translated from `find_latest_footer` and what
it calls, so the segments are interpreted and not merely remembered; a block that
stores an archive verbatim (`Nested`) looks like a footer to the scan. An update
appends in place, rewrites through a temporary file, or rewrites only the recovery
service; it may sign, which reads the provisional archive back, cuts it and writes
it again; recovery data overwrites the footer and a new one follows. Any step may
throw, any write may be torn, the rollback's truncation may fail and its error is
ignored, and the process may end between any two steps. Consequences of the
code's order that the model exhibits and no document speaks about: a crash
between the provisional and the signed trailer leaves a complete generation
without signature; a crash between footer and recovery data leaves the new
generation without recovery data (in place) or the old file (rewrite); a
cancellation thrown by the last progress report after a replacement is reported
as a failure although the update is committed. Blocks are not reused, and the
live-dedup append (`container.cpp:8184-8390`), which takes the same steps, is not
modelled separately. `Damage` may take a hole out of an idle archive, and `Repair` is
`repair_archive`: it finds the recovery data through the layout, counts damaged
data and parity shards, and replaces the file through a temporary one. A segment
stands for one shard; a damaged one keeps what it was only for `Reconstructed`,
which says what Reed-Solomon does, and for the properties. No update starts on a
damaged archive. Writes reach the file in program order: appended
generations are not flushed, and a power failure that reorders them is outside
the model, as are two processes updating one archive.

**ChunkRepository.** One archive, of either chunk-addressed profile, plaintext or
encrypted, and every operation on it as one step: how a step is made atomic on
disk is `ArchiveGenerations`, how chunks get into the tables is `ChunkedEntries`.
A path is a sequence of names, a catalogue a function from paths to entries, a
file the sequence of its chunk references. Blocks remember the index they were
sealed under (`block_associated_data`), so that reading (`Read`) fails when
repacking seals or maps wrongly. The refinement reads all catalogues through
their references and compares with `ContentStore`, which has neither chunks nor
blocks. `Add` takes any tree of `Trees`: which items an update or sync selects is
the comparison of times and sizes, left out here, and `kept` any part of the
catalogue. A hard-link target that an update replaced stays, as in the code.
Operations that throw change nothing and have no action. Left out: comments and
password slots, symbolic links, the generation number a snapshot is labelled
with. Three consequences of the code that no document speaks about:
`predicted_version` (`container.cpp:7257`) does not count the chunk table, so a
comment, lock or signature of a plaintext snapshot repository takes the rewrite
path and its generation number starts again (`MetadataGeneration`); hence, and
after a repack, generation labels of snapshots may repeat; and an update may put
a link or directory in the place of a file that other links name, after which
extraction of the whole archive stops at the dangling link.

## 3. Runs and bounds

| Run | Instance | Distinct states | Shows |
|---|---|---|---|
| `chunks` | 0-2 workers, one stored identity and one over the budget, all trees of two files of at most two chunks over three identities | 336 635 | the encoder's safety, refinement and `CallerReturns` under a real producer; the capture restores its input and equals the serial one |
| `solid_blocks` | 17 operations: 1-2 workers, 1-7 items of 4 kinds and 2 classes, contents already held, one change of a file by one or two ticks, two being a second | 664 542 | entries lead to their bytes, changes stay visible, progress is honest, refinement, `OperationEnds` |
| `round_trip` | 680 initial states: small trees with links, 4 modes with and without preview, 2 changes with 2 times; given archives and destinations under faults | 473 228 | files are whole, others untouched, success means restored, a sync rebuilds the source, preview and test foretell |
| `block_source` | 0-2 workers, 4 blocks (empty, two small, one over the budget), 5 plans, 3 reads | 677 507 | budget, validity of the reader's bytes, reservations, `ReadReturns` |
| `task_executor` | owner, one helper, one outsider, 4 tasks nested two deep | 188 817 | no task or wake-up lost, waits end, shutdown ends and drains |
| `operation_control` | 2 producers, 3 reports over 3 stages, 1 pause, cancel | 1 268 877 | snapshots, high water, cancel is final |
| `archive_generations` | 2 updates over archives with and without recovery data or an earlier generation; holes of 2 segments against 1 parity shard, repairs | 870 034 | crash safety, history, signatures, repairs |
| `chunk_repository` | 3 chunks, 4 paths, 4 trees with shared chunks, a link and a directory, 4 move batches, 3 snapshot names, generations 0-2 | 105 644 | history, readability, reclaiming, signatures, links |
| `cancel_releases` | as `operation_control`, 1 report | finding | see section 6 |
| `interrupted_append` | 1 update | finding | see section 6 |
| `repair_history` | as `archive_generations` | finding | see section 6 |
| `stale_signature` | as `chunk_repository` | finding | see section 6 |

Why the bounds are enough to be interesting:

- `chunks`: two files make reuse across files and inside one file possible; a chunk may
  be met again while its first copy is queued, encoding, done or written. The
  sizes exceed the budget together, fit together or exceed it alone, so each
  admission rule is exercised, with room for two workers to finish out of order.
  The proofs remove the bound.
- `solid_blocks`: the operations are chosen one per mechanism: reuse found before the
  scan and then stale, coalescing of equal files, a file longer than a block, a
  change of class, hard links with links and directories, unreadable files,
  two workers out of order, and a batch that fills the pipeline, so that the
  reader must sleep. Stamps begin at a full second, so a change of one tick stays within the
  second and one of two ticks does not.
- `round_trip`: two changes reach every change of kind of two paths, a file exchanged
  for a link to another, a source that differs at preview, approval and execution;
  the times 1 and 2 allow older, equal and newer. The given cases put files, links,
  hard links to outside files, and directories where entries go.
- `block_source`: plans that repeat a block, one with the oversized block in the middle,
  one shorter than the reads, none; three reads are enough to pass a block, return to it,
  leave the plan and run past its end. Four reads were explored to 1.3 million states
  without a violation. The proofs remove the bound for safety.
- `task_executor`: both the owner and the helper can fork, steal and wait, and outsiders
  inject. An instance with two helpers was explored to 6.5 million states without
  a violation and is too large for a regular run.
- `operation_control`: three reports give a delayed producer something to be older than.
- `archive_generations`: two updates on an archive that already has a generation make
  chains of three, and a second update sees every torn or rolled-back state the
  first can leave; `MaxOps = 3` is too large. A hole of two segments is within the one
  parity shard or beyond it, may reach from data into the service, and can be anywhere in
  the chain of footers a layout is read from. Scattered damage (any two segments) was
  explored to 1.4 million states without a violation.
- `chunk_repository`: three chunks make tables with a dead block before, between and
  behind live ones, three names a history that is pruned in the middle and grows
  again. `MaxGeneration = 2` bounds appends between rewrites, not operations: a
  rewrite starts from 0 again, so behaviours reach depth 14. Snapshot names are
  interchangeable, and the cfg declares them symmetric.

Deadlock is checked wherever threads could wait for each other: `chunks`,
`solid_blocks`, `block_source`, `task_executor` and also `round_trip` end in an
explicit stuttering state.
`OperationControl` and `ArchiveGenerations` stop when their bounds on reports
or updates are used up, and nothing can be done to a locked `ChunkRepository`, so
their runs say `CHECK_DEADLOCK FALSE`.

The properties are stated and explained in the modules, each preceded by a
comment. In short: `BudgetRespected`, `NoBlockLost`, `NoSilentFailure`,
`CallerReturns`, `ImplementsSerialWriter` (encoder); `RestoresInput`,
`SerialDirectory` (capture); `EntriesRestore`, `ChangeStaysVisible`,
`ProgressHonest`, `OperationEnds` (solid blocks); `WholeFilesOnly`,
`OthersUntouched`, `DoneMeansRestored`, `SyncRebuildsSource`, `ApprovedIsExecuted`, `TestForetells` (round trip);
`CacheWithinBudget`, `SpanStaysValid`, `ReservationOwned`, `DecodedOnce`, `ReadReturns` (block source);
`RunExactlyOnce`, `NoLostWakeUp`, `CallsReturn`,
`ShutdownDrains` (executor); `SnapshotCoherent`, `HighWater`, `CancelIsFinal` (operation control);
`SurvivesPlainTail`, `ReturnsTruthfully`, `PreviousKept`, `HistoryReachable`,
`SignatureVerifies` (generations); `IndexValid`, `ImplementsStore`, `RepackReclaims`,
`SignatureTracksArchive`, `LinksLostOnlyByReplacement` (chunk repository).

`DecodedOnce` is about a followed plan whose blocks all fit and whose serial decodes do
not fail. `ChangeStaysVisible` excepts a change in the very second of the entry's stamp, which the
comparison of an update cannot tell (section 6). `CacheWithinBudget` excepts a source one of whose workers died of an
allocation failure, which may leave a slot without bytes or charge behind.
`SurvivesPlainTail` excepts a file whose last footer-shaped bytes belong to a
stored file; without the exception it is the finding `InterruptedAppendSurvives`.
`SignatureTracksArchive` excepts the delete of a live archive, the finding
`NoStaleSignature`. `ContentStore` lets an edit touch the live catalogue of a
repository with a history, which happens (`LiveIsNewest`, section 6); it
never lets one touch the history. `WholeFilesOnly` excepts the copy that stands in for
a hard link the file system refuses to make. `DoneMeansRestored` excepts an entry that a
warning names, one `skip` found something in the way of, a directory with a file in its way
(`fs::create_directories` fails there and the code goes on without an error,
`container.cpp:11802-11809`), a directory for which an error was not looked at (`ignored`:
`fs::create_directories` at the same place, or the `fs::last_write_time` of
`container.cpp:12080`; section 6), a path that several entries or `copy_file` wrote, and what
`copy_file` put there. `SyncRebuildsSource` excepts files the source had not renewed (selection
is by time), links that only changed their target, hidden directories, and a sync over a
change of kind.

## 4. Fairness

`chunks`, `solid_blocks`, `task_executor`: weak fairness for each thread, which says that a thread that
can run does; mutexes are held for bounded sections without blocking inside, and reading,
compressing and writing a block end. The user who changes files is not fair.
`block_source`: weak fairness for the reader, strong for the workers. A worker's
request for the lock is refused only during the reader's short lookups, between
which the reader sleeps in a timed wait, so it is granted in the end; decodes end
because they are bounded computations. `operation_control` (the violation run
only): weak fairness for producers and for the frontend's unfinished call; what
the user asks for is not fair. Nothing is assumed about calls that a client may
choose not to make.

## 5. What is proved

### The encoder

The first half of `ChunkedEntries_proofs` holds for every set of threads, number of blocks,
block sizes and budget under `EncoderAssumption` (a finite set of workers, a
positive budget, `Position` strictly increasing from 0).

| Theorem | Statement |
|---|---|
| `Invariance` | `Spec => []IInv` |
| `TypeCorrect`, `AccountsAreExact`, `MemoryBounded`, `FailuresReported`, `NoBlockIsLost` | `Spec => []P` for the type invariant, the accounts and three invariants of run `chunks` |
| `ImplementsSerial` | `Spec` implements `SerialBlockWriter`: the initial states map to initial states, every step to a step or a stutter |

The invariants are not inductive by themselves: that the accounts are exact after a
write needs to know that the block written is the oldest in flight; that no block
is lost needs to know which blocks the queue holds. `IInv` therefore adds:

- `QueueInOrder`: the queue is the tail of the admitted interval
  `nextWrite .. nextSubmit - 1`, in order, without gaps;
- `Placed`, `Covered`: a block in front of the queue is with exactly one worker, done,
  in the caller's hands, or its encoding failed;
- `Encoding`, `SerialPath`: where the caller and workers are agrees with what they
  hold, and the serial path never touches the queues;
- `WrittenInOrder`: the blocks written are exactly those before `nextWrite`.

With these, admission adds `Charge` at one end of the interval and a write removes
it at the other; since a charge is a difference of positions, the sum over the
interval is again one difference, and no induction over data is needed. Each
action preserves each conjunct in its own step of the proof.

### The capture

The second half holds besides for any archive that is appended to, any trees and any
payload sizes under `ChunkAssumption` (the archive stores no identity twice; every
payload has at least one byte).

| Theorem | Statement |
|---|---|
| `CaptureEncodes` | `ChunkSpec => Spec`: what is proved of the encoder holds of captures |
| `CaptureInvariance`, `CaptureTypeCorrect` | `ChunkSpec => []CInv`, `ChunkSpec => []ChunkTypeOK` |
| `CaptureRestoresInput`, `CaptureIsSerial` | `ChunkSpec => []P` for `RestoresInput` and `SerialDirectory` of run `chunks` |

Both properties speak of a capture that has returned. What makes them true meanwhile, with
some chunks written, some in flight and some only referred to, is `CInv`:

- `Numbered`: chunks, blocks and submissions are made in step, behind the archive's;
- `Known`: the lookup is the inverse of the chunk table, so each identity has one chunk;
- `Captured`: the references kept so far name what was read so far, written or not;
- `FirstCome`: the chunk table is the numbering a serial writer has reached at this place
  of the input;
- `Stored`: the written payloads lie back to back in the order of their chunks, at the
  offsets their records say;
- `Ending`, and the encoder's own `IInv`, from which follows that the payload handed to
  the writer is that of the next chunk.

`Stored` is where offsets matter: `SizeBefore` is a sum over the chunks in front, so it
takes `OffsetsAdd`, `OffsetsGrow` (no two chunks start in the same place, payloads not being
empty) and `OffsetsFilled` (the sum of all payloads in the file is the offset of the next).
When `finish()` returns, nothing is in flight (`ReturnedMeansWritten`), so what is `Stored` is
everything. The serial numbering is a recursive function; that it is what its recursion
says is shown by the least counterexample (`NumberingsOfChunks`, `NumberingsOfFiles`).
TLC checks `CInv` on the instance of the run as well.

### The operation control

The second half of `OperationThreads_proofs` holds for any producers, samples, totals and bounds under
`ControlAssumption` (samples have a known stage and natural counters; no producer is
called `nobody`).

| Theorem | Statement |
|---|---|
| `ControlInvariance`, `ControlTypes` | `ControlSpec => []ControlInv`, `ControlSpec => []ControlTypeOK` |
| `SnapshotsAreWhole`, `ProgressNeverFalls`, `NothingPassesCancel` | `ControlSpec => []P` for the three invariants of run `operation_control` |

That a sample read field by field is one that was published follows from what the
version number says about the board. `ControlInv` therefore adds:

- `OnePublisher`: the spin lock keeps the sections that write apart;
- `VersionCounts`: the version is twice the number of published samples, and odd
  exactly while a producer stores fields;
- `BoardFollows`: with an even version the board is the last sample, with an odd one
  the fields already stored are those of the next;
- `PollFollows`: as long as the version is the one a poll began with, what it has read
  so far agrees with the sample of that version; `SnapshotKept` says it of what it
  returned;
- `Rising`: successive samples never fall, which `NormalisedFollows` shows of the one
  that is about to be published, against the board;
- `CancelSeen`: a producer marked as late entered after the cancel request.

### Solid blocks

`SolidBlocks_proofs` holds for any operation under `SolidAssumption`: any items, any files,
each changing at any time, any archive to extend whose ranges on record lead to their contents,
any finite number of workers (at least one), any limits. The number of blocks is not bounded.

| Theorem | Statement |
|---|---|
| `SolidInvariance`, `SolidTypes`, `SolidBounds` | `Spec => []IInv`, `Spec => []TypeOK`, `Spec => []Bounded` |
| `RestoresEntries`, `ShowsChanges`, `HonestProgress` | `Spec => []P` for the three invariants of run `solid_blocks` |
| `ImplementsSerial` | `Spec` implements `SerialBlockWriter` |

The bytes of a file are spread over the buffer, blocks that wait, that a worker has in hand,
that are done, that the reader is writing, and the archive, and an entry's range may reach over
several of these. So `IInv` ends in one existential claim, `StreamSane`: there is a sequence of
the contents of all blocks, of which

- `Agree`: every block, wherever it is, holds the one of its index;
- `Lead`: every range on record leads to its content in that sequence followed by what is still
  in the buffer (`Rest`): those of the entries, of the candidates for reuse from this batch and
  from the archive, of the candidate being verified, and, up to what has been read, of the file
  in hand;
- `Complete`: the bytes counted as completed are the sizes of the blocks whose workers have got
  that far (`Counted`), in whatever order they did.

A step either leaves the sequence alone, moves a block from one place to the next, or appends the
buffer to it (`Admit`); `Reaches` holds on under bytes appended at the end, so ranges never have
to be looked at again. When an operation completes, all of the sequence is in the archive, which
is `EntriesRestore`. The rest of `IInv`:

- `PipeSane`: which indices are where. `Ahead`, the first block no worker has taken, and
  `nextWrite` divide them: those before `nextWrite` are in the archive or being written, those
  between are each with one worker or done, those from `Ahead` on are the queue, in order;
- `ReadSane`: while a file's time is what the entry says, what has been read, hashed or verified
  is what the file holds; stamps only grow, and seconds with them (`SecondsGrow`), and the
  entry's `mtime` is the second of its stamp. From it `ChangeStaysVisible`: where the content
  has changed, the stamp is later, and so is the second, or it is the same one;
- `CaptureSane`: entries and skipped paths are those of the items taken so far, and a hard link
  names an entry in front of it;
- `ProgressSane`: the progress shown is at most what the workers have scanned, `scanned` is the
  sum of their shares, and a worker that has raised `finished` above what is shown is about to
  show it.

Flushing interrupts the reader at three places. `Goal` is what the reader is at when such
interruptions are left aside, so `FlushFrame` shows once that a flush leaves alone all that the
reader knows, and the invariant speaks of `Goal` where the state of a file is meant. Every
condition of the pipeline that a thread may wait for is also one that the invariant implies at
the other side, but that it comes true is liveness and stays with TLC (`OperationEnds`).

### Extraction and updates

`RoundTrip_proofs` holds for any archive, any file system, any policy and selection, and any
failures, kills and cancels under `RootAssumption` and `RoundTripAssumption` (section 2), and
for any source, changes of it, and updates.

| Theorem | Statement |
|---|---|
| `RoundTripInvariant` | `Spec => []RInv` |
| `NoPartialFiles`, `OthersStay` | `Spec => []P` for `WholeFilesOnly`, `OthersUntouched` of run `round_trip` |
| `PreviewHolds` | `Spec => []ApprovedIsExecuted` |
| `TestTells` | `Spec => []TestForetells` |
| `SuccessMeansRestored` | `Spec => []DoneMeansRestored` |
| `PreviewFindsConflicts` | for any items and any archive that lists no path twice, the shell's preview reports a conflict exactly when `validate_mapped_items` throws |

**Files whole, others untouched.** Neither is inductive: what a rename puts in place depends on
what was staged, and where a path leads on the links of the moment. `EInv`, the part of `RInv`
about extraction, adds:

- `StagedSane`: the staging file has an inode of its own, made by this run, at one path only,
  beside its target, which no link leads to; there is no other staging file. So writing to it
  changes no other path, and the rename puts it where the entry belongs;
- `LinksSane`: until all files are written, every link is one that was there before. The
  archive's own come last, so none of its files is written through one of them;
- `FilesSane`, `WrittenSane`: a file of the destination is the user's or has the content of an
  entry of its path; where this run has written a file there is none of the user's, which a
  hard link to it could otherwise hand on;
- `InodesUntouched`, `OutsideUntouched`, `PolicyKept`: what `OthersUntouched` says, of all
  states;
- `QueuesSane`, `ControlSane`: what is still to do are chosen entries, and links only links.

Each step changes the tree at some paths and leaves the rest. `ChangeTree` shows once that the
invariant about the tree survives if each of these paths may change (`MayChange`: in the
destination, or written by `copy_file`; under skip and fail, nobody's) and holds afterwards
what a step may put there (`FreshNode`). A step's own lemma has to show only that. The
exceptions the properties make for `copy_file` are the ones in section 6.

**The preview.** `PreviewFindsConflicts` compares two algorithms written against different
indexes of the same entries. Its assumption is needed: of several entries at one path the
library looks at the first, and the preview, for what lies above and beneath a path, at each.
`UpdateDoes` then shows, for each mode, that an update that is not refused leaves at each path
what the rows of its plan say, and `ReviewSane` carries the plan from the scan over approval to
the execution: while the user leaves the source alone, the second scan finds what the first did.
`MadeOnce` is why archives list no path twice.

**What `test` foretells.** For a whole archive, an empty destination and no faults, `CleanInv`
says that an archive `test` has nothing against never brings the extraction to fail or leave
anything out. `Tidy` says that what is in the destination comes from the archive; hence a
directory in the way of an entry is one (`WayIsTidy`), those that are missing can be made
(`WayIsMade`, `DirectoriesComplete`), and what is to be replaced can be removed (`WayIsCleared`).
In the other direction `SafeSoFar` says that an entry with an unsafe path is never passed, so
an archive for which `test` reports an error is not extracted to the end.

**Success means restored.** Here destinations, policies, links and faults are any. `RestInv`
says of an extraction that has not failed that every chosen entry is still to come (`Awaits`),
need not be in place (`LetBe`), or is in place so far (`InPlaceSoFar`): a file that is not one
the user had there, a directory that has its times or is on the list of those to get them, a
link that is made or put off. What keeps an entry in place once it is: no entry is to come twice
(`Once`), and a step touches only the path of its own entry, missing directories above it, the
staging file and what `copy_file` writes (`RestStep`, used by the lemma of each action).
`Known` says that whatever is in the destination was there before, belongs to an entry that has
been passed, or is a directory above an entry; so `skip` and a directory that something is in
the way of meet nothing but what `LetBe` names. Where `create_directories` gave up on the way,
or the time of a directory was not set, `LetBe` holds from then on, since `ignored` only
grows; all that it says of the tree meanwhile holds for whatever part of the way was made
(`DirectoriesFor`). Links come when the list of entries is empty, directory
times when the list of links is, so nothing disturbs them again. That a file in place has the
right content is `FilesSane`, with `LetBe` for paths that two entries share.

Lists are handled by position: `SelectSeq` and `@@` cannot be reasoned about with the installed
provers, so the models select with `Picked`, the elements at a set of places in their order, and
what is repeated along a sequence (making directories, joining lists) is followed by the least
counterexample.

### The block source

`BlockSource_proofs` holds for any workers, blocks, sizes, plans and budget under
`BlockSourceAssumption`.

| Theorem | Statement |
|---|---|
| `SourceInvariance` | `Spec => []IInv` |
| `SpansStayValid` | `Spec => []SpanStaysValid` |
| `SourceTypeCorrect` | `Spec => []TypeOK` |
| `ReservationsOwned`, `BudgetKept`, `PlannedDecodedOnce` | `Spec => []P` for the other three invariants of run `block_source` |

A slot is evicted when it is ready and not pinned, or behind the reader. So the argument is
about who is pinned when: `IInv` adds `SpanPinned` (what the reader holds is the pinned
block), `TargetPinned` (so is what it waits for), `Decoders` (only a reader without workers
decodes) and the types of the variables. The other half is that whoever reserves a slot
finds it free: the demanded block because a wait only demands what has no slot, the scan's
because `AdvancedScan` stops at such a position or at the end of the plan (`ScanStops`).
That needs `Min` of a set of positions to be one of them: `NumberSets` shows it, and the
like for `Max`, from the well-foundedness of inclusion among finite sets.

Three invariants are layered, each proved with the ones before it:

- `IInv`, above.
- `AInv`, the accounts. What the cache counts is not what has a slot, since a worker that
  dies may leave a slot behind; `Charged` names what is counted, and in every state
  `cachedBytes` is its sum (`Accounts`) and within the budget (`WithinBudget`). `Unowned` adds
  that only a broken worker leaves such slots, so that for a reader without workers all
  slots but the pinned one's can go. `EvictionMakesRoom` shows that eviction then always
  makes room: of what is left, take the block read last (`FarthestBlock`); it stayed only
  because all that would go before it leaves three quarters of the budget at most. Hence
  `acquire` never throws its logic error.
- `DInv`, decoding once: while the plan is followed and fits, a block that was decoded and
  is gone is wanted by no later read, not by the present one and not by a demand
  (`Unwanted`, `DemandFresh`), and nothing is ever evicted (`PlannedFits`).

`ChargeOf` is the library's sum over a set, which folds in an order it picks. `NumberSets`
shows what the proofs need of it, any element can be taken out first (`SumRemoves`) and the
sum depends on the values alone (`SumSame`), by looking at the least size of a set for which
it fails: `LeastNumber` takes the place of an induction theorem.

### The task executor

The first half of `OperationThreads_proofs` holds for any helpers, outsiders and trees of tasks under
`ExecutorAssumption`: there are finitely many threads, the owner is no helper, and each
thread's root and each submitted task is a program of its own.

| Theorem | Statement |
|---|---|
| `Invariance`, `TypeCorrect` | `Spec => []IInv`, `Spec => []TypeOK` |
| `PendingIsExact` | `Spec => []PendingExact`: `pending_` counts what is queued and what was just popped |
| `TasksRunOnce`, `NoWakeUpLost`, `DestructorDrains` | `Spec => []P` for the three invariants of run `task_executor` |

No wake-up is lost because of what threads know, which `IInv` says in two parts:

- `Scans`: while the event count has not moved since a thread observed it, the queues that
  thread has already looked into hold no more tasks than there are submitters between
  queueing and signalling. Looking into an empty queue adds nothing to either side, a submit
  one to each, and a signal ends the claim for everybody. A thread about to sleep has looked
  into all of them, so the whole backlog is still to be signalled (`AllSeen`), and so it is
  when `notify_one` picks a sleeper that has not seen the event count move;
- `Woken`: a thread whose future became ready after it looked will look again, or a thread
  that finished a task has still to look for waiters, or has moved the event count and has
  still to notify. The one that looks finds the count of waiters not zero.

They rest on `Frames` (where a thread is agrees with its stack and its hand: what runs is a
task, but for the roots at the bottom), `Shutting` (the order of a shutdown), `Counted` and
`Once` (what is submitted is new, and a task is in one queue, hand or stack; no two threads
are in the same task), `Accounts` (`pending_` counts queued and popped tasks) and
`Registrations` (`future_waiters_` counts the tasks on stacks that wait: all but the tops of
threads that work). From `Shutting` and `Accounts` follows that a helper that leaves has
nothing left to run, and from all threads having left that the destructor drops no task.
TLC checks `IInv` on the instance of the run as well.

### Generations

`ArchiveGenerations_proofs` holds for any files, nested or not, any base, parity and bounds.

| Theorem | Statement |
|---|---|
| `GenerationsInvariance` | `Spec => []IInv` |
| `PreviousGenerationKept` | `Spec => PreviousKept` |
| `GenerationsSane` | `Spec => []SInv` |
| `GenerationsTypeCorrect` | `Spec => []TypeOK` |
| `UpdateIsAllOrNothing` | `Spec => []SurvivesPlainTail` |
| `ReturnsTell` | `Spec => []ReturnsTruthfully` |
| `HistoryIsThere` | `Spec => []HistoryReachable` |
| `SignaturesVerify` | `Spec => []SignatureVerifies` |

An append cuts the file back to sign it and to add recovery data, at a place it finds by
reading what it has just written, with the very search that takes the last bytes that look
like a footer. That the cut falls behind the previous generation needs:

- `FilesOK`: files consist of segments, whose numbers are numbers and whose block tables
  point in front of them, damaged segments and what a repair makes of them included;
- `LayoutKept`: until the append is over, the generation it found is in the file, footer,
  directory and extension;
- `TrailerPlaced`: the new directory lies behind it, the extension, if there is one, directly
  behind the directory and names the generation found, the footer last;
- `BlocksPlaced`, so that the copy of a rewrite and the directory come out behind all blocks.

`ReadsStaged` draws the conclusion: the last footer is then a valid candidate
(`ReadsRewritten`, `ReadsAppended`), so nothing older is taken. A crash, a torn write and a
failed rollback only add to the file or cut it at the old footer.

None of the four invariants of the run is inductive: they speak of the archive when it
opens and of its latest generation, and the next step may cut away that generation, or damage
it and have a repair fall back to an older one. `SInv`, which is proved with the help of
`IInv`, says it of all of them:

- `FilesSane`: the archive as it was written (`AsWritten`, what is left when damage is
  undone) and the staged file are `Sane`: whatever footer is in the file, the latest or not,
  leads to a directory that lists its blocks, entries that are there, a signature that is the
  digest of that generation, and an extension that describes a whole generation in front of
  it (`FooterOK`); a recovery service protects what is in front of it. `SanePrefix` and
  `SaneAppend` are why an operation may cut the file at any place and write on;
- `Progress`, `EntriesPlaced` and `DirectoryNew`: what the operation has done of its request,
  and that its signature is the digest of the directory at the place it is going to have
  again (`NewDigest`), though file and directory are cut off and rewritten in between;
- `Outcomes`: until an update has replaced the archive, the generation it found is in it and
  every footer behind that one, provisional or final, has the entries asked for; when it has
  finished, all that was asked for is there (`Result`);
- `Repairing`: a repair stages the file as it was written up to the footer it found.

`LatestOfSane` then finds the latest footer among those, if the tail does not end in a stored
archive's; `FooterOpens` that the archive opens there. For repairs, `RepairableAt` shows that
a service that is accepted is the one written in front of that footer, even when the
extension behind the directory is among what is damaged. `RepairKeepsNewest` and
`InterruptedAppendSurvives` are false (section 6), so the theorems say no more than that.
TLC found `SInv` true of all states of the instance of `archive_generations`; the run does
not repeat it, since the theorems derive the run's invariants from it.

### Deduplicated archives and their history

`ChunkRepository_proofs` holds for any files, paths, snapshot names and number of
operations under `RepositoryAssumption`: what a scan captures is a well-formed tree
(`IsTree`, no entry beneath a file, links to files of the tree) of finitely many chunks.
What may be moved, deleted or added is up to the guards of the operations.

| Theorem | Statement |
|---|---|
| `Invariance` | `Spec => []IInv` |
| `ArchivesLoad` | `Spec => []IndexValid` |
| `RepackKeepsTheReferenced`, `SignaturesFollow`, `LinksStay` | `Spec => P` for the three action properties of run `chunk_repository` |
| `ArchiveIsAStore` | `Spec` implements `ContentStore` |

`IndexValid` says that a reference stays inside the tables, not what is found there; after
a repack it would not even say that it does. `IInv` says where chunks are:

- `TablesMatch`: chunk `i` is the only one of block `i`, which holds it and is sealed under
  its own index, so every block opens (`BlocksOpen`);
- `CataloguesOK`: the catalogue in use and each snapshot's is a well-formed tree that refers
  to chunks of the table;
- `HistoryOK`: snapshots have names of their own, a live archive has none.

Capturing only extends the tables (`Grown`, `Capture`), and every edit of a catalogue
is made of three operators: `Keeping`, `Over` and `Moved`, each with a lemma on what it
leaves (`Kept`, `OneOverAnother`, `MovedEntries`). A repack renumbers: `Renumbered(kept)` counts the
kept indices up to and including one, and is an increasing bijection between `kept` and
`1..Cardinality(kept)` whose inverse is `KeptAt`. So the compacted tables match again, every
catalogue that was mapped stays inside them, and each entry reads back what it did
(`RemappedReads`). The refinement replaces every catalogue by what it reads back
(`Restoration`) and shows that this commutes with each operation: `AddReads`,
`RemovalReads`, `MovedReads`.

TLC checks `IInv` on the instance of `chunk_repository` as well; the run does not repeat it,
since it implies `IndexValid`, which the theorem derives.

### Only model-checked

- Liveness: `CallerReturns`, `ReadReturns`, `CallsReturn`, `OperationEnds`. TLAPS proves
  neither liveness under fairness nor ENABLED here.
- `SyncRebuildsSource`. It relates the whole path from the source through scan, update and
  extraction. What happens to one entry on the way is proved (`ApprovedIsExecuted` for the
  update, `DoneMeansRestored` for the extraction); missing is that the order in which a scan
  meets what is in the source leaves nothing out and puts directories before what they hold,
  which the constants of the instance satisfy and nothing assumes of them.
- The four runs that expect a violation.

The library's induction theorems cannot be instantiated with the installed provers; where a
proof needs one it argues by the least counterexample (`LeastNumber`), as for sums, joined
sequences, and directories made one after the other.

## 6. Findings

**`CancelReleases`** (run `cancel_releases`). `set_paused()` and `request_cancel()` change
the flags and notify `pause_cv_` without holding `pause_mutex_`
(`axiom.hpp:414-424`). A thread that has evaluated the wait's predicate in
`checkpoint()` (`axiom.hpp:405-408`) and is not yet asleep misses the notification
and sleeps until another one comes. The guide says a cancel takes effect "at the
next safe checkpoint" (`docs/GUI_GUIDE.md:545-547`).

**`InterruptedAppendSurvives`** (run `interrupted_append`). `find_latest_footer()` takes
the last bytes that look like a footer whose directory lies before them. When an
append ends after it has written a block that stores an `.axar` file verbatim,
that file's footer is selected, `load_index()` fails on the directory it names, and
no earlier footer is tried. The guide says an interrupted append falls back to
the previous valid footer (`docs/CLI_GUIDE.md:188-190`).

**`NoStaleSignature`** (run `stale_signature`). `delete_from_archive` hands the index of a
live deduplicated archive to `rewrite_archive_directory` (`container.cpp:9654`)
without clearing `has_signature`, as every other edit does. The directory of the
remaining entries carries the signature of the former ones, and a test of the
archive fails (`container.cpp:11465-11471`). The format says that "any edit removes
the stale signature" (`docs/FORMAT.md:965-966`, also `549-550`).

**`RepairKeepsNewest`** (run `repair_history`). `repair_archive` finds its way through
`read_layout`, which reads the bytes that may be damaged. The newest footer is
rejected when the earlier footer its extension names does not read
(`container.cpp:2236-2240`), and the scan goes on to an older generation. If that one
has recovery data, the repair succeeds with it, returns true, and replaces the archive
by that older generation, although one shard was damaged and the newest recovery data
could have rebuilt it. The format counts "the generation history" and the header to the
protected range (`docs/FORMAT.md:690-693`). A damaged header or newest extension is
not repaired either: the repair throws.

Observed while modelling, without a run of their own:

- `StrictRestoresTimes` (`MCStrictMetadata.cfg` shows it): a directory's time that
  `core::apply_metadata` does not restore is set by `fs::last_write_time` with an error code
  nobody reads and within an empty `catch (...)` (`container.cpp:12078-12084`; for a file
  `11986-11993`). If it fails, the extraction reports success, without the time, without a
  warning, and even under `strict_metadata`, which the guide says is for when "any loss of
  metadata should fail the operation instead of warning" (`docs/CLI_GUIDE.md:430-431`).
- A file is stamped before it is read, and its entry keeps the stamp's whole second
  (`container.cpp:5381`). A change after the stamp but within that second is not read into the
  archive and not found by the next update either, which compares whole seconds
  (`container.cpp:9895-9901`). `ChangeStaysVisible` says that no other change is lost.

- `LiveIsNewest` (`MCSnapshotSync.cfg` shows it): the guard of snapshot repositories
  (`container.cpp:7127`) asks for items; a sync that selects none, but finds paths that
  are gone, passes it and removes them from the live catalogue. The format says that
  such operations are rejected and that the live directory is the newest snapshot
  (`docs/FORMAT.md:470-472`, `483-484`). The history is not touched (`ImplementsStore`).
- The command line validates the items of add, update and sync against each other, not
  against the entries of the archive, so a change of kind may leave entries beneath a
  file, contrary to `docs/FORMAT.md:405-408`; `TestForetells` covers what follows.
- Where a hard link cannot be made, `copy_file` (`container.cpp:11789`) stands in and its
  error is ignored: the link may be missing without a word, and if removing what was
  there failed too, the copy is written in place or through a link
  (`docs/CLI_GUIDE.md:340`, `docs/SECURITY.md:15-22`). The properties of `round_trip`
  except it.
- Entries of hard links have no time, so update always selects them again; a symbolic
  link that only changed its target is never selected (`docs/CLI_GUIDE.md:141`).
- An add that makes the target of a stored hard link itself a link leaves the stored
  one dangling; test and extraction of the whole archive then fail.
- A scan passes over directories it may not read, and the command line's ends silently
  on an iteration error, so a sync drops entries whose files still exist
  (`docs/GUI_GUIDE.md:353`).
- An empty directory is silently not restored where a file is in its place or
  `create_directories` fails (`container.cpp:11802`).

## 7. What is not modelled

`PROJECT.json` lists every component with its status. The library and the shell have
some 89 000 lines, of which the modules stand for about 6 %; the rest is of four kinds.

- Algorithms over bytes: codecs, entropy coders, transforms, checksums, cryptography,
  Reed-Solomon (their states are byte buffers; `Reconstructed` and `Digest` say what
  the two that matter here do).
- Windows, dialogs, settings, drag and drop, text: the shell is nearly half of the
  lines, sequential between messages, and its one concurrent interface to the
  library is `OperationControl`. Its preview of updates is modelled.
- Adapters to other libraries (ZIP, 7-Zip, system archives), parsing of arguments,
  operating-system calls.
- Serialisation of directories, metadata and options inside `container.cpp`, field by
  field: the modules say what a directory holds, not how it is laid out.

Left out so far, though a model could reach them: volumes, updates of damaged archives,
`rebuild_archive_keeping` of solid archives, blocks staged in spool files, password
slots, and the shell's `operation_runner` and `directory_watcher`. Unflushed writes,
weak memory ordering and two processes on one archive are hazards outside the models.

## 8. Plan

Done, in this order: `SerialBlockWriter`, `OrderedBlockEncoder` with its proofs,
`ChunkedEntries`, `BlockSource`, `TaskExecutor`, `OperationControl`,
`ArchiveGenerations`, `ArchiveTree`, `ContentStore`, `ChunkRepository`; then
`SolidBlocks`, `UpdatePlan`, `Extraction`, `RoundTrip`, the proofs of
`OperationControl` and `UpdatePlan`, damage and repair in `ArchiveGenerations`, the
safety proofs of `BlockSource`, and those of `ArchiveGenerations`, `ChunkRepository`,
`TaskExecutor` and `ChunkedEntries`; last those of `Extraction`, `RoundTrip` and
`SolidBlocks`. Of the safety properties of the passing runs only `SyncRebuildsSource` is
without a theorem.

Next, by importance:

1. `SyncRebuildsSource`, with an assumption on the order of a scan.
2. `Volumes` (`container.cpp:10351-10915`): splitting over an older set, missing, damaged
   and foreign parts, joining.
3. The shell's `operation_runner` and `directory_watcher`.
4. Varint and transform inverses over bounded inputs.
