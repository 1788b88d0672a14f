----------------------------- MODULE SolidBlocks -----------------------------
(***************************************************************************)
(* compress_items_into of src/src/archive/container.cpp: the writer of     *)
(* solid archives.  One reader thread packs files into solid blocks, skips *)
(* bytes the archive already holds, and appends finished blocks; one or    *)
(* two workers compress.  Files may change on disk while they are read.    *)
(*                                                                         *)
(* A file's content is a sequence of slices, one slice being what one read *)
(* returns.  Digests are taken to be free of collisions, so the identity   *)
(* of a content is that content.  All of reader and workers share one      *)
(* mutex and one condition variable; each critical section is a step, each *)
(* notification another.                                                   *)
(***************************************************************************)
EXTENDS Integers, Sequences, SequencesExt, FiniteSetsExt

CONSTANTS
  Worker,      \* outer pipeline workers an operation may start (one or two)
  Nil,         \* no value
  Slice,       \* what one read returns
  BlockSize,   \* block_size, in slices
  MinGroup,    \* minimum_group, in slices
  SpoolLimit,  \* same_size_spool_limit, in slices
  Second,      \* ticks of the file system's clock in a second
  Cases        \* the operations explored: see Init

Content == Seq(Slice)

\* What blocks hold back to back, from one of them on.
BytesFrom(blocks, first) ==
  FlattenSeq([i \in 1..Max({0, Len(blocks) - first + 1}) |-> blocks[first + i - 1]])

\* The bytes a range leads to, or Nil.
Reads(bytes, offset, size) ==
  IF offset + size > Len(bytes) THEN Nil ELSE SubSeq(bytes, offset + 1, offset + size)

IsSequence(s) == s \in Seq(Range(s))

\* An operation: the items it was given, the files they name, and the archive it
\* extends, whose blocks (base) and ranges of bytes (held) are as they were written.
IsOperation(c) ==
  /\ c.threads \subseteq Worker /\ c.threads # {} /\ IsFiniteSet(c.threads)
  /\ c.follow \in BOOLEAN /\ c.unreadable \in BOOLEAN
  /\ IsSequence(c.items)
  /\ \A i \in DOMAIN c.items :
       /\ c.items[i].class \in Nat
       /\ c.items[i].kind \in {"file", "dir", "symlink", "reparse"}
       /\ c.items[i].kind = "file" => c.items[i].node \in DOMAIN c.disk
  /\ c.contents \subseteq Content /\ \A n \in DOMAIN c.disk : c.disk[n] \in Content
  /\ c.base \in Seq(Content)
  /\ IsSequence(c.held)
  /\ \A i \in DOMAIN c.held :
       LET r == c.held[i]
       IN  /\ r.content \in Content /\ r.first \in 1..(Len(c.base) + 1) /\ r.offset \in Nat
           /\ Reads(BytesFrom(c.base, r.first), r.offset, Len(r.content)) = r.content

ASSUME SolidAssumption ==
  /\ BlockSize \in Nat \ {0}
  /\ MinGroup \in 1..BlockSize
  /\ SpoolLimit \in Nat
  /\ Second \in Nat \ {0}
  /\ Nil \notin Content
  /\ \A c \in Cases : IsOperation(c)

VARIABLES
  job,         \* the operation: one of Cases, never changed
  disk,        \* what each file on disk holds now, and its time stamp
  changes,     \* changes of files still to come (a bound)
  \* the reader
  pc,          \* where it is
  resume,      \* where it goes on after flush_block
  at,          \* items already taken from the compression order
  group,       \* previous_file_class
  reuse,       \* reuse_by_path
  known,       \* batch_reuse_candidates: content -> range
  links,       \* hardlinks: file -> path it was first stored under
  entry,       \* the entry of the file in hand
  candidate,   \* reuse_candidate
  hashed,      \* what try_hash_input_stream returned; while the file is
               \* read, same_size_spool if spooled_identity is set
  taken,       \* slices of the file already read
  buffer,      \* buffer
  entries,     \* entries appended
  skipped,     \* paths left out with a warning
  \* the pipeline
  asleep,      \* threads blocked on pipeline_cv
  pending,     \* pending
  completed,   \* completed: index -> content
  inflight,    \* inflight_blocks
  current,     \* current_block (counted from 1)
  nextWrite,   \* next_write_block
  writing,     \* the block drain_completed has taken
  archive,     \* blocks, each with the index it was sealed under
  done,        \* pipeline_done
  error,       \* pipeline_error
  spares,      \* spare_buffers.size()
  worker,      \* where each worker is
  block,       \* the block each worker holds
  \* progress
  finished,    \* completed_bytes, in slices
  scanned,     \* inflight_done
  reported,    \* reported_progress
  ticks,       \* block_done of each worker's block
  seen         \* what each worker's publish_progress has loaded

diskVars == <<job, disk, changes>>
readVars == <<at, group, reuse, known, links, entry, candidate, hashed, taken,
              buffer, entries, skipped>>
pipeVars == <<asleep, pending, completed, inflight, current, nextWrite,
              writing, archive, done, error, spares>>
workVars == <<worker, block>>
progressVars == <<finished, scanned, reported, ticks, seen>>
vars == <<diskVars, pc, resume, readVars, pipeVars, workVars, progressVars>>

Threads == job.threads
Reader == "reader"

\* max_inflight_blocks
MaxInflight == 2 * Cardinality(Threads)

\* to_unix_seconds: what the archive records of a time stamp, and what an update
\* compares.  The writer's own comparisons are of whole stamps.
Seconds(stamp) == stamp \div Second

Idle == [path |-> Nil, node |-> Nil, stamp |-> 0, mtime |-> 0, size |-> 0,
         first |-> 0, offset |-> 0]

\* compression_order: by class, otherwise in the order of the scan (the files of a
\* class are taken to have one extension, which would come second).  Directories
\* and links are of class 0.
Precedes(i, j) ==
  \/ job.items[i].class < job.items[j].class
  \/ job.items[i].class = job.items[j].class /\ i < j

Rank(i) == Cardinality({j \in DOMAIN job.items : Precedes(j, i)}) + 1

Order == [k \in DOMAIN job.items |-> CHOOSE i \in DOMAIN job.items : Rank(i) = k]

Item == job.items[Order[at + 1]]

\* emplace of a map: what it has stays.
Emplaced(map, key, value) ==
  [k \in DOMAIN map \cup {key} |-> IF k \in DOMAIN map THEN map[k] ELSE value]

Init ==
  /\ job \in Cases
  /\ disk = [n \in DOMAIN job.disk |-> [content |-> job.disk[n], stamp |-> Second]]
  /\ changes = job.changes
  /\ pc = "compare" /\ resume = "next"
  /\ at = 0
  /\ group = Nil
  /\ reuse = <<>>
  /\ known = <<>>
  /\ links = <<>>
  /\ entry = Idle
  /\ candidate = Nil
  /\ hashed = Nil
  /\ taken = <<>>
  /\ buffer = <<>>
  /\ entries = <<>>
  /\ skipped = {}
  /\ asleep = {}
  /\ pending = <<>>
  /\ completed = <<>>
  /\ inflight = 0
  /\ current = Len(job.base) + 1
  /\ nextWrite = current
  /\ writing = Nil
  /\ archive = [i \in DOMAIN job.base |-> [index |-> i, content |-> job.base[i]]]
  /\ done = FALSE
  /\ error = FALSE
  /\ spares = 0
  /\ worker = [w \in Threads |-> "check"]
  /\ block = [w \in Threads |-> Nil]
  /\ finished = 0
  /\ scanned = 0
  /\ reported = 0
  /\ ticks = [w \in Threads |-> 0]
  /\ seen = [w \in Threads |-> 0]

----------------------------------------------------------------------------
(* The file system: a file is rewritten, and its time stamp moves on, within *)
(* its second or into the next.                                            *)

Change ==
  /\ changes > 0
  /\ pc \notin {"complete", "failed"}
  /\ \E n \in DOMAIN disk, c \in job.contents, later \in 1..Second :
       /\ c # disk[n].content
       /\ disk' = [disk EXCEPT ![n] = [content |-> c, stamp |-> @.stamp + later]]
  /\ changes' = changes - 1
  /\ UNCHANGED <<job, pc, resume, readVars, pipeVars, workVars, progressVars>>

----------------------------------------------------------------------------
(* The reader: which bytes go where.                                       *)

\* build_reuse_candidates: identity -> range, the first entry of each.
Candidates ==
  [c \in {job.held[i].content : i \in DOMAIN job.held} |->
     LET i == Min({k \in DOMAIN job.held : job.held[k].content = c})
     IN  [first |-> job.held[i].first, offset |-> job.held[i].offset]]

\* prepare_reuse_by_path, before anything is staged.  Each file is sized,
\* stamped and hashed on its own, so one step for all loses no outcome that
\* the checks below could tell apart.
Compare ==
  /\ pc = "compare"
  /\ LET Matches == {i \in DOMAIN job.items :
                       /\ job.items[i].kind = "file"
                       /\ disk[job.items[i].node].content \in DOMAIN Candidates}
     IN  reuse' = [p \in {job.items[i].path : i \in Matches} |->
                     LET n == job.items[CHOOSE i \in Matches :
                                          job.items[i].path = p].node
                     IN  [content |-> disk[n].content, stamp |-> disk[n].stamp,
                          range |-> Candidates[disk[n].content]]]
  /\ pc' = "next"
  /\ UNCHANGED <<diskVars, resume, at, group, known, links, entry, candidate,
                 hashed, taken, buffer, entries, skipped, pipeVars, workVars,
                 progressVars>>

\* The head of the loop: a change of class ends a block that is large enough.
TakeItem ==
  /\ pc = "next"
  /\ at < Len(job.items)
  /\ LET regular == Item.kind = "file"
     IN  /\ group' = IF regular THEN Item.class ELSE group
         /\ IF regular /\ group # Nil /\ group # Item.class /\ Len(buffer) >= MinGroup
            THEN pc' = "drain" /\ resume' = "open"
            ELSE pc' = "open" /\ UNCHANGED resume
  /\ UNCHANGED <<diskVars, at, reuse, known, links, entry, candidate, hashed,
                 taken, buffer, entries, skipped, pipeVars, workVars,
                 progressVars>>

ItemDone == at' = at + 1 /\ pc' = "next"

\* An entry without bytes of its own.  The archive keeps an entry's mtime; its stamp
\* (source_stamp) is kept here to say which second that was part of.
PlainEntry(type, target) ==
  [path |-> Item.path, node |-> Item.node, type |-> type, target |-> target,
   stamp |-> 0, mtime |-> 0, content |-> <<>>, first |-> 0, offset |-> 0]

\* Directories and symbolic links; a reparse point that is neither is skipped.
OpenPlain ==
  /\ pc = "open"
  /\ Item.kind # "file"
  /\ IF Item.kind = "reparse"
     THEN skipped' = skipped \cup {Item.path} /\ UNCHANGED entries
     ELSE /\ entries' = Append(entries, PlainEntry(Item.kind, Nil))
          /\ UNCHANGED skipped
  /\ ItemDone
  /\ UNCHANGED <<diskVars, resume, group, reuse, known, links, entry, candidate,
                 hashed, taken, buffer, pipeVars, workVars, progressVars>>

\* A file that cannot be opened is skipped, where the caller allows it.
Unreadable ==
  /\ pc = "open"
  /\ Item.kind = "file"
  /\ job.unreadable
  /\ skipped' = skipped \cup {Item.path}
  /\ ItemDone
  /\ UNCHANGED <<diskVars, resume, group, reuse, known, links, entry, candidate,
                 hashed, taken, buffer, entries, pipeVars, workVars,
                 progressVars>>

\* A second path of a file already stored becomes a hard link.
OpenLink ==
  /\ pc = "open"
  /\ Item.kind = "file"
  /\ Item.node \in DOMAIN links
  /\ entries' = Append(entries, PlainEntry("hardlink", links[Item.node]))
  /\ ItemDone
  /\ UNCHANGED <<diskVars, resume, group, reuse, known, links, entry, candidate,
                 hashed, taken, buffer, skipped, pipeVars, workVars,
                 progressVars>>

\* Mutant: the block index is the one of the last block written.
StartReadingAtWritten(e, content) ==
  /\ entry' = [e EXCEPT !.first = nextWrite, !.offset = Len(buffer)]
  /\ hashed' = content
  /\ taken' = <<>>
  /\ candidate' = Nil
  /\ pc' = "read"

\* Where a file compressed afresh begins.
StartReading(e, content) ==
  /\ entry' = [e EXCEPT !.first = current, !.offset = Len(buffer)]
  /\ hashed' = content
  /\ taken' = <<>>
  /\ candidate' = Nil
  /\ pc' = "read"

\* Stamp, open, identity and size; then the choice of a candidate.
OpenFile ==
  /\ pc = "open"
  /\ Item.kind = "file"
  /\ Item.node \notin DOMAIN links
  /\ LET n == Item.node
         size == Len(disk[n].content)
         e == [Idle EXCEPT !.path = Item.path, !.node = n,
                           !.stamp = disk[n].stamp,
                           !.mtime = Seconds(disk[n].stamp), !.size = size]
         ByPath == /\ Item.path \in DOMAIN reuse
                   /\ Len(reuse[Item.path].content) = size
                   /\ reuse[Item.path].stamp = disk[n].stamp
     IN  /\ links' = Emplaced(links, n, Item.path)
         /\ IF ByPath
            THEN /\ candidate' = reuse[Item.path]
                 /\ entry' = e /\ pc' = "verify"
                 /\ UNCHANGED <<hashed, taken>>
            ELSE IF \E c \in DOMAIN known : Len(c) = size
            THEN /\ entry' = e /\ pc' = "hash"
                 /\ UNCHANGED <<candidate, hashed, taken>>
            ELSE StartReading(e, Nil)
  /\ UNCHANGED <<diskVars, resume, at, group, reuse, known, buffer, entries,
                 skipped, pipeVars, workVars, progressVars>>

\* try_hash_input_stream: the content, unless it has not the expected length.
\* One step: what it returns describes the bytes it read, and only them.
Hash ==
  /\ pc \in {"hash", "verify"}
  /\ LET c == disk[entry.node].content
     IN  hashed' = IF Len(c) = entry.size THEN c ELSE Nil
  /\ pc' = IF pc = "hash" THEN "hashed" ELSE "verified"
  /\ UNCHANGED <<diskVars, resume, at, group, reuse, known, links, entry,
                 candidate, taken, buffer, entries, skipped, pipeVars,
                 workVars, progressVars>>

StampUnchanged == disk[entry.node].stamp = entry.stamp

\* An entry for bytes the archive holds already.
ReuseRange(content, range) ==
  /\ entries' = Append(entries,
       [path |-> entry.path, node |-> entry.node, type |-> "file", target |-> Nil,
        stamp |-> entry.stamp, mtime |-> entry.mtime, content |-> content,
        first |-> range.first, offset |-> range.offset])
  /\ ItemDone
  /\ entry' = Idle /\ candidate' = Nil /\ hashed' = Nil /\ taken' = <<>>

\* The comparison with files of the same size stored by this operation.
Coalesce ==
  /\ pc = "hashed"
  /\ IF hashed # Nil /\ StampUnchanged
     THEN IF hashed \in DOMAIN known
          THEN ReuseRange(hashed, known[hashed])
          ELSE /\ StartReading(entry, IF entry.size <= SpoolLimit THEN hashed ELSE Nil)
               /\ UNCHANGED <<at, entries>>
     ELSE StartReading(entry, Nil) /\ UNCHANGED <<at, entries>>
  /\ UNCHANGED <<diskVars, resume, group, reuse, known, links, buffer, skipped,
                 pipeVars, workVars, progressVars>>

\* The candidate found before staging is checked again.
Reuse ==
  /\ pc = "verified"
  /\ IF hashed = candidate.content /\ StampUnchanged
     THEN ReuseRange(candidate.content, candidate.range)
     ELSE StartReading(entry, Nil) /\ UNCHANGED <<at, entries>>
  /\ UNCHANGED <<diskVars, resume, group, reuse, known, links, buffer, skipped,
                 pipeVars, workVars, progressVars>>

\* One read, or the next slice of the spool.
Input == IF hashed = Nil THEN disk[entry.node].content ELSE hashed

ReadSlice ==
  /\ pc = "read"
  /\ Len(taken) < Len(Input)
  /\ taken' = Append(taken, Input[Len(taken) + 1])
  /\ buffer' = Append(buffer, Input[Len(taken) + 1])
  /\ IF Len(buffer) + 1 >= BlockSize
     THEN pc' = "drain" /\ resume' = "read"
     ELSE UNCHANGED <<pc, resume>>
  /\ UNCHANGED <<diskVars, at, group, reuse, known, links, entry, candidate,
                 hashed, entries, skipped, pipeVars, workVars, progressVars>>

\* Mutant: the time is read when the file has been read.
FinishFileStamped ==
  /\ pc = "read"
  /\ Len(taken) >= Len(Input)
  /\ entries' = Append(entries,
       [path |-> entry.path, node |-> entry.node, type |-> "file", target |-> Nil,
        stamp |-> entry.stamp, mtime |-> Seconds(disk[entry.node].stamp),
        content |-> taken, first |-> entry.first, offset |-> entry.offset])
  /\ known' = Emplaced(known, taken, [first |-> entry.first, offset |-> entry.offset])
  /\ ItemDone
  /\ entry' = Idle /\ candidate' = Nil /\ hashed' = Nil /\ taken' = <<>>
  /\ UNCHANGED <<diskVars, resume, group, reuse, links, buffer, skipped,
                 pipeVars, workVars, progressVars>>

FinishFile ==
  /\ pc = "read"
  /\ Len(taken) >= Len(Input)
  /\ entries' = Append(entries,
       [path |-> entry.path, node |-> entry.node, type |-> "file", target |-> Nil,
        stamp |-> entry.stamp, mtime |-> entry.mtime, content |-> taken,
        first |-> entry.first, offset |-> entry.offset])
  /\ known' = Emplaced(known, taken, [first |-> entry.first, offset |-> entry.offset])
  /\ ItemDone
  /\ entry' = Idle /\ candidate' = Nil /\ hashed' = Nil /\ taken' = <<>>
  /\ UNCHANGED <<diskVars, resume, group, reuse, links, buffer, skipped,
                 pipeVars, workVars, progressVars>>

\* After the last item the rest of the buffer is flushed.
LastItem ==
  /\ pc = "next"
  /\ at = Len(job.items)
  /\ pc' = IF buffer = <<>> THEN "finish" ELSE "drain"
  /\ resume' = "finish"
  /\ UNCHANGED <<diskVars, readVars, pipeVars, workVars, progressVars>>

----------------------------------------------------------------------------
(* The reader: flush_block and drain_completed.                            *)

NotifyAll == asleep' = {}

\* drain_completed takes the next block in order, if it is finished.
TakeCompleted ==
  /\ pc \in {"drain", "finalDrain"}
  /\ nextWrite \in DOMAIN completed
  /\ writing' = [index |-> nextWrite, content |-> completed[nextWrite],
                 final |-> pc = "finalDrain"]
  /\ completed' = Restrict(completed, DOMAIN completed \ {nextWrite})
  /\ inflight' = inflight - 1
  /\ nextWrite' = nextWrite + 1
  /\ pc' = "taken"
  /\ UNCHANGED <<diskVars, resume, readVars, asleep, pending, current, archive,
                 done, error, spares, workVars, progressVars>>

NotifyTaken ==
  /\ pc = "taken"
  /\ NotifyAll
  /\ pc' = "write"
  /\ UNCHANGED <<diskVars, resume, readVars, pending, completed, inflight, current,
                 nextWrite, writing, archive, done, error, spares, workVars,
                 progressVars>>

\* The block is recorded and appended; the checkpoint and the write may throw
\* (ReaderThrows).
WriteBlock ==
  /\ pc = "write"
  /\ archive' = Append(archive, [index |-> writing.index, content |-> writing.content])
  /\ pc' = IF writing.final THEN "finalDrain" ELSE "drain"
  /\ writing' = Nil
  /\ UNCHANGED <<diskVars, resume, readVars, asleep, pending, completed, inflight,
                 current, nextWrite, done, error, spares, workVars, progressVars>>

NothingCompleted ==
  /\ pc \in {"drain", "finalDrain"}
  /\ nextWrite \notin DOMAIN completed
  /\ pc' = IF pc = "drain" THEN "admit" ELSE "settle"
  /\ UNCHANGED <<diskVars, resume, readVars, pipeVars, workVars, progressVars>>

Full == inflight >= MaxInflight

\* flush_block hands the buffer over and gives it its index.
Admit ==
  /\ pc = "admit"
  /\ ~error
  /\ ~Full
  /\ pending' = Append(pending, [index |-> current, content |-> buffer])
  /\ current' = current + 1
  /\ inflight' = inflight + 1
  /\ pc' = "admitted"
  /\ UNCHANGED <<diskVars, resume, readVars, asleep, completed, nextWrite, writing,
                 archive, done, error, spares, workVars, progressVars>>

NotifyAdmitted ==
  /\ pc = "admitted"
  /\ IF asleep = {} THEN UNCHANGED asleep
     ELSE \E t \in asleep : asleep' = asleep \ {t}
  /\ pc' = "swap"
  /\ UNCHANGED <<diskVars, resume, readVars, pending, completed, inflight, current,
                 nextWrite, writing, archive, done, error, spares, workVars,
                 progressVars>>

\* A spare buffer, if there is one, takes the place of the one handed over.
TakeSpare ==
  /\ pc = "swap"
  /\ spares' = IF spares = 0 THEN 0 ELSE spares - 1
  /\ buffer' = <<>>
  /\ pc' = resume
  /\ UNCHANGED <<diskVars, resume, at, group, reuse, known, links, entry, candidate,
                 hashed, taken, entries, skipped, asleep, pending, completed,
                 inflight, current, nextWrite, writing, archive, done, error,
                 workVars, progressVars>>

Progressed == error \/ nextWrite \in DOMAIN completed

\* A wait of flush_block, or the one for the last blocks: the predicate is
\* evaluated in the critical section that found nothing to do, and again after
\* each wake-up.
Wait ==
  /\ \/ pc = "admit" /\ ~error /\ Full
     \/ pc = "settle" /\ ~error /\ inflight # 0
     \/ pc \in {"await", "finalAwait"} /\ Reader \notin asleep
  /\ LET flushing == pc \in {"admit", "await"}
     IN  IF Progressed
         THEN /\ pc' = IF flushing THEN "drain" ELSE "finalDrain"
              /\ UNCHANGED asleep
         ELSE /\ pc' = IF flushing THEN "await" ELSE "finalAwait"
              /\ asleep' = asleep \cup {Reader}
  /\ UNCHANGED <<diskVars, resume, readVars, pending, completed, inflight, current,
                 nextWrite, writing, archive, done, error, spares, workVars,
                 progressVars>>

RethrowError ==
  /\ pc \in {"admit", "settle"}
  /\ error
  /\ pc' = "throw"
  /\ UNCHANGED <<diskVars, resume, readVars, pipeVars, workVars, progressVars>>

\* After the last flush: no more work will come.
Finish ==
  /\ pc = "finish"
  /\ done' = TRUE
  /\ pc' = "finished"
  /\ UNCHANGED <<diskVars, resume, readVars, asleep, pending, completed, inflight,
                 current, nextWrite, writing, archive, error, spares, workVars,
                 progressVars>>

NotifyFinished ==
  /\ pc = "finished"
  /\ NotifyAll
  /\ pc' = "finalDrain"
  /\ UNCHANGED <<diskVars, resume, readVars, pending, completed, inflight, current,
                 nextWrite, writing, archive, done, error, spares, workVars,
                 progressVars>>

\* Mutant: an idle queue is taken for the end.
SettledWhenIdle ==
  /\ pc = "settle"
  /\ ~error
  /\ pending = <<>> /\ completed = <<>>
  /\ pc' = "join"
  /\ UNCHANGED <<diskVars, resume, readVars, pipeVars, workVars, progressVars>>

Settled ==
  /\ pc = "settle"
  /\ ~error
  /\ inflight = 0
  /\ pc' = "join"
  /\ UNCHANGED <<diskVars, resume, readVars, pipeVars, workVars, progressVars>>

\* A checkpoint, a read, a write or a strict warning throws.
ReaderThrows ==
  /\ pc \in {"compare", "next", "open", "hash", "verify", "read", "write"}
  /\ pc' = "throw"
  /\ UNCHANGED <<diskVars, resume, readVars, pipeVars, workVars, progressVars>>

\* PipelineGuard.
StopPipeline ==
  /\ pc = "throw"
  /\ done' = TRUE
  /\ pending' = <<>>
  /\ pc' = "stopped"
  /\ UNCHANGED <<diskVars, resume, readVars, asleep, completed, inflight, current,
                 nextWrite, writing, archive, error, spares, workVars,
                 progressVars>>

NotifyStopped ==
  /\ pc = "stopped"
  /\ NotifyAll
  /\ pc' = "joinFailed"
  /\ UNCHANGED <<diskVars, resume, readVars, pending, completed, inflight, current,
                 nextWrite, writing, archive, done, error, spares, workVars,
                 progressVars>>

Join ==
  /\ pc \in {"join", "joinFailed"}
  /\ \A w \in Threads : worker[w] = "exited"
  /\ pc' = IF pc = "join" THEN "complete" ELSE "failed"
  /\ UNCHANGED <<diskVars, resume, readVars, pipeVars, workVars, progressVars>>

----------------------------------------------------------------------------
(* The workers.                                                            *)

Awake(w, place) == worker[w] = place /\ w \notin asleep
Goes(w, place) == worker' = [worker EXCEPT ![w] = place]

\* The wait of pipeline_worker and what follows it under the lock.
WorkerChecks(w) ==
  /\ Awake(w, "check")
  /\ IF ~error /\ pending # <<>>
     THEN /\ block' = [block EXCEPT ![w] = Head(pending)]
          /\ pending' = Tail(pending)
          /\ Goes(w, "popped")
          /\ UNCHANGED asleep
     ELSE /\ IF error \/ done
             THEN Goes(w, "exited") /\ UNCHANGED asleep
             ELSE asleep' = asleep \cup {w} /\ UNCHANGED worker
          /\ UNCHANGED <<block, pending>>
  /\ UNCHANGED <<diskVars, pc, resume, readVars, completed, inflight, current,
                 nextWrite, writing, archive, done, error, spares, progressVars>>

WorkerNotifiesPop(w) ==
  /\ worker[w] = "popped"
  /\ NotifyAll
  /\ Goes(w, "compress")
  /\ UNCHANGED <<diskVars, pc, resume, readVars, pending, completed, inflight,
                 current, nextWrite, writing, archive, done, error, spares, block,
                 progressVars>>

\* encoded_bytes_progress: the codec has scanned up to some slice of the block;
\* reports that are not ahead of an earlier one are dropped.
Tick(w) ==
  /\ worker[w] = "compress"
  /\ job.follow
  /\ \E k \in (ticks[w] + 1)..Len(block[w].content) :
       /\ ticks' = [ticks EXCEPT ![w] = k]
       /\ scanned' = scanned + k - ticks[w]
  /\ Goes(w, "publishTick")
  /\ UNCHANGED <<diskVars, pc, resume, readVars, pipeVars, block, finished,
                 reported, seen>>

\* publish_progress loads completed_bytes, then inflight_done, and raises
\* reported_progress if their sum is larger.
PublishLoads(w) ==
  /\ worker[w] \in {"publishTick", "publishDone"}
  /\ seen' = [seen EXCEPT ![w] = finished]
  /\ Goes(w, IF worker[w] = "publishTick" THEN "raiseTick" ELSE "raiseDone")
  /\ UNCHANGED <<diskVars, pc, resume, readVars, pipeVars, block, finished,
                 scanned, reported, ticks>>

PublishRaises(w) ==
  /\ worker[w] \in {"raiseTick", "raiseDone"}
  /\ reported' = Max({reported, seen[w] + scanned})
  /\ seen' = [seen EXCEPT ![w] = 0]
  /\ Goes(w, IF worker[w] = "raiseTick" THEN "compress" ELSE "emplace")
  /\ UNCHANGED <<diskVars, pc, resume, readVars, pipeVars, block, finished,
                 scanned, ticks>>

\* compress() returns: the input buffer becomes a spare.  In an operation whose
\* progress is not followed the counters are left alone.
Compressed(w) ==
  /\ worker[w] = "compress"
  /\ spares' = IF spares < MaxInflight THEN spares + 1 ELSE spares
  /\ Goes(w, IF job.follow THEN "subtract" ELSE "emplace")
  /\ UNCHANGED <<diskVars, pc, resume, readVars, asleep, pending, completed, inflight,
                 current, nextWrite, writing, archive, done, error, block,
                 progressVars>>

\* Mutant: the share of a finished block stays among the bytes in flight.
SubtractNothing(w) ==
  /\ worker[w] = "subtract"
  /\ ticks' = [ticks EXCEPT ![w] = 0]
  /\ Goes(w, "add")
  /\ UNCHANGED <<diskVars, pc, resume, readVars, pipeVars, block, finished,
                 scanned, reported, seen>>

\* The block moves from the bytes in flight to the completed ones.
SubtractScanned(w) ==
  /\ worker[w] = "subtract"
  /\ scanned' = scanned - ticks[w]
  /\ ticks' = [ticks EXCEPT ![w] = 0]
  /\ Goes(w, "add")
  /\ UNCHANGED <<diskVars, pc, resume, readVars, pipeVars, block, finished,
                 reported, seen>>

AddFinished(w) ==
  /\ worker[w] = "add"
  /\ finished' = finished + Len(block[w].content)
  /\ Goes(w, "publishDone")
  /\ UNCHANGED <<diskVars, pc, resume, readVars, pipeVars, block, scanned,
                 reported, ticks, seen>>

Emplace(w) ==
  /\ worker[w] = "emplace"
  /\ completed' = Emplaced(completed, block[w].index, block[w].content)
  /\ block' = [block EXCEPT ![w] = Nil]
  /\ Goes(w, "emplaced")
  /\ UNCHANGED <<diskVars, pc, resume, readVars, asleep, pending, inflight, current,
                 nextWrite, writing, archive, done, error, spares, progressVars>>

\* Mutant: the result is announced when the worker looks for more work.
WorkerNotifiesNobody(w) ==
  /\ worker[w] = "emplaced"
  /\ Goes(w, "check")
  /\ UNCHANGED <<diskVars, pc, resume, readVars, pipeVars, block, progressVars>>

WorkerNotifiesResult(w) ==
  /\ worker[w] = "emplaced"
  /\ NotifyAll
  /\ Goes(w, "check")
  /\ UNCHANGED <<diskVars, pc, resume, readVars, pending, completed, inflight,
                 current, nextWrite, writing, archive, done, error, spares, block,
                 progressVars>>

\* The codec, a report or an allocation throws.
WorkerFails(w) ==
  /\ worker[w] \in {"compress", "publishTick", "publishDone"}
  /\ error' = TRUE
  /\ pending' = <<>>
  /\ block' = [block EXCEPT ![w] = Nil]
  /\ Goes(w, "broken")
  /\ UNCHANGED <<diskVars, pc, resume, readVars, asleep, completed, inflight, current,
                 nextWrite, writing, archive, done, spares, progressVars>>

WorkerNotifiesError(w) ==
  /\ worker[w] = "broken"
  /\ NotifyAll
  /\ Goes(w, "exited")
  /\ UNCHANGED <<diskVars, pc, resume, readVars, pending, completed, inflight,
                 current, nextWrite, writing, archive, done, error, spares, block,
                 progressVars>>

----------------------------------------------------------------------------

ReaderStep ==
  \/ Compare \/ TakeItem \/ OpenPlain \/ Unreadable \/ OpenLink \/ OpenFile \/ Hash
  \/ Coalesce \/ Reuse \/ ReadSlice \/ FinishFile \/ LastItem \/ TakeCompleted
  \/ NotifyTaken \/ WriteBlock \/ NothingCompleted \/ Admit \/ NotifyAdmitted
  \/ TakeSpare \/ Wait \/ RethrowError \/ Finish \/ NotifyFinished
  \/ Settled \/ ReaderThrows \/ StopPipeline \/ NotifyStopped \/ Join

WorkerStep(w) ==
  \/ WorkerChecks(w) \/ WorkerNotifiesPop(w) \/ Tick(w) \/ PublishLoads(w)
  \/ PublishRaises(w) \/ Compressed(w) \/ SubtractScanned(w) \/ AddFinished(w)
  \/ Emplace(w) \/ WorkerNotifiesResult(w) \/ WorkerFails(w)
  \/ WorkerNotifiesError(w)

Terminated == pc \in {"complete", "failed"} /\ UNCHANGED vars

Next ==
  \/ Change \/ ReaderStep
  \/ \E w \in Threads : WorkerStep(w)
  \/ Terminated

Spec == Init /\ [][Next]_vars

\* Threads that can run do; compressing, reading and writing a block end.
FairSpec ==
  Spec /\ WF_vars(ReaderStep) /\ \A w \in Worker : WF_vars(w \in Threads /\ WorkerStep(w))

----------------------------------------------------------------------------
(* Properties.                                                             *)

TypeOK ==
  /\ job \in Cases
  /\ at \in 0..Len(job.items)
  /\ asleep \subseteq Threads \cup {Reader}
  /\ inflight \in 0..MaxInflight
  /\ nextWrite \in 1..current
  /\ spares \in 0..MaxInflight
  /\ done \in BOOLEAN /\ error \in BOOLEAN
  /\ finished \in Nat /\ scanned \in Nat /\ reported \in Nat

\* What a reader of the archive finds at a range: blocks back to back, each
\* readable only under the index it was compressed (and sealed) for.
Stored(first, offset, size) ==
  Reads(BytesFrom([i \in DOMAIN archive |-> archive[i].content], first), offset, size)

Files == {e \in Range(entries) : e.type = "file"}

\* An operation that completes has an entry for every item it did not skip, and
\* every entry leads to its bytes: a file's range in the blocks, whether
\* compressed afresh, coalesced or found in the archive, holds the content its
\* digest was taken from, which is the file's content if nobody changed it;
\* a hard link names an earlier entry of the same file.
EntriesRestore ==
  pc = "complete" =>
    /\ \A i \in DOMAIN archive : archive[i].index = i
    /\ {e.path : e \in Range(entries)} \cup skipped
         = {it.path : it \in Range(job.items)}
    /\ \A k \in DOMAIN entries :
         LET e == entries[k]
         IN  /\ e.type = "file" =>
                  /\ Stored(e.first, e.offset, Len(e.content)) = e.content
                  /\ disk[e.node].stamp = Second => e.content = job.disk[e.node]
             /\ e.type = "hardlink" =>
                  \E j \in 1..(k - 1) : /\ entries[j].type = "file"
                                        /\ entries[j].path = e.target
                                        /\ entries[j].node = e.node

\* A change the capture missed or tore can still be seen: where an entry does not
\* hold what its file holds now, the file has been stamped again since the entry's
\* stamp was taken, and the next update, which compares whole seconds, selects it; only
\* what was changed in the very second of the entry's stamp escapes that comparison.
ChangeStaysVisible ==
  pc = "complete" =>
    \A e \in Files :
      LET now == disk[e.node]
      IN  e.content # now.content =>
            /\ now.stamp > e.stamp
            /\ Seconds(now.stamp) > e.mtime \/ Seconds(now.stamp) = Seconds(e.stamp)

\* Blocks this operation has appended.
NewBlocks == Len(archive) - Len(job.base)

\* The bytes the codecs have scanned: whole blocks once compressed, the last
\* report of the others.
Share(w) ==
  IF worker[w] \in {"subtract", "add"} THEN Len(block[w].content) ELSE ticks[w]

BytesScanned == finished + SumFunction([w \in Threads |-> Share(w)])

\* The progress shown is never ahead of the bytes scanned, although it is the sum
\* of two counters between which blocks move while others read them, and it
\* arrives: an operation that completes has shown every byte it compressed.
ProgressHonest ==
  /\ reported <= BytesScanned
  /\ pc = "complete" /\ job.follow =>
       reported = SumFunction([i \in 1..NewBlocks |-> Len(archive[Len(job.base) + i].content)])

\* What the caller has learned so far.
Outcome == IF pc \in {"join", "complete"} THEN "complete"
           ELSE IF pc \in {"throw", "stopped", "joinFailed", "failed"} THEN "failed"
           ELSE "open"

Serial == INSTANCE SerialBlockWriter WITH
  accepted <- current - 1 - Len(job.base),
  output <- [i \in 1..NewBlocks |-> archive[Len(job.base) + i].index - Len(job.base)],
  outcome <- Outcome

\* The pipeline implements the serial writer: blocks are written once, in the
\* order they were filled, and it completes only if all were.
ImplementsSerialWriter == Serial!SerialSpec

\* Every operation ends, its workers joined, whatever fails.
OperationEnds == <>(pc \in {"complete", "failed"})
=============================================================================
