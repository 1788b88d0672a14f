------------------------- MODULE ArchiveGenerations -------------------------
(***************************************************************************)
(* How src/src/archive/container.cpp changes an archive file on disk: an   *)
(* update appends a generation in place when the header can stay, and      *)
(* otherwise rewrites the archive through a temporary file; it may sign    *)
(* the result and add recovery data.  A process can crash between any two  *)
(* writes, or in the middle of one; an exception rolls an append back to   *)
(* the previous complete generation, if the truncation succeeds.  Bytes    *)
(* already written may be damaged later, and recovery data repairs some.   *)
(*                                                                         *)
(* A file is a sequence of segments and an offset is a position in it.     *)
(* Writes reach the file in program order; what a power failure does to    *)
(* unflushed data is outside the model.                                    *)
(***************************************************************************)
EXTENDS Integers, Sequences, FiniteSetsExt, TLC

CONSTANTS
  Item,    \* files that may be added
  Nested,  \* those whose stored bytes contain an archive footer
  Base,    \* the one file of the archive as it was created
  Parity,  \* parity shards of a recovery service
  MaxOps,  \* bound: update operations started
  MaxHits  \* bound: segments in a row that are damaged at a time

ASSUME GenerationsAssumption ==
  /\ Nested \subseteq Item
  /\ Base \in Item
  /\ {Parity, MaxOps, MaxHits} \subseteq Nat

Header == [kind |-> "header"]
Block(i) == [kind |-> "block", item |-> i]
Footer(d) == [kind |-> "footer", directory |-> d]
Recovery(end) == [kind |-> "recovery", protected |-> end, parity |-> Parity]
Torn == [kind |-> "torn"]

\* blocks: positions of the block table, dead blocks included; files: the
\* block of each live entry; signature: <<>> or <<digest>>.
Directory(b, f, s) ==
  [kind |-> "directory", blocks |-> b, files |-> f, signature |-> s]

\* A segment of which nothing readable is left.  A segment stands for one shard.
Damaged(s) == [kind |-> "damaged", was |-> s]

\* What a segment was when it was written, and the segments that are not.
Sound(s) == IF s.kind = "damaged" THEN s.was
            ELSE IF s.kind = "recovery" THEN Recovery(s.protected) ELSE s
AsWritten(f) == [p \in DOMAIN f |-> Sound(f[p])]
Lost(f, n) == {p \in 1..n : f[p] # Sound(f[p])}
Whole(f) == Lost(f, Len(f)) = {}

\* Mutant: every appended generation claims to be the first.
ExtensionForgetful(g, l) ==
  [kind |-> "extension", generation |-> 1, prevFooter |-> l.footer,
   prevDirectory |-> l.directory, prevExtension |-> 0]

\* generation_extension_bytes: the generation's number and where the previous
\* one, of layout l, is.
Extension(g, l) ==
  [kind |-> "extension", generation |-> g, prevFooter |-> l.footer,
   prevDirectory |-> l.directory, prevExtension |-> l.extension]

----------------------------------------------------------------------------
(* Opening an archive.                                                     *)

\* read_footer_candidate: anything of the footer's shape whose directory lies
\* before it.  A footer inside a stored block names offsets of its own archive,
\* which are small numbers here.
FooterShaped(f, p) ==
  \/ f[p].kind = "footer" /\ f[p].directory < p
  \/ f[p].kind = "block" /\ f[p].item \in Nested

NamedDirectory(f, p) == IF f[p].kind = "footer" THEN f[p].directory ELSE 1

\* The extension behind a directory, 0 when there is none.
ExtensionAt(f, d, footer) ==
  IF d + 1 < footer /\ f[d + 1].kind = "extension" THEN d + 1 ELSE 0

\* read_generation_extension's checks.
ExtensionValid(f, p) ==
  LET d == NamedDirectory(f, p)
      at == ExtensionAt(f, d, p)
      x == f[at]
  IN  at # 0 =>
        /\ x.prevFooter < d
        /\ FooterShaped(f, x.prevFooter)
        /\ NamedDirectory(f, x.prevFooter) = x.prevDirectory
        /\ IF x.prevExtension = 0 THEN x.generation = 1
           ELSE /\ x.prevExtension = x.prevDirectory + 1
                /\ f[x.prevExtension].kind = "extension"
                /\ f[x.prevExtension].generation + 1 = x.generation

\* find_latest_footer: the last candidate whose extension, if any, is valid.
LatestFooter(f) ==
  Max({p \in 1..Len(f) : FooterShaped(f, p) /\ ExtensionValid(f, p)} \cup {0})

ReadLayout(f) ==
  LET p == LatestFooter(f)
      d == NamedDirectory(f, p)
      x == ExtensionAt(f, d, p)
  IN  [footer |-> p, directory |-> d, extension |-> x,
       generation |-> IF x = 0 THEN 0 ELSE f[x].generation]

\* read_layout succeeds, and load_index behind it.
LayoutReadable(f) == f[1] = Header /\ LatestFooter(f) # 0
Opens(f) == LayoutReadable(f) /\ f[ReadLayout(f).directory].kind = "directory"

Index(f) == f[ReadLayout(f).directory]

ProtectedEnd(l) == IF l.extension = 0 THEN l.directory ELSE l.extension

\* read_recovery_service finds a service in front of the footer.
HasRecovery(f) == f[ReadLayout(f).footer - 1].kind = "recovery"

\* archive_signature_digest: the bytes in front of the directory (named by
\* their end: they never change while a generation stands), the entries, and
\* the generation's fields.
Digest(f, l) ==
  [prefix |-> l.directory, files |-> f[l.directory].files,
   history |-> IF l.extension = 0 THEN <<>> ELSE <<f[l.extension]>>]

----------------------------------------------------------------------------
VARIABLES
  disk,     \* the archive file
  temp,     \* the temporary file of a rewrite
  pc,       \* the step the running operation is at
  op,       \* the running operation, or the last one
  outcome,  \* how the last operation ended
  ops       \* operations started

vars == <<disk, temp, pc, op, outcome, ops>>

\* mode: "append" (a generation in place), "rewrite" (through a temporary file)
\* or "protect" (rewrite_recovery_service); layout: of the archive as found;
\* adds: files still to be compressed; blocks, files, signature: what the new
\* directory says; sign, recovery: what the result must have.  request and
\* before are what was asked for and what the archive held, for the properties.
NoOp ==
  [mode |-> "none", layout |-> 0, adds |-> {}, blocks |-> {}, files |-> <<>>,
   signature |-> <<>>, sign |-> FALSE, recovery |-> FALSE,
   request |-> [keep |-> {}, adds |-> {}], before |-> <<>>]

Created(recovery) ==
  <<Header, Block(Base), Directory({2}, [i \in {Base} |-> 2], <<>>)>>
  \o (IF recovery THEN <<Recovery(3)>> ELSE <<>>) \o <<Footer(3)>>

\* A generation that changed nothing, appended to a created archive.
Appended ==
  LET first == Created(FALSE)
  IN  first \o <<first[3], Extension(1, ReadLayout(first)), Footer(5)>>

Init ==
  /\ disk \in {Created(FALSE), Created(TRUE), Appended}
  /\ temp = <<>> /\ pc = "idle" /\ op = NoOp /\ outcome = "none" /\ ops = 0

InPlace == op.mode = "append"
Staged == IF InPlace THEN disk ELSE temp

Put(f) == IF InPlace THEN disk' = f /\ UNCHANGED temp
                     ELSE temp' = f /\ UNCHANGED disk

Prefix(f, n) == SubSeq(f, 1, n)

\* archive_block_region_end
BlockRegionEnd(blocks) == Max(blocks \cup {1})

\* The caller has read the layout, the recovery service and the index.
\* Existing recovery data is kept up unless the operation is about it.  Updates of
\* damaged archives are left out.
Begin ==
  /\ pc = "idle" /\ ops < MaxOps /\ Opens(disk) /\ Whole(disk)
  /\ \E mode \in {"append", "rewrite", "protect"}, adds \in SUBSET Item,
        kept \in SUBSET DOMAIN Index(disk).files, sign, percent \in BOOLEAN :
       LET old == Index(disk)
       IN  /\ kept \cap adds = {}
           /\ mode = "protect" =>
                adds = {} /\ kept = DOMAIN old.files /\ ~sign
           /\ op' = [mode |-> mode, layout |-> ReadLayout(disk), adds |-> adds,
                     blocks |-> old.blocks,
                     files |-> [i \in kept |-> old.files[i]],
                     signature |-> <<>>, sign |-> sign,
                     recovery |-> percent \/ (mode # "protect" /\ HasRecovery(disk)),
                     request |-> [keep |-> kept, adds |-> adds],
                     before |-> old.files]
           /\ pc' = IF mode = "protect" THEN "protect" ELSE "stage"
  /\ ops' = ops + 1
  /\ outcome' = "running"
  /\ UNCHANGED <<disk, temp>>

\* Mutant: the previous end leaves the footer itself out.
TrimToFooter ==
  /\ pc = "stage" /\ InPlace
  /\ disk' = Prefix(disk, op.layout.footer - 1)
  /\ pc' = "blocks"
  /\ UNCHANGED <<temp, op, outcome, ops>>

\* An append first discards an incomplete generation behind the footer.
Trim ==
  /\ pc = "stage" /\ InPlace
  /\ disk' = Prefix(disk, op.layout.footer)
  /\ pc' = "blocks"
  /\ UNCHANGED <<temp, op, outcome, ops>>

\* A rewrite copies the header and everything up to the last block.
Copy ==
  /\ pc = "stage" /\ op.mode = "rewrite"
  /\ temp' = Prefix(disk, BlockRegionEnd(op.blocks))
  /\ pc' = "blocks"
  /\ UNCHANGED <<disk, op, outcome, ops>>

\* compress_items_into, one block a file.
WriteBlock(i) ==
  /\ pc = "blocks" /\ i \in op.adds
  /\ Put(Append(Staged, Block(i)))
  /\ op' = [op EXCEPT !.adds = @ \ {i},
                      !.blocks = @ \cup {Len(Staged) + 1},
                      !.files = [j \in DOMAIN @ \cup {i} |->
                                   IF j = i THEN Len(Staged) + 1 ELSE @[j]]]
  /\ UNCHANGED <<pc, outcome, ops>>

\* write_directory_and_footer: the directory, unsigned or signed.
WriteDirectory ==
  /\ \/ pc = "blocks" /\ op.adds = {}
     \/ pc = "directory"
  /\ Put(Append(Staged, Directory(op.blocks, op.files, op.signature)))
  /\ pc' = IF InPlace THEN "extension" ELSE "footer"
  /\ UNCHANGED <<op, outcome, ops>>

\* append_generation_trailer: the extension, then the footer.
WriteExtension ==
  /\ pc = "extension"
  /\ Put(Append(Staged, Extension(op.layout.generation + 1, op.layout)))
  /\ pc' = "footer"
  /\ UNCHANGED <<op, outcome, ops>>

Finished == IF InPlace THEN "report" ELSE "replace"

\* Mutant: nothing follows the signed trailer.
AfterFooterUnprotected ==
  IF op.sign /\ op.signature = <<>> THEN "sign"
  ELSE IF op.recovery /\ ~op.sign THEN "recovery" ELSE Finished

\* The provisional footer of an archive to be signed is followed by the
\* signature, the final one by the recovery data.
AfterFooter ==
  IF op.sign /\ op.signature = <<>> THEN "sign"
  ELSE IF op.recovery THEN "recovery" ELSE Finished

DirectoryWritten == Max({p \in DOMAIN Staged : Staged[p].kind = "directory"})

WriteFooter ==
  /\ pc = "footer"
  /\ Put(Append(Staged, Footer(DirectoryWritten)))
  /\ pc' = AfterFooter
  /\ UNCHANGED <<op, outcome, ops>>

\* Mutant: the signature is made from the directory alone, as if the trailer
\* had not been written yet.
SignBeforeTrailer ==
  /\ pc = "sign"
  /\ LET l == [ReadLayout(Staged) EXCEPT !.extension = 0]
     IN  op' = [op EXCEPT !.signature = <<Digest(Staged, l)>>]
  /\ pc' = "truncate"
  /\ UNCHANGED <<disk, temp, outcome, ops>>

\* The staged archive is read back and signed ...
Sign ==
  /\ pc = "sign"
  /\ op' = [op EXCEPT !.signature = <<Digest(Staged, ReadLayout(Staged))>>]
  /\ pc' = "truncate"
  /\ UNCHANGED <<disk, temp, outcome, ops>>

\* ... and cut back to where its directory began, to be finished again.
Truncate ==
  /\ pc = "truncate"
  /\ Put(Prefix(Staged, op.signature[1].prefix - 1))
  /\ pc' = "directory"
  /\ UNCHANGED <<op, outcome, ops>>

\* Mutant: the recovery data of the previous generation is overwritten.
StartRecoveryInPreviousPlace ==
  /\ pc = "recovery"
  /\ LET l == IF InPlace THEN op.layout ELSE ReadLayout(Staged)
     IN  Put(Append(Prefix(Staged, ProtectedEnd(l)), Torn))
  /\ pc' = "recovering"
  /\ UNCHANGED <<op, outcome, ops>>

\* append_recovery_to_staged_archive overwrites the footer with the service ...
StartRecovery ==
  /\ pc = "recovery"
  /\ Put(Append(Prefix(Staged, ProtectedEnd(ReadLayout(Staged))), Torn))
  /\ pc' = "recovering"
  /\ UNCHANGED <<op, outcome, ops>>

\* ... and writes the footer behind it again.
WriteRecovery ==
  /\ pc = "recovering"
  /\ LET end == Len(Staged) - 1
     IN  Put(Append(Prefix(Staged, end), Recovery(end)))
  /\ pc' = "last"
  /\ UNCHANGED <<op, outcome, ops>>

WriteLastFooter ==
  /\ pc = "last"
  /\ Put(Append(Staged, Footer(DirectoryWritten)))
  /\ pc' = Finished
  /\ UNCHANGED <<op, outcome, ops>>

\* rewrite_recovery_service builds the whole temporary file from the archive:
\* the protected bytes, the new service if any, the footer.
Protect ==
  /\ pc = "protect"
  /\ LET end == ProtectedEnd(op.layout)
     IN  temp' = Prefix(disk, end)
                 \o (IF op.recovery THEN <<Recovery(end)>> ELSE <<>>)
                 \o <<Footer(op.layout.directory)>>
  /\ pc' = "replace"
  /\ UNCHANGED <<disk, op, outcome, ops>>

\* replace_archive_file: one rename.
Replace ==
  /\ pc = "replace"
  /\ disk' = temp /\ temp' = <<>>
  /\ pc' = "report"
  /\ UNCHANGED <<op, outcome, ops>>

\* The last progress reports, then the return.
Return ==
  /\ pc = "report"
  /\ pc' = "idle" /\ outcome' = "ok"
  /\ UNCHANGED <<disk, temp, op, ops>>

\* What is left of an operation that did not return: the request.
Forgotten ==
  [NoOp EXCEPT !.mode = op.mode, !.layout = op.layout,
               !.request = op.request, !.before = op.before]

\* A write that fails or is interrupted may have left part of its bytes.
Tear(tail) ==
  disk' = IF InPlace /\ pc \in {"blocks", "directory", "extension", "footer", "last"}
          THEN disk \o tail ELSE disk

\* Any step may throw: an I/O error, cancellation, a header feature that turned
\* up late.  The temporary file is removed; an append goes on to roll back.
Fail ==
  /\ pc \notin {"idle", "rollback"}
  /\ pc = "report" => op.mode \notin {"protect", "repair"}
  /\ \E tail \in {<<>>, <<Torn>>} : Tear(tail)
  /\ temp' = <<>>
  /\ IF InPlace THEN pc' = "rollback" /\ UNCHANGED outcome
                ELSE pc' = "idle" /\ outcome' = "threw"
  /\ op' = Forgotten
  /\ UNCHANGED ops

\* The catch blocks truncate to the previous end; the error of the truncation
\* is ignored.
Rollback ==
  /\ pc = "rollback"
  /\ pc' = "idle"
  /\ \/ disk' = Prefix(disk, op.layout.footer) /\ outcome' = "threw"
     \/ UNCHANGED disk /\ outcome' = "stuck"
  /\ UNCHANGED <<temp, op, ops>>

\* The process ends; a temporary file is left behind and never looked at.
Crash ==
  /\ pc # "idle"
  /\ \E tail \in {<<>>, <<Torn>>} : Tear(tail)
  /\ pc' = "idle" /\ temp' = <<>> /\ outcome' = "crashed"
  /\ op' = Forgotten
  /\ UNCHANGED ops

----------------------------------------------------------------------------
(* Damage and repair.                                                      *)

\* Up to MaxHits segments in a row go bad; of a service, all or one parity shard.
Damage ==
  /\ pc = "idle" /\ Opens(disk) /\ Whole(disk)
  /\ \E from, to \in 1..LatestFooter(disk), slightly \in BOOLEAN :
       /\ from <= to /\ to < from + MaxHits
       /\ disk' = [p \in DOMAIN disk |->
                     IF p \notin from..to THEN disk[p]
                     ELSE IF slightly /\ disk[p].kind = "recovery"
                     THEN [disk[p] EXCEPT !.parity = @ - 1]
                     ELSE Damaged(disk[p])]
  /\ op' = NoOp /\ outcome' = "damaged"
  /\ UNCHANGED <<temp, pc, ops>>

\* Mutant: damaged parity shards are not counted.
RepairableByDataAlone(f) ==
  LET l == ReadLayout(f)
  IN  /\ f[l.footer - 1].protected = ProtectedEnd(l)
      /\ Cardinality(Lost(f, ProtectedEnd(l))) <= Parity

\* read_recovery_service accepts the service, and the damaged shards are no more
\* than the parity shards, the damaged ones among those counted too.
Repairable(f) ==
  LET l == ReadLayout(f)
      service == f[l.footer - 1]
  IN  /\ service.protected = ProtectedEnd(l)
      /\ Cardinality(Lost(f, ProtectedEnd(l))) + (Parity - service.parity) <= Parity

\* ReedSolomon::reconstruct of the first n shards of f, with so many parity shards.
Reconstructed(f, n, parity) ==
  IF Cardinality(Lost(f, n)) <= parity THEN Prefix(AsWritten(f), n) ELSE Prefix(f, n)

\* repair_archive: the directory is not read, only the layout; without a service
\* the answer is no, and what cannot be read or repaired is an exception.
Repair ==
  /\ pc = "idle"
  /\ op' = [NoOp EXCEPT !.mode = "repair", !.before = disk]
  /\ IF LayoutReadable(disk) /\ HasRecovery(disk) /\ Repairable(disk)
     THEN LET l == ReadLayout(disk)
              end == ProtectedEnd(l)
          IN  /\ temp' = Reconstructed(disk, end, disk[l.footer - 1].parity)
                         \o <<Recovery(end), Footer(l.directory)>>
              /\ pc' = "replace" /\ outcome' = "running"
     ELSE /\ outcome' = IF LayoutReadable(disk) /\ ~HasRecovery(disk)
                       THEN "refused" ELSE "threw"
          /\ UNCHANGED <<temp, pc>>
  /\ UNCHANGED <<disk, ops>>

----------------------------------------------------------------------------
Next ==
  \/ Begin \/ Trim \/ Copy
  \/ \E i \in Item : WriteBlock(i)
  \/ WriteDirectory \/ WriteExtension \/ WriteFooter
  \/ Sign \/ Truncate
  \/ StartRecovery \/ WriteRecovery \/ WriteLastFooter
  \/ Protect \/ Replace \/ Return
  \/ Fail \/ Rollback \/ Crash
  \/ Damage \/ Repair

Spec == Init /\ [][Next]_vars

----------------------------------------------------------------------------
Steps == {"idle", "stage", "protect", "blocks", "directory", "extension",
          "footer", "sign", "truncate", "recovery", "recovering", "last",
          "replace", "report", "rollback"}

\* The program counter and the outcome are known, and the running operation's
\* entries name blocks of its block table that are where the table says.
TypeOK ==
  /\ pc \in Steps
  /\ outcome \in {"none", "running", "ok", "threw", "stuck", "crashed", "damaged",
                  "refused"}
  /\ ops \in 0..MaxOps
  /\ disk # <<>> /\ Sound(disk[1]) = Header
  /\ \A i \in DOMAIN op.files : i \in Item /\ op.files[i] \in op.blocks
  /\ pc \in {"extension", "footer", "sign", "recovery"} =>
       \A i \in DOMAIN op.files : Staged[op.files[i]] = Block(i)

Updating == op.mode \in {"append", "rewrite", "protect"}

Intact(f) ==
  Opens(f) /\ \A i \in DOMAIN Index(f).files : f[Index(f).files[i]] = Block(i)

HoldsOld(f) == Index(f).files = op.before

\* All that was asked for: what is kept is the old data, what is added is new.
HoldsNew(f) ==
  LET files == Index(f).files
  IN  /\ DOMAIN files = op.request.keep \cup op.request.adds
      /\ \A i \in op.request.keep : files[i] = op.before[i]
      /\ \A i \in op.request.adds \cap DOMAIN op.before : files[i] # op.before[i]

\* At every moment, so after a crash at any moment, the archive opens and holds
\* either what it held before or all that was asked for, unless the last thing
\* in it that looks like a footer is the stored bytes of a file.
SurvivesPlainTail ==
  LET p == LatestFooter(disk)
  IN  (p = 0 \/ disk[p].kind = "footer") /\ Updating
        => Intact(disk) /\ (HoldsOld(disk) \/ HoldsNew(disk))

\* The same of a crash, without the exception: an interrupted append never costs
\* the previous generation (docs/CLI_GUIDE.md:188-190, docs/FORMAT.md:541-546).
InterruptedAppendSurvives ==
  outcome = "crashed" /\ Updating =>
    Intact(disk) /\ (HoldsOld(disk) \/ HoldsNew(disk))

\* An update that returns has done all that was asked, with a signature if one
\* was to be made and recovery data, over the right bytes, exactly when it must
\* have some; an append that throws has left the file ending at the previous
\* footer.  A repair that returns true has made the file again what it was when the
\* footer it found was written, whatever was damaged, and one that does not has
\* changed nothing.
ReturnsTruthfully ==
  pc = "idle" =>
    /\ outcome = "ok" /\ Updating =>
         LET l == ReadLayout(disk)
         IN  /\ Intact(disk) /\ HoldsNew(disk)
             /\ op.sign => Index(disk).signature # <<>>
             /\ HasRecovery(disk) = op.recovery
             /\ op.recovery => disk[l.footer - 1].protected = ProtectedEnd(l)
    /\ outcome = "threw" /\ InPlace =>
         Len(disk) = op.layout.footer /\ HoldsOld(disk)
    /\ op.mode = "repair" =>
         /\ outcome = "ok" =>
              disk = Prefix(AsWritten(op.before), LatestFooter(op.before))
         /\ outcome \in {"threw", "refused"} => disk = op.before

\* Damage of the range the newest generation's service protects, of no more shards
\* than it has parity, and of nothing else: a repair that returns true gives back
\* the whole archive (docs/FORMAT.md:690-693, 715-717).
RepairKeepsNewest ==
  LET found == op.before
      whole == AsWritten(found)
      last == LatestFooter(whole)
      covered == 1..ProtectedEnd(ReadLayout(whole))
  IN  /\ op.mode = "repair" /\ outcome = "ok" /\ HasRecovery(whole)
      /\ Lost(found, Len(found)) \subseteq covered
      /\ Cardinality(Lost(found, Len(found))) <= Parity
      => disk = Prefix(whole, last)

\* No step of an append changes a byte in front of the end of the generation it
\* found, the file's recovery data and footer included.
PreviousKept ==
  [][op'.mode = "append" =>
       /\ Len(disk') >= op'.layout.footer
       /\ Prefix(disk', op'.layout.footer) = Prefix(disk, op'.layout.footer)]_vars

\* Cutting the archive at the footer its generation names as the previous one
\* gives an archive that opens as the generation before it.
HistoryReachable ==
  Opens(disk) /\ Whole(disk) /\ ReadLayout(disk).extension # 0 =>
    LET l == ReadLayout(disk)
        past == Prefix(disk, disk[l.extension].prevFooter)
    IN  /\ Intact(past)
        /\ ReadLayout(past).footer = Len(past)
        /\ ReadLayout(past).generation + 1 = l.generation

\* Whenever the archive opens and carries a signature, the signature is that of
\* what a reader digests: also in a file that was cut short and reopened, in an
\* appended generation, and after its recovery data was replaced.
SignatureVerifies ==
  Opens(disk) /\ Whole(disk) /\ Index(disk).signature # <<>> =>
    Index(disk).signature = <<Digest(disk, ReadLayout(disk))>>
=============================================================================
