------------------------------ MODULE RoundTrip ------------------------------
(***************************************************************************)
(* An archive is made of a source tree; the tree changes; the archive is   *)
(* brought up to date, by the command line or, for inputs dropped into an  *)
(* open archive, by the graphical shell with its preview; and what results *)
(* is extracted into an empty destination.  Besides, given archives are    *)
(* extracted into given destinations, under faults.                        *)
(*                                                                         *)
(* UpdatePlan decides each update and each preview, Extraction takes every *)
(* step of an extraction.  The scan, the decision and the writing of one   *)
(* update are one step here (what changes while the files are read is part *)
(* of SolidBlocks); between the steps of the shell the source may change.  *)
(***************************************************************************)
EXTENDS Extraction

CONSTANTS
  Order,      \* the paths of the source in the order of the scan
  Sources,    \* the trees the archive may be made of
  Jobs,       \* updates: mode, mapped, inputs, and what the archive is made of
  Rewritten,  \* the content of a file that is written
  MaxTime,    \* bound: times given to what changes are 1..MaxTime
  MaxEdits,   \* bound: changes of the source
  Cases       \* extractions: archive, before, options

VARIABLES
  source,     \* the source tree: path -> node, content, time, target
  edits,      \* changes left
  job,        \* the update
  phase,
  plan,       \* the rows of the preview
  quiet,      \* the source is what it was when the preview was made
  was,        \* the archive before the update
  items       \* what the update scanned

jobVars == <<source, edits, job, phase, plan, quiet, was, items>>
vars == <<jobVars, extractVars>>

Empty == [tree |-> [p \in Prefixes(Root) |-> Dir], data |-> <<>>]
Everything == [policy |-> "all", request |-> {}, strict |-> FALSE, damaged |-> {},
               faults |-> FALSE]
NoJob == [mode |-> "none", mapped |-> FALSE, inputs |-> <<>>, made |-> <<>>]

Scanned == Scan(source, Order, job.inputs)

\* What has one node is one file; a file has a time, which a hard link in an archive
\* has not.
IsSourceNode(node) ==
  /\ node = [kind |-> node.kind, node |-> node.node, content |-> node.content,
             mtime |-> node.mtime, target |-> node.target, closed |-> node.closed]
  /\ node.kind \in {"file", "dir", "symlink"}
  /\ node.node \in Nat /\ node.mtime \in Nat
  /\ node.kind = "file" => node.mtime # 0
  /\ node.kind = "symlink" => node.target \in Path
  /\ IsSequence(node.content)

IsSource(tr) ==
  /\ IsFiniteSet(DOMAIN tr)
  /\ \A p \in DOMAIN tr : IsSourceNode(tr[p])
  /\ \A p, q \in DOMAIN tr :
       tr[p].kind = "file" /\ tr[q].kind = "file" /\ tr[p].node = tr[q].node
         => tr[p].content = tr[q].content

AreInputs(inputs) ==
  /\ IsSequence(inputs)
  /\ \A k \in DOMAIN inputs : inputs[k].from \in Path /\ Named(inputs[k].to)

\* The archive an update begins with was made of items that passed validation.
ASSUME RoundTripAssumption ==
  /\ IsSequence(Order) /\ Order # <<>> /\ \A k \in DOMAIN Order : Named(Order[k])
  /\ IsSequence(Rewritten)
  /\ MaxTime \in Nat /\ MaxEdits \in Nat
  /\ \A tr \in Sources : IsSource(tr)
  /\ \A j \in Jobs : AreInputs(j.inputs) /\ AreInputs(j.made)
  /\ \A tr \in Sources, j \in Jobs : IncomingValid(Scan(tr, Order, j.made))
  /\ \A c \in Cases : /\ IsArchive(c.archive) /\ IsFileSystem(c.before)
                       /\ c.options.policy \in Policies

Init ==
  /\ \/ /\ \E tr \in Sources, j \in Jobs :
             source = tr /\ job = j /\ archive = Stored(Scan(tr, Order, j.made))
        /\ phase = "idle" /\ pc = "idle" /\ edits = MaxEdits
        /\ before = Empty /\ options = Everything
     \/ /\ \E c \in Cases :
             archive = c.archive /\ before = c.before /\ options = c.options
        /\ phase = "given" /\ pc = "start" /\ edits = 0
        /\ source = <<>> /\ job = NoJob
  /\ tree = before.tree /\ data = before.data
  /\ todo = <<>> /\ links = <<>> /\ dirs = <<>>
  /\ staged = 0 /\ written = {} /\ warned = {}
  /\ copied = [paths |-> {}, inodes |-> {}]
  /\ ignored = {}
  /\ plan = {} /\ quiet = TRUE /\ was = archive /\ items = <<>>

----------------------------------------------------------------------------
(* The source changes.                                                     *)

NewNode == 1 + Max({0} \cup {source[p].node : p \in DOMAIN source})

Blank == [kind |-> "dir", node |-> 0, content |-> <<>>, mtime |-> 0, target |-> <<>>,
          closed |-> FALSE]

\* What may be put at a path.
Nodes ==
  {[Blank EXCEPT !.kind = "file", !.node = NewNode, !.content = Rewritten, !.mtime = t] :
     t \in 1..MaxTime}
  \cup {source[q] : q \in {q \in DOMAIN source : source[q].kind = "file"}}
  \cup {Blank, [Blank EXCEPT !.kind = "symlink", !.target = Last(Order)]}

Put(p) ==
  /\ KindAt(source, Front(p)) = "dir"
  /\ \E node \in Nodes :
       source' = Setting(Restrict(source, {q \in DOMAIN source : ~Below(q, p)}), p, node)

Deleted(p) ==
  /\ p \in DOMAIN source
  /\ source' = Restrict(source, {q \in DOMAIN source : ~IsPrefix(p, q)})

\* A file is written through any of its links.
Rewrite(p) ==
  /\ KindAt(source, p) = "file"
  /\ \E t \in 1..MaxTime :
       source' = [q \in DOMAIN source |->
                    IF source[q].kind = "file" /\ source[q].node = source[p].node
                    THEN [source[q] EXCEPT !.content = Rewritten, !.mtime = t]
                    ELSE source[q]]

\* The right to read a directory is withdrawn.
Close(p) ==
  /\ KindAt(source, p) = "dir"
  /\ ~source[p].closed
  /\ source' = [source EXCEPT ![p].closed = TRUE]

Edit ==
  /\ phase \in {"idle", "review", "approved"}
  /\ edits > 0
  /\ edits' = edits - 1
  /\ \E p \in Range(Tail(Order)) : Put(p) \/ Deleted(p) \/ Rewrite(p) \/ Close(p)
  /\ quiet' = FALSE
  /\ UNCHANGED <<job, phase, plan, was, items, extractVars>>

----------------------------------------------------------------------------
(* The update.                                                             *)

Ready == phase = IF job.mapped THEN "approved" ELSE "idle"

\* The paths given are validated against each other, mapped ones also against the
\* archive.
Refusing ==
  \/ ScanFails(source, job.inputs)
  \/ IF job.mapped THEN ~MappedValid(Scanned, archive) ELSE ~IncomingValid(Scanned)

Refuses ==
  /\ Ready
  /\ Refusing
  /\ phase' = "refused"
  /\ UNCHANGED <<source, edits, job, plan, quiet, was, items, extractVars>>

Execute ==
  /\ Ready
  /\ ~Refusing
  /\ items' = Scanned
  /\ archive' = Updated(Scanned, archive, job.mode)
  /\ phase' = "updated"
  /\ UNCHANGED <<source, edits, job, plan, quiet, was, before, options, pc, fsVars,
                 queueVars, staged, written, warned, copied, ignored>>

Preview ==
  /\ phase = "idle" /\ job.mapped
  /\ IF ScanFails(source, job.inputs)
     THEN phase' = "refused" /\ UNCHANGED <<plan, quiet>>
     ELSE phase' = "review" /\ quiet' = TRUE /\ plan' = Plan(Scanned, archive, job.mode)
  /\ UNCHANGED <<source, edits, job, was, items, extractVars>>

\* An approved plan is made again; one that differs is presented in its turn.
Approve ==
  /\ phase = "review"
  /\ CanApply(plan)
  /\ IF ScanFails(source, job.inputs)
     THEN phase' = "refused" /\ UNCHANGED <<plan, quiet>>
     ELSE LET again == Plan(Scanned, archive, job.mode)
          IN  /\ phase' = IF again = plan THEN "approved" ELSE "review"
              /\ plan' = again
              /\ quiet' = TRUE
  /\ UNCHANGED <<source, edits, job, was, items, extractVars>>

Cancel ==
  /\ phase = "review"
  /\ phase' = "cancelled"
  /\ UNCHANGED <<source, edits, job, plan, quiet, was, items, extractVars>>

Restore ==
  /\ phase = "updated" /\ pc = "idle"
  /\ pc' = "start"
  /\ UNCHANGED <<jobVars, before, archive, options, fsVars, queueVars, staged, written,
                 warned, copied, ignored>>

Extract == ExtractNext /\ UNCHANGED jobVars

Terminated == (phase \in {"refused", "cancelled"} \/ Ended) /\ UNCHANGED vars

Next == \/ Edit \/ Refuses \/ Execute \/ Preview \/ Approve \/ Cancel \/ Restore
        \/ Extract \/ Terminated

Spec == Init /\ [][Next]_vars

----------------------------------------------------------------------------
(* Properties.                                                             *)

\* The hard links reached from a hard link by way of the paths they name: where a path
\* is used twice, one may name another.
HardLinks == {i \in DOMAIN archive : archive[i].kind = "hardlink"}
Closed(S) ==
  \A i \in S, j \in HardLinks : archive[j].path = archive[i].target => j \in S
Chain(i) == {j \in HardLinks : \A S \in SUBSET HardLinks : i \in S /\ Closed(S) => j \in S}

\* What the file of an entry may contain: a path used twice has several files.
ContentsOf(i) ==
  IF archive[i].kind = "file" THEN {archive[i].content}
  ELSE {archive[j].content : j \in {j \in DOMAIN archive :
                                     /\ archive[j].kind = "file"
                                     /\ \E k \in Chain(i) : archive[j].path = archive[k].target}}

HoldsFile(p, contents) == KindAt(tree, p) = "file" /\ data[tree[p].inode] \in contents

\* At every moment, whatever fails or is killed, a file of the destination is one
\* that was there before or has the complete, verified content of the entry of its
\* path; partial content exists only under the staging name, which is gone when the
\* extraction ends otherwise than by being killed.  Only the copy that stands in for
\* a hard link is exempt (StagedFile and the order of verification and renaming).
WholeFilesOnly ==
  /\ \A p \in DOMAIN tree :
       (/\ tree[p].kind = "file" /\ Below(p, Root) /\ Last(p) # StagingName
        /\ tree[p].inode \notin copied.inodes)
       => \/ tree[p].inode \in DOMAIN before.data
             /\ p \in DOMAIN before.tree /\ before.tree[p] = tree[p]
          \/ \E i \in Chosen : /\ Root \o archive[i].path = p
                               /\ archive[i].kind \in {"file", "hardlink"}
                               /\ HoldsFile(p, ContentsOf(i))
  /\ pc \in {"done", "failed"} => \A p \in DOMAIN tree \ {<<>>} : Last(p) # StagingName

\* What the extraction was not asked to replace stays as it was: everything outside
\* the destination, every file that shares its inode with one that is replaced, and
\* under `skip` and `fail` every file and link that was there.
OthersUntouched ==
  /\ \A inode \in DOMAIN before.data :
       inode \in copied.inodes \/ data[inode] = before.data[inode]
  /\ \A p \in DOMAIN tree \cup DOMAIN before.tree :
       \/ p = <<>> \/ IsPrefix(Root, p) \/ p \in copied.paths
       \/ p \in DOMAIN tree \cap DOMAIN before.tree /\ tree[p] = before.tree[p]
  /\ options.policy # "all" =>
       \A p \in DOMAIN before.tree :
         before.tree[p].kind # "dir" => p \in DOMAIN tree /\ tree[p] = before.tree[p]

\* An entry is at its path as the archive has it; a directory with its times.
EntryInPlace(i) ==
  LET e == archive[i]
      p == Root \o e.path
  IN  CASE e.kind = "dir" -> KindAt(tree, p) = "dir" /\ tree[p].restored
        [] e.kind = "symlink" -> KindAt(tree, p) = "link" /\ tree[p].to = e.target
        [] OTHER -> HoldsFile(p, ContentsOf(i))

\* A file of the user, of the archive or of copy_file.
FileInTheWay(q) ==
  \/ KindAt(before.tree, q) = "file"
  \/ \E j \in Chosen : Root \o archive[j].path = q /\ FileLike(archive[j].kind)
  \/ q \in copied.paths

\* An entry that need not be in place: a warning names it, `skip` found something where
\* it goes, a directory has a file in its way or met with an error that the code does not
\* look at (create_directories, the directory's last_write_time), or the path is used by
\* another entry or by copy_file.
LetBe(i) ==
  LET e == archive[i]
      p == Root \o e.path
  IN  \/ e.path \in warned
      \/ p \in copied.paths
      \/ /\ options.policy = "skip" /\ e.kind # "dir"
         /\ \/ p \in DOMAIN before.tree
            \/ \E j \in Chosen : Below(archive[j].path, e.path)
      \/ /\ e.kind = "dir"
         /\ e.path \in ignored \/ \E q \in Prefixes(p) : FileInTheWay(q)
      \/ \E j \in Chosen \ {i} : archive[j].path = e.path

Excused(i) ==
  LET p == Root \o archive[i].path
  IN  LetBe(i) \/ (KindAt(tree, p) = "file" /\ tree[p].inode \in copied.inodes)

\* An extraction that reports success has put every selected entry in place, with
\* directory times intact, but for entries that need not be and files that copy_file
\* wrote in place of a hard link.
DoneMeansRestored == pc = "done" => \A i \in Chosen : Excused(i) \/ EntryInPlace(i)

\* Under strict_metadata an extraction that reports success has lost no metadata, as
\* docs/CLI_GUIDE.md promises: the directories it has restored have their times.
StrictRestoresTimes ==
  pc = "done" /\ options.strict =>
    \A i \in Chosen :
      archive[i].kind = "dir" /\ KindAt(tree, Root \o archive[i].path) = "dir"
        => tree[Root \o archive[i].path].restored

\* The update kept the entry the archive had.
Kept(it) ==
  /\ it.path \in PathsOf(was)
  /\ \/ it.kind = "file" /\ it.mtime <= FirstAt(was, it.path).mtime
     \/ it.kind = "symlink" /\ FirstAt(was, it.path).kind = "symlink"

KindsAgree ==
  \A i \in DOMAIN items :
    items[i].path \in PathsOf(was)
      => SameClass(FirstAt(was, items[i].path).kind, items[i].kind)

SourceRebuilt ==
  LET seen == {p \in DOMAIN source : ~Hidden(source, Head(Order), p)}
  IN  /\ {p \in DOMAIN tree : Below(p, Root)} = {Root \o p : p \in seen}
      /\ \A p \in seen :
           LET s == source[p]
               q == Root \o p
           IN  \/ Kept(Item(p, s))
               \/ CASE s.kind = "dir" -> tree[q].kind = "dir"
                    [] s.kind = "symlink" -> tree[q].kind = "link" /\ tree[q].to = s.target
                    [] OTHER -> HoldsFile(q, {s.content})

\* The extraction of what a sync of the whole source left has rebuilt the source, but for
\* files the source had not renewed, links that only changed their target, and what lies in
\* a directory the scan was not allowed to read.
SyncRebuildsSource ==
  pc = "done" /\ phase = "updated" /\ job.mode = "sync" /\ KindsAgree => SourceRebuilt

\* What the shell's preview shows is what happens, though the two are computed by
\* different code: it shows a conflict exactly when the update would be refused, and
\* as long as the source stays as it was when the plan was made for the last time,
\* the approved update is not refused, adds, replaces and removes what its rows say
\* and leaves every other entry as it was.
SourceOf(p) == FirstAt(items, p).content

StoredContent(p) ==
  LET e == FirstAt(archive, p)
  IN  IF e.kind = "hardlink" THEN FirstAt(archive, e.target).content ELSE e.content

ApprovedIsExecuted ==
  job.mapped /\ quiet =>
    /\ phase \in {"review", "approved"} =>
         (RowsOf(plan, "conflict") = {} <=> MappedValid(Scanned, archive))
    /\ phase = "refused" => ScanFails(source, job.inputs)
    /\ phase = "updated" =>
         /\ PathsOf(archive) =
              (PathsOf(was) \cup RowsOf(plan, "add")) \ RowsOf(plan, "remove")
         /\ \A p \in PathsOf(archive) :
              IF p \in RowsOf(plan, "add") \cup RowsOf(plan, "replace")
              THEN StoredContent(p) = SourceOf(p)
              ELSE FirstAt(archive, p) = FirstAt(was, p)

\* `test` foretells what a faultless extraction into an empty directory does: it fails
\* exactly if the extraction has to fail, and an archive it has no warning about
\* comes out without a warning (check_directory_structure says of what it reports
\* that it cannot be restored as stored, or not faithfully).
TestForetells ==
  before = Empty /\ options = Everything =>
    /\ pc = "failed" => TestFails(archive) \/ TestWarns(archive)
    /\ pc = "done" => ~TestFails(archive) /\ (warned # {} => TestWarns(archive))
=============================================================================
