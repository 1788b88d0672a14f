----------------------------- MODULE Extraction -----------------------------
(***************************************************************************)
(* extract_entries_impl of src/src/archive/container.cpp with StagedFile   *)
(* of src/src/core/exclusive_file.hpp: the entries of an archive go into a *)
(* destination that may hold files and links already.  The steps are those *)
(* between which the process may die, an operation of the file system may  *)
(* fail or the user may cancel.                                            *)
(*                                                                         *)
(* The file system is a function from paths to nodes: directories, links   *)
(* to a path, and files, which name an inode; several files may name one.  *)
(* An inode holds a sequence of slices, a slice being what one callback of *)
(* the reader delivers.  The only times modelled are those of directories, *)
(* which a change beneath them disturbs.                                   *)
(***************************************************************************)
EXTENDS UpdatePlan, Functions

CONSTANTS Root,         \* the path of the destination
          StagingName,  \* the name of a staging file, like no other
          Bad           \* a slice that does not belong to the file

VARIABLES
  before,   \* the file system when the extraction begins: its tree and inodes
  archive,  \* the entries of the archive
  options,  \* policy, request, strict; damaged: contents stored wrongly;
            \* faults: whether the process may be killed, cancelled or see an
            \* operation of the file system fail
  pc,
  tree,     \* the file system: path -> node
  data,     \* inode -> slices
  todo,     \* selected entries still to come
  staged,   \* inode of the StagedFile, 0 if there is none
  written,  \* written: file entries this run has put in place
  links,    \* deferred_symlinks
  dirs,     \* deferred_dirs
  warned,   \* paths for which a warning was added
  copied,   \* paths, inodes: what the copy that replaces a hard link wrote to
  ignored   \* history: paths of directories for which an error was not looked at

fsVars == <<tree, data>>
queueVars == <<todo, links, dirs>>
extractVars == <<before, archive, options, pc, fsVars, queueVars, staged, written,
                 warned, copied, ignored>>

----------------------------------------------------------------------------
(* The file system.                                                        *)

Dir == [kind |-> "dir", restored |-> FALSE]
Link(to) == [kind |-> "link", to |-> to]
File(inode) == [kind |-> "file", inode |-> inode]

\* The function f, changed or extended at x.
Setting(f, x, y) == [z \in DOMAIN f \cup {x} |-> IF z = x THEN y ELSE f[z]]

KindAt(t, p) == IF p \in DOMAIN t THEN t[p].kind ELSE "none"

Follow(t, p) == IF KindAt(t, p) = "link" THEN t[p].to ELSE p

\* Where an operation on p ends up: links among its ancestors are followed.
Real(t, p) ==
  LET parent[k \in 0..(Len(p) - 1)] ==
        IF k = 0 THEN <<>> ELSE Follow(t, Append(parent[k - 1], p[k]))
  IN  Append(parent[Len(p) - 1], Last(p))

\* A change of an entry of a directory changes the directory's time.
Touched(t, d) == IF KindAt(t, d) = "dir" THEN [t EXCEPT ![d] = Dir] ELSE t
With(t, p, node) == Setting(Touched(t, Front(Real(t, p))), Real(t, p), node)
Without(t, p) == Restrict(Touched(t, Front(Real(t, p))), DOMAIN t \ {Real(t, p)})

\* symlink_status
Exists(t, p) == Real(t, p) \in DOMAIN t

\* remove() of a file, a link or an empty directory.
Removable(t, p) ==
  KindAt(t, Real(t, p)) = "dir" => \A q \in DOMAIN t : ~Below(q, Real(t, p))

\* A new entry can be made at p.
Writable(t, p) == KindAt(t, Front(Real(t, p))) = "dir"

\* create_directories where nothing fails but what has something else in the way.
WithDirectories(t, p) ==
  LET made[k \in Len(Root)..Len(p)] ==
        IF k = Len(Root) THEN t
        ELSE LET u == made[k - 1]
                 q == SubSeq(p, 1, k)
             IN  IF Exists(u, q) \/ ~Writable(u, q) THEN u ELSE With(u, q, Dir)
  IN  made[Len(p)]

\* create_directories, which may give up on the way with an error the code does not
\* look at.
Directories(t, p) ==
  {WithDirectories(t, q) :
     q \in IF options.faults THEN {q \in Prefixes(p) : IsPrefix(Root, q)} ELSE {p}}

\* reject_symlinked_ancestor refuses p.
ThroughLink(t, p) ==
  \E k \in (Len(Root) + 1)..(Len(p) - 1) : KindAt(t, Real(t, SubSeq(p, 1, k))) = "link"

\* A staging file is beside its target.
StagingPath(p) == Append(Front(p), StagingName)

Path == Seq(STRING)

\* The path of something in an archive or a source.
Named(p) == p \in Path /\ p # <<>> /\ StagingName \notin Range(p)

ASSUME RootAssumption == Named(Root) /\ StagingName \in STRING

\* What to do where something exists: ConflictPolicy.
Policies == {"fail", "skip", "all"}

IsSequence(s) == s \in Seq(Range(s))

IsArchive(list) ==
  /\ IsSequence(list)
  /\ \A i \in DOMAIN list :
       /\ Named(list[i].path)
       /\ list[i].kind \in {"file", "dir", "symlink", "hardlink"}
       /\ list[i].kind = "symlink" => list[i].target \in Path
       /\ IsSequence(list[i].content)

\* A link leads to a path without links: what is a chain of links elsewhere is one link
\* to its end here.  The destination is reached without links.
IsFileSystem(fs) ==
  /\ IsSequence(fs.data)
  /\ \A inode \in DOMAIN fs.data : IsSequence(fs.data[inode])
  /\ Prefixes(Root) \subseteq DOMAIN fs.tree
  /\ \A p \in Prefixes(Root) : fs.tree[p].kind = "dir"
  /\ \A p \in DOMAIN fs.tree :
       LET node == fs.tree[p]
       IN  /\ p \in Path
           /\ p # <<>> => Last(p) # StagingName /\ KindAt(fs.tree, Front(p)) = "dir"
           /\ \/ node = Dir
              \/ node.kind = "file" /\ node = File(node.inode) /\ node.inode \in DOMAIN fs.data
              \/ /\ node.kind = "link" /\ node = Link(node.to) /\ node.to \in Path
                 /\ node.to # <<>> => Last(node.to) # StagingName
                 /\ \A q \in Prefixes(node.to) : KindAt(fs.tree, q) # "link"

----------------------------------------------------------------------------
(* Selection.                                                              *)

Matches(request, list) ==
  {i \in DOMAIN list :
     \/ list[i].path = request /\ FirstIndex(list, request) = i
     \/ /\ Below(list[i].path, request)
        /\ request \in PathsOf(list) => FirstAt(list, request).kind = "dir"}

\* selected
Selection(list, request) ==
  IF request = {} THEN DOMAIN list ELSE UNION {Matches(p, list) : p \in request}

Chosen == Selection(archive, options.request)

\* The extraction starts with no request for all entries.  A request that matches
\* nothing and a hard link to nothing end it before anything is written.
Start ==
  /\ pc = "start"
  /\ IF \/ \E p \in options.request : Matches(p, archive) = {}
        \/ Chosen \cap Dangling(archive) # {}
     THEN pc' = "failed" /\ UNCHANGED todo
     ELSE /\ pc' = "entry"
          /\ todo' = Picked([i \in DOMAIN archive |-> i], Chosen)
  /\ UNCHANGED <<before, archive, options, fsVars, links, dirs, staged, written, warned,
                 copied, ignored>>

----------------------------------------------------------------------------
(* Entries, in the order of the directory.                                 *)

E == archive[Head(todo)]
Target == Root \o E.path
Canonical == FirstIndex(archive, E.target)
Original == Root \o E.target

\* Mutant: the file the link names is enough.
RelinksWhatIsThere ==
  E.kind = "hardlink" /\ KindAt(tree, Real(tree, Original)) = "file"

\* A hard link is made only to a file this run has written; otherwise it becomes a
\* file of its own.
Relinks == E.kind = "hardlink" /\ Canonical \in written

\* The target gets bytes of its own.
IsBody == E.kind = "file" \/ (E.kind = "hardlink" /\ ~Relinks)

\* The entry whose bytes go to the target.
Body == IF E.kind = "hardlink" THEN archive[Canonical] ELSE E

Entered == pc = "entry" /\ todo # <<>>

Refused ==
  \/ Head(todo) \in Unsafe(archive)
  \/ ThroughLink(tree, Target)
  \/ Relinks /\ ThroughLink(tree, Original)
  \/ E.kind = "dir" /\ KindAt(tree, Target) = "link"

Blocked(policy) == Exists(tree, Target) /\ options.policy = policy

EntryDone == todo' = Tail(todo)

Refuse ==
  /\ Entered
  /\ \/ Refused
     \/ E.kind \in {"file", "hardlink"} /\ Blocked("fail")
  /\ pc' = "throw"
  /\ UNCHANGED <<before, archive, options, fsVars, queueVars, staged, written, warned,
                 copied, ignored>>

Skip ==
  /\ Entered
  /\ ~Refused
  /\ E.kind \in {"file", "hardlink"}
  /\ Blocked("skip")
  /\ EntryDone
  /\ UNCHANGED <<before, archive, options, pc, fsVars, links, dirs, staged, written,
                 warned, copied, ignored>>

DeferLink ==
  /\ Entered
  /\ ~Refused
  /\ E.kind = "symlink"
  /\ links' = Append(links, Head(todo))
  /\ EntryDone
  /\ UNCHANGED <<before, archive, options, pc, fsVars, dirs, staged, written, warned,
                 copied, ignored>>

\* Mutant: the metadata of a directory is restored as soon as it is made.
MakeDirectoryAtOnce ==
  /\ Entered
  /\ ~Refused
  /\ E.kind = "dir"
  /\ \E t \in Directories(tree, Target) :
       tree' = IF KindAt(t, Target) = "dir" THEN [t EXCEPT ![Target].restored = TRUE] ELSE t
  /\ EntryDone
  /\ UNCHANGED <<before, archive, options, pc, data, links, dirs, staged, written, warned,
                 copied, ignored>>

\* A directory's metadata waits until the end; what is no directory gets none, and one
\* that could not be made is passed over in silence.
MakeDirectory ==
  /\ Entered
  /\ ~Refused
  /\ E.kind = "dir"
  /\ tree' \in Directories(tree, Target)
  /\ dirs' = IF KindAt(tree', Target) = "dir" THEN Append(dirs, Head(todo)) ELSE dirs
  /\ ignored' = IF tree' = WithDirectories(tree, Target) THEN ignored
                ELSE ignored \cup {E.path}
  /\ EntryDone
  /\ UNCHANGED <<before, archive, options, pc, data, links, staged, written, warned,
                 copied>>

\* The existing target is removed, and a failure to do so ignored.
Removals(t, p) ==
  IF ~Exists(t, p) THEN {t}
  ELSE (IF Removable(t, p) THEN {Without(t, p)} ELSE {t})
       \cup (IF options.faults THEN {t} ELSE {})

\* copy_file with overwrite_existing, which follows a link at its target, and refuses
\* to copy what is no file or is the target itself.  It may break off with part of the
\* bytes copied.  Neither error is looked at.
Copied(t) ==
  LET o == Real(t, Original)
      p == Real(t, Target)
      q == Follow(t, p)
      Cut(s) == SubSeq(s, 1, Len(s) - 1)
      all == data[t[o].inode]
      Contents == {all} \cup (IF options.faults /\ all # <<>> THEN {Cut(all)} ELSE {})
      Failed == [tree |-> t, data |-> data, paths |-> {Target}, inodes |-> {}]
  IN  CASE KindAt(t, o) = "file" /\ KindAt(t, q) = "file" /\ t[o] # t[q] ->
             {[tree |-> t, data |-> [data EXCEPT ![t[q].inode] = c],
               paths |-> {Target, q}, inodes |-> {t[q].inode}] : c \in Contents}
        [] KindAt(t, o) = "file" /\ KindAt(t, q) = "none" /\ Writable(t, q) ->
             {[tree |-> With(t, q, File(Len(data) + 1)), data |-> Append(data, c),
               paths |-> {Target, q}, inodes |-> {Len(data) + 1}] : c \in Contents}
             \cup (IF options.faults THEN {Failed} ELSE {})
        [] OTHER -> {Failed}

\* The link is made to what is at the path of the canonical entry once the target is
\* out of the way.
Relink ==
  /\ Entered
  /\ ~Refused
  /\ Relinks
  /\ ~Blocked("fail") /\ ~Blocked("skip")
  /\ \E u \in Directories(tree, Front(Target)) : \E t \in Removals(u, Target) :
       LET Links == /\ KindAt(t, Real(t, Original)) = "file"
                    /\ ~Exists(t, Target) /\ Writable(t, Target)
       IN  \/ /\ Links
              /\ tree' = With(t, Target, t[Real(t, Original)])
              /\ UNCHANGED <<data, copied>>
           \/ /\ options.faults \/ ~Links
              /\ \E c \in Copied(t) :
                   /\ tree' = c.tree /\ data' = c.data
                   /\ copied' = [paths |-> copied.paths \cup c.paths,
                                inodes |-> copied.inodes \cup c.inodes]
  /\ EntryDone
  /\ UNCHANGED <<before, archive, options, pc, links, dirs, staged, written, warned,
                 ignored>>

----------------------------------------------------------------------------
(* A file.                                                                 *)

\* Mutant: the bytes are written to the file itself.
StageInPlace ==
  /\ Entered
  /\ ~Refused
  /\ IsBody
  /\ ~Blocked("fail") /\ ~Blocked("skip")
  /\ \E t \in Directories(tree, Front(Target)) :
     LET q == Follow(t, Real(t, Target))
     IN  IF KindAt(t, q) = "file"
         THEN /\ data' = [data EXCEPT ![t[q].inode] = <<>>]
              /\ staged' = t[q].inode
              /\ tree' = With(t, StagingPath(Target), File(t[q].inode))
              /\ pc' = "write"
         ELSE /\ tree' = IF Writable(t, Target)
                         THEN With(t, StagingPath(Target), File(Len(data) + 1)) ELSE t
              /\ IF Writable(t, Target)
                 THEN pc' = "write" /\ data' = Append(data, <<>>) /\ staged' = Len(data) + 1
                 ELSE pc' = "throw" /\ UNCHANGED <<data, staged>>
  /\ UNCHANGED <<before, archive, options, queueVars, written, warned, copied,
                 ignored>>

\* StagedFile: a new file beside the target, unless it cannot be created.
Stage ==
  /\ Entered
  /\ ~Refused
  /\ IsBody
  /\ ~Blocked("fail") /\ ~Blocked("skip")
  /\ \E t \in Directories(tree, Front(Target)) :
       \/ /\ Writable(t, Target)
          /\ tree' = With(t, StagingPath(Target), File(Len(data) + 1))
          /\ data' = Append(data, <<>>)
          /\ staged' = Len(data) + 1
          /\ pc' = "write"
       \/ /\ options.faults \/ ~Writable(t, Target)
          /\ tree' = t
          /\ pc' = "throw"
          /\ UNCHANGED <<data, staged>>
  /\ UNCHANGED <<before, archive, options, queueVars, written, warned, copied,
                 ignored>>

\* The reader delivers the next slice, which may be wrong where no checksum of a
\* block is there to notice.
WriteSlice ==
  /\ pc = "write"
  /\ Len(data[staged]) < Len(Body.content)
  /\ LET next == Len(data[staged]) + 1
         slice == IF next = 1 /\ Body.content \in options.damaged THEN Bad
                  ELSE Body.content[next]
     IN  data' = [data EXCEPT ![staged] = Append(@, slice)]
  /\ UNCHANGED <<before, archive, options, pc, tree, queueVars, staged, written, warned,
                 copied, ignored>>

\* Size, CRC-32 and BLAKE3.
Verify ==
  /\ pc = "write"
  /\ Len(data[staged]) = Len(Body.content)
  /\ pc' = IF data[staged] = Body.content THEN "place" ELSE "throw"
  /\ UNCHANGED <<before, archive, options, fsVars, queueVars, staged, written, warned,
                 copied, ignored>>

Renamed(t) == With(Without(t, StagingPath(Target)), Target, File(staged))

\* rename(); if it fails, once more after the target is removed.
Place ==
  /\ pc = "place"
  /\ \/ /\ KindAt(tree, Real(tree, Target)) # "dir"
        /\ tree' = Renamed(tree)
        /\ pc' = "placed"
     \/ /\ options.faults \/ KindAt(tree, Real(tree, Target)) = "dir"
        /\ \E t \in Removals(tree, Target) :
             \/ /\ KindAt(t, Real(t, Target)) # "dir"
                /\ tree' = Renamed(t)
                /\ pc' = "placed"
             \/ /\ options.faults \/ KindAt(t, Real(t, Target)) = "dir"
                /\ tree' = t
                /\ pc' = "throw"
  /\ IF pc' = "placed"
     THEN /\ staged' = 0
          /\ written' = IF E.kind = "file" THEN written \cup {Head(todo)} ELSE written
     ELSE UNCHANGED <<staged, written>>
  /\ UNCHANGED <<before, archive, options, data, queueVars, warned, copied, ignored>>

\* Sparse ranges, streams, times and permissions: what fails is a warning, which
\* strict_metadata turns into an error.
Metadata ==
  /\ pc = "placed"
  /\ \/ pc' = "entry" /\ EntryDone /\ UNCHANGED warned
     \/ /\ options.faults
        /\ warned' = warned \cup {E.path}
        /\ IF options.strict THEN pc' = "throw" /\ UNCHANGED todo
           ELSE pc' = "entry" /\ EntryDone
  /\ UNCHANGED <<before, archive, options, fsVars, links, dirs, staged, written, copied,
                 ignored>>

----------------------------------------------------------------------------
(* After the last entry.                                                   *)

L == archive[Head(links)]
LinkPath == Root \o L.path

LinkRefused ==
  \/ ThroughLink(tree, LinkPath)
  \/ Exists(tree, LinkPath) /\ options.policy = "fail"

LinksLeft == pc = "entry" /\ todo = <<>> /\ links # <<>>

RefuseLink ==
  /\ LinksLeft
  /\ LinkRefused
  /\ pc' = "throw"
  /\ UNCHANGED <<before, archive, options, fsVars, queueVars, staged, written, warned,
                 copied, ignored>>

SkipLink ==
  /\ LinksLeft
  /\ ~LinkRefused
  /\ Exists(tree, LinkPath) /\ options.policy = "skip"
  /\ links' = Tail(links)
  /\ UNCHANGED <<before, archive, options, pc, fsVars, todo, dirs, staged, written,
                 warned, copied, ignored>>

\* What is in the way is removed; a link that cannot be created is a warning.
PlaceLink ==
  /\ LinksLeft
  /\ ~LinkRefused
  /\ Exists(tree, LinkPath) => options.policy = "all"
  /\ links' = Tail(links)
  /\ \E u \in Directories(tree, Front(LinkPath)) : \E t \in Removals(u, LinkPath) :
       \/ /\ ~Exists(t, LinkPath) /\ Writable(t, LinkPath)
          /\ tree' = With(t, LinkPath, Link(L.target))
          /\ \/ UNCHANGED <<warned, pc>>
             \/ /\ options.faults
                /\ warned' = warned \cup {L.path}
                /\ pc' = IF options.strict THEN "throw" ELSE pc
       \/ /\ options.faults \/ Exists(t, LinkPath) \/ ~Writable(t, LinkPath)
          /\ tree' = t
          /\ warned' = warned \cup {L.path}
          /\ UNCHANGED pc
  /\ UNCHANGED <<before, archive, options, data, todo, dirs, staged, written, copied,
                 ignored>>

DirPath == Root \o archive[Last(dirs)].path

\* Deepest first, and only what is still a directory.  No checkpoint stops this.  What
\* metadata cannot be restored is a warning, or an error under strict_metadata; the
\* time, where it is set on its own, is lost without either.
RestoreDirectory ==
  /\ pc \in {"entry", "dirs"} /\ todo = <<>> /\ links = <<>> /\ dirs # <<>>
  /\ dirs' = Front(dirs)
  /\ IF KindAt(tree, DirPath) # "dir"
     THEN pc' = "dirs" /\ UNCHANGED <<tree, warned, ignored>>
     ELSE \E timed, warns \in BOOLEAN :
            /\ options.faults \/ (timed /\ ~warns)
            /\ tree' = IF timed THEN [tree EXCEPT ![DirPath].restored = TRUE] ELSE tree
            /\ ignored' = IF timed THEN ignored
                          ELSE ignored \cup {archive[Last(dirs)].path}
            /\ warned' = IF warns THEN warned \cup {archive[Last(dirs)].path} ELSE warned
            /\ pc' = IF warns /\ options.strict THEN "throw" ELSE "dirs"
  /\ UNCHANGED <<before, archive, options, data, todo, links, staged, written, copied>>

Finish ==
  /\ pc \in {"entry", "dirs"} /\ todo = <<>> /\ links = <<>> /\ dirs = <<>>
  /\ pc' = "done"
  /\ UNCHANGED <<before, archive, options, fsVars, queueVars, staged, written, warned,
                 copied, ignored>>

----------------------------------------------------------------------------
(* Failure.                                                                *)

\* A checkpoint finds the operation cancelled, or a read, a write or a close fails.
Throw ==
  /\ options.faults
  /\ pc \in {"entry", "write"} \/ (pc = "dirs" /\ dirs = <<>>)
  /\ pc' = "throw"
  /\ UNCHANGED <<before, archive, options, fsVars, queueVars, staged, written, warned,
                 copied, ignored>>

\* ~StagedFile
Unwind ==
  /\ pc = "throw"
  /\ tree' = IF staged = 0 THEN tree ELSE Without(tree, StagingPath(Target))
  /\ staged' = 0
  /\ pc' = "failed"
  /\ UNCHANGED <<before, archive, options, data, queueVars, written, warned, copied,
                 ignored>>

Killed ==
  /\ options.faults
  /\ pc \in {"entry", "write", "place", "placed", "dirs", "throw"}
  /\ pc' = "killed"
  /\ UNCHANGED <<before, archive, options, fsVars, queueVars, staged, written, warned,
                 copied, ignored>>

ExtractNext ==
  \/ Start \/ Refuse \/ Skip \/ DeferLink \/ MakeDirectory \/ Relink \/ Stage
  \/ WriteSlice \/ Verify \/ Place \/ Metadata \/ RefuseLink \/ SkipLink
  \/ PlaceLink \/ RestoreDirectory \/ Finish \/ Throw \/ Unwind \/ Killed

Ended == pc \in {"done", "failed", "killed"}
=============================================================================
