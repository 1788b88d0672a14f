----------------------------- MODULE MCRoundTrip -----------------------------
(* A source of two linked files, a directory with a file and a link in it, every   *)
(* update of it by both frontends; and archives in and out of the usual order      *)
(* extracted into destinations with files and links of the user.                   *)
EXTENDS RoundTrip, TLC

CONSTANTS one, two, more, bad

MCRoot == <<"dest">>
S(names) == <<"s">> \o names

MCRewritten == <<two, more>>

MCOrder == <<<<"s">>, S(<<"a">>), S(<<"b">>), S(<<"d">>), S(<<"d", "c">>), S(<<"l">>)>>

AFile(node, content) == [kind |-> "file", node |-> node, content |-> content,
                         mtime |-> 1, target |-> <<>>, closed |-> FALSE]
ADir == [AFile(0, <<>>) EXCEPT !.kind = "dir"]
ALink(to) == [AFile(0, <<>>) EXCEPT !.kind = "symlink", !.target = to]

\* The first two paths are links of one file, or the second and the last file are.
MCSources ==
  {<<"s">> :> ADir @@ S(<<"a">>) :> AFile(1, <<one>>) @@ S(<<"b">>) :> AFile(1, <<one>>)
     @@ S(<<"d">>) :> ADir @@ S(<<"d", "c">>) :> AFile(2, <<two>>)
     @@ S(<<"l">>) :> ALink(S(<<"a">>)),
   <<"s">> :> ADir @@ S(<<"a">>) :> [AFile(1, <<one>>) EXCEPT !.mtime = 2]
     @@ S(<<"b">>) :> AFile(2, <<two>>)
     @@ S(<<"d">>) :> ADir @@ S(<<"d", "c">>) :> AFile(2, <<two>>)}

In(from, to) == [from |-> from, to |-> to]
Whole == <<In(<<"s">>, <<"s">>)>>

MCJobs ==
  [mode : {"add", "update", "fresh", "sync"}, mapped : BOOLEAN, inputs : {Whole},
   made : {Whole}]
  \cup [mode : {"add", "update"}, mapped : {TRUE}, made : {Whole},
        inputs : {<<In(S(<<"d">>), S(<<"b">>))>>,
                  <<In(S(<<"a">>), S(<<"d", "c">>)), In(S(<<"b">>), S(<<"d", "c">>))>>}]

Entry(kind, path, content, target) ==
  [path |-> path, kind |-> kind, content |-> content, mtime |-> 1, target |-> target]
FileEntry(path, content) == Entry("file", path, content, <<>>)
HardLink(path, target) == Entry("hardlink", path, <<>>, target)
DirEntry(path) == Entry("dir", path, <<>>, <<>>)
LinkEntry(path, target) == Entry("symlink", path, <<>>, target)

A == <<"a">>
B == <<"b">>
D == <<"d">>
C == <<"d", "c">>
Long == <<one, more>>

\* Links first, as they are written; a link ahead of its target, as an update may
\* leave it; one path used twice; entries beneath a link and beneath a file.
MCArchives ==
  {<<LinkEntry(<<"l">>, MCRoot \o A), DirEntry(D), FileEntry(A, Long), HardLink(B, A),
     FileEntry(C, <<two>>)>>,
   <<HardLink(C, A), DirEntry(D), FileEntry(A, Long), FileEntry(A, <<two>>), HardLink(B, A)>>,
   <<LinkEntry(D, <<"home">>), FileEntry(C, Long), HardLink(B, C)>>,
   <<FileEntry(A, Long), FileEntry(D, <<two>>), HardLink(A, D), HardLink(B, A)>>,
   <<FileEntry(D, <<two>>), FileEntry(C, Long)>>, <<FileEntry(D, <<two>>), DirEntry(C)>>}

Home == <<"home">> :> Dir @@ <<"home", "f">> :> File(1)
Base == <<>> :> Dir @@ MCRoot :> Dir
At(p) == MCRoot \o p

\* Empty, with a file that has another link, with links out of the destination, and
\* with things of another kind in the way.
MCBefores ==
  {[tree |-> t @@ Base @@ Home, data |-> <<<<more>>>>] :
     t \in {<<>>, At(A) :> File(1) @@ At(D) :> Dir @@ At(B) :> File(1),
            At(A) :> Link(<<"home", "f">>) @@ At(B) :> Link(<<"home", "f">>)
              @@ At(D) :> Link(<<"home">>),
            At(A) :> Dir @@ At(D) :> Dir @@ At(C) :> Dir @@ At(<<"d", "c", "e">>) :> File(1)
              @@ At(<<"l">>) :> File(1)}}

MCOptions ==
  [policy : {"fail", "skip", "all"}, request : {{}, {B}, {D}}, strict : BOOLEAN,
   damaged : {{}, {Long}}, faults : {TRUE}]

MCCases ==
  [archive : MCArchives, before : MCBefores,
   options : {o \in MCOptions : o.strict => o.damaged = {}}]
  \cup
  [archive : MCArchives \cup {<<HardLink(B, C), FileEntry(A, Long)>>,
                              <<FileEntry(<<"..", "x">>, Long)>>},
   before : {Empty}, options : {Everything}]

\* One directory, every error of the file system, and no metadata to be lost.
MCStrictCases ==
  {[archive |-> <<DirEntry(D)>>, before |-> Empty,
    options |-> [Everything EXCEPT !.strict = TRUE, !.faults = TRUE]]}
=============================================================================
