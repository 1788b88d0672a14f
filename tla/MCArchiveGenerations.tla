----------------------- MODULE MCArchiveGenerations -----------------------
(***************************************************************************)
(* Two files, one of them an archive stored as it is; two updates, so      *)
(* that a generation is appended after a torn one and after a rewrite; a   *)
(* hole of two segments, of which the recovery data can restore one.       *)
(***************************************************************************)
EXTENDS ArchiveGenerations

CONSTANTS plain, archive

MCItem == {plain, archive}
MCNested == {archive}
=============================================================================
