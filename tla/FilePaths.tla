------------------------------ MODULE FilePaths ------------------------------
(***************************************************************************)
(* The names of files, as CanonizeFileName leaves them: the components of  *)
(* the path, of which SplitStr and JoinStrs (src/Utils.cpp) make the       *)
(* directories above it.                                                   *)
(***************************************************************************)
EXTENDS SequencesExt

\* A path is the sequence of its components; <<>> is the root.
Path == Seq(STRING)
=============================================================================
