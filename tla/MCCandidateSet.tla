--------------------------- MODULE MCCandidateSet ---------------------------
(***************************************************************************)
(* An instance of CandidateSet for TLC.  The assemblers differ in nothing  *)
(* and only safety is checked, so they may be exchanged.                   *)
(***************************************************************************)
EXTENDS CandidateSet, TLC

Interchangeable == Permutations(Asms)
=============================================================================
