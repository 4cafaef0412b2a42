-------------------------- MODULE MCEvidenceBundle --------------------------
(***************************************************************************)
(* An instance of EvidenceBundle for TLC.  Publishers differ in nothing,   *)
(* and only safety is checked, so they may be exchanged.                   *)
(***************************************************************************)
EXTENDS EvidenceBundle, TLC

Interchangeable == Permutations(Pubs)
=============================================================================
