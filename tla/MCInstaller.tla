---------------------------- MODULE MCInstaller ----------------------------
(***************************************************************************)
(* An instance of Installer for TLC.  Names of version directories differ  *)
(* in nothing, and only safety is checked, so they may be exchanged.       *)
(***************************************************************************)
EXTENDS Installer, TLC

Interchangeable == Permutations(Versions)
=============================================================================
