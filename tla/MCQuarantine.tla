---------------------------- MODULE MCQuarantine ----------------------------
(***************************************************************************)
(* Instances of Quarantine: two paths on the store's file system, one of   *)
(* which the scan does not look at, and one on a file system of its own.   *)
(* The files are alike.                                                    *)
(***************************************************************************)
EXTENDS Quarantine, TLC

Alike == Permutations(Files)
=============================================================================
