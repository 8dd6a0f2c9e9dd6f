-------------------------- MODULE MCScheduleOptions --------------------------
(***************************************************************************)
(* Instances of ScheduleOptions; requests of a kind are alike.             *)
(***************************************************************************)
EXTENDS ScheduleOptions, TLC

Alike == Permutations(Creates) \cup Permutations(Deletes)
=============================================================================
