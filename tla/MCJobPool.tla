----------------------------- MODULE MCJobPool -----------------------------
(***************************************************************************)
(* An instance of JobPool: a registry that keeps two jobs and three that   *)
(* come, so that one finished job goes and the other stays, or all three   *)
(* are in flight; the two workers are one fewer than the jobs, and a       *)
(* schedule run by hand takes a permit from them.                          *)
(***************************************************************************)
EXTENDS JobPool

CONSTANTS j1, j2, j3, s1

MCJobs      == {j1, j2, j3}
MCSchedules == {s1}
=============================================================================
