--------------------------- MODULE MCBackupTimer ---------------------------
(***************************************************************************)
(* Instances of BackupTimer with a schedule that is due in every minute    *)
(* and one that is due in every second one.                                *)
(***************************************************************************)
EXTENDS BackupTimer

CONSTANTS s1, s2

EvenMinutes == [s \in Schedules |-> IF s = s1 THEN Minutes
                                    ELSE {m \in Minutes : m % 2 = 0}]
=============================================================================
