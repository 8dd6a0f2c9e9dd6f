--------------------------- MODULE MCUserArchives ---------------------------
(***************************************************************************)
(* An instance of UserArchives: two runs whose schedules name archives by  *)
(* the date and send them to the bucket, one of them to the SFTP server    *)
(* too, and a backup made by hand.  The first schedule keeps two archives, *)
(* the second one.                                                         *)
(***************************************************************************)
EXTENDS UserArchives

CONSTANTS first, second, hand

MCRuns      == {first, second, hand}
MCScheduled == {first, second}
MCStyle     == [r \in Runs |-> IF r = hand THEN "timestamp" ELSE "date"]
MCKeep      == [r \in Runs |-> IF r = first THEN 2 ELSE 1]
=============================================================================
