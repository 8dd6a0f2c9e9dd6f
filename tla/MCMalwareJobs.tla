--------------------------- MODULE MCMalwareJobs ---------------------------
(***************************************************************************)
(* Instances of MalwareJobs: two readers, one asking by id in the process  *)
(* that starts the scan, one for the list in the panel.                    *)
(***************************************************************************)
EXTENDS MalwareJobs

CONSTANTS byId, byList

MCVerb == [r \in Readers |-> IF r = byId THEN "get" ELSE "list"]
=============================================================================
