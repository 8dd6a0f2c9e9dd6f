------------------------------ MODULE JobLife ------------------------------
(***************************************************************************)
(* What the panel promises of its background jobs, whatever registry and   *)
(* workers provide it: a job that is queued is run, ends once, and is      *)
(* forgotten only after its end, unless the whole panel restarts; and no   *)
(* more than Workers jobs run together.                                    *)
(***************************************************************************)
EXTENDS Naturals, FiniteSets

CONSTANTS Jobs, Workers

VARIABLE life

Ends == {"done", "error"}

Running == {j \in Jobs : life[j] = "running"}

Init == life = [j \in Jobs |-> "new"]

Queue(j) ==
  /\ life[j] = "new"
  /\ \E forgotten \in SUBSET {k \in Jobs : life[k] \in Ends} :
       life' = [k \in Jobs |-> IF k = j THEN "queued"
                               ELSE IF k \in forgotten THEN "gone" ELSE life[k]]

Run(j) ==
  /\ life[j] = "queued"
  /\ Cardinality(Running) < Workers
  /\ life' = [life EXCEPT ![j] = "running"]

End(j) ==
  /\ life[j] = "running"
  /\ \E e \in Ends : life' = [life EXCEPT ![j] = e]

\* A request that has not queued its job may be cut short as well.
Restart ==
  \E cut \in SUBSET {j \in Jobs : life[j] = "new"} :
    life' = [j \in Jobs |-> IF life[j] = "new" /\ j \notin cut THEN "new" ELSE "gone"]

Next == Restart \/ \E j \in Jobs : Queue(j) \/ Run(j) \/ End(j)

Spec == Init /\ [][Next]_life
=============================================================================
