----------------------------- MODULE MCSiteLife -----------------------------
(* An instance of SiteLife: two domains whose database has the same name. *)
EXTENDS SiteLife, TLC

CONSTANTS a, b, o, p, c1, c2, same

MCNameOf == [d \in Domains |-> same]
Alike == Permutations(Domains) \cup Permutations(Owners) \cup Permutations(Clients)
=============================================================================
