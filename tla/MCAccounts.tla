----------------------------- MODULE MCAccounts -----------------------------
(***************************************************************************)
(* Instances of Accounts: everything is asked for a, while b's account is  *)
(* made beside it and takes ids that become free.                          *)
(***************************************************************************)
EXTENDS Accounts, TLC

CONSTANTS a, b

MCAsks ==
  a :> {<<k, 1>> : k \in {"create", "suspend", "unsuspend", "terminate"}}
         \cup {<<"password", 2>>, <<"package", 2>>} @@
  b :> {<<"create", 1>>}
MCAsksOne == a :> {<<k, 1>> : k \in Kinds}
=============================================================================
