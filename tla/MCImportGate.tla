---------------------------- MODULE MCImportGate ----------------------------
(***************************************************************************)
(* Instances of ImportGate: an import of each kind, and three restores,    *)
(* one more than their registry keeps.                                     *)
(***************************************************************************)
EXTENDS ImportGate

CONSTANTS single, bulk, r1, r2, r3

MCRestores == {r1, r2, r3}
=============================================================================
