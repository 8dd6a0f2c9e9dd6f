---------------------------- MODULE MCSiteConfig ----------------------------
(***************************************************************************)
(* An instance of SiteConfig.  The certificates of a are good for b as     *)
(* well, and a's domain is the Cloudflare zone of b's.                     *)
(***************************************************************************)
EXTENDS SiteConfig, TLC

CONSTANTS a, b

MCCovers == {<<a, b>>}
MCZone   == a :> None @@ b :> a
MCAsks   ==
  a :> {"create", "app", "waf", "zone", "upload", "enable", "delete"} @@
  b :> Kinds \ {"app", "waf"}
=============================================================================
