--------------------------- MODULE MCHelperServer ---------------------------
(***************************************************************************)
(* Small instances of HelperServer.  The operations are chosen from the    *)
(* table so that two locks of fail2ban-install (Packages, Systemd,         *)
(* Firewall) are those of fail2ban-stop (Systemd, Firewall), and the last  *)
(* is the timer's too.                                                     *)
(***************************************************************************)
EXTENDS HelperServer

CONSTANTS c1, c2, c3, blocklist

MCOpOf ==
  [x \in Calls \cup Timers |->
     CASE x = c1 -> "fail2ban-install"
       [] x = c2 -> "fail2ban-stop"
       [] x = c3 -> "firewall-status"
       [] x = blocklist -> "firewall-blocklist-run"]

MixedPeers ==
  [c \in Calls |-> IF c = c3 THEN "garbled" ELSE "panel"]
==============================================================================
