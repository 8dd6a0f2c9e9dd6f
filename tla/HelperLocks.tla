---------------------------- MODULE HelperLocks ----------------------------
(***************************************************************************)
(* The table of snpanel-helper/src/locks.rs: the shared pieces of the      *)
(* system in the order their locks are taken, and the pieces each          *)
(* operation changes.  Of the operations placed on the same pieces, the    *)
(* one or two named here stand for all.                                    *)
(***************************************************************************)
EXTENDS Integers

Packages == 1
Accounts == 2
Systemd  == 3
Php      == 4
Nginx    == 5
Firewall == 6
Cron     == 7
Malware  == 8

\* `ALL`.  A resource is its position in the enum, which is the lock order.
Resource == 1..8

\* `placed`, and in its last case `hold`'s answer for an operation that
\* nobody has placed.
LocksOf(op) ==
  CASE op \in {"firewall-status", "site-file-write", "malware-scan-server",
               "sftp-sub-mount", "time-sync"}       -> {}
    [] op \in {"updates-os-run", "node-install"}    -> {Packages}
    [] op \in {"docker-install", "updates-os-auto"} -> {Packages, Systemd}
    [] op \in {"php-install", "php-ext-install"}    -> {Packages, Systemd, Php}
    [] op = "waf-install"                           -> {Packages, Nginx}
    [] op = "clamav-install"                        -> {Packages, Systemd, Malware}
    [] op = "maldet-install"                        -> {Packages, Malware}
    [] op = "fail2ban-install"                      -> {Packages, Systemd, Firewall}
    [] op \in {"panel-user-ensure", "sftp-sub-create"} -> {Accounts}
    [] op \in {"site-runtime-ensure", "rm-site"}    -> {Accounts, Systemd, Php}
    [] op \in {"service-control", "mariadb-retune"} -> {Systemd}
    [] op = "clamav-control"                        -> {Systemd, Malware}
    [] op = "php-pools-retune"                      -> {Systemd, Php}
    [] op \in {"nginx-write-site", "certbot-renew-soon"} -> {Nginx}
    [] op \in {"firewall-apply", "firewall-blocklist-run"} -> {Firewall}
    [] op = "fail2ban-stop"                         -> {Systemd, Firewall}
    [] op = "cron-write"                            -> {Cron}
    [] op \in {"maldet-update-sigs", "malware-quarantine"} -> {Malware}
    [] OTHER                                        -> Resource

\* Two operations change one piece of the system.
Clash(op1, op2) == LocksOf(op1) \cap LocksOf(op2) # {}
=============================================================================
