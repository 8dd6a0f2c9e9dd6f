----------------------------- MODULE SiteConfig -----------------------------
(***************************************************************************)
(* What nginx is told about the panel's websites (routes/websites.rs, and  *)
(* the helper's verbs for nginx, the WAF and certificates).  A site is a   *)
(* row of the database and a vhost; the vhost names a file of WAF rules, a *)
(* zone of the one file of zones and a certificate, which may be another   *)
(* site's, and `nginx -t` refuses the whole configuration when one file    *)
(* that one vhost names is not there.                                      *)
(*                                                                         *)
(* Requests come one after the other here.  Every step of one may fail,    *)
(* and it may be dropped between two of them.                              *)
(***************************************************************************)
EXTENDS Naturals, FiniteSets

CONSTANTS
  Sites,
  Covers,   \* <<c, s>>: the certificates of c are good for s as well
  Zone,     \* the site whose domain is the Cloudflare zone of each, or None
  Apps,     \* applications a site may be a proxy for
  None,
  Asks,     \* bound: the requests that come for each site
  MaxAstray \* bound: sites that are left half-way

Kinds == {"create", "waf", "flood", "app", "share", "upload", "enable", "zone", "delete"}
Modes == {"none", "live", "manual", "shared", "zone"}
Certs == {"live", "manual"} \X Sites

Row   == [waf : BOOLEAN, flood : BOOLEAN, mode : Modes, from : Sites \cup {None}, app : Apps]
Vhost == [whole : BOOLEAN, waf : BOOLEAN, flood : BOOLEAN, cert : Certs \cup {None}, app : Apps]

RowOrNone   == Row \cup {None}
VhostOrNone == Vhost \cup {None}

Steps == {"install", "issue", "row", "rules", "zones", "refile", "custom", "write",
          "plain", "block", "test", "restore", "remove", "resync", "drop", "release",
          "unrule", "gone"}

Request == [kind : Kinds \cup {"recover"}, site : Sites, step : Steps,
            old : RowOrNone, new : Row, first : VhostOrNone, prev : VhostOrNone,
            had : BOOLEAN]

ASSUME ConstantsAssumption ==
  /\ None \notin Sites \cup Certs \cup Row \cup Vhost \cup Request
  /\ Covers \subseteq Sites \X Sites
  /\ Zone \in [Sites -> Sites \cup {None}]
  /\ Asks \in [Sites -> SUBSET Kinds]
  /\ Apps # {} /\ MaxAstray \in Nat

VARIABLES
  row,    \* the rows of `websites`
  vhost,  \* the files of sites-available
  rules,  \* the sites that have a file of WAF rules
  zones,  \* the sites that have a zone in the file of zones
  certs,  \* the certificates that are there: certbot's, and uploaded ones
  req,    \* the request in flight
  off     \* history: sites that a request has left half-way, because it was
          \* dropped or because what it did could not be taken back

files == <<rules, zones, certs>>
vars == <<row, vhost, files, req, off>>

\* What `nginx -t` looks for, for one vhost and for all.
Complete(v, s, R, Z, C) ==
  /\ v.whole
  /\ v.waf => s \in R
  /\ v.flood => s \in Z
  /\ v.cert # None => v.cert \in C

Loads(V, R, Z, C) == \A s \in Sites : V[s] # None => Complete(V[s], s, R, Z, C)

\* `borrowed_ssl_paths`: the source's uploaded files if they are there, else
\* certbot's, unchecked.
Borrowed(c) == IF <<"manual", c>> \in certs THEN <<"manual", c>> ELSE <<"live", c>>

\* `rewrite_ssl_paths`; certbot writes its own into the file.
Named(w, s) ==
  CASE w.mode = "manual" -> <<"manual", s>>
    [] w.mode \in {"shared", "zone"} /\ w.from # None -> Borrowed(w.from)
    [] OTHER -> None

\* `plan_rewrite`: certbot's lines are carried over unless the row names
\* a certificate, or the caller does not want them.
Rendered(w, v, s, preserve) ==
  [whole |-> TRUE, waf |-> w.waf, flood |-> w.flood, app |-> w.app,
   cert |-> IF Named(w, s) = None /\ preserve /\ v # None THEN v.cert ELSE Named(w, s)]

Dependents(c) == {d \in Sites : row[d] # None /\ row[d].mode = "shared" /\ row[d].from = c}

Init ==
  /\ row = [s \in Sites |-> None] /\ vhost = [s \in Sites |-> None]
  /\ rules = {} /\ zones = {} /\ certs = {}
  /\ req = None /\ off = {}

-----------------------------------------------------------------------------
(* The requests.  `old` is the row a request has read and `new` the one it  *)
(* is to leave; `first` is the vhost it found and `prev` the one it puts    *)
(* back; `had` is whether there were uploaded files.                        *)

Wanted(w, s) == IF w.mode = "live" THEN <<"live", s>> ELSE Named(w, s)

Agrees(s) ==
  IF row[s] = None THEN vhost[s] = None
  ELSE /\ vhost[s] # None
       /\ vhost[s].waf = row[s].waf /\ vhost[s].flood = row[s].flood
       /\ vhost[s].cert = Wanted(row[s], s)

Serving(s) == vhost[s] # None => Complete(vhost[s], s, rules, zones, certs)

Ask(kind, s, new, step) ==
  /\ req = None /\ kind \in Asks[s]
  /\ req' = [kind |-> kind, site |-> s, step |-> step, old |-> row[s], new |-> new,
             first |-> vhost[s], prev |-> vhost[s], had |-> <<"manual", s>> \in certs]
  /\ off' = {t \in off : ~(Agrees(t) /\ Serving(t))}
  /\ UNCHANGED <<row, vhost, files>>

\* `create_site_from` and `build_new_site`; `vhost_exists` refuses a name
\* that has a file without a row.
Create(s) ==
  /\ row[s] = None /\ vhost[s] = None
  /\ \E a \in Apps :
       Ask("create", s,
           [waf |-> TRUE, flood |-> FALSE, mode |-> "none", from |-> None, app |-> a], "rules")

\* `set_waf`
SetWaf(s) ==
  /\ row[s] # None
  /\ \E on \in BOOLEAN : Ask("waf", s, [row[s] EXCEPT !.waf = on], "rules")

\* `set_http_flood`
SetFlood(s) ==
  /\ row[s] # None
  /\ \E on \in BOOLEAN : Ask("flood", s, [row[s] EXCEPT !.flood = on], "row")

\* `apply_app_id`
SetApp(s) ==
  /\ row[s] # None
  /\ \E a \in Apps : Ask("app", s, [row[s] EXCEPT !.app = a], "custom")

\* `install_shared_ssl`: who borrows from a borrower borrows from its source
\* (`shared_cert_name`), and a source that is no longer one counts.
Share(s) ==
  /\ row[s] # None /\ Dependents(s) = {}
  /\ \E t \in Sites \ {s} :
       /\ row[t] # None
       /\ LET c == IF row[t].from # None THEN row[t].from ELSE t
          IN /\ {<<"live", c>>, <<"manual", c>>} \cap certs # {}
             /\ c = s \/ <<c, s>> \in Covers
             /\ Ask("share", s, [row[s] EXCEPT !.mode = "shared", !.from = c], "row")

\* `install_manual_ssl`, which leaves the source's name in the row.
Upload(s) ==
  /\ row[s] # None /\ Dependents(s) = {}
  /\ Ask("upload", s, [row[s] EXCEPT !.mode = "manual"], "install")

\* Slip: nobody asks who borrows the certificate.
SlipEnable(s) ==
  /\ row[s] # None
  /\ Ask("enable", s, [row[s] EXCEPT !.mode = "live", !.from = None],
         IF row[s].mode = "manual" THEN "custom" ELSE "issue")

\* `enable_ssl`: certbot edits the vhost, which must not name uploaded files
\* that are about to go.
Enable(s) ==
  /\ row[s] # None /\ Dependents(s) = {}
  /\ Ask("enable", s, [row[s] EXCEPT !.mode = "live", !.from = None],
         IF row[s].mode = "manual" THEN "custom" ELSE "issue")

\* `install_wildcard_ssl`, which asks nobody who borrows.
Wildcard(s) ==
  /\ row[s] # None /\ Zone[s] # None
  /\ Ask("zone", s, [row[s] EXCEPT !.mode = "zone", !.from = Zone[s]], "issue")

\* Slip: nor here.
SlipDelete(s) ==
  /\ row[s] # None
  /\ Ask("delete", s, row[s], "drop")

\* `delete_website`
Delete(s) ==
  /\ row[s] # None /\ Dependents(s) = {}
  /\ Ask("delete", s, row[s], "drop")

-----------------------------------------------------------------------------
(* The order of a request's steps, and what becomes of it.                  *)

\* `resync_and_rewrite` and its likes save the rules, then the zones of a
\* site that has one, then rewrite the vhost.  The zone comes before the
\* block that names it, and goes after it (`set_http_flood`).
After(kind, step, w, was) ==
  CASE step = "install" -> "row"
    [] step = "issue"   -> "row"
    [] step = "row"     ->
         CASE kind \in {"create", "waf", "app"} -> "end"
           [] kind = "enable" -> IF was.mode = "manual" THEN "remove" ELSE "resync"
           [] kind = "flood"  -> IF w.flood THEN "zones" ELSE "block"
           [] OTHER           -> "rules"
    [] step = "rules"   ->
         CASE kind = "waf"    -> "block"
           [] kind = "create" -> "custom"
           [] OTHER           -> IF w.flood THEN "zones" ELSE "custom"
    [] step = "zones"   ->
         CASE kind = "delete" -> "end"
           [] kind = "flood"  -> IF w.flood THEN "block" ELSE "end"
           [] OTHER           -> "custom"
    [] step = "refile"  -> "custom"
    [] step = "custom"  -> IF kind = "enable" THEN "plain" ELSE "write"
    [] step \in {"write", "plain", "block"} -> "test"
    [] step = "test"    ->
         CASE kind \in {"create", "waf", "app"} -> "row"
           [] kind = "enable" -> "issue"
           [] kind \in {"upload", "zone"} -> "resync"
           [] kind = "flood"  -> IF w.flood THEN "end" ELSE "zones"
           [] OTHER           -> "end"
    [] step = "remove"  -> "resync"
    [] step = "drop"    -> "release"
    [] step = "release" -> "unrule"
    [] step = "unrule"  -> "gone"
    [] step = "gone"    -> IF w.flood THEN "zones" ELSE "end"
    [] OTHER            -> "end"

\* What is done when a step fails: the files of an upload go back, and the
\* columns that were written before the files.
Undo(kind, step) ==
  CASE kind = "upload" -> "refile"
    [] kind \in {"flood", "share", "zone"} /\ step \notin {"row", "issue"} -> "restore"
    [] OTHER -> "end"

Now(step) == req # None /\ req.step = step

Stray(S) == off' = S /\ Cardinality(S) <= MaxAstray

Goto(step) == req' = IF step = "end" THEN None ELSE [req EXCEPT !.step = step]

Onward == Goto(After(req.kind, req.step, req.new, req.old))

\* A request that ends because a step failed.
Falls ==
  /\ req' = None
  /\ IF vhost'[req.site] = req.first /\ row'[req.site] = req.old
     THEN off' = off
     ELSE Stray(off \cup {req.site})

GiveUp ==
  IF Undo(req.kind, req.step) = "end" THEN Falls
  ELSE Goto(Undo(req.kind, req.step)) /\ off' = off

\* Any call of the helper, and any statement, may fail and do nothing.
StepFails ==
  /\ req # None
  /\ req.step \in {"rules", "zones", "custom", "block", "row", "install", "gone"}
  /\ UNCHANGED <<row, vhost, files>>
  /\ GiveUp

\* The request is dropped where it waits.
Dropped ==
  /\ req # None
  /\ req' = None /\ Stray(off \cup {req.site})
  /\ UNCHANGED <<row, vhost, files>>

-----------------------------------------------------------------------------
(* The vhost, and the files that are tested with it.                        *)

\* `waf-site-save`: written, tested, and taken back.  A reload that fails is
\* a failure of the verb too, after the fact.
SaveRules ==
  /\ Now("rules")
  /\ Loads(vhost, rules \cup {req.site}, zones, certs)
  /\ rules' = rules \cup {req.site}
  /\ UNCHANGED <<row, vhost, zones, certs>>
  /\ (Onward /\ off' = off) \/ GiveUp

\* `sync_flood_zones`, `http-flood-zones-save`: every site's, from the rows.
SaveZones ==
  /\ Now("zones")
  /\ LET flooded == {s \in Sites : row[s] # None /\ row[s].flood}
     IN /\ Loads(vhost, rules, flooded, certs)
        /\ zones' = flooded
  /\ UNCHANGED <<row, vhost, rules, certs>>
  /\ (Onward /\ off' = off) \/ GiveUp

\* `nginx-custom-write`: the customer's own file, tested with all the rest.
Custom ==
  /\ Now("custom")
  /\ Loads(vhost, rules, zones, certs)
  /\ Onward
  /\ UNCHANGED <<row, vhost, files, off>>

Short(v) == [v EXCEPT !.whole = FALSE, !.waf = FALSE, !.flood = FALSE, !.cert = None]

\* The panel writes the file.  An error may leave it cut short, and is not
\* followed by what follows a refusal.
Put(v) ==
  /\ vhost' = [vhost EXCEPT ![req.site] = v]
  /\ req' = [req EXCEPT !.step = "test", !.prev = vhost[req.site]]
  /\ UNCHANGED <<row, files, off>>

PutShort(v) ==
  /\ vhost' = [vhost EXCEPT ![req.site] = Short(v)]
  /\ Goto(Undo(req.kind, req.step))
  /\ Stray(off \cup {req.site})
  /\ UNCHANGED <<row, files>>

\* Slip: the certificate's lines are lost.
SlipWhole == Rendered(req.new, vhost[req.site], req.site, FALSE)

\* `rewrite_website_vhost` from the row that is to be, except that the port
\* of a new application is looked up by the id of the old one.
Whole ==
  Rendered(IF req.kind = "app" THEN req.old ELSE req.new, vhost[req.site], req.site, TRUE)

\* The same without a certificate (`include_ssl: false`).
Plain == Rendered([req.new EXCEPT !.mode = "none"], vhost[req.site], req.site, FALSE)

\* `update_waf_block`, `update_http_flood_block`: one block of what is there.
Block ==
  IF req.kind = "waf" THEN [vhost[req.site] EXCEPT !.waf = req.new.waf]
                      ELSE [vhost[req.site] EXCEPT !.flood = req.new.flood]

Write      == Now("write") /\ (Put(Whole) \/ PutShort(Whole))
WritePlain == Now("plain") /\ (Put(Plain) \/ PutShort(Plain))
WriteBlock ==
  /\ Now("block")
  /\ vhost[req.site] # None /\ vhost[req.site].whole
  /\ Put(Block) \/ PutShort(Block)

\* `apply_vhost_message`: `nginx -t`, and back to what was there.
Accepted ==
  /\ Now("test")
  /\ Loads(vhost, rules, zones, certs)
  /\ Onward
  /\ UNCHANGED <<row, vhost, files, off>>

Refused ==
  /\ Now("test")
  /\ vhost' = [vhost EXCEPT ![req.site] = req.prev]
  /\ UNCHANGED <<row, files>>
  /\ GiveUp

\* What was there cannot be written either.
NotPutBack ==
  /\ Now("test")
  /\ Goto(Undo(req.kind, req.step))
  /\ Stray(off \cup {req.site})
  /\ UNCHANGED <<row, vhost, files>>

SetRow ==
  /\ Now("row")
  /\ row' = [row EXCEPT ![req.site] = req.new]
  /\ Onward
  /\ UNCHANGED <<vhost, files, off>>

\* The columns go back, unless that fails.
Restore ==
  /\ Now("restore")
  /\ row' = [row EXCEPT ![req.site] = req.old] \/ row' = row
  /\ UNCHANGED <<vhost, files>>
  /\ Falls

-----------------------------------------------------------------------------
(* Certificates.                                                            *)

\* `manual-ssl-install`
Install ==
  /\ Now("install")
  /\ certs' = certs \cup {<<"manual", req.site>>}
  /\ UNCHANGED <<row, vhost, rules, zones>>
  /\ (Onward /\ off' = off) \/ GiveUp

PutBack ==
  IF req.had THEN certs \cup {<<"manual", req.site>>} ELSE certs \ {<<"manual", req.site>>}

\* `restore_manual_ssl`, an error being logged.  The row of a failed upload
\* stays as it is.
Refile ==
  /\ Now("refile")
  /\ certs' \in {PutBack, certs}
  /\ UNCHANGED <<row, vhost, rules, zones>>
  /\ IF req.kind = "upload" THEN Falls ELSE Onward /\ off' = off

\* `certbot-issue`: the certificate, then certbot's own edit of the vhost.
Issue ==
  /\ Now("issue") /\ req.kind = "enable"
  /\ vhost[req.site] # None
  /\ Loads(vhost, rules, zones, certs)
  /\ certs' = certs \cup {<<"live", req.site>>}
  /\ vhost' = [vhost EXCEPT ![req.site].cert = <<"live", req.site>>]
  /\ Onward
  /\ UNCHANGED <<row, rules, zones, off>>

\* Either half fails.  A site that was on uploaded files gets them back, and
\* its vhost.
IssueFails ==
  /\ Now("issue") /\ req.kind = "enable"
  /\ certs' \in {certs, certs \cup {<<"live", req.site>>}}
  /\ UNCHANGED <<row, vhost, rules, zones>>
  /\ IF req.old.mode = "manual"
     THEN /\ req' = [req EXCEPT !.kind = "recover", !.step = "refile", !.new = req.old]
          /\ off' = off
     ELSE GiveUp

\* `cloudflare-ssl-issue`, for the zone.
IssueZone ==
  /\ Now("issue") /\ req.kind = "zone"
  /\ certs' = certs \cup {<<"live", Zone[req.site]>>}
  /\ UNCHANGED <<row, vhost, rules, zones>>
  /\ (Onward /\ off' = off) \/ GiveUp

\* `remove_manual_ssl_files`, an error being logged.
Remove ==
  /\ Now("remove")
  /\ certs' \in {certs \ {<<"manual", req.site>>}, certs}
  /\ Onward
  /\ UNCHANGED <<row, vhost, rules, zones, off>>

\* `resync_shared_dependents`: each borrower's vhost is written again, and
\* it is nobody's concern what becomes of it.
Resync ==
  /\ Now("resync")
  /\ \E ok \in SUBSET Dependents(req.site) :
       \E short \in SUBSET (Dependents(req.site) \ ok) :
         LET new(s) == Rendered(row[s], vhost[s], s, TRUE)
             tested == [s \in Sites |-> IF s \in ok THEN new(s) ELSE vhost[s]]
         IN /\ ok # {} => Loads(tested, rules, zones, certs)
            /\ vhost' = [s \in Sites |-> IF s \in short THEN Short(new(s)) ELSE tested[s]]
            /\ Stray(off \cup short)
  /\ Onward
  /\ UNCHANGED <<row, files>>

-----------------------------------------------------------------------------
(* `delete_website`: the vhost first, then what it names.                   *)

\* `delete_website_vhost`; a file that cannot be removed is logged.
DropVhost ==
  /\ Now("drop")
  /\ \/ vhost' = [vhost EXCEPT ![req.site] = None] /\ off' = off
     \/ vhost' = vhost /\ Stray(off \cup {req.site})
  /\ Onward
  /\ UNCHANGED <<row, files>>

\* `release_site_certificates`: kept while it is good for another site the
\* panel hosts, unless it cannot be read, or when the panel cannot tell which
\* sites there are; and certbot may fail.
Release ==
  /\ Now("release")
  /\ certs' \in {certs \ {<<"live", req.site>>}, certs}
  /\ Onward
  /\ UNCHANGED <<row, vhost, rules, zones, off>>

\* `waf-site-delete`, its result being dropped.
DeleteRules ==
  /\ Now("unrule")
  /\ rules' \in {rules \ {req.site}, rules}
  /\ Onward
  /\ UNCHANGED <<row, vhost, zones, certs, off>>

DeleteRow ==
  /\ Now("gone")
  /\ row' = [row EXCEPT ![req.site] = None]
  /\ Onward
  /\ UNCHANGED <<vhost, files, off>>

-----------------------------------------------------------------------------
Begin == \E s \in Sites :
  \/ Create(s) \/ SetWaf(s) \/ SetFlood(s) \/ SetApp(s)
  \/ Share(s) \/ Upload(s) \/ Enable(s) \/ Wildcard(s)
  \/ Delete(s)

Step ==
  \/ SaveRules \/ SaveZones \/ Custom
  \/ Write \/ WritePlain \/ WriteBlock \/ Accepted \/ Refused \/ NotPutBack
  \/ SetRow \/ Restore
  \/ Install \/ Refile \/ Issue \/ IssueFails \/ IssueZone \/ Remove \/ Resync
  \/ DropVhost \/ Release \/ DeleteRules \/ DeleteRow
  \/ StepFails \/ Dropped

Next == Begin \/ Step

Spec == Init /\ [][Next]_vars

-----------------------------------------------------------------------------
(* Properties                                                               *)

\* The values the variables take.
TypeOK ==
  /\ row \in [Sites -> RowOrNone]
  /\ vhost \in [Sites -> VhostOrNone]
  /\ rules \subseteq Sites /\ zones \subseteq Sites /\ certs \subseteq Certs
  /\ off \subseteq Sites
  /\ req \in Request \cup {None}

\* Sites whose vhost is the business of the request in flight.
InHand == IF req = None THEN {} ELSE {req.site}

Borrows(s) == row[s] # None /\ row[s].mode = "zone"

\* Whatever a request does to one site, no other site's vhost comes to name
\* a file that is not there: after any number of requests, failures and
\* dropped requests, only where one of these left something behind.
\* (`apply_vhost_message`, `delete_website`, `block_if_source`.)
NothingMissing == \A s \in Sites \ (off \cup InHand) : Borrows(s) \/ Serving(s)

\* A site's vhost says what its row says, once no request is about it.
ServesItsRow == \A s \in Sites \ (off \cup InHand) : Borrows(s) \/ Agrees(s)

\* As long as a row says that it borrows a certificate, there is one of that
\* name, whatever has failed or was dropped.  (`block_if_source`.)
SourceStays ==
  \A s \in Sites :
    row[s] # None /\ row[s].mode = "shared" =>
      {<<"live", row[s].from>>, <<"manual", row[s].from>>} \cap certs # {}
=============================================================================
