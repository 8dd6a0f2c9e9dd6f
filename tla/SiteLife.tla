------------------------------ MODULE SiteLife ------------------------------
(***************************************************************************)
(* The life of a website (routes/websites.rs): its creation, WordPress on  *)
(* a site that is there already, another owner, its deletion; with what    *)
(* the helper does to trees and pools (ops/site.rs) and what MariaDB holds *)
(* (mariadb.rs).  A site is a row, a tree below its owner's home, a pool   *)
(* of PHP for that tree, a vhost that names both and, with WordPress, a    *)
(* database whose password is in the tree's wp-config.php.                 *)
(*                                                                         *)
(* Every step of a request may fail, and the panel may stop between two.   *)
(* What a request leaves half-way is kept as a history, `marred`, for the  *)
(* properties to say what they except.                                     *)
(***************************************************************************)
EXTENDS Naturals, FiniteSets

CONSTANTS
  Domains, Owners,
  Names,    \* names of databases
  NameOf,   \* the name a domain's database gets
  Clients,  \* requests at work at a time
  Beside,   \* kinds of requests that may be at work on a site beside their like
  Bare,     \* may WordPress be installed on a site that has no pool of PHP?
  None,
  MaxAsks,  \* bound: requests, and with them passwords
  MaxFalls  \* bound: stops of the panel

Apps  == {"static", "php", "wordpress"}
Kinds == {"create", "install", "owner", "delete"}
Roots == Domains \X Owners

\* 0 is no password: no wp-config.php, no database.
Secrets == 0..MaxAsks

Site    == [owner : Owners, app : Apps]
Tree    == [config : Secrets]
Account == [site : Domains, secret : Secrets]

Steps == {"ensure", "page", "base", "config", "core", "vhost", "test", "row", "account",
          "drop", "undo", "rewrite", "mark", "move", "assign", "unbase", "unvhost", "files",
          "unaccount", "unrow"}

Request == [kind : Kinds, site : Domains, step : Steps, app : Apps, secret : Secrets,
            from : Owners, owner : Owners, files : BOOLEAN, data : BOOLEAN, item : BOOLEAN]

ASSUME ConstantsAssumption ==
  /\ None \notin Domains \cup Site \cup Tree \cup Account \cup Request \cup Owners
  /\ NameOf \in [Domains -> Names]
  /\ Beside \subseteq Kinds /\ Bare \in BOOLEAN
  /\ MaxAsks \in Nat /\ MaxFalls \in Nat

VARIABLES
  row,      \* the rows of `websites`; a root follows from the domain and the owner
  account,  \* the rows of `database_accounts` that have a site
  tree,     \* what is at each root
  pool,     \* the roots that have a pool of PHP
  vhost,    \* whose root a domain's vhost names
  base,     \* MariaDB: the password of each database's account
  req,      \* the requests at work
  asks, falls,
  marred,   \* history: sites a request left half-way, or may have
  stuck     \* history: domains whose vhost was left without a row

disk == <<tree, pool, vhost, base>>
past == <<asks, falls, marred, stuck>>
vars == <<row, account, disk, req, past>>

Busy(d) == \E c \in Clients : req[c] # None /\ req[c].site = d
At(c, s) == req[c] # None /\ req[c].step = s
Go(c, s) == req' = [req EXCEPT ![c].step = s]
End(c)   == req' = [req EXCEPT ![c] = None]
Name(c)  == NameOf[req[c].site]
Root(c)  == <<req[c].site, req[c].owner>>
Mar(c)   == marred' = marred \cup {req[c].site}

-----------------------------------------------------------------------------
(* Requests come in.  One that is refused here changes nothing.            *)

Ask(c, r) ==
  /\ req[c] = None /\ asks < MaxAsks
  /\ \A o \in Clients \ {c} : req[o] # None /\ req[o].site = r.site =>
       req[o].kind = r.kind /\ r.kind \in Beside
  /\ asks' = asks + 1
  /\ req' = [req EXCEPT ![c] = r]
  /\ UNCHANGED <<row, account, disk, falls, stuck>>

\* `hostname_taken` and `vhost_exists`.
Free(d) == row[d] = None /\ vhost[d] = None

AskCreate(c) == \E d \in Domains, o \in Owners, a \in Apps :
  /\ Free(d)
  /\ Ask(c, [kind |-> "create", site |-> d, step |-> "ensure", app |-> a,
             secret |-> IF a = "wordpress" THEN asks + 1 ELSE 0, from |-> o, owner |-> o,
             files |-> FALSE, data |-> FALSE, item |-> FALSE])
  /\ marred' = marred \ {d}

\* Of a site that is there; `authorized` reads its row.
AskAbout(c, d, kind, step, owner, secret, files, data, item) ==
  Ask(c, [kind |-> kind, site |-> d, step |-> step, app |-> row[d].app, secret |-> secret,
          from |-> row[d].owner, owner |-> owner, files |-> files, data |-> data,
          item |-> item])

AskInstall(c) == \E d \in Domains :
  /\ row[d] # None /\ row[d].app # "wordpress"
  /\ row[d].app = "php" \/ Bare
  /\ AskAbout(c, d, "install", "base", row[d].owner, asks + 1, FALSE, FALSE, FALSE)
  /\ UNCHANGED marred

AskOwner(c) == \E d \in Domains, o \in Owners :
  /\ row[d] # None /\ o # row[d].owner
  /\ AskAbout(c, d, "owner", "move", o, 0, FALSE, FALSE, FALSE)
  /\ UNCHANGED marred

HasItem(d) == account[NameOf[d]] # None /\ account[NameOf[d]].site = d

\* A database's row that cannot be read is taken for none.
AskDelete(c) == \E d \in Domains, files, data, item \in BOOLEAN :
  /\ row[d] # None
  /\ item => HasItem(d)
  /\ AskAbout(c, d, "delete", IF data /\ item THEN "unbase" ELSE "unvhost",
              row[d].owner, 0, files, data, item)
  /\ marred' = marred \cup {d}

-----------------------------------------------------------------------------
(* `build_new_site`, `install_wordpress_on_website`                         *)

Build(c)  == IF req[c].app = "wordpress" THEN "base" ELSE "page"
\* A site with PHP names a version, which the code also asks.
Runs(app) == app # "static"

\* `site-runtime-ensure` makes what is missing: the tree first, then the pool.  A
\* failure ends the request with what was made.
Ensure(c) ==
  /\ At(c, "ensure")
  /\ \E ok, there, runs \in BOOLEAN :
       /\ ok => there /\ runs = Runs(req[c].app)
       /\ runs => there
       /\ tree' = IF there /\ tree[Root(c)] = None THEN [tree EXCEPT ![Root(c)] = [config |-> 0]]
                  ELSE tree
       /\ pool' = IF runs THEN pool \cup {Root(c)} ELSE pool
       /\ IF ok THEN Go(c, Build(c)) ELSE End(c)
  /\ UNCHANGED <<row, account, vhost, base, past>>

\* `write_placeholder_page`
Page(c) ==
  /\ At(c, "page")
  /\ Go(c, "vhost") \/ Go(c, "undo")
  /\ UNCHANGED <<row, account, disk, past>>

\* Slip: an installation adopts a database that is there as well.
SlipAdopts(c) == req[c].kind \in {"create", "install"}

\* A creation adopts a database that is there, and sets its password.
Adopts(c) == req[c].kind = "create"

\* The other sites that take the database of that name to be theirs.
Claims(d) ==
  \/ row[d] # None /\ row[d].app = "wordpress"
  \/ \E c \in Clients : /\ req[c] # None /\ req[c].site = d /\ req[c].secret # 0
                       /\ req[c].step \notin {"ensure", "base"}

\* Who sets a password of a database that others claim takes it from them: a creation that
\* adopts it, or an installation where it is gone.
Sharers(c) == {d \in Domains \ {req[c].site} : NameOf[d] = Name(c) /\ Claims(d)}

\* `create_database`: it may fail after the password was set.
Base(c) ==
  /\ At(c, "base")
  /\ \/ /\ base[Name(c)] = 0 \/ Adopts(c)
        /\ base' = [base EXCEPT ![Name(c)] = req[c].secret]
        /\ Go(c, "config") \/ End(c)
        /\ marred' = IF Sharers(c) = {} THEN marred
                     ELSE marred \cup Sharers(c) \cup {req[c].site}
     \/ UNCHANGED <<base, marred>> /\ End(c)
  /\ UNCHANGED <<row, account, tree, pool, vhost, asks, falls, stuck>>

\* What comes first when the site's WordPress cannot be made.
GiveUp(c) == Go(c, "drop")

Configured(c) == tree' = [tree EXCEPT ![Root(c)].config = req[c].secret]

\* `wp core download`, then wp-config.php.
Config(c) ==
  /\ At(c, "config")
  /\ \/ tree[Root(c)] # None /\ Configured(c) /\ Go(c, "core")
     \/ UNCHANGED tree /\ GiveUp(c)
  /\ UNCHANGED <<row, account, pool, vhost, base, past>>

\* `wp core install`, after which wp-config.php is written again.
Core(c) ==
  /\ At(c, "core")
  /\ \/ /\ tree[Root(c)] # None /\ Configured(c)
        /\ Go(c, IF req[c].kind = "create" THEN "vhost" ELSE "rewrite")
     \/ UNCHANGED tree /\ GiveUp(c)
  /\ UNCHANGED <<row, account, pool, vhost, base, past>>

\* `drop_database`, whose failure is not looked at.
Drop(c) ==
  /\ At(c, "drop")
  /\ \E left \in {0, base[Name(c)]} : base' = [base EXCEPT ![Name(c)] = left]
  /\ IF req[c].kind = "create" THEN Go(c, "undo") ELSE End(c)
  /\ UNCHANGED <<row, account, tree, pool, vhost, past>>

\* `site-runtime-delete`: the pool, then the tree.
Deleted(r) ==
  \/ pool' = pool \ {r} /\ tree' = [tree EXCEPT ![r] = None]
  \/ pool' = pool \ {r} /\ UNCHANGED tree
  \/ UNCHANGED <<pool, tree>>

\* `cleanup_failed_site`
Undo(c) ==
  /\ At(c, "undo")
  /\ Deleted(Root(c))
  /\ End(c)
  /\ UNCHANGED <<row, account, vhost, base, past>>

Fails(c) == Go(c, IF req[c].app = "wordpress" THEN "drop" ELSE "undo")

Sticks(c) == stuck' = stuck \cup {req[c].site}

\* `write_new_vhost`: rules and include may fail before the file is written.  What a
\* failing write leaves of the file stays.
Vhost(c) ==
  /\ At(c, "vhost")
  /\ \/ /\ vhost' = [vhost EXCEPT ![req[c].site] = req[c].owner]
        /\ \/ Go(c, "test") /\ UNCHANGED stuck
           \/ Fails(c) /\ Sticks(c)
     \/ UNCHANGED <<vhost, stuck>> /\ Fails(c)
  /\ UNCHANGED <<row, account, tree, pool, base, asks, falls, marred>>

\* Slip: what nginx refused stays.
SlipTest(c) ==
  /\ At(c, "test")
  /\ UNCHANGED vhost
  /\ Go(c, "row") \/ Fails(c)
  /\ UNCHANGED <<row, account, tree, pool, base, past>>

\* `nginx -t`: a file it refuses is removed again, if it can be.
Test(c) ==
  /\ At(c, "test")
  /\ \/ UNCHANGED <<vhost, stuck>> /\ Go(c, "row")
     \/ vhost' = [vhost EXCEPT ![req[c].site] = None] /\ UNCHANGED stuck /\ Fails(c)
     \/ UNCHANGED vhost /\ Sticks(c) /\ Fails(c)
  /\ UNCHANGED <<row, account, tree, pool, base, asks, falls, marred>>

\* The row; a failure leaves the vhost and all the rest without one.
Row(c) ==
  /\ At(c, "row")
  /\ \/ /\ row[req[c].site] = None
        /\ row' = [row EXCEPT ![req[c].site] = [owner |-> req[c].owner, app |-> req[c].app]]
        /\ IF req[c].app = "wordpress" THEN Go(c, "account") ELSE End(c)
        /\ UNCHANGED stuck
     \/ UNCHANGED row /\ End(c) /\ Sticks(c)
  /\ UNCHANGED <<account, disk, asks, falls, marred>>

\* Slip: the database is kept for nobody's site.
SlipEntry(c) == [site |-> None, secret |-> req[c].secret]

Entry(c) == [site |-> req[c].site, secret |-> req[c].secret]

\* The database's row.  Names are unique; an installation takes over a row that is there.
Store(c) ==
  /\ At(c, "account")
  /\ \/ /\ account[Name(c)] = None \/ req[c].kind = "install"
        /\ account' = [account EXCEPT ![Name(c)] = Entry(c)]
        /\ UNCHANGED marred
     \/ UNCHANGED account /\ Mar(c)
  /\ End(c)
  /\ UNCHANGED <<row, disk, asks, falls, stuck>>

\* `rewrite_website_vhost` for WordPress or another owner; what nginx refuses is put back,
\* if that works and the write that failed was not of the file itself.
Rewrite(c) ==
  /\ At(c, "rewrite")
  /\ \/ /\ vhost' = [vhost EXCEPT ![req[c].site] = req[c].owner]
        /\ Go(c, IF req[c].kind = "install" THEN "mark" ELSE "assign")
        /\ UNCHANGED marred
     \/ /\ req[c].kind = "install" /\ GiveUp(c) /\ UNCHANGED vhost
        /\ UNCHANGED marred \/ Mar(c)
     \/ req[c].kind = "owner" /\ End(c) /\ Mar(c) /\ UNCHANGED vhost
  /\ UNCHANGED <<row, account, tree, pool, base, asks, falls, stuck>>

\* `set_wordpress_installed`
Mark(c) ==
  /\ At(c, "mark")
  /\ \/ row' = [row EXCEPT ![req[c].site].app = "wordpress"] /\ Go(c, "account")
        /\ UNCHANGED marred
     \/ UNCHANGED row /\ End(c) /\ Mar(c)
  /\ UNCHANGED <<account, disk, asks, falls, stuck>>

-----------------------------------------------------------------------------
(* `apply_owner`                                                            *)

OldRoot(c) == <<req[c].site, req[c].from>>

Moved(c) == tree' = [tree EXCEPT ![Root(c)] = tree[OldRoot(c)], ![OldRoot(c)] = None]

\* `site-runtime-move`: the old pool goes, then the tree moves, then the new pool comes.
\* It refuses a root that is taken.  No failure takes back what was done.
Move(c) ==
  /\ At(c, "move")
  /\ \/ UNCHANGED <<tree, pool, marred>> /\ End(c)
     \/ /\ tree[Root(c)] = None
        /\ \/ /\ tree[OldRoot(c)] # None /\ Moved(c)
              /\ pool' = (pool \ {OldRoot(c)}) \cup (IF Runs(req[c].app) THEN {Root(c)} ELSE {})
              /\ UNCHANGED marred /\ Go(c, "rewrite")
           \/ /\ \/ UNCHANGED tree
                 \/ tree[OldRoot(c)] # None /\ Moved(c)
              /\ pool' = pool \ {OldRoot(c)}
              /\ Mar(c) /\ End(c)
  /\ UNCHANGED <<row, account, vhost, base, asks, falls, stuck>>

\* `set_owner`
Assign(c) ==
  /\ At(c, "assign")
  /\ \/ row' = [row EXCEPT ![req[c].site].owner = req[c].owner] /\ UNCHANGED marred
     \/ UNCHANGED row /\ Mar(c)
  /\ End(c)
  /\ UNCHANGED <<account, disk, asks, falls, stuck>>

-----------------------------------------------------------------------------
(* `delete_website`                                                         *)

AfterFiles(c) == IF req[c].item THEN "unaccount" ELSE "unrow"
AfterVhost(c) == IF req[c].files THEN "files" ELSE AfterFiles(c)

\* The database goes first, if it was asked for; a failure ends the request.
Unbase(c) ==
  /\ At(c, "unbase")
  /\ \/ base' = [base EXCEPT ![Name(c)] = 0] /\ (Go(c, "unvhost") \/ End(c))
     \/ UNCHANGED base /\ End(c)
  /\ UNCHANGED <<row, account, tree, pool, vhost, past>>

\* `alias_delete_all`, which may end it; `delete_website_vhost`, which may leave the file.
Unvhost(c) ==
  /\ At(c, "unvhost")
  /\ \/ UNCHANGED <<vhost, stuck>> /\ End(c)
     \/ /\ vhost' = [vhost EXCEPT ![req[c].site] = None] /\ UNCHANGED stuck
        /\ Go(c, AfterVhost(c))
     \/ /\ vhost[req[c].site] # None /\ UNCHANGED vhost
        /\ Sticks(c)
        /\ Go(c, AfterVhost(c))
  /\ UNCHANGED <<row, account, tree, pool, base, asks, falls, marred>>

\* `site-runtime-delete`, whose result nobody looks at.
Files(c) ==
  /\ At(c, "files")
  /\ Deleted(Root(c))
  /\ Go(c, AfterFiles(c))
  /\ UNCHANGED <<row, account, vhost, base, past>>

Unaccount(c) ==
  /\ At(c, "unaccount")
  /\ \/ account' = [account EXCEPT ![Name(c)] = None] /\ Go(c, "unrow")
     \/ UNCHANGED account /\ End(c)
  /\ UNCHANGED <<row, disk, past>>

\* Foreign keys keep the row of a site that has a database's row.
Unrow(c) ==
  /\ At(c, "unrow")
  /\ \/ ~HasItem(req[c].site) /\ row' = [row EXCEPT ![req[c].site] = None]
     \/ UNCHANGED row
  /\ End(c)
  /\ UNCHANGED <<account, disk, past>>

-----------------------------------------------------------------------------
\* Requests at work are dropped where they are.
PanelStops ==
  /\ falls < MaxFalls /\ falls' = falls + 1
  /\ \E c \in Clients : req[c] # None
  /\ marred' = marred \cup {d \in Domains : Busy(d)}
  /\ stuck' = stuck \cup {d \in Domains : Busy(d) /\ row[d] = None /\ vhost[d] # None}
  /\ req' = [c \in Clients |-> None]
  /\ UNCHANGED <<row, account, disk, asks>>

Init ==
  /\ row = [d \in Domains |-> None] /\ account = [n \in Names |-> None]
  /\ tree = [r \in Roots |-> None] /\ pool = {}
  /\ vhost = [d \in Domains |-> None] /\ base = [n \in Names |-> 0]
  /\ req = [c \in Clients |-> None]
  /\ asks = 0 /\ falls = 0 /\ marred = {} /\ stuck = {}

Serve(c) ==
  \/ AskCreate(c) \/ AskInstall(c) \/ AskOwner(c) \/ AskDelete(c)
  \/ Ensure(c) \/ Page(c) \/ Base(c) \/ Config(c) \/ Core(c) \/ Drop(c) \/ Undo(c)
  \/ Vhost(c) \/ Test(c) \/ Row(c) \/ Store(c) \/ Rewrite(c) \/ Mark(c)
  \/ Move(c) \/ Assign(c)
  \/ Unbase(c) \/ Unvhost(c) \/ Files(c) \/ Unaccount(c) \/ Unrow(c)

Next == (\E c \in Clients : Serve(c)) \/ PanelStops

Spec == Init /\ [][Next]_vars

-----------------------------------------------------------------------------
(* Properties                                                               *)

\* Types of all variables.
TypeOK ==
  /\ row \in [Domains -> Site \cup {None}]
  /\ account \in [Names -> Account \cup {None}]
  /\ tree \in [Roots -> Tree \cup {None}]
  /\ pool \subseteq Roots
  /\ vhost \in [Domains -> Owners \cup {None}]
  /\ base \in [Names -> Secrets]
  /\ req \in [Clients -> Request \cup {None}]
  /\ asks \in Secrets /\ falls \in 0..MaxFalls
  /\ marred \subseteq Domains /\ stuck \subseteq Domains

Unsettled(d) == \E c \in Clients : req[c] # None /\ req[c].site = d
                                     /\ (req[c].kind = "owner" \/ req[c].step = "account")

Served(d) == LET r == <<d, row[d].owner>> IN
  tree[r] # None /\ vhost[d] = row[d].owner /\ (Runs(row[d].app) => r \in pool)

OpensItsBase(d) == LET n == NameOf[d] IN
  /\ base[n] # 0 /\ tree[<<d, row[d].owner>>].config = base[n]
  /\ account[n] = [site |-> d, secret |-> base[n]]

\* A site that has a row is served from its owner's tree by its pool, and its WordPress
\* opens the database that the panel has as that site's: whatever creations and
\* installations fail, are repeated or overlap, its own or another's of which the name of
\* the database is the same.  Excepted is what is about to be deleted, what a stop, a
\* change of owner or a failing write left half-way, and a site whose database another's creation adopted.
LiveIsWhole == \A d \in Domains :
  row[d] # None /\ d \notin marred /\ ~Unsettled(d) =>
    Served(d) /\ (row[d].app = "wordpress" => OpensItsBase(d))

\* What is over leaves no vhost without a row, which would keep the domain from ever being
\* created again: but for a stop, a row that could not be written, and a file that could
\* not be written whole or not be removed (`vhost_exists`).
NameComesFree == \A d \in Domains :
  row[d] = None /\ ~Busy(d) /\ vhost[d] # None => d \in stuck
=============================================================================
