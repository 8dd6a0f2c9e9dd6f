------------------------------ MODULE Accounts ------------------------------
(***************************************************************************)
(* Hosting accounts that a billing system sells, suspends and ends through *)
(* the panel (routes/provisioning.rs).  An account is a row of its own     *)
(* beside the panel's user, the user's website, its vhost and a Linux      *)
(* account, and each request goes from one to the next.                    *)
(*                                                                         *)
(* A billing system asks for one account at a time, but for several at     *)
(* once.  Each statement and each call of the helper may fail, and a       *)
(* request may be dropped between two of them, since its caller is gone or *)
(* the panel dies.                                                         *)
(***************************************************************************)
EXTENDS Naturals, FiniteSets

CONSTANTS
  Customers, \* each with an external id, a username and a domain of its own
  Values,    \* packages, and passwords
  None,
  Patient,   \* whether a request that failed is repeated before any other
  Asks,      \* bound: what is asked for each customer
  Unlucky,   \* bound: the customers for whom anything fails
  MaxId,     \* bound: ids of rows
  MaxAmiss   \* bound: what may be amiss before one more error that is not told

Kinds    == {"create", "suspend", "unsuspend", "terminate", "password", "package"}
Statuses == {"pending", "active", "suspended", "failed", "terminated"}
Pieces   == {"site", "vhost", "linux"}
Ids      == 1..MaxId

Account == [id : Ids, status : Statuses, uid : Ids \cup {None}, pack : Values]
User    == [name : Customers, active : BOOLEAN, signed : BOOLEAN, pack : Values, pw : Values]
Site    == [uid : Ids, on : BOOLEAN]
Linux   == [locked : BOOLEAN, pw : Values \cup {None}]

Steps == {"look", "forget", "insert", "ensure", "setpw", "adduser", "link", "build", "addsite",
          "fail", "activate", "user", "site", "vhost", "lock", "mark", "list", "dropvhost",
          "dropsite", "droplinux", "dropuser", "close", "hash", "bump", "follow", "row", "copy"}

Request == [kind : Kinds, arg : Values, step : Steps,
            id : Ids \cup {None}, uid : Ids \cup {None}]

ASSUME ConstantsAssumption ==
  /\ None \notin Ids \cup Request \cup Account \cup User \cup Site \cup Linux \cup Values
  /\ None \notin Statuses \cup (Kinds \X Values)
  /\ Patient \in BOOLEAN
  /\ Asks \in [Customers -> SUBSET (Kinds \X Values)]
  /\ MaxId \in Nat /\ MaxAmiss \in Nat

VARIABLES
  acct,   \* the row of provisioning_accounts with each customer's external id
  users,  \* the rows of users, by their ids
  site,   \* the row of websites with each customer's domain
  vhost,  \* each domain's vhost
  linux,  \* each customer's Linux account, and its password
  req,    \* the request in flight for each customer
  told,   \* history: the status that the last answer stood for, if nothing
          \* else was begun since
  due,    \* history: the request that failed and was not repeated yet
  amiss   \* history: what an error that was only logged, or a request cut
          \* short, has left that no row leads to or that no request repeats

rows == <<acct, users, site>>
machine == <<vhost, linux>>
vars == <<rows, machine, req, told, due, amiss>>

UserOf(c)   == {u \in Ids : users[u] # None /\ users[u].name = c}
Owned(u)    == {c \in Customers : site[c] # None /\ site[c].uid = u}
AccountIds  == {acct[c].id : c \in {c \in Customers : acct[c] # None}}
UserIds     == {u \in Ids : users[u] # None}

\* INTEGER PRIMARY KEY: one more than the greatest, so that the id of the
\* newest row is given out again once that row is gone.
Follows(i, S) == (\A j \in S : j < i) /\ (i = 1 \/ i - 1 \in S)

Init ==
  /\ acct = [c \in Customers |-> None]
  /\ users = [u \in Ids |-> None]
  /\ site = [c \in Customers |-> None]
  /\ vhost = [c \in Customers |-> "none"]
  /\ linux = [c \in Customers |-> None]
  /\ req = [c \in Customers |-> None]
  /\ told = [c \in Customers |-> None]
  /\ due = [c \in Customers |-> None]
  /\ amiss = {}

-----------------------------------------------------------------------------
(* How a request begins and ends.                                           *)

At(c, step) == req[c] # None /\ req[c].step = step

\* A request arrives.
Ask(c) ==
  /\ req[c] = None
  /\ \E ask \in Asks[c] :
       /\ Patient /\ due[c] # None => due[c] = ask
       /\ req' = [req EXCEPT ![c] = [kind |-> ask[1], arg |-> ask[2], step |-> "look",
                                     id |-> None, uid |-> None]]
  /\ UNCHANGED <<rows, machine, told, due, amiss>>

Goto(c, step) == req' = [req EXCEPT ![c].step = step]

\* Nothing of it is left to do, and the answer says so.
Answered(c, status) ==
  /\ req' = [req EXCEPT ![c] = None]
  /\ told' = [told EXCEPT ![c] = status]
  /\ due' = [due EXCEPT ![c] = None]

\* 404, 409, or 400 for the account's status.
Refused(c) ==
  /\ req' = [req EXCEPT ![c] = None]
  /\ due' = [due EXCEPT ![c] = None]
  /\ UNCHANGED told

\* It ends before its end.
Broken(c) ==
  /\ c \in Unlucky
  /\ req' = [req EXCEPT ![c] = None]
  /\ due' = [due EXCEPT ![c] = <<req[c].kind, req[c].arg>>]
  /\ UNCHANGED told

\* What is left where it is.
Leaves(c, pieces) ==
  /\ amiss' = amiss \cup {<<c, p>> : p \in pieces}
  /\ amiss' = amiss \/ Cardinality(amiss) < MaxAmiss

\* A statement fails (500), or the request is dropped.  A vhost without a row
\* for its site is found by nobody.
Breaks(c) ==
  /\ req[c] # None
  /\ Broken(c)
  /\ Leaves(c, IF req[c].step = "addsite" THEN {"vhost"} ELSE {})
  /\ UNCHANGED <<rows, machine>>

\* A failure that is logged: the request goes on without.
Logged(c, pieces, step) ==
  /\ c \in Unlucky
  /\ Leaves(c, pieces)
  /\ Goto(c, step)
  /\ UNCHANGED <<rows, machine, told, due>>

Settled(c, pieces) == amiss' = amiss \ {<<c, p>> : p \in pieces}

\* What a request wants done, it has read of the account's row.
Proceed(c, step) ==
  /\ req' = [req EXCEPT ![c].step = step, ![c].id = acct[c].id, ![c].uid = acct[c].uid]
  /\ told' = [told EXCEPT ![c] = None]
  /\ UNCHANGED due

\* A row is written by the id the request has in hand.
PutAccount(c, status, uid, pack) ==
  acct' = [d \in Customers |->
             IF acct[d] # None /\ acct[d].id = req[c].id
             THEN [acct[d] EXCEPT !.status = status, !.uid = uid, !.pack = pack]
             ELSE acct[d]]

SetStatus(c, status) == PutAccount(c, status, acct[c].uid, acct[c].pack)

PutUser(c, user) == users' = [users EXCEPT ![req[c].uid] = user]

TheirUser(c) == users[req[c].uid]

-----------------------------------------------------------------------------
(* `create_account`                                                         *)

Asked(c, kinds) == At(c, "look") /\ req[c].kind \in kinds

\* A row that is active or pending and has its user is returned as it is; any
\* other is to be made again.  `live_user` is false too if the user cannot be
\* read.
Alive(c) == acct[c].status \in {"active", "pending"} /\ acct[c].uid # None

LookCreate(c) ==
  /\ Asked(c, {"create"})
  /\ \/ acct[c] # None /\ Alive(c) /\ Answered(c, acct[c].status)
     \/ acct[c] # None /\ (Alive(c) => c \in Unlucky) /\ Proceed(c, "forget")
     \/ /\ acct[c] = None
        /\ Goto(c, "insert") /\ UNCHANGED <<told, due>>
  /\ UNCHANGED <<rows, machine, amiss>>

Forget(c) ==
  /\ At(c, "forget")
  /\ acct' = [d \in Customers |->
                IF acct[d] # None /\ acct[d].id = req[c].id THEN None ELSE acct[d]]
  /\ Goto(c, "insert")
  /\ UNCHANGED <<users, site, machine, told, due, amiss>>

\* The name and the domain must be free; the row is there before the work.
Insert(c) ==
  /\ At(c, "insert")
  /\ UserOf(c) = {} /\ site[c] = None /\ vhost[c] = "none"
  /\ \E i \in Ids :
       /\ Follows(i, AccountIds)
       /\ acct' = [acct EXCEPT ![c] = [id |-> i, status |-> "pending",
                                       uid |-> None, pack |-> req[c].arg]]
       /\ req' = [req EXCEPT ![c].step = "ensure", ![c].id = i]
  /\ UNCHANGED <<users, site, machine, told, due, amiss>>

Taken(c) ==
  /\ At(c, "insert")
  /\ UserOf(c) # {} \/ site[c] # None \/ vhost[c] # "none"
  /\ Refused(c)
  /\ UNCHANGED <<rows, machine, amiss>>

\* `panel-user-ensure`, which leaves an account that is there as it is.
Ensure(c) ==
  /\ At(c, "ensure")
  /\ linux' = [linux EXCEPT ![c] = IF @ = None THEN [locked |-> TRUE, pw |-> None] ELSE @]
  /\ Goto(c, "setpw")
  /\ UNCHANGED <<rows, vhost, told, due, amiss>>

\* `panel-user-password` unlocks the account too.
SetPw(c) ==
  /\ At(c, "setpw")
  /\ linux' = [linux EXCEPT ![c] = [locked |-> FALSE, pw |-> req[c].arg]]
  /\ Goto(c, "adduser")
  /\ UNCHANGED <<rows, vhost, told, due, amiss>>

AddUser(c) ==
  /\ At(c, "adduser")
  /\ \E u \in Ids :
       /\ Follows(u, UserIds)
       /\ users' = [users EXCEPT ![u] = [name |-> c, active |-> TRUE, signed |-> FALSE,
                                         pack |-> req[c].arg, pw |-> req[c].arg]]
       /\ req' = [req EXCEPT ![c].step = "link", ![c].uid = u]
  /\ UNCHANGED <<acct, site, machine, told, due, amiss>>

\* Slip: linked to the newest user instead of the one that was inserted.
SlipLink(c) ==
  /\ At(c, "link")
  /\ \E u \in UserIds :
       (\A v \in UserIds : v <= u) /\ PutAccount(c, acct[c].status, u, acct[c].pack)
  /\ Goto(c, "build")
  /\ UNCHANGED <<users, site, machine, told, due, amiss>>

Link(c) ==
  /\ At(c, "link")
  /\ PutAccount(c, acct[c].status, req[c].uid, acct[c].pack)
  /\ Goto(c, "build")
  /\ UNCHANGED <<users, site, machine, told, due, amiss>>

\* `build_account_site`, its last step being the vhost.
Build(c) ==
  /\ At(c, "build")
  /\ vhost' = [vhost EXCEPT ![c] = "live"]
  /\ Goto(c, "addsite")
  /\ UNCHANGED <<rows, linux, told, due, amiss>>

AddSite(c) ==
  /\ At(c, "addsite")
  /\ site' = [site EXCEPT ![c] = [uid |-> req[c].uid, on |-> TRUE]]
  /\ Goto(c, "activate")
  /\ UNCHANGED <<acct, users, machine, told, due, amiss>>

\* What fails for a reason the billing system is told.
WorkFails(c) ==
  /\ c \in Unlucky
  /\ At(c, "ensure") \/ At(c, "setpw") \/ At(c, "build")
  /\ Goto(c, "fail")
  /\ UNCHANGED <<rows, machine, told, due, amiss>>

\* `fail_account`; that it cannot be recorded is logged.  A Linux account
\* that has no user yet stays.
Fail(c) ==
  /\ At(c, "fail")
  /\ SetStatus(c, "failed") \/ UNCHANGED acct
  /\ Leaves(c, IF req[c].uid = None /\ linux[c] # None THEN {"linux"} ELSE {})
  /\ Refused(c)
  /\ UNCHANGED <<users, site, machine>>

\* The answer is read from the row again.
Activate(c) ==
  /\ At(c, "activate")
  /\ SetStatus(c, "active")
  /\ Answered(c, "active") \/ Broken(c)
  /\ UNCHANGED <<users, site, machine, amiss>>

-----------------------------------------------------------------------------
(* `suspend` and `unsuspend`                                                *)

Target(c) == IF req[c].kind = "suspend" THEN "suspended" ELSE "active"
Source(c) == IF req[c].kind = "suspend" THEN "active" ELSE "suspended"

\* `status_change`
LookStatus(c) ==
  /\ Asked(c, {"suspend", "unsuspend"})
  /\ \/ /\ acct[c] # None /\ acct[c].status = Target(c)
        /\ Answered(c, Target(c))
     \/ /\ acct[c] # None => acct[c].status \notin {Target(c), Source(c)}
        /\ Refused(c)
     \/ /\ acct[c] # None /\ acct[c].status = Source(c)
        /\ Proceed(c, IF acct[c].uid = None THEN "mark" ELSE "user")
  /\ UNCHANGED <<rows, machine, amiss>>

\* `users().update`: a suspension ends the sessions with it.
ToggleUser(c) ==
  /\ At(c, "user")
  /\ PutUser(c, [TheirUser(c) EXCEPT !.active = req[c].kind = "unsuspend",
                                     !.signed = @ /\ req[c].kind = "unsuspend"])
  /\ Goto(c, IF c \in Owned(req[c].uid) THEN "site" ELSE "lock")
  /\ UNCHANGED <<acct, site, machine, told, due, amiss>>

\* Sites that cannot be listed are none.
SitesUnread(c) ==
  /\ At(c, "site")
  /\ Logged(c, {"site", "vhost"}, "lock")

ToggleSite(c) ==
  /\ At(c, "site")
  /\ site' = [site EXCEPT ![c].on = req[c].kind = "unsuspend"]
  /\ Settled(c, {"site"})
  /\ Goto(c, "vhost")
  /\ UNCHANGED <<acct, users, machine, told, due>>

SiteFails(c) ==
  /\ At(c, "site")
  /\ Logged(c, {"site"}, "vhost")

\* `rewrite_website_vhost`
ToggleVhost(c) ==
  /\ At(c, "vhost")
  /\ vhost' = [vhost EXCEPT ![c] = IF req[c].kind = "suspend" THEN "off" ELSE "live"]
  /\ Settled(c, {"vhost"})
  /\ Goto(c, "lock")
  /\ UNCHANGED <<rows, linux, told, due>>

VhostFails(c) ==
  /\ At(c, "vhost")
  /\ Logged(c, {"vhost"}, "lock")

\* `lock_accounts`
ToggleLock(c) ==
  /\ At(c, "lock") /\ linux[c] # None
  /\ linux' = [linux EXCEPT ![c].locked = req[c].kind = "suspend"]
  /\ Settled(c, {"linux"})
  /\ Goto(c, "mark")
  /\ UNCHANGED <<rows, vhost, told, due>>

LockFails(c) ==
  /\ At(c, "lock")
  /\ Logged(c, {"linux"}, "mark")

Mark(c) ==
  /\ At(c, "mark")
  /\ SetStatus(c, Target(c))
  /\ Answered(c, Target(c))
  /\ UNCHANGED <<users, site, machine, amiss>>

-----------------------------------------------------------------------------
(* `terminate`                                                              *)

LookEnd(c) ==
  /\ Asked(c, {"terminate"})
  /\ \/ acct[c] = None /\ Refused(c)
     \/ acct[c] # None /\ acct[c].status = "terminated" /\ Answered(c, "terminated")
     \/ /\ acct[c] # None /\ acct[c].status # "terminated"
        /\ Proceed(c, IF acct[c].uid = None THEN "close" ELSE "list")
  /\ UNCHANGED <<rows, machine, amiss>>

\* Sites that cannot be listed are none here as well.
List(c) ==
  /\ At(c, "list")
  /\ \/ c \in Owned(req[c].uid) /\ Goto(c, "dropvhost")
     \/ Goto(c, "droplinux")
  /\ UNCHANGED <<rows, machine, told, due, amiss>>

DropVhost(c) ==
  /\ At(c, "dropvhost")
  /\ vhost' = [vhost EXCEPT ![c] = "none"]
  /\ Settled(c, {"vhost"})
  /\ Goto(c, "dropsite")
  /\ UNCHANGED <<rows, linux, told, due>>

VhostStays(c) ==
  /\ At(c, "dropvhost")
  /\ Logged(c, {"vhost"}, "dropsite")

DropSite(c) ==
  /\ At(c, "dropsite")
  /\ site' = [site EXCEPT ![c] = None]
  /\ Settled(c, {"site"})
  /\ Goto(c, "droplinux")
  /\ UNCHANGED <<acct, users, machine, told, due>>

DropLinux(c) ==
  /\ At(c, "droplinux")
  /\ linux' = [linux EXCEPT ![c] = None]
  /\ Settled(c, {"linux"})
  /\ Goto(c, "dropuser")
  /\ UNCHANGED <<rows, vhost, told, due>>

LinuxStays(c) ==
  /\ At(c, "droplinux")
  /\ Logged(c, {"linux"}, "dropuser")

\* Slip: the tables have no foreign keys.
SlipUnlinked(u) == acct

\* ON DELETE SET NULL
Unlinked(u) ==
  [d \in Customers |->
     IF acct[d] # None /\ acct[d].uid = u THEN [acct[d] EXCEPT !.uid = None] ELSE acct[d]]

\* Slip: a user that has sites goes as well.
SlipDropUser(c) ==
  /\ At(c, "dropuser")
  /\ users' = [users EXCEPT ![req[c].uid] = None]
  /\ acct' = Unlinked(req[c].uid)
  /\ Goto(c, "close")
  /\ UNCHANGED <<site, machine, told, due, amiss>>

\* The key of `websites.owner_id` does not let go of a user that has sites.
DropUser(c) ==
  /\ At(c, "dropuser")
  /\ Owned(req[c].uid) = {}
  /\ users' = [users EXCEPT ![req[c].uid] = None]
  /\ acct' = Unlinked(req[c].uid)
  /\ Goto(c, "close")
  /\ UNCHANGED <<site, machine, told, due, amiss>>

Close(c) ==
  /\ At(c, "close")
  /\ PutAccount(c, "terminated", None, acct[c].pack)
  /\ Answered(c, "terminated")
  /\ UNCHANGED <<users, site, machine, amiss>>

-----------------------------------------------------------------------------
(* `change_password` and `change_package`, whatever the account's status    *)

LookUser(c) ==
  /\ Asked(c, {"password", "package"})
  /\ \/ /\ acct[c] # None => acct[c].uid = None
        /\ Refused(c)
     \/ /\ acct[c] # None /\ acct[c].uid # None
        /\ req' = [req EXCEPT ![c].step = IF req[c].kind = "password" THEN "hash" ELSE "row",
                              ![c].id = acct[c].id, ![c].uid = acct[c].uid]
        /\ UNCHANGED <<told, due>>
  /\ UNCHANGED <<rows, machine, amiss>>

\* It is done, and what was told before is still to hold.
Done(c) ==
  /\ req' = [req EXCEPT ![c] = None]
  /\ due' = [due EXCEPT ![c] = None]
  /\ UNCHANGED told

Hash(c) ==
  /\ At(c, "hash")
  /\ PutUser(c, [TheirUser(c) EXCEPT !.pw = req[c].arg])
  /\ Goto(c, "bump")
  /\ UNCHANGED <<acct, site, machine, told, due, amiss>>

Bump(c) ==
  /\ At(c, "bump")
  /\ PutUser(c, [TheirUser(c) EXCEPT !.signed = FALSE])
  /\ Goto(c, "follow")
  /\ UNCHANGED <<acct, site, machine, told, due, amiss>>

\* `follow_panel_password`, which unlocks the account.
Follow(c) ==
  /\ At(c, "follow") /\ linux[c] # None
  /\ linux' = [linux EXCEPT ![c] = [locked |-> FALSE, pw |-> req[c].arg]]
  /\ Done(c)
  /\ UNCHANGED <<rows, vhost, amiss>>

SetPackage(c) ==
  /\ At(c, "row")
  /\ PutAccount(c, acct[c].status, acct[c].uid, req[c].arg)
  /\ Goto(c, "copy")
  /\ UNCHANGED <<users, site, machine, told, due, amiss>>

\* Slip: the limits are referred to, not copied.
SlipCopyLimits(c) ==
  /\ At(c, "copy")
  /\ Done(c)
  /\ UNCHANGED <<rows, machine, amiss>>

CopyLimits(c) ==
  /\ At(c, "copy")
  /\ PutUser(c, [TheirUser(c) EXCEPT !.pack = req[c].arg])
  /\ Done(c)
  /\ UNCHANGED <<acct, site, machine, amiss>>

-----------------------------------------------------------------------------
(* What else happens in the panel.                                          *)

\* The customer signs in.
SignIn(c) ==
  /\ \E u \in UserOf(c) :
       /\ users[u].active
       /\ users' = [users EXCEPT ![u].signed = TRUE]
  /\ UNCHANGED <<acct, site, machine, req, told, due, amiss>>

\* An administrator removes the user and what belongs to it; nothing is asked
\* for the account meanwhile.
RemoveUser(c) ==
  /\ req[c] = None
  /\ \E u \in UserOf(c) :
       /\ users' = [users EXCEPT ![u] = None]
       /\ acct' = Unlinked(u)
  /\ site' = [site EXCEPT ![c] = None]
  /\ IF site[c] = None THEN UNCHANGED vhost /\ Settled(c, Pieces \ {"vhost"})
     ELSE vhost' = [vhost EXCEPT ![c] = "none"] /\ Settled(c, Pieces)
  /\ linux' = [linux EXCEPT ![c] = None]
  /\ told' = [told EXCEPT ![c] = None]
  /\ UNCHANGED <<req, due>>

Step(c) ==
  \/ Ask(c) \/ Breaks(c)
  \/ LookCreate(c) \/ Forget(c) \/ Insert(c) \/ Taken(c) \/ Ensure(c) \/ SetPw(c) \/ AddUser(c)
  \/ Link(c) \/ Build(c) \/ AddSite(c) \/ WorkFails(c) \/ Fail(c) \/ Activate(c)
  \/ LookStatus(c) \/ ToggleUser(c) \/ SitesUnread(c) \/ ToggleSite(c) \/ SiteFails(c)
  \/ ToggleVhost(c) \/ VhostFails(c) \/ ToggleLock(c) \/ LockFails(c) \/ Mark(c)
  \/ LookEnd(c) \/ List(c) \/ DropVhost(c) \/ VhostStays(c) \/ DropSite(c) \/ DropLinux(c)
  \/ LinuxStays(c) \/ DropUser(c) \/ Close(c)
  \/ LookUser(c) \/ Hash(c) \/ Bump(c) \/ Follow(c) \/ SetPackage(c) \/ CopyLimits(c)
  \/ SignIn(c) \/ RemoveUser(c)

Next == \E c \in Customers : Step(c)

Spec == Init /\ [][Next]_vars

-----------------------------------------------------------------------------
(* Properties                                                               *)

\* The values the variables take.
TypeOK ==
  /\ acct \in [Customers -> Account \cup {None}]
  /\ users \in [Ids -> User \cup {None}]
  /\ site \in [Customers -> Site \cup {None}]
  /\ vhost \in [Customers -> {"none", "live", "off"}]
  /\ linux \in [Customers -> Linux \cup {None}]
  /\ req \in [Customers -> Request \cup {None}]
  /\ told \in [Customers -> Statuses \cup {None}]
  /\ due \in [Customers -> (Kinds \X Values) \cup {None}]
  /\ amiss \subseteq Customers \X Pieces

\* Ids are given out again, yet an account's user and a site's owner are
\* never somebody else: what is asked for one customer goes to that one.
\* (`set_links`, and the foreign keys of the tables.)
OwnRows ==
  \A c \in Customers :
    /\ acct[c] # None /\ acct[c].uid # None =>
         users[acct[c].uid] # None /\ users[acct[c].uid].name = c
    /\ site[c] # None => users[site[c].uid] # None /\ users[site[c].uid].name = c

\* `suspend`: the user goes inactive and every session with it.
Blocked(c) ==
  /\ \A u \in UserOf(c) : ~users[u].active /\ ~users[u].signed
  /\ site[c] # None /\ <<c, "site">> \notin amiss => ~site[c].on
  /\ site[c] # None /\ <<c, "vhost">> \notin amiss => vhost[c] = "off"

Served(c) ==
  /\ acct[c] # None
  /\ \A u \in UserOf(c) : users[u].active
  /\ site[c] # None /\ <<c, "site">> \notin amiss => site[c].on
  /\ site[c] # None /\ <<c, "vhost">> \notin amiss => vhost[c] = "live"

Gone(c) ==
  /\ UserOf(c) = {} /\ site[c] = None
  /\ <<c, "vhost">> \notin amiss => vhost[c] = "none"
  /\ <<c, "linux">> \notin amiss => linux[c] = None

\* What a billing system is told is so, whatever failed or was cut off on the
\* way to it, as long as it repeats what failed before it asks for something
\* else; except for what is only logged.  (`suspend`, `unsuspend`,
\* `terminate`, `create_account`.)
OkMeansDone ==
  \A c \in Customers :
    /\ told[c] = "suspended"  => Blocked(c)
    /\ told[c] = "active"     => Served(c)
    /\ told[c] = "terminated" => Gone(c)

\* The limits that are enforced are the package's that is paid for, and one
\* password opens the panel and SFTP.  (`change_package`, `change_password`.)
BothHalves ==
  \A c \in Customers :
    acct[c] # None /\ acct[c].uid # None /\ req[c] = None /\ due[c] = None =>
      /\ users[acct[c].uid].pack = acct[c].pack
      /\ linux[c] # None => users[acct[c].uid].pw = linux[c].pw

\* A customer's data.
Of(c) == <<acct[c], {users[u] : u \in UserOf(c)}, site[c], vhost[c], linux[c]>>

\* A step of a request that is about one customer changes nothing of
\* another's.
OnlyTheirs ==
  [][\A c, d \in Customers : c # d /\ req'[d] # req[d] => Of(c)' = Of(c)]_vars

\* `suspend` locks the customer's SFTP login, for as long as it lasts.
SuspendedIsLocked ==
  \A c \in Customers :
    told[c] = "suspended" /\ linux[c] # None /\ <<c, "linux">> \notin amiss => linux[c].locked
=============================================================================
