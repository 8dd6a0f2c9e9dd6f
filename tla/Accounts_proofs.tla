--------------------------- MODULE Accounts_proofs ---------------------------
(***************************************************************************)
(* Proofs about Accounts.  Ids are given out again, so that a request has  *)
(* its customer's rows in hand only because of what it has read and what   *)
(* cannot have happened since.                                             *)
(*                                                                         *)
(* That what is told is so takes what each step of a request leaves for    *)
(* the next one, after any failure, and for the request that repeats it.   *)
(* As no step changes what is another customer's, this is said of one      *)
(* customer's values (`Sound`), proved for each kind of step as a fact     *)
(* about values (`...Sound`), and brought back to the actions (`...Told`). *)
(***************************************************************************)
EXTENDS Accounts, TLAPS

\* The steps before there is a user, and those that have the account's user.
Making  == {"ensure", "setpw", "adduser"}
Working == {"build", "addsite", "activate", "user", "site", "vhost", "lock", "list", "dropvhost",
            "dropsite", "droplinux", "dropuser", "hash", "bump", "follow", "row", "copy"}

IsTheirs(c, u) == u \in Ids /\ users[u] # None /\ users[u].name = c

Linked(c) == acct[c] # None /\ acct[c].uid # None => IsTheirs(c, acct[c].uid)

Sited(c) == site[c] # None => IsTheirs(c, site[c].uid)

\* What a request has in hand.
Held(c, r) ==
  r # None =>
    /\ r.step \notin {"look", "insert"} => acct[c] # None /\ acct[c].id = r.id
    /\ r.step = "insert" => acct[c] = None
    /\ r.step \in Making => UserOf(c) = {} /\ acct[c].uid = None
    /\ r.step = "link" => acct[c].uid = None /\ IsTheirs(c, r.uid)
    /\ r.step \in Working => acct[c].uid = r.uid /\ r.uid # None
    /\ r.step = "close" => acct[c].uid = None
    /\ r.step = "site" => site[c] # None

IdsApart ==
  \A c, d \in Customers :
    acct[c] # None /\ acct[d] # None /\ acct[c].id = acct[d].id => c = d

OneUserEach ==
  \A u, v \in Ids :
    users[u] # None /\ users[v] # None /\ users[u].name = users[v].name => u = v

Inv ==
  /\ TypeOK /\ IdsApart /\ OneUserEach
  /\ \A c \in Customers : Linked(c) /\ Sited(c) /\ Held(c, req[c])

LEMMA OwnRowsHold == Inv => OwnRows
BY DEF Inv, OwnRows, Linked, Sited, IsTheirs

-----------------------------------------------------------------------------
(* Types.                                                                   *)

LEMMA MachineTypes ==
  ASSUME TypeOK, NEW c \in Customers, Step(c)
  PROVE  /\ vhost' \in [Customers -> {"none", "live", "off"}]
         /\ linux' \in [Customers -> Linux \cup {None}]
         /\ told' \in [Customers -> Statuses \cup {None}]
         /\ due' \in [Customers -> (Kinds \X Values) \cup {None}]
         /\ amiss' \subseteq Customers \X Pieces
<1>1. req[c] # None => req[c].kind \in Kinds /\ req[c].arg \in Values
  BY DEF TypeOK, Request
<1>2. vhost' \in [Customers -> {"none", "live", "off"}]
  BY DEF TypeOK, Step, Ask, Breaks, LookCreate, Forget, Insert, Taken, Ensure, SetPw, AddUser,
         Link, Build, AddSite, WorkFails, Fail, Activate, LookStatus, ToggleUser, SitesUnread,
         ToggleSite, SiteFails, ToggleVhost, VhostFails, ToggleLock, LockFails, Mark, LookEnd,
         List, DropVhost, VhostStays, DropSite, DropLinux, LinuxStays, DropUser, Close, LookUser,
         Hash, Bump, Follow, SetPackage, CopyLimits, SignIn, RemoveUser, Logged, machine
<1>3. linux' \in [Customers -> Linux \cup {None}]
  <2>1. CASE UNCHANGED linux
    BY <2>1 DEF TypeOK
  <2>2. CASE Ensure(c)
    <3>1. [locked |-> TRUE, pw |-> None] \in Linux
      BY DEF Linux
    <3>2. linux'[c] = linux[c] \/ linux'[c] = [locked |-> TRUE, pw |-> None]
      BY <2>2 DEF Ensure, TypeOK
    <3> QED
      BY <2>2, <3>1, <3>2 DEF Ensure, TypeOK
  <2>3. CASE SetPw(c) \/ Follow(c)
    <3>1. [locked |-> FALSE, pw |-> req[c].arg] \in Linux
      BY <1>1, <2>3 DEF Linux, SetPw, Follow, At
    <3> QED
      BY <2>3, <3>1 DEF SetPw, Follow, TypeOK
  <2>4. CASE ToggleLock(c)
    <3>1. linux[c] \in Linux
      BY <2>4 DEF TypeOK, ToggleLock
    <3>2. (req[c].kind = "suspend") \in BOOLEAN
      OBVIOUS
    <3>3. [linux[c] EXCEPT !.locked = req[c].kind = "suspend"] \in Linux
      BY <3>1, <3>2 DEF Linux
    <3> QED
      BY <2>4, <3>3 DEF TypeOK, ToggleLock
  <2>5. CASE DropLinux(c) \/ RemoveUser(c)
    BY <2>5 DEF TypeOK, DropLinux, RemoveUser
  <2> QED
    BY <2>1, <2>2, <2>3, <2>4, <2>5
    DEF Step, Ask, Breaks, LookCreate, Forget, Insert, Taken, AddUser, Link, Build, AddSite,
        WorkFails, Fail, Activate, LookStatus, ToggleUser, SitesUnread, ToggleSite, SiteFails,
        ToggleVhost, VhostFails, LockFails, Mark, LookEnd, List, DropVhost, VhostStays, DropSite,
        LinuxStays, DropUser, Close, LookUser, Hash, Bump, SetPackage, CopyLimits, SignIn, Logged,
        machine
<1>4. told' \in [Customers -> Statuses \cup {None}]
  <2>1. CASE LookCreate(c) \/ LookStatus(c) \/ LookEnd(c) \/ Activate(c) \/ Mark(c) \/ Close(c)
             \/ RemoveUser(c)
    <3>1. acct[c] # None => acct[c].status \in Statuses
      BY DEF TypeOK, Account
    <3> QED
      BY <2>1, <3>1 DEF TypeOK, LookCreate, LookStatus, LookEnd, Activate, Mark, Close, RemoveUser,
                        Answered, Refused, Broken, Proceed, Target, Statuses
  <2>2. CASE UNCHANGED told
    BY <2>2 DEF TypeOK
  <2> QED
    BY <2>1, <2>2
    DEF Step, Ask, Breaks, Forget, Insert, Taken, Ensure, SetPw, AddUser, Link, Build, AddSite,
        WorkFails, Fail, ToggleUser, SitesUnread, ToggleSite, SiteFails, ToggleVhost, VhostFails,
        ToggleLock, LockFails, List, DropVhost, VhostStays, DropSite, DropLinux, LinuxStays,
        DropUser, LookUser, Hash, Bump, Follow, SetPackage, CopyLimits, SignIn, Logged, Refused,
        Broken, Done
<1>5. due' \in [Customers -> (Kinds \X Values) \cup {None}]
  <2>1. CASE Breaks(c) \/ Activate(c)
    BY <1>1, <2>1 DEF TypeOK, Breaks, Activate, Answered, Broken, At
  <2>2. CASE \/ UNCHANGED due
             \/ due' = [due EXCEPT ![c] = None]
    BY <2>2 DEF TypeOK
  <2> QED
    BY <2>1, <2>2
    DEF Step, Ask, LookCreate, Forget, Insert, Taken, Ensure, SetPw, AddUser, Link, Build, AddSite,
        WorkFails, Fail, LookStatus, ToggleUser, SitesUnread, ToggleSite, SiteFails, ToggleVhost,
        VhostFails, ToggleLock, LockFails, Mark, LookEnd, List, DropVhost, VhostStays, DropSite,
        DropLinux, LinuxStays, DropUser, Close, LookUser, Hash, Bump, Follow, SetPackage,
        CopyLimits, SignIn, RemoveUser, Logged, Answered, Refused, Proceed, Done
<1>6. amiss' \subseteq Customers \X Pieces
  <2>1. amiss' \subseteq amiss \cup {<<c, p>> : p \in Pieces}
    BY DEF Step, Ask, Breaks, LookCreate, Forget, Insert, Taken, Ensure, SetPw, AddUser, Link,
        Build, AddSite, WorkFails, Fail, Activate, LookStatus, ToggleUser, SitesUnread, ToggleSite,
        SiteFails, ToggleVhost, VhostFails, ToggleLock, LockFails, Mark, LookEnd, List, DropVhost,
        VhostStays, DropSite, DropLinux, LinuxStays, DropUser, Close, LookUser, Hash, Bump, Follow,
        SetPackage, CopyLimits, SignIn, RemoveUser, Logged, Leaves, Settled, Pieces
  <2> QED
    BY <2>1 DEF TypeOK
<1> QED
  BY <1>2, <1>3, <1>4, <1>5, <1>6

-----------------------------------------------------------------------------
(* What a step writes of the rows.                                          *)

\* The steps that leave the rows alone.
Reads(c) ==
  \/ Ask(c) \/ Breaks(c) \/ LookCreate(c) \/ Taken(c) \/ Ensure(c) \/ SetPw(c) \/ Build(c)
  \/ WorkFails(c) \/ LookStatus(c) \/ SitesUnread(c) \/ SiteFails(c) \/ ToggleVhost(c)
  \/ VhostFails(c) \/ ToggleLock(c) \/ LockFails(c) \/ LookEnd(c) \/ List(c) \/ DropVhost(c)
  \/ VhostStays(c) \/ DropLinux(c) \/ LinuxStays(c) \/ LookUser(c) \/ Follow(c)

\* Those that write the row of provisioning_accounts, or the user, in place.
PutsAccount(c) ==
  Fail(c) \/ Activate(c) \/ Mark(c) \/ Link(c) \/ SetPackage(c) \/ Close(c)

PutsUser(c) == ToggleUser(c) \/ Hash(c) \/ Bump(c) \/ CopyLimits(c)

\* Those that add rows and delete them.
Moves(c) ==
  \/ Forget(c) \/ Insert(c) \/ AddUser(c) \/ AddSite(c) \/ ToggleSite(c) \/ DropSite(c)
  \/ DropUser(c) \/ SignIn(c) \/ RemoveUser(c)

LEMMA StepCases ==
  ASSUME NEW c \in Customers, Step(c)
  PROVE  Reads(c) \/ PutsAccount(c) \/ PutsUser(c) \/ Moves(c)
BY DEF Step, Reads, PutsAccount, PutsUser, Moves

LEMMA ReadsKeep ==
  ASSUME NEW c \in Customers, Reads(c)
  PROVE  UNCHANGED rows
BY DEF Reads, Ask, Breaks, LookCreate, Taken, Ensure, SetPw, Build, WorkFails, LookStatus,
       SitesUnread, SiteFails, ToggleVhost, VhostFails, ToggleLock, LockFails, LookEnd, List,
       DropVhost, VhostStays, DropLinux, LinuxStays, LookUser, Follow, Logged, rows

\* The row that the request's id leads to is the customer's.
LEMMA InHand ==
  ASSUME Inv, NEW c \in Customers, req[c] # None, req[c].step \notin {"look", "insert"}
  PROVE  /\ acct[c] \in Account /\ acct[c].id = req[c].id
         /\ \A d \in Customers : acct[d] # None /\ acct[d].id = req[c].id <=> d = c
BY DEF Inv, TypeOK, Held, IdsApart

\* The user that the request's id leads to is the customer's.
LEMMA UserInHand ==
  ASSUME Inv, NEW c \in Customers, req[c] # None, req[c].step \in Working
  PROVE  /\ IsTheirs(c, req[c].uid)
         /\ users[req[c].uid] \in User
<1>1. acct[c] # None /\ acct[c].uid = req[c].uid /\ req[c].uid # None
  BY DEF Inv, Held, Working
<1> QED
  BY <1>1 DEF Inv, Linked, IsTheirs, TypeOK

LEMMA PutAccountKeeps ==
  ASSUME Inv, NEW c \in Customers, PutsAccount(c)
  PROVE  /\ UNCHANGED <<users, site, machine>>
         /\ acct' \in [Customers -> Account \cup {None}]
         /\ \A d \in Customers \ {c} : acct'[d] = acct[d]
         /\ acct[c] # None /\ acct'[c] # None /\ acct'[c].id = acct[c].id
         /\ acct'[c].uid = (IF Link(c) THEN req[c].uid
                            ELSE IF Close(c) THEN None ELSE acct[c].uid)
<1>1. req[c] # None /\ req[c].step \notin {"look", "insert"}
  BY DEF PutsAccount, Fail, Activate, Mark, Link, SetPackage, Close, At
<1>2. /\ acct[c] \in Account /\ acct[c] # None
      /\ \A d \in Customers : acct[d] # None /\ acct[d].id = req[c].id <=> d = c
  BY <1>1, InHand, ConstantsAssumption
<1>3. ASSUME NEW s \in Statuses, NEW u \in Ids \cup {None}, NEW p \in Values,
             PutAccount(c, s, u, p)
      PROVE  /\ acct' \in [Customers -> Account \cup {None}]
             /\ \A d \in Customers \ {c} : acct'[d] = acct[d]
             /\ acct'[c] # None /\ acct'[c].id = acct[c].id /\ acct'[c].uid = u
  <2>1. \A d \in Customers : acct[d] \in Account \cup {None}
    BY DEF Inv, TypeOK
  <2>2. acct'[c] = [acct[c] EXCEPT !.status = s, !.uid = u, !.pack = p]
    BY <1>2, <1>3 DEF PutAccount
  <2>3. /\ acct'[c] \in Account /\ acct'[c].id = acct[c].id /\ acct'[c].uid = u
    BY <1>2, <2>2 DEF Account
  <2>4. \A d \in Customers \ {c} : acct'[d] = acct[d]
    BY <1>2, <1>3 DEF PutAccount
  <2>5. acct'[c] # None
    BY <2>3, ConstantsAssumption
  <2>6. \A d \in Customers : acct'[d] \in Account \cup {None}
    BY <2>1, <2>3, <2>4
  <2> QED
    BY <1>3, <2>3, <2>4, <2>5, <2>6 DEF PutAccount
<1>4. acct[c].status \in Statuses /\ acct[c].uid \in Ids \cup {None} /\ acct[c].pack \in Values
  BY <1>2 DEF Account
<1>5. req[c].arg \in Values /\ req[c].uid \in Ids \cup {None}
  BY <1>1 DEF Inv, TypeOK, Request
<1>6. CASE (Fail(c) /\ ~UNCHANGED acct) \/ Activate(c) \/ Mark(c)
  <2>1. PICK s \in Statuses : SetStatus(c, s)
    BY <1>6 DEF Fail, Activate, Mark, Target, Statuses
  <2>2. ~Link(c) /\ ~Close(c)
    BY <1>6 DEF Fail, Activate, Mark, Link, Close, At
  <2>3. UNCHANGED <<users, site, machine>>
    BY <1>6 DEF Fail, Activate, Mark
  <2> QED
    BY <1>2, <1>3, <1>4, <2>1, <2>2, <2>3 DEF SetStatus
<1>7. CASE Fail(c) /\ UNCHANGED acct
  BY <1>2, <1>7 DEF Fail, Link, Close, At, Inv, TypeOK
<1>8. CASE Link(c)
  BY <1>2, <1>3, <1>4, <1>5, <1>8 DEF Link
<1>9. CASE SetPackage(c)
  <2>1. ~Link(c) /\ ~Close(c)
    BY <1>9 DEF SetPackage, Link, Close, At
  <2> QED
    BY <1>2, <1>3, <1>4, <1>5, <1>9, <2>1 DEF SetPackage
<1>10. CASE Close(c)
  <2>1. ~Link(c) /\ "terminated" \in Statuses
    BY <1>10 DEF Close, Link, At, Statuses
  <2> QED
    BY <1>2, <1>3, <1>4, <1>10, <2>1 DEF Close
<1> QED
  BY <1>6, <1>7, <1>8, <1>9, <1>10 DEF PutsAccount

\* A user's row is written where it is.
LEMMA PutUserKeeps ==
  ASSUME Inv, NEW c \in Customers, PutsUser(c) \/ SignIn(c)
  PROVE  /\ UNCHANGED <<acct, site, machine>>
         /\ users' \in [Ids -> User \cup {None}]
         /\ \E u \in Ids :
              /\ IsTheirs(c, u) /\ users'[u] # None /\ users'[u].name = c
              /\ \A v \in Ids \ {u} : users'[v] = users[v]
<1>1. CASE PutsUser(c)
  <2>1. req[c] # None /\ req[c].step \in Working
    BY <1>1 DEF PutsUser, ToggleUser, Hash, Bump, CopyLimits, At, Working
  <2>2. /\ IsTheirs(c, req[c].uid) /\ users[req[c].uid] \in User
        /\ req[c].arg \in Values
    BY <2>1, UserInHand DEF Inv, TypeOK, Request
  <2>3. PICK w \in User : w.name = c /\ users' = [users EXCEPT ![req[c].uid] = w]
    <3>1. CASE ToggleUser(c)
      <4> DEFINE on == req[c].kind = "unsuspend"
      <4>1. on \in BOOLEAN /\ (users[req[c].uid].signed /\ on) \in BOOLEAN
        OBVIOUS
      <4> QED
        BY <2>2, <3>1, <4>1 DEF ToggleUser, PutUser, TheirUser, User, IsTheirs
    <3>2. CASE Hash(c)
      BY <2>2, <3>2 DEF Hash, PutUser, TheirUser, User, IsTheirs
    <3>3. CASE Bump(c)
      BY <2>2, <3>3 DEF Bump, PutUser, TheirUser, User, IsTheirs
    <3>4. CASE CopyLimits(c)
      BY <2>2, <3>4 DEF CopyLimits, PutUser, TheirUser, User, IsTheirs
    <3> QED
      BY <1>1, <3>1, <3>2, <3>3, <3>4 DEF PutsUser
  <2>4. UNCHANGED <<acct, site, machine>>
    BY <1>1 DEF PutsUser, ToggleUser, Hash, Bump, CopyLimits
  <2> QED
    BY <2>2, <2>3, <2>4, ConstantsAssumption DEF IsTheirs, Inv, TypeOK
<1>2. CASE SignIn(c)
  <2>1. PICK u \in UserOf(c) : users' = [users EXCEPT ![u].signed = TRUE]
    BY <1>2 DEF SignIn
  <2>2. u \in Ids /\ users[u] \in User /\ users[u] # None /\ users[u].name = c
    BY <2>1 DEF UserOf, Inv, TypeOK
  <2>3. [users[u] EXCEPT !.signed = TRUE] \in User /\ [users[u] EXCEPT !.signed = TRUE].name = c
    BY <2>2 DEF User
  <2>4. users' = [users EXCEPT ![u] = [users[u] EXCEPT !.signed = TRUE]]
    BY <2>1
  <2>5. UNCHANGED <<acct, site, machine>>
    BY <1>2 DEF SignIn
  <2>6. /\ users'[u] = [users[u] EXCEPT !.signed = TRUE]
        /\ \A v \in Ids \ {u} : users'[v] = users[v]
    BY <2>2, <2>4 DEF Inv, TypeOK
  <2>7. users' \in [Ids -> User \cup {None}]
    BY <2>2, <2>3, <2>4 DEF Inv, TypeOK
  <2>8. users'[u] # None /\ users'[u].name = c
    BY <2>3, <2>6, ConstantsAssumption
  <2> QED
    BY <2>2, <2>5, <2>6, <2>7, <2>8 DEF IsTheirs
<1> QED
  BY <1>1, <1>2

\* A user's row that changes was the customer's, or nobody's, and is.
TouchesOnly(c) ==
  \A u \in Ids :
    \/ users'[u] = users[u]
    \/ /\ users[u] = None \/ users[u].name = c
       /\ users'[u] = None \/ users'[u].name = c

\* Rows are added for the customer, and only the customer's are deleted.
LEMMA MovesKeep ==
  ASSUME Inv, NEW c \in Customers, Moves(c)
  PROVE  /\ acct' \in [Customers -> Account \cup {None}]
         /\ users' \in [Ids -> User \cup {None}]
         /\ site' \in [Customers -> Site \cup {None}]
         /\ \A d \in Customers \ {c} : acct'[d] = acct[d] /\ site'[d] = site[d]
         /\ TouchesOnly(c)
<1> USE DEF TouchesOnly
<1>1. /\ acct \in [Customers -> Account \cup {None}]
      /\ users \in [Ids -> User \cup {None}]
      /\ site \in [Customers -> Site \cup {None}]
      /\ req[c] # None => req[c] \in Request
  BY DEF Inv, TypeOK
<1>2. CASE Forget(c)
  <2>1. \A d \in Customers : acct[d] # None /\ acct[d].id = req[c].id <=> d = c
    BY <1>2, InHand DEF Forget, At
  <2> QED
    BY <1>1, <1>2, <2>1 DEF Forget
<1>3. CASE Insert(c)
  <2>1. PICK i \in Ids : acct' = [acct EXCEPT ![c] = [id |-> i, status |-> "pending",
                                                     uid |-> None, pack |-> req[c].arg]]
    BY <1>3 DEF Insert
  <2>2. [id |-> i, status |-> "pending", uid |-> None, pack |-> req[c].arg] \in Account
    BY <1>1, <1>3, <2>1 DEF Insert, At, Request, Account, Statuses
  <2> QED
    BY <1>1, <1>3, <2>1, <2>2 DEF Insert
<1>4. CASE AddUser(c)
  <2>1. PICK u \in Ids :
          /\ Follows(u, UserIds)
          /\ users' = [users EXCEPT ![u] = [name |-> c, active |-> TRUE, signed |-> FALSE,
                                           pack |-> req[c].arg, pw |-> req[c].arg]]
    BY <1>4 DEF AddUser
  <2>2. users[u] = None
    BY <2>1 DEF Follows, UserIds, Ids
  <2>3. [name |-> c, active |-> TRUE, signed |-> FALSE,
         pack |-> req[c].arg, pw |-> req[c].arg] \in User
    BY <1>1, <1>4 DEF AddUser, At, Request, User
  <2>4. /\ users'[u].name = c
        /\ \A v \in Ids \ {u} : users'[v] = users[v]
        /\ users' \in [Ids -> User \cup {None}]
    BY <1>1, <2>1, <2>3
  <2> QED
    BY <1>1, <1>4, <2>2, <2>4 DEF AddUser
<1>5. CASE AddSite(c)
  <2>1. req[c].uid \in Ids
    BY <1>5, UserInHand DEF AddSite, At, Working, IsTheirs
  <2>2. [uid |-> req[c].uid, on |-> TRUE] \in Site
    BY <2>1 DEF Site
  <2> QED
    BY <1>1, <1>5, <2>2 DEF AddSite
<1>6. CASE ToggleSite(c)
  <2>1. site[c] # None
    BY <1>6 DEF ToggleSite, At, Inv, Held
  <2>2. (req[c].kind = "unsuspend") \in BOOLEAN
    OBVIOUS
  <2>3. [site[c] EXCEPT !.on = req[c].kind = "unsuspend"] \in Site
    BY <1>1, <2>1, <2>2 DEF Site
  <2> QED
    BY <1>1, <1>6, <2>3 DEF ToggleSite
<1>7. CASE DropSite(c)
  BY <1>1, <1>7 DEF DropSite
<1>8. CASE DropUser(c) \/ RemoveUser(c)
  <2>1. PICK u \in Ids : /\ IsTheirs(c, u)
                         /\ users' = [users EXCEPT ![u] = None] /\ acct' = Unlinked(u)
    <3>1. CASE DropUser(c)
      BY <3>1, UserInHand DEF DropUser, At, Working, IsTheirs
    <3>2. CASE RemoveUser(c)
      BY <3>2 DEF RemoveUser, UserOf, IsTheirs
    <3> QED
      BY <1>8, <3>1, <3>2
  <2>2. \A d \in Customers \ {c} : acct[d] # None => acct[d].uid # u
    BY <2>1, ConstantsAssumption DEF Inv, Linked, IsTheirs
  <2>3. \A d \in Customers : acct[d] # None => [acct[d] EXCEPT !.uid = None] \in Account
    BY <1>1 DEF Account
  <2>4. acct' \in [Customers -> Account \cup {None}]
    BY <1>1, <2>1, <2>3 DEF Unlinked
  <2>5. \A d \in Customers \ {c} : acct'[d] = acct[d]
    BY <2>1, <2>2 DEF Unlinked
  <2>6. /\ users' \in [Ids -> User \cup {None}]
        /\ users'[u] = None /\ \A v \in Ids \ {u} : users'[v] = users[v]
    BY <1>1, <2>1
  <2>7. UNCHANGED site \/ site' = [site EXCEPT ![c] = None]
    BY <1>8 DEF DropUser, RemoveUser
  <2> QED
    BY <1>1, <2>1, <2>4, <2>5, <2>6, <2>7 DEF IsTheirs
<1>9. CASE SignIn(c)
  <2>1. /\ UNCHANGED <<acct, site, machine>>
        /\ users' \in [Ids -> User \cup {None}]
    BY <1>9, PutUserKeeps
  <2>2. \E u \in Ids :
          /\ IsTheirs(c, u) /\ users'[u] # None /\ users'[u].name = c
          /\ \A v \in Ids \ {u} : users'[v] = users[v]
    BY <1>9, PutUserKeeps
  <2> QED
    BY <1>1, <2>1, <2>2 DEF IsTheirs
<1> QED
  BY <1>2, <1>3, <1>4, <1>5, <1>6, <1>7, <1>8, <1>9 DEF Moves

\* What a request about one customer leaves of the others' rows: all of them.
LEMMA OthersKept ==
  ASSUME Inv, NEW c \in Customers, Step(c)
  PROVE  /\ acct' \in [Customers -> Account \cup {None}]
         /\ users' \in [Ids -> User \cup {None}]
         /\ site' \in [Customers -> Site \cup {None}]
         /\ \A d \in Customers \ {c} : acct'[d] = acct[d] /\ site'[d] = site[d]
         /\ TouchesOnly(c)
<1>1. /\ acct \in [Customers -> Account \cup {None}]
      /\ users \in [Ids -> User \cup {None}]
      /\ site \in [Customers -> Site \cup {None}]
  BY DEF Inv, TypeOK
<1>2. CASE Reads(c)
  BY <1>1, <1>2, ReadsKeep DEF rows, TouchesOnly
<1>3. CASE PutsAccount(c)
  BY <1>1, <1>3, PutAccountKeeps DEF TouchesOnly
<1>4. CASE PutsUser(c)
  <2>1. /\ UNCHANGED <<acct, site, machine>>
        /\ users' \in [Ids -> User \cup {None}]
    BY <1>4, PutUserKeeps
  <2>2. \E u \in Ids :
          /\ IsTheirs(c, u) /\ users'[u] # None /\ users'[u].name = c
          /\ \A v \in Ids \ {u} : users'[v] = users[v]
    BY <1>4, PutUserKeeps
  <2> QED
    BY <1>1, <2>1, <2>2 DEF TouchesOnly, IsTheirs
<1>5. CASE Moves(c)
  BY <1>5, MovesKeep
<1> QED
  BY <1>2, <1>3, <1>4, <1>5, StepCases

\* Whose a user is.
LEMMA TheirsKept ==
  ASSUME NEW c \in Customers, NEW d \in Customers \ {c}, TouchesOnly(c)
  PROVE  /\ UserOf(d)' = UserOf(d)
         /\ \A u \in UserOf(d) : users'[u] = users[u]
         /\ \A u : IsTheirs(d, u) => u \in Ids /\ users'[u] # None /\ users'[u].name = d
BY DEF TouchesOnly, UserOf, IsTheirs

LEMMA RequestType ==
  ASSUME Inv, NEW c \in Customers, Step(c)
  PROVE  /\ req' \in [Customers -> Request \cup {None}]
         /\ \A d \in Customers \ {c} : req'[d] = req[d]
<1>1. /\ req \in [Customers -> Request \cup {None}]
      /\ acct[c] # None => acct[c] \in Account
  BY DEF Inv, TypeOK
<1>2. CASE req' = req \/ req' = [req EXCEPT ![c] = None]
  BY <1>1, <1>2
<1>3. ASSUME req[c] # None, NEW s \in Steps, Goto(c, s)
      PROVE  /\ req' \in [Customers -> Request \cup {None}]
             /\ \A d \in Customers \ {c} : req'[d] = req[d]
  <2>1. [req[c] EXCEPT !.step = s] \in Request
    BY <1>1, <1>3 DEF Request
  <2> QED
    BY <1>1, <1>3, <2>1 DEF Goto
<1>4. ASSUME req[c] # None, NEW s \in Steps, NEW i \in Ids \cup {None}, NEW u \in Ids \cup {None},
             req' = [req EXCEPT ![c].step = s, ![c].id = i, ![c].uid = u]
      PROVE  /\ req' \in [Customers -> Request \cup {None}]
             /\ \A d \in Customers \ {c} : req'[d] = req[d]
  <2>1. [req[c] EXCEPT !.step = s, !.id = i, !.uid = u] \in Request
    BY <1>1, <1>4 DEF Request
  <2>2. req' = [req EXCEPT ![c] = [req[c] EXCEPT !.step = s, !.id = i, !.uid = u]]
    BY <1>1, <1>4
  <2> QED
    BY <1>1, <2>1, <2>2
<1>5. CASE Ask(c)
  <2>1. PICK ask \in Asks[c] :
          req' = [req EXCEPT ![c] = [kind |-> ask[1], arg |-> ask[2], step |-> "look",
                                     id |-> None, uid |-> None]]
    BY <1>5 DEF Ask
  <2>2. ask[1] \in Kinds /\ ask[2] \in Values
    BY <2>1, ConstantsAssumption
  <2>3. [kind |-> ask[1], arg |-> ask[2], step |-> "look", id |-> None, uid |-> None] \in Request
    BY <2>2 DEF Request, Steps
  <2> QED
    BY <1>1, <2>1, <2>3
<1>6. CASE Step(c) /\ \E s \in Steps : Goto(c, s) /\ req[c] # None
  BY <1>3, <1>6
<1>7. ASSUME acct[c] # None
      PROVE  acct[c].id \in Ids \cup {None} /\ acct[c].uid \in Ids \cup {None}
  BY <1>1, <1>7 DEF Account
<1>8. CASE LookCreate(c) \/ LookStatus(c) \/ LookEnd(c)
  <2>1. CASE \E s \in Steps : acct[c] # None /\ Proceed(c, s)
    BY <1>4, <1>7, <1>8, <2>1 DEF Proceed, LookCreate, LookStatus, LookEnd, Asked, At
  <2>2. CASE Goto(c, "insert")
    BY <1>3, <1>8, <2>2 DEF Steps, LookCreate, LookStatus, LookEnd, Asked, At
  <2> QED
    BY <1>2, <1>8, <2>1, <2>2
    DEF LookCreate, LookStatus, LookEnd, Answered, Refused, Steps, Alive
<1>9. CASE LookUser(c)
  <2>1. PICK s \in Steps :
          \/ req' = [req EXCEPT ![c] = None]
          \/ /\ acct[c] # None
             /\ req' = [req EXCEPT ![c].step = s, ![c].id = acct[c].id, ![c].uid = acct[c].uid]
    BY <1>9 DEF LookUser, Refused, Steps
  <2>2. CASE req' = [req EXCEPT ![c] = None]
    BY <1>2, <2>2
  <2>3. CASE /\ acct[c] # None
             /\ req' = [req EXCEPT ![c].step = s, ![c].id = acct[c].id, ![c].uid = acct[c].uid]
    <3>1. req[c] # None
      BY <1>9 DEF LookUser, Asked, At
    <3> QED
      BY <1>4, <1>7, <2>3, <3>1
  <2> QED
    BY <2>1, <2>2, <2>3
<1>10. CASE Insert(c)
  <2>1. PICK i \in Ids : req' = [req EXCEPT ![c].step = "ensure", ![c].id = i]
    BY <1>10 DEF Insert
  <2> req[c] \in Request
    BY <1>1, <1>10 DEF Insert, At
  <2>2. [req[c] EXCEPT !.step = "ensure", !.id = i] \in Request
    BY DEF Request, Steps
  <2>3. req' = [req EXCEPT ![c] = [req[c] EXCEPT !.step = "ensure", !.id = i]]
    BY <1>1, <2>1
  <2> QED
    BY <1>1, <2>2, <2>3
<1>11. CASE AddUser(c)
  <2>1. PICK u \in Ids : req' = [req EXCEPT ![c].step = "link", ![c].uid = u]
    BY <1>11 DEF AddUser
  <2>2. [req[c] EXCEPT !.step = "link", !.uid = u] \in Request
    BY <1>1, <1>11 DEF AddUser, At, Request, Steps
  <2>3. req' = [req EXCEPT ![c] = [req[c] EXCEPT !.step = "link", !.uid = u]]
    BY <1>1, <2>1
  <2> QED
    BY <1>1, <2>2, <2>3
<1>12. CASE \/ Forget(c) \/ Ensure(c) \/ SetPw(c) \/ Link(c) \/ Build(c) \/ AddSite(c)
            \/ WorkFails(c) \/ ToggleUser(c) \/ SitesUnread(c) \/ ToggleSite(c) \/ SiteFails(c)
            \/ ToggleVhost(c) \/ VhostFails(c) \/ ToggleLock(c) \/ LockFails(c)
  <2>1. req[c] # None
    BY <1>12 DEF Forget, Ensure, SetPw, Link, Build, AddSite, WorkFails, ToggleUser, SitesUnread,
                 ToggleSite, SiteFails, ToggleVhost, VhostFails, ToggleLock, LockFails, At
  <2>2. \E s \in Steps : Goto(c, s)
    BY <1>12 DEF Forget, Ensure, SetPw, Link, Build, AddSite, WorkFails, ToggleUser, SitesUnread,
                 ToggleSite, SiteFails, ToggleVhost, VhostFails, ToggleLock, LockFails, Logged,
                 Steps
  <2> QED
    BY <1>6, <2>1, <2>2
<1>13. CASE \/ List(c) \/ DropVhost(c) \/ VhostStays(c) \/ DropSite(c) \/ DropLinux(c)
            \/ LinuxStays(c) \/ DropUser(c) \/ Hash(c) \/ Bump(c) \/ SetPackage(c)
  <2>1. req[c] # None
    BY <1>13 DEF List, DropVhost, VhostStays, DropSite, DropLinux, LinuxStays, DropUser, Hash,
                 Bump, SetPackage, At
  <2>2. \E s \in Steps : Goto(c, s)
    BY <1>13 DEF List, DropVhost, VhostStays, DropSite, DropLinux, LinuxStays, DropUser, Hash,
                 Bump, SetPackage, Logged, Steps
  <2> QED
    BY <1>6, <2>1, <2>2
<1> QED
  BY <1>2, <1>5, <1>8, <1>9, <1>10, <1>11, <1>12, <1>13
  DEF Step, Breaks, Taken, Fail, Activate, Mark, Close, Follow, CopyLimits, SignIn, RemoveUser,
      Answered, Refused, Broken, Done

LEMMA TypeStep ==
  ASSUME Inv, NEW c \in Customers, Step(c)
  PROVE  TypeOK'
<1>1. TypeOK
  BY DEF Inv
<1> QED
  BY <1>1, MachineTypes, OthersKept, RequestType DEF TypeOK

-----------------------------------------------------------------------------
(* Each request has its customer's rows in hand.                            *)

\* The request after a step that has written no row.
LEMMA ReadsHeld ==
  ASSUME Inv, NEW c \in Customers, Reads(c)
  PROVE  Held(c, req'[c])
<1> DEFINE r == req'[c]
<1>1. /\ req \in [Customers -> Request \cup {None}]
      /\ acct \in [Customers -> Account \cup {None}]
      /\ Held(c, req[c]) /\ None \notin Request /\ None \notin Account
  BY ConstantsAssumption DEF Inv, TypeOK
<1>2. CASE req'[c] = None
  BY <1>2 DEF Held
<1>3. CASE Ask(c)
  <2>1. r.step = "look"
    BY <1>1, <1>3 DEF Ask
  <2> QED
    BY <2>1 DEF Held, Making, Working
<1>4. CASE Breaks(c) \/ Taken(c)
  BY <1>1, <1>2, <1>4 DEF Breaks, Taken, Broken, Refused
<1>5. CASE LookCreate(c) \/ LookStatus(c) \/ LookEnd(c)
  <2>1. CASE acct[c] = None /\ Goto(c, "insert") /\ req[c] # None
    <3>1. r.step = "insert"
      BY <1>1, <2>1 DEF Goto, Request
    <3> QED
      BY <2>1, <3>1 DEF Held, Making, Working
  <2>2. CASE /\ acct[c] # None /\ req[c] # None
             /\ \/ Proceed(c, "forget") \/ (Proceed(c, "close") /\ acct[c].uid = None)
                \/ Proceed(c, "mark")
                \/ (Proceed(c, "user") \/ Proceed(c, "list")) /\ acct[c].uid # None
    <3>1. /\ r.id = acct[c].id /\ r.uid = acct[c].uid
          /\ \/ r.step \in {"forget", "mark"}
             \/ r.step = "close" /\ acct[c].uid = None
             \/ r.step \in {"user", "list"} /\ acct[c].uid # None
      BY <1>1, <2>2 DEF Proceed, Request
    <3> QED
      BY <2>2, <3>1 DEF Held, Making, Working
  <2>3. req[c] # None
    BY <1>5 DEF LookCreate, LookStatus, LookEnd, Asked, At
  <2>4. \/ req' = [req EXCEPT ![c] = None]
        \/ acct[c] = None /\ Goto(c, "insert")
        \/ /\ acct[c] # None
           /\ \/ Proceed(c, "forget") \/ (Proceed(c, "close") /\ acct[c].uid = None)
              \/ Proceed(c, "mark")
              \/ (Proceed(c, "user") \/ Proceed(c, "list")) /\ acct[c].uid # None
    <3>1. CASE LookCreate(c)
      BY <3>1 DEF LookCreate, Answered
    <3>2. CASE LookStatus(c)
      BY <3>2 DEF LookStatus, Answered, Refused
    <3>3. CASE LookEnd(c)
      BY <3>3 DEF LookEnd, Answered, Refused
    <3> QED
      BY <1>5, <3>1, <3>2, <3>3
  <2>5. CASE req' = [req EXCEPT ![c] = None]
    BY <1>1, <1>2, <2>5
  <2> QED
    BY <2>1, <2>2, <2>3, <2>4, <2>5
<1>6. CASE LookUser(c)
  <2>1. CASE acct[c] # None /\ acct[c].uid # None
    <3>1. req[c] # None
      BY <1>6 DEF LookUser, Asked, At
    <3>2. \/ req'[c] = None
          \/ r.id = acct[c].id /\ r.uid = acct[c].uid /\ r.step \in {"hash", "row"}
      BY <1>1, <1>6, <2>1, <3>1 DEF LookUser, Refused, Request
    <3> QED
      BY <1>2, <2>1, <3>2 DEF Held, Making, Working
  <2> QED
    BY <1>1, <1>2, <1>6, <2>1 DEF LookUser, Refused
<1>7. CASE Follow(c)
  BY <1>1, <1>2, <1>7 DEF Follow, Done
<1>8. CASE \/ Ensure(c) \/ SetPw(c) \/ Build(c) \/ WorkFails(c) \/ SitesUnread(c) \/ SiteFails(c)
           \/ ToggleVhost(c) \/ VhostFails(c) \/ ToggleLock(c) \/ LockFails(c) \/ List(c)
           \/ DropVhost(c) \/ VhostStays(c) \/ DropLinux(c) \/ LinuxStays(c)
  <2>1. PICK to \in Steps :
          /\ req[c] # None /\ Goto(c, to)
          /\ \/ req[c].step \in Making /\ to \in Making
             \/ req[c].step \in Making \cup {"build"} /\ to = "fail"
             \/ req[c].step \in Working /\ to \in (Working \ {"site"}) \cup {"mark"}
    BY <1>8 DEF Ensure, SetPw, Build, WorkFails, SitesUnread, SiteFails, ToggleVhost, VhostFails,
                ToggleLock, LockFails, List, DropVhost, VhostStays, DropLinux, LinuxStays, At,
                Logged, Making, Working, Steps
  <2>2. req[c] # None /\ req[c] \in Request
    BY <1>1, <2>1
  <2>3. r.id = req[c].id /\ r.uid = req[c].uid /\ r.step = to
    BY <1>1, <2>1, <2>2 DEF Goto, Request
  <2> HIDE DEF r
  <2>4. Held(c, r)
    BY <1>1, <2>1, <2>2, <2>3 DEF Held, Making, Working
  <2> QED
    BY <2>4 DEF r
<1> QED
  BY <1>3, <1>4, <1>5, <1>6, <1>7, <1>8 DEF Reads

\* The request after a step that has written a row.
LEMMA WritesHeld ==
  ASSUME Inv, NEW c \in Customers, Step(c), ~Reads(c)
  PROVE  Linked(c)' /\ Sited(c)' /\ Held(c, req[c])'
<1>1. /\ req \in [Customers -> Request \cup {None}]
      /\ acct \in [Customers -> Account \cup {None}]
      /\ users \in [Ids -> User \cup {None}]
      /\ site \in [Customers -> Site \cup {None}]
      /\ Held(c, req[c]) /\ Linked(c) /\ Sited(c) /\ OneUserEach
      /\ None \notin Request /\ None \notin Account /\ None \notin Ids /\ None \notin User
      /\ None \notin Site
  BY ConstantsAssumption DEF Inv, TypeOK
<1>2. CASE PutsAccount(c)
  <2>1. /\ UNCHANGED <<users, site>>
        /\ acct[c] # None /\ acct'[c] # None /\ acct'[c].id = acct[c].id
        /\ acct'[c].uid = (IF Link(c) THEN req[c].uid
                           ELSE IF Close(c) THEN None ELSE acct[c].uid)
    BY <1>2, PutAccountKeeps
  <2>2. CASE Link(c)
    <3>1. req[c] \in Request /\ req[c].step = "link" /\ IsTheirs(c, req[c].uid)
      BY <1>1, <2>2 DEF Link, At, Held
    <3>2. req'[c].step = "build" /\ req'[c].id = req[c].id /\ req'[c].uid = req[c].uid
      BY <1>1, <2>2, <3>1 DEF Link, Goto, Request
    <3> QED
      BY <1>1, <2>1, <2>2, <3>1, <3>2 DEF Linked, Sited, Held, IsTheirs, Making, Working
  <2>3. CASE SetPackage(c)
    <3>1. req[c] \in Request /\ req[c].step = "row" /\ ~Link(c) /\ ~Close(c)
      BY <1>1, <2>3 DEF SetPackage, Link, Close, At
    <3>2. req'[c].step = "copy" /\ req'[c].id = req[c].id /\ req'[c].uid = req[c].uid
      BY <1>1, <2>3, <3>1 DEF SetPackage, Goto, Request
    <3> QED
      BY <1>1, <2>1, <3>1, <3>2 DEF Linked, Sited, Held, IsTheirs, Making, Working
  <2>4. CASE Fail(c) \/ Activate(c) \/ Mark(c) \/ Close(c)
    <3>1. req'[c] = None /\ ~Link(c)
      BY <1>1, <2>4 DEF Fail, Activate, Mark, Close, Link, At, Answered, Refused, Broken
    <3> QED
      BY <1>1, <2>1, <3>1 DEF Linked, Sited, Held, IsTheirs
  <2> QED
    BY <1>2, <2>2, <2>3, <2>4 DEF PutsAccount
<1>3. CASE PutsUser(c)
  <2>1. /\ UNCHANGED <<acct, site>>
        /\ \E u \in Ids :
             /\ IsTheirs(c, u) /\ users'[u] # None /\ users'[u].name = c
             /\ \A v \in Ids \ {u} : users'[v] = users[v]
    BY <1>3, PutUserKeeps
  <2>2. \A u : IsTheirs(c, u) => u \in Ids /\ users'[u] # None /\ users'[u].name = c
    BY <1>1, <2>1 DEF IsTheirs
  <2>3. req[c] # None /\ req[c] \in Request /\ req[c].step \in Working
    BY <1>1, <1>3 DEF PutsUser, ToggleUser, Hash, Bump, CopyLimits, At, Working
  <2>4. \/ req'[c] = None
        \/ /\ req'[c].id = req[c].id /\ req'[c].uid = req[c].uid
           /\ req'[c].step \in Working
           /\ req'[c].step = "site" => c \in Owned(req[c].uid)
    BY <1>1, <1>3, <2>3
    DEF PutsUser, ToggleUser, Hash, Bump, CopyLimits, Goto, Done, Request, Working
  <2> QED
    BY <1>1, <2>1, <2>2, <2>3, <2>4 DEF Linked, Sited, Held, IsTheirs, Making, Working, Owned
<1>4. CASE Moves(c)
  <2>1. CASE Forget(c)
    <3>1. acct'[c] = None
      BY <1>1, <2>1, InHand DEF Forget, At
    <3>2. req'[c].step = "insert"
      BY <1>1, <2>1 DEF Forget, At, Goto, Request
    <3> QED
      BY <1>1, <2>1, <3>1, <3>2 DEF Forget, Linked, Sited, Held, IsTheirs, Making, Working
  <2>2. CASE Insert(c)
    <3>1. PICK i \in Ids :
            /\ acct' = [acct EXCEPT ![c] = [id |-> i, status |-> "pending",
                                           uid |-> None, pack |-> req[c].arg]]
            /\ req' = [req EXCEPT ![c].step = "ensure", ![c].id = i]
      BY <2>2 DEF Insert
    <3> req[c] # None /\ req[c] \in Request
      BY <1>1, <2>2 DEF Insert, At
    <3> [id |-> i, status |-> "pending", uid |-> None, pack |-> req[c].arg] \in Account
      BY DEF Request, Account, Statuses
    <3>2. acct'[c].id = i /\ acct'[c].uid = None /\ acct'[c] # None
      BY <1>1, <3>1
    <3>3. req'[c].step = "ensure" /\ req'[c].id = i
      BY <1>1, <2>2, <3>1 DEF Insert, At, Request
    <3> QED
      BY <1>1, <2>2, <3>2, <3>3
      DEF Insert, Linked, Sited, Held, IsTheirs, Making, Working, UserOf
  <2>3. CASE AddUser(c)
    <3>1. PICK u \in Ids :
            /\ Follows(u, UserIds)
            /\ users' = [users EXCEPT ![u] = [name |-> c, active |-> TRUE, signed |-> FALSE,
                                             pack |-> req[c].arg, pw |-> req[c].arg]]
            /\ req' = [req EXCEPT ![c].step = "link", ![c].uid = u]
      BY <2>3 DEF AddUser
    <3>2. users[u] = None
      BY <3>1 DEF Follows, UserIds, Ids
    <3>3. req[c] # None /\ req[c] \in Request /\ req[c].step = "adduser"
      BY <1>1, <2>3 DEF AddUser, At
    <3>4. [name |-> c, active |-> TRUE, signed |-> FALSE,
           pack |-> req[c].arg, pw |-> req[c].arg] \in User
      BY <3>3 DEF Request, User
    <3>5. /\ users'[u] # None /\ users'[u].name = c
          /\ \A v \in Ids \ {u} : users'[v] = users[v]
      BY <1>1, <3>1, <3>4
    <3>6. req'[c].step = "link" /\ req'[c].id = req[c].id /\ req'[c].uid = u
      BY <1>1, <3>1, <3>3 DEF Request
    <3>7. UNCHANGED <<acct, site>>
      BY <2>3 DEF AddUser
    <3> QED
      BY <1>1, <3>2, <3>3, <3>5, <3>6, <3>7
      DEF Linked, Sited, Held, IsTheirs, Making, Working
  <2>4. CASE AddSite(c)
    <3>1. /\ req[c] # None /\ req[c] \in Request /\ req[c].step = "addsite"
          /\ IsTheirs(c, req[c].uid)
      BY <1>1, <2>4, UserInHand DEF AddSite, At, Working
    <3>2. req'[c].step = "activate" /\ req'[c].id = req[c].id /\ req'[c].uid = req[c].uid
      BY <1>1, <2>4, <3>1 DEF AddSite, Goto, Request
    <3>3. site'[c].uid = req[c].uid
      BY <1>1, <2>4 DEF AddSite
    <3>4. UNCHANGED <<acct, users>>
      BY <2>4 DEF AddSite
    <3> QED
      BY <1>1, <3>1, <3>2, <3>3, <3>4 DEF Linked, Sited, Held, IsTheirs, Making, Working
  <2>5. CASE ToggleSite(c) \/ DropSite(c)
    <3>1. /\ req[c] # None /\ req[c] \in Request /\ req[c].step \in {"site", "dropsite"}
      BY <1>1, <2>5 DEF ToggleSite, DropSite, At
    <3>2. /\ req'[c].step \in {"vhost", "droplinux"}
          /\ req'[c].id = req[c].id /\ req'[c].uid = req[c].uid
      BY <1>1, <2>5, <3>1 DEF ToggleSite, DropSite, Goto, Request
    <3>3. site'[c] = None \/ (site[c] # None /\ site'[c].uid = site[c].uid)
      <4>1. CASE ToggleSite(c)
        <5>1. site[c] \in Site
          BY <1>1, <4>1 DEF ToggleSite, At, Held
        <5> QED
          BY <1>1, <4>1, <5>1 DEF ToggleSite, At, Held
      <4>2. CASE DropSite(c)
        BY <1>1, <4>2 DEF DropSite
      <4> QED
        BY <2>5, <4>1, <4>2
    <3>4. UNCHANGED <<acct, users>>
      BY <2>5 DEF ToggleSite, DropSite
    <3> QED
      BY <1>1, <3>1, <3>2, <3>3, <3>4 DEF Linked, Sited, Held, IsTheirs, Making, Working
  <2>6. CASE DropUser(c)
    <3>1. /\ req[c] # None /\ req[c] \in Request /\ req[c].step = "dropuser"
          /\ IsTheirs(c, req[c].uid) /\ acct[c] # None /\ acct[c].uid = req[c].uid
          /\ acct[c].id = req[c].id
      BY <1>1, <2>6, UserInHand DEF DropUser, At, Working, Held
    <3>2. site[c] = None
      BY <1>1, <2>6, <3>1 DEF DropUser, Owned, Sited, OneUserEach, IsTheirs
    <3>3. acct'[c] = [acct[c] EXCEPT !.uid = None]
      BY <2>6, <3>1 DEF DropUser, Unlinked
    <3>4. acct'[c].uid = None /\ acct'[c].id = acct[c].id /\ acct'[c] # None
      <4>1. acct[c] \in Account
        BY <1>1, <3>1
      <4>2. [acct[c] EXCEPT !.uid = None] \in Account
        BY <4>1 DEF Account
      <4> QED
        BY <1>1, <3>3, <4>1, <4>2 DEF Account
    <3>5. req'[c].step = "close" /\ req'[c].id = req[c].id
      BY <1>1, <2>6, <3>1 DEF DropUser, Goto, Request
    <3>6. site'[c] = None
      BY <2>6, <3>2 DEF DropUser
    <3> QED
      BY <3>1, <3>4, <3>5, <3>6 DEF Linked, Sited, Held, Making, Working
  <2>7. CASE RemoveUser(c)
    <3>1. req'[c] = None /\ site'[c] = None
      BY <1>1, <2>7 DEF RemoveUser
    <3>2. PICK u \in UserOf(c) : acct' = Unlinked(u)
      BY <2>7 DEF RemoveUser
    <3>3. acct[c] # None => acct[c].uid = None \/ acct[c].uid = u
      BY <1>1 DEF Linked, IsTheirs, OneUserEach, UserOf
    <3>4. acct'[c] # None => acct'[c].uid = None
      BY <1>1, <3>2, <3>3 DEF Unlinked, Account
    <3> QED
      BY <3>1, <3>4 DEF Linked, Sited, Held
  <2>8. CASE SignIn(c)
    <3>1. /\ UNCHANGED <<acct, site, machine>>
          /\ \E u \in Ids :
               /\ IsTheirs(c, u) /\ users'[u] # None /\ users'[u].name = c
               /\ \A v \in Ids \ {u} : users'[v] = users[v]
      BY <2>8, PutUserKeeps
    <3>2. \A u : IsTheirs(c, u) => u \in Ids /\ users'[u] # None /\ users'[u].name = c
      BY <1>1, <3>1 DEF IsTheirs
    <3>3. UserOf(c)' = UserOf(c) /\ UNCHANGED req
      BY <2>8, <3>1, <3>2 DEF SignIn, UserOf, IsTheirs
    <3> QED
      BY <1>1, <3>1, <3>2, <3>3 DEF Linked, Sited, Held, IsTheirs
  <2> QED
    BY <1>4, <2>1, <2>2, <2>3, <2>4, <2>5, <2>6, <2>7, <2>8 DEF Moves
<1> QED
  BY <1>2, <1>3, <1>4, StepCases

-----------------------------------------------------------------------------
(* The invariant.                                                           *)

\* The requests of the others still have what they had.
LEMMA OthersHeld ==
  ASSUME Inv, NEW c \in Customers, Step(c), NEW d \in Customers \ {c}
  PROVE  Linked(d)' /\ Sited(d)' /\ Held(d, req[d])'
<1>1. acct'[d] = acct[d] /\ site'[d] = site[d] /\ req'[d] = req[d] /\ TouchesOnly(c)
  BY OthersKept, RequestType
<1>2. /\ UserOf(d)' = UserOf(d)
      /\ \A u : IsTheirs(d, u) => IsTheirs(d, u)'
  BY <1>1, TheirsKept DEF IsTheirs
<1>3. Linked(d) /\ Sited(d) /\ Held(d, req[d])
  BY DEF Inv
<1> QED
  BY <1>1, <1>2, <1>3 DEF Linked, Sited, Held, IsTheirs

LEMMA IdsStayApart ==
  ASSUME Inv, NEW c \in Customers, Step(c)
  PROVE  IdsApart'
<1>1. \A d \in Customers \ {c} : acct'[d] = acct[d]
  BY OthersKept
<1>2. CASE Insert(c)
  <2>1. PICK i \in Ids :
          /\ Follows(i, AccountIds)
          /\ acct' = [acct EXCEPT ![c] = [id |-> i, status |-> "pending",
                                         uid |-> None, pack |-> req[c].arg]]
    BY <1>2 DEF Insert
  <2>2. \A d \in Customers : acct[d] # None => acct[d].id # i
    <3> SUFFICES ASSUME NEW d \in Customers, acct[d] # None PROVE acct[d].id # i
      OBVIOUS
    <3>1. acct[d].id \in Ids /\ acct[d].id \in AccountIds
      BY DEF Inv, TypeOK, Account, AccountIds
    <3> QED
      BY <2>1, <3>1 DEF Follows, Ids
  <2>3. acct'[c].id = i
    BY <2>1 DEF Inv, TypeOK
  <2> QED
    BY <1>1, <2>2, <2>3 DEF IdsApart, Inv
<1>3. CASE ~Insert(c)
  <2>1. acct'[c] # None => acct[c] # None /\ acct'[c].id = acct[c].id
    <3>1. acct[c] # None => acct[c] \in Account
      BY DEF Inv, TypeOK
    <3>2. CASE Reads(c)
      BY <3>2, ReadsKeep DEF rows
    <3>3. CASE PutsAccount(c)
      BY <3>3, PutAccountKeeps
    <3>4. CASE PutsUser(c)
      BY <3>4, PutUserKeeps
    <3>5. CASE Forget(c)
      BY <3>5, InHand DEF Forget, At
    <3>6. CASE DropUser(c) \/ RemoveUser(c)
      <4>1. PICK u : acct' = Unlinked(u)
        BY <3>6 DEF DropUser, RemoveUser
      <4> QED
        BY <3>1, <4>1 DEF Unlinked, Account
    <3>7. CASE AddUser(c) \/ AddSite(c) \/ ToggleSite(c) \/ DropSite(c) \/ SignIn(c)
      BY <3>7 DEF AddUser, AddSite, ToggleSite, DropSite, SignIn
    <3> QED
      BY <1>3, <3>2, <3>3, <3>4, <3>5, <3>6, <3>7, StepCases DEF Moves
  <2> QED
    BY <1>1, <2>1 DEF IdsApart, Inv
<1> QED
  BY <1>2, <1>3

LEMMA OneUserStays ==
  ASSUME Inv, NEW c \in Customers, Step(c)
  PROVE  OneUserEach'
<1>1. TouchesOnly(c) /\ OneUserEach
  BY OthersKept DEF Inv
<1>2. CASE AddUser(c)
  <2>1. PICK u \in Ids :
          users' = [users EXCEPT ![u] = [name |-> c, active |-> TRUE, signed |-> FALSE,
                                         pack |-> req[c].arg, pw |-> req[c].arg]]
    BY <1>2 DEF AddUser
  <2>2. UserOf(c) = {}
    BY <1>2 DEF AddUser, At, Inv, Held, Making
  <2>3. /\ users'[u].name = c
        /\ \A v \in Ids \ {u} : users'[v] = users[v]
    BY <2>1 DEF Inv, TypeOK
  <2> QED
    BY <1>1, <2>2, <2>3 DEF OneUserEach, UserOf
<1>3. CASE ~AddUser(c)
  <2>1. \A v \in Ids : users'[v] # None => users[v] # None /\ users'[v].name = users[v].name
    <3>1. users \in [Ids -> User \cup {None}]
      BY DEF Inv, TypeOK
    <3>2. CASE UNCHANGED users
      BY <3>2
    <3>3. CASE PutsUser(c) \/ SignIn(c)
      <4>1. PICK u \in Ids :
              /\ IsTheirs(c, u) /\ users'[u] # None /\ users'[u].name = c
              /\ \A v \in Ids \ {u} : users'[v] = users[v]
        BY <3>3, PutUserKeeps
      <4> QED
        BY <4>1 DEF IsTheirs
    <3>4. CASE DropUser(c) \/ RemoveUser(c)
      <4>1. PICK u : users' = [users EXCEPT ![u] = None]
        BY <3>4 DEF DropUser, RemoveUser
      <4> QED
        BY <3>1, <4>1
    <3> QED
      BY <1>3, <3>2, <3>3, <3>4, StepCases, ReadsKeep, PutAccountKeeps
      DEF Moves, Forget, Insert, AddSite, ToggleSite, DropSite, rows
  <2> QED
    BY <1>1, <2>1 DEF OneUserEach
<1> QED
  BY <1>2, <1>3

LEMMA InvInit == Init => Inv
BY ConstantsAssumption
DEF Init, Inv, TypeOK, IdsApart, OneUserEach, Linked, Sited, Held, IsTheirs

LEMMA InvNext == Inv /\ [Next]_vars => Inv'
<1> SUFFICES ASSUME Inv, [Next]_vars PROVE Inv'
  OBVIOUS
<1>1. CASE UNCHANGED vars
  BY <1>1 DEF Inv, TypeOK, IdsApart, OneUserEach, Linked, Sited, Held, IsTheirs, UserOf, vars,
              rows, machine
<1>2. CASE Next
  <2>1. PICK c \in Customers : Step(c)
    BY <1>2 DEF Next
  <2>2. TypeOK' /\ IdsApart' /\ OneUserEach'
    BY <2>1, TypeStep, IdsStayApart, OneUserStays
  <2>3. Linked(c)' /\ Sited(c)' /\ Held(c, req[c])'
    <3>1. CASE Reads(c)
      <4>1. UNCHANGED rows /\ Held(c, req'[c])
        BY <3>1, ReadsKeep, ReadsHeld
      <4>2. Linked(c) /\ Sited(c)
        BY DEF Inv
      <4> QED
        BY <4>1, <4>2 DEF Linked, Sited, Held, IsTheirs, UserOf, rows
    <3> QED
      BY <2>1, <3>1, WritesHeld
  <2>4. \A d \in Customers \ {c} : Linked(d)' /\ Sited(d)' /\ Held(d, req[d])'
    BY <2>1, OthersHeld
  <2> QED
    BY <2>2, <2>3, <2>4 DEF Inv
<1> QED
  BY <1>1, <1>2

LEMMA Invariance == Spec => []Inv
BY InvInit, InvNext, PTL DEF Spec

\* The variables keep to their values whatever is asked, fails or is cut off
\* (all of provisioning.rs's handlers).
THEOREM Types == Spec => []TypeOK
<1>1. Inv => TypeOK
  BY DEF Inv
<1> QED
  BY <1>1, Invariance, PTL

\* An account's user and a site's owner are their customer's, though ids are
\* given out again (`set_links`, `Unlinked`, and the order of `terminate`).
THEOREM RowsAreTheirs == Spec => []OwnRows
BY OwnRowsHold, Invariance, PTL

LEMMA MachineKept ==
  ASSUME NEW c \in Customers, Step(c), NEW d \in Customers \ {c}, TypeOK
  PROVE  vhost'[d] = vhost[d] /\ linux'[d] = linux[d]
<1>1. vhost'[d] = vhost[d]
  BY DEF TypeOK, Step, Ask, Breaks, LookCreate, Forget, Insert, Taken, Ensure, SetPw, AddUser,
         Link, Build, AddSite, WorkFails, Fail, Activate, LookStatus, ToggleUser, SitesUnread,
         ToggleSite, SiteFails, ToggleVhost, VhostFails, ToggleLock, LockFails, Mark, LookEnd,
         List, DropVhost, VhostStays, DropSite, DropLinux, LinuxStays, DropUser, Close, LookUser,
         Hash, Bump, Follow, SetPackage, CopyLimits, SignIn, RemoveUser, Logged, machine
<1>2. linux'[d] = linux[d]
  BY DEF TypeOK, Step, Ask, Breaks, LookCreate, Forget, Insert, Taken, Ensure, SetPw, AddUser,
         Link, Build, AddSite, WorkFails, Fail, Activate, LookStatus, ToggleUser, SitesUnread,
         ToggleSite, SiteFails, ToggleVhost, VhostFails, ToggleLock, LockFails, Mark, LookEnd,
         List, DropVhost, VhostStays, DropSite, DropLinux, LinuxStays, DropUser, Close, LookUser,
         Hash, Bump, Follow, SetPackage, CopyLimits, SignIn, RemoveUser, Logged, machine
<1> QED
  BY <1>1, <1>2

LEMMA OthersUntouched ==
  ASSUME Inv, [Next]_vars, NEW c \in Customers, NEW d \in Customers, c # d, req'[d] # req[d]
  PROVE  Of(c)' = Of(c)
<1>1. PICK e \in Customers : Step(e)
  BY DEF Next, vars
<1>2. e = d
  BY <1>1, RequestType
<1>3. acct'[c] = acct[c] /\ site'[c] = site[c] /\ TouchesOnly(d)
  BY <1>1, <1>2, OthersKept
<1>4. vhost'[c] = vhost[c] /\ linux'[c] = linux[c]
  BY <1>1, <1>2, MachineKept DEF Inv
<1>5. UserOf(c)' = UserOf(c) /\ \A u \in UserOf(c) : users'[u] = users[u]
  BY <1>3, TheirsKept
<1>6. {users[u] : u \in UserOf(c)}' = {users[u] : u \in UserOf(c)}
  BY <1>5
<1> QED
  BY <1>3, <1>4, <1>6 DEF Of

\* A step of a request about one customer changes nothing of another's
\* (`create_account` to `terminate_user`, which write by the ids they read).
THEOREM TheirsOnly == Spec => OnlyTheirs
<1>1. Inv /\ [Next]_vars =>
        [\A c, d \in Customers : c # d /\ req'[d] # req[d] => Of(c)' = Of(c)]_vars
  BY OthersUntouched
<1> QED
  BY <1>1, Invariance, PTL DEF Spec, OnlyTheirs

-----------------------------------------------------------------------------
(* What is so of one customer: of the account a, the user x, the website s  *)
(* and its vhost v, the Linux account l, what is amiss m, the request r,    *)
(* the one that failed f and what was told t.                               *)

\* The steps that each kind of request comes by.
Way(k) ==
  CASE k = "create"    -> {"look", "forget", "insert", "ensure", "setpw", "adduser", "link",
                           "build", "addsite", "activate", "fail"}
    [] k \in {"suspend", "unsuspend"} -> {"look", "user", "site", "vhost", "lock", "mark"}
    [] k = "terminate" -> {"look", "list", "dropvhost", "dropsite", "droplinux", "dropuser", "close"}
    [] k = "password"  -> {"look", "hash", "bump", "follow"}
    [] k = "package"   -> {"look", "row", "copy"}

PersonIs(x, on)      == x # None => x.active = on /\ (x.signed => on)
SiteIs(s, m, on)     == s # None /\ "site" \notin m => s.on = on
VhostIs(s, v, m, on) == s # None /\ "vhost" \notin m => v = IF on THEN "live" ELSE "off"

\* The customer is served, or is blocked.
Stands(x, s, v, m, on) == PersonIs(x, on) /\ SiteIs(s, m, on) /\ VhostIs(s, v, m, on)

NoVhost(v, m) == v = "none" \/ "vhost" \in m
NoLinux(l, m) == l = None \/ "linux" \in m

Vanished(x, s, v, l, m) == x = None /\ s = None /\ NoVhost(v, m) /\ NoLinux(l, m)

\* A request of one of these kinds is at work, or has failed and is to come again.
Amid(r, f, kinds) ==
  \/ r # None /\ r.kind \in kinds /\ r.step # "look"
  \/ f # None /\ f[1] \in kinds

\* What failed comes first; what was told holds but for what is asked next.
Asking(r, f, t) ==
  r # None =>
    /\ r.kind \in Kinds /\ r.step \in Way(r.kind)
    /\ f # None => f = <<r.kind, r.arg>>
    /\ t # None => r.step \in {"look", "hash", "bump", "follow", "row", "copy"}

Tells(a, x, s, v, m, t) ==
  t # None =>
    /\ a # None /\ a.status = t
    /\ t = "suspended" => Stands(x, s, v, m, FALSE)
    /\ t = "active" => Stands(x, s, v, m, TRUE)

\* What the account's status stands for, unless a request is about to change it.
Standing(a, x, s, v, l, m, r, f) ==
  a # None =>
    /\ a.status = "suspended" /\ ~Amid(r, f, {"unsuspend", "terminate"}) =>
         Stands(x, s, v, m, FALSE)
    /\ a.status = "active" /\ ~Amid(r, f, {"suspend", "terminate"}) => Stands(x, s, v, m, TRUE)
    /\ a.status = "terminated" => Vanished(x, s, v, l, m)

\* What no row leads to.
Strays(s, v, m, r) == s = None /\ ~(r # None /\ r.step = "addsite") => NoVhost(v, m)

Orphaned(a, x, s, l, m, r, f) ==
  a # None /\ a.uid = None /\ ~(a.status = "pending" /\ Amid(r, f, {"create"})) =>
    x = None /\ s = None /\ NoLinux(l, m)

\* How far a request has come.
Created(a, x, s, v, l, m, r) ==
  r # None =>
    /\ r.step = "look" => r.uid = None
    /\ r.step = "forget" => r.uid = a.uid
    /\ r.step = "insert" /\ r.uid # None => x # None
    /\ r.step \in {"ensure", "setpw", "adduser", "link", "build", "addsite", "activate", "fail"} =>
         a # None /\ a.status = "pending" /\ a.pack = r.arg
    /\ r.step \in {"ensure", "setpw", "adduser", "fail"} /\ r.uid = None => x = None /\ a.uid = None
    /\ r.step \in {"ensure", "setpw", "adduser"} => r.uid = None
    /\ r.step = "fail" /\ r.uid # None => a.uid # None
    /\ r.step \in {"adduser", "link"} => l # None /\ l.pw = r.arg
    /\ r.step = "link" => x # None /\ x.pack = r.arg /\ x.pw = r.arg
    /\ r.step \in {"link", "build", "addsite", "activate"} => PersonIs(x, TRUE)
    /\ r.step \in {"ensure", "setpw", "adduser", "link", "build", "addsite", "fail"} => s = None
    /\ r.step \in {"ensure", "setpw", "adduser", "link", "build"} => v = "none"
    /\ r.step = "addsite" => v = "live"
    /\ r.step = "activate" => SiteIs(s, m, TRUE) /\ VhostIs(s, v, m, TRUE)

Toggled(a, x, s, v, m, r) ==
  r # None /\ r.kind \in {"suspend", "unsuspend"} /\ r.step # "look" =>
    LET on == r.kind = "unsuspend"
    IN /\ a # None /\ a.status = IF on THEN "suspended" ELSE "active"
       /\ r.step # "user" => PersonIs(x, on)
       /\ r.step \in {"site", "vhost"} => s # None
       /\ r.step \in {"vhost", "lock", "mark"} => SiteIs(s, m, on)
       /\ r.step \in {"lock", "mark"} => VhostIs(s, v, m, on)

Ended(x, s, v, l, m, r) ==
  r # None =>
    /\ r.step = "dropsite" => NoVhost(v, m)
    /\ r.step \in {"dropuser", "close"} => NoLinux(l, m)
    /\ r.step = "close" => x = None /\ s = None

Changed(a, x, r) ==
  r # None =>
    /\ r.step \in {"bump", "follow"} => x.pw = r.arg
    /\ r.step = "copy" => a.pack = r.arg

\* Package and password are the same on either side, but for a request amid it.
Halves(a, x, l, r, f) ==
  a # None /\ a.uid # None =>
    /\ x # None
    /\ ~(r # None /\ r.step = "copy") /\ ~(f # None /\ f[1] = "package") => x.pack = a.pack
    /\ ~(r # None /\ r.step \in {"bump", "follow"}) /\ ~(f # None /\ f[1] = "password") /\ l # None =>
         x.pw = l.pw

Sound(a, x, s, v, l, m, r, f, t) ==
  /\ Asking(r, f, t) /\ Tells(a, x, s, v, m, t) /\ Standing(a, x, s, v, l, m, r, f)
  /\ Strays(s, v, m, r) /\ Orphaned(a, x, s, l, m, r, f)
  /\ Created(a, x, s, v, l, m, r) /\ Toggled(a, x, s, v, m, r) /\ Ended(x, s, v, l, m, r)
  /\ Changed(a, x, r) /\ Halves(a, x, l, r, f)

\* The customer's user.
Person(c) == IF UserOf(c) = {} THEN None ELSE users[CHOOSE u \in UserOf(c) : TRUE]

Amiss(c) == {p \in Pieces : <<c, p>> \in amiss}

SoundOf(c) ==
  Sound(acct[c], Person(c), site[c], vhost[c], linux[c], Amiss(c), req[c], due[c], told[c])

ToldInv == Inv /\ \A c \in Customers : SoundOf(c)

-----------------------------------------------------------------------------
(* How each kind of change keeps it.                                        *)

LEMMA AskSound ==
  ASSUME NEW a, NEW x, NEW s, NEW v, NEW l, NEW m, NEW f, NEW t, NEW r2,
         Sound(a, x, s, v, l, m, None, f, t),
         r2 # None, r2.kind \in Kinds, r2.step = "look", r2.uid = None,
         f # None => f = <<r2.kind, r2.arg>>
  PROVE  Sound(a, x, s, v, l, m, r2, f, t)
<1> USE DEF Sound
<1>1. Asking(r2, f, t)
  BY DEF Asking, Way, Kinds
<1>2. Tells(a, x, s, v, m, t)
  BY DEF Tells, Stands, SiteIs, VhostIs, Asking, Standing, Amid
<1>3. Standing(a, x, s, v, l, m, r2, f)
  BY DEF Standing, Stands, SiteIs, VhostIs, Vanished, NoVhost, NoLinux, Amid, Asking, Way, Kinds, Toggled, Created, Ended
<1>4. Strays(s, v, m, r2)
  BY DEF Strays, NoVhost, Created
<1>5. Orphaned(a, x, s, l, m, r2, f)
  BY DEF Orphaned, NoLinux, Amid, Asking, Way, Kinds
<1>6. Created(a, x, s, v, l, m, r2)
  BY DEF Created, Asking, Way, Kinds, Halves
<1>7. Toggled(a, x, s, v, m, r2)
  BY DEF Toggled, Orphaned, Amid, PersonIs, SiteIs, VhostIs
<1>8. Ended(x, s, v, l, m, r2)
  BY DEF Ended, Orphaned, Amid
<1>9. Halves(a, x, l, r2, f)
  BY DEF Halves, Asking, Way, Kinds
<1>10. Changed(a, x, r2)
  BY DEF Changed
<1> QED
  BY <1>1, <1>2, <1>3, <1>4, <1>5, <1>6, <1>7, <1>8, <1>9, <1>10

\* The request is cut short.
LEMMA BreakSound ==
  ASSUME NEW a, NEW x, NEW s, NEW v, NEW l, NEW m, NEW f, NEW t, NEW r, NEW m2,
         NEW f2, f2 # None, f2[1] = r.kind,
         Sound(a, x, s, v, l, m, r, f, t), r # None,
         m \subseteq m2, r.step = "addsite" => "vhost" \in m2
  PROVE  Sound(a, x, s, v, l, m2, None, f2, t)
<1> USE DEF Sound
<1>0. /\ f # None => f[1] = r.kind
      /\ r.kind \in Kinds /\ r.step \in Way(r.kind)
  BY DEF Asking
<1>1. Asking(None, f2, t)
  BY DEF Asking, Way, Kinds
<1>2. Tells(a, x, s, v, m2, t)
  BY DEF Tells, Stands, SiteIs, VhostIs
<1>3. Standing(a, x, s, v, l, m2, None, f2)
  BY <1>0 DEF Standing, Stands, SiteIs, VhostIs, Vanished, NoVhost, NoLinux, Amid, Kinds
<1>4. Strays(s, v, m2, None)
  BY DEF Strays, NoVhost, Created
<1>5. Orphaned(a, x, s, l, m2, None, f2)
  BY <1>0 DEF Orphaned, NoLinux, Amid, Way, Kinds
<1>6. Created(a, x, s, v, l, m2, None)
  BY DEF Created, Asking, Way, Kinds, Halves
<1>7. Toggled(a, x, s, v, m2, None)
  BY DEF Toggled, Orphaned, Amid, PersonIs, SiteIs, VhostIs
<1>8. Ended(x, s, v, l, m2, None)
  BY DEF Ended, Orphaned, Amid
<1>9. Halves(a, x, l, None, f2)
  BY <1>0 DEF Halves, Way, Kinds
<1>10. Changed(a, x, None)
  BY DEF Changed
<1> QED
  BY <1>1, <1>2, <1>3, <1>4, <1>5, <1>6, <1>7, <1>8, <1>9, <1>10

\* It is over before it has begun, and tells what it has found.
LEMMA AnswerSound ==
  ASSUME NEW a, NEW x, NEW s, NEW v, NEW l, NEW m, NEW f, NEW t, NEW r, NEW t2,
         Sound(a, x, s, v, l, m, r, f, t), r # None, r.step = "look",
         a # None, t2 = a.status,
         \/ r.kind = "create" /\ a.status \in {"active", "pending"} /\ a.uid # None
         \/ r.kind = "suspend" /\ a.status = "suspended"
         \/ r.kind = "unsuspend" /\ a.status = "active"
         \/ r.kind = "terminate" /\ a.status = "terminated"
  PROVE  Sound(a, x, s, v, l, m, None, None, t2)
<1> USE DEF Sound
<1>0. /\ f # None => f[1] = r.kind
      /\ r.kind \in Kinds /\ r.step \in Way(r.kind)
  BY DEF Asking
<1>1. Asking(None, None, t2)
  BY DEF Asking, Way, Kinds
<1>2. Tells(a, x, s, v, m, t2)
  BY <1>0 DEF Tells, Standing, Amid, Kinds
<1>3. Standing(a, x, s, v, l, m, None, None)
  BY <1>0 DEF Standing, Amid, Kinds
<1>4. Strays(s, v, m, None)
  BY DEF Strays, NoVhost, Created
<1>5. Orphaned(a, x, s, l, m, None, None)
  BY <1>0 DEF Orphaned, NoLinux, Amid, Way, Kinds
<1>6. Created(a, x, s, v, l, m, None)
  BY DEF Created, Asking, Way, Kinds, Halves
<1>7. Toggled(a, x, s, v, m, None)
  BY DEF Toggled, Orphaned, Amid, PersonIs, SiteIs, VhostIs
<1>8. Ended(x, s, v, l, m, None)
  BY DEF Ended, Orphaned, Amid
<1>9. Halves(a, x, l, None, None)
  BY <1>0 DEF Halves, Way, Kinds
<1>10. Changed(a, x, None)
  BY DEF Changed
<1> QED
  BY <1>1, <1>2, <1>3, <1>4, <1>5, <1>6, <1>7, <1>8, <1>9, <1>10

\* Or is refused.
LEMMA RefuseSound ==
  ASSUME NEW a, NEW x, NEW s, NEW v, NEW l, NEW m, NEW f, NEW t, NEW r,
         Sound(a, x, s, v, l, m, r, f, t), r # None,
         \/ r.step = "insert" /\ a = None
         \/ /\ r.step = "look"
            /\ \/ r.kind \in {"suspend", "unsuspend"} /\
                    (a # None => a.status \notin {"active", "suspended"})
               \/ r.kind = "terminate" /\ a = None
               \/ r.kind \in {"password", "package"} /\ (a # None => a.uid = None)
  PROVE  Sound(a, x, s, v, l, m, None, None, t)
<1> USE DEF Sound
<1>0. /\ f # None => f[1] = r.kind
      /\ r.kind \in Kinds /\ r.step \in Way(r.kind)
  BY DEF Asking
<1>1. Asking(None, None, t)
  BY DEF Asking, Way, Kinds
<1>2. Tells(a, x, s, v, m, t)
  BY <1>0 DEF Tells, Standing, Amid, Kinds
<1>3. Standing(a, x, s, v, l, m, None, None)
  BY <1>0 DEF Standing, Amid, Kinds
<1>4. Strays(s, v, m, None)
  BY DEF Strays, NoVhost, Created
<1>5. Orphaned(a, x, s, l, m, None, None)
  BY <1>0 DEF Orphaned, NoLinux, Amid, Way, Kinds
<1>6. Created(a, x, s, v, l, m, None)
  BY DEF Created, Asking, Way, Kinds, Halves
<1>7. Toggled(a, x, s, v, m, None)
  BY DEF Toggled, Orphaned, Amid, PersonIs, SiteIs, VhostIs
<1>8. Ended(x, s, v, l, m, None)
  BY DEF Ended, Orphaned, Amid
<1>9. Halves(a, x, l, None, None)
  BY <1>0 DEF Halves, Way, Kinds
<1>10. Changed(a, x, None)
  BY DEF Changed
<1> QED
  BY <1>1, <1>2, <1>3, <1>4, <1>5, <1>6, <1>7, <1>8, <1>9, <1>10

\* It has read the account's row and goes to work.
LEMMA ProceedSound ==
  ASSUME NEW a, NEW x, NEW s, NEW v, NEW l, NEW m, NEW f, NEW t, NEW r, NEW r2, NEW t2,
         Sound(a, x, s, v, l, m, r, f, t), r # None, r.step = "look",
         r2 # None, r2.kind = r.kind, r2.arg = r.arg, s # None => x # None,
         a # None => t2 = (IF r.kind \in {"password", "package"} THEN t ELSE None),
         a = None => t2 = t,
         \/ /\ a # None /\ r2.uid = a.uid
            /\ \/ r.kind = "create" /\ r2.step = "forget"
               \/ /\ \/ r.kind = "suspend" /\ a.status = "active"
                     \/ r.kind = "unsuspend" /\ a.status = "suspended"
                  /\ r2.step = (IF a.uid = None THEN "mark" ELSE "user")
               \/ r.kind = "terminate" /\ r2.step = (IF a.uid = None THEN "close" ELSE "list")
               \/ r.kind = "password" /\ r2.step = "hash"
               \/ r.kind = "package" /\ r2.step = "row"
         \/ a = None /\ r.kind = "create" /\ r2.step = "insert" /\ r2.uid = r.uid
  PROVE  Sound(a, x, s, v, l, m, r2, f, t2)
<1> USE DEF Sound
<1>0. /\ f # None => f[1] = r.kind
      /\ r.kind \in Kinds /\ r.step \in Way(r.kind)
  BY DEF Asking
<1>1. Asking(r2, f, t2)
  <2>1. r2.kind \in Kinds /\ r2.step \in Way(r2.kind)
    BY <1>0 DEF Way
  <2>2. f # None => f = <<r2.kind, r2.arg>>
    BY DEF Asking
  <2>3. t2 # None => r2.step \in {"hash", "row"}
    BY DEF Tells
  <2> QED
    BY <2>1, <2>2, <2>3 DEF Asking
<1>2. Tells(a, x, s, v, m, t2)
  BY <1>0 DEF Tells, Standing, Amid, Kinds
<1>3. Standing(a, x, s, v, l, m, r2, f)
  BY <1>0 DEF Standing, Amid, Kinds
<1>4. Strays(s, v, m, r2)
  BY DEF Strays, NoVhost, Created
<1>5. Orphaned(a, x, s, l, m, r2, f)
  BY <1>0 DEF Orphaned, NoLinux, Amid, Way, Kinds
<1>6. Created(a, x, s, v, l, m, r2)
  BY DEF Created, Asking, Way, Kinds, Halves
<1>7. Toggled(a, x, s, v, m, r2)
  BY DEF Toggled, Orphaned, Amid, PersonIs, SiteIs, VhostIs
<1>8. Ended(x, s, v, l, m, r2)
  BY <1>0 DEF Ended, Orphaned, Amid
<1>9. Halves(a, x, l, r2, f)
  BY <1>0 DEF Halves, Way, Kinds
<1>10. Changed(a, x, r2)
  BY DEF Changed
<1> QED
  BY <1>1, <1>2, <1>3, <1>4, <1>5, <1>6, <1>7, <1>8, <1>9, <1>10
-----------------------------------------------------------------------------
(* A creation.                                                             *)

\* `Forget`
LEMMA ForgetSound ==
  ASSUME NEW a, NEW x, NEW s, NEW v, NEW l, NEW m, NEW r, NEW f, NEW t, NEW r2,
         Sound(a, x, s, v, l, m, r, f, t), r # None,
         r.step = "forget",
         r2 # None, r2.kind = r.kind, r2.arg = r.arg,
         a # None, r2.step = "insert", r2.uid = r.uid
  PROVE  Sound(None, x, s, v, l, m, r2, f, t)
<1> USE DEF Sound
<1>0. r.kind = "create" /\ (f # None => f[1] = r.kind)
  BY DEF Asking, Way, Kinds
<1>1. Asking(r2, f, t)
  BY <1>0 DEF Asking, Way, Kinds
<1>2. Tells(None, x, s, v, m, t)
  BY <1>0 DEF Tells, Asking
<1>3. Standing(None, x, s, v, l, m, r2, f)
  BY <1>0 DEF Standing, Stands, PersonIs, SiteIs, VhostIs, Vanished, NoVhost, NoLinux, Amid
<1>4. Strays(s, v, m, r2)
  BY <1>0 DEF Strays, NoVhost, Created, Ended
<1>5. Orphaned(None, x, s, l, m, r2, f)
  BY <1>0 DEF Orphaned, NoLinux, Amid, Created, Ended
<1>6. Created(None, x, s, v, l, m, r2)
  BY <1>0 DEF Created, PersonIs, SiteIs, VhostIs, Halves
<1>7. Toggled(None, x, s, v, m, r2)
  BY <1>0 DEF Toggled, PersonIs, SiteIs, VhostIs
<1>8. Ended(x, s, v, l, m, r2)
  BY <1>0 DEF Ended, NoVhost, NoLinux
<1>9. Changed(None, x, r2)
  BY <1>0 DEF Changed, Created
<1>10. Halves(None, x, l, r2, f)
  BY <1>0 DEF Halves, Created, Changed
<1> QED
  BY <1>1, <1>2, <1>3, <1>4, <1>5, <1>6, <1>7, <1>8, <1>9, <1>10

\* `Insert`
LEMMA InsertSound ==
  ASSUME NEW a, NEW x, NEW s, NEW v, NEW l, NEW m, NEW r, NEW f, NEW t, NEW a2, NEW r2,
         Sound(a, x, s, v, l, m, r, f, t), r # None,
         r.step = "insert",
         r2 # None, r2.kind = r.kind, r2.arg = r.arg,
         x = None, s = None, v = "none", r2.step = "ensure", r2.uid = r.uid,
         a2 # None, a2.status = "pending", a2.uid = None, a2.pack = r.arg
  PROVE  Sound(a2, x, s, v, l, m, r2, f, t)
<1> USE DEF Sound
<1>0. r.kind = "create" /\ (f # None => f[1] = r.kind)
  BY DEF Asking, Way, Kinds
<1>1. Asking(r2, f, t)
  BY <1>0 DEF Asking, Way, Kinds
<1>2. Tells(a2, x, s, v, m, t)
  BY <1>0 DEF Tells, Asking
<1>3. Standing(a2, x, s, v, l, m, r2, f)
  BY <1>0 DEF Standing, Stands, PersonIs, SiteIs, VhostIs, Vanished, NoVhost, NoLinux, Amid
<1>4. Strays(s, v, m, r2)
  BY <1>0 DEF Strays, NoVhost, Created, Ended
<1>5. Orphaned(a2, x, s, l, m, r2, f)
  BY <1>0 DEF Orphaned, NoLinux, Amid, Created, Ended
<1>6. Created(a2, x, s, v, l, m, r2)
  BY <1>0 DEF Created, PersonIs, SiteIs, VhostIs
<1>7. Toggled(a2, x, s, v, m, r2)
  BY <1>0 DEF Toggled, PersonIs, SiteIs, VhostIs
<1>8. Ended(x, s, v, l, m, r2)
  BY <1>0 DEF Ended, NoVhost, NoLinux
<1>9. Changed(a2, x, r2)
  BY <1>0 DEF Changed, Created
<1>10. Halves(a2, x, l, r2, f)
  BY <1>0 DEF Halves, Created, Changed
<1> QED
  BY <1>1, <1>2, <1>3, <1>4, <1>5, <1>6, <1>7, <1>8, <1>9, <1>10

\* `Ensure` and `SetPw`
LEMMA LinuxSound ==
  ASSUME NEW a, NEW x, NEW s, NEW v, NEW l, NEW m, NEW r, NEW f, NEW t, NEW l2, NEW r2,
         Sound(a, x, s, v, l, m, r, f, t), r # None,
         r2 # None, r2.kind = r.kind, r2.arg = r.arg,
         r.step \in {"ensure", "setpw"}, l2 # None,
         r2.step = (IF r.step = "ensure" THEN "setpw" ELSE "adduser"), r2.uid = r.uid,
         r.step = "setpw" => l2.pw = r.arg
  PROVE  Sound(a, x, s, v, l2, m, r2, f, t)
<1> USE DEF Sound
<1>0. r.kind = "create" /\ (f # None => f[1] = r.kind)
  BY DEF Asking, Way, Kinds
<1>1. Asking(r2, f, t)
  BY <1>0 DEF Asking, Way, Kinds
<1>2. Tells(a, x, s, v, m, t)
  BY <1>0 DEF Tells, Asking
<1>3. Standing(a, x, s, v, l2, m, r2, f)
  BY <1>0 DEF Standing, Stands, PersonIs, SiteIs, VhostIs, Vanished, NoVhost, NoLinux, Amid, Created
<1>4. Strays(s, v, m, r2)
  BY <1>0 DEF Strays, NoVhost, Created, Ended
<1>5. Orphaned(a, x, s, l2, m, r2, f)
  BY <1>0 DEF Orphaned, NoLinux, Amid, Created, Ended
<1>6. Created(a, x, s, v, l2, m, r2)
  BY <1>0 DEF Created, PersonIs, SiteIs, VhostIs
<1>7. Toggled(a, x, s, v, m, r2)
  BY <1>0 DEF Toggled, PersonIs, SiteIs, VhostIs
<1>8. Ended(x, s, v, l2, m, r2)
  BY <1>0 DEF Ended, NoVhost, NoLinux
<1>9. Changed(a, x, r2)
  BY <1>0 DEF Changed, Created
<1>10. Halves(a, x, l2, r2, f)
  BY <1>0 DEF Halves, Created, Changed
<1> QED
  BY <1>1, <1>2, <1>3, <1>4, <1>5, <1>6, <1>7, <1>8, <1>9, <1>10

\* `AddUser`
LEMMA AddUserSound ==
  ASSUME NEW a, NEW x, NEW s, NEW v, NEW l, NEW m, NEW r, NEW f, NEW t, NEW x2, NEW r2,
         Sound(a, x, s, v, l, m, r, f, t), r # None,
         r.step = "adduser",
         r2 # None, r2.kind = r.kind, r2.arg = r.arg,
         r2.step = "link", r2.uid = r2.uid,
         x2 # None, x2.active, ~x2.signed, x2.pack = r.arg, x2.pw = r.arg
  PROVE  Sound(a, x2, s, v, l, m, r2, f, t)
<1> USE DEF Sound
<1>0. r.kind = "create" /\ (f # None => f[1] = r.kind)
  BY DEF Asking, Way, Kinds
<1>1. Asking(r2, f, t)
  BY <1>0 DEF Asking, Way, Kinds
<1>2. Tells(a, x2, s, v, m, t)
  BY <1>0 DEF Tells, Asking
<1>3. Standing(a, x2, s, v, l, m, r2, f)
  BY <1>0 DEF Standing, Stands, PersonIs, SiteIs, VhostIs, Vanished, NoVhost, NoLinux, Amid, Created
<1>4. Strays(s, v, m, r2)
  BY <1>0 DEF Strays, NoVhost, Created, Ended
<1>5. Orphaned(a, x2, s, l, m, r2, f)
  BY <1>0 DEF Orphaned, NoLinux, Amid, Created, Ended
<1>6. Created(a, x2, s, v, l, m, r2)
  BY <1>0 DEF Created, PersonIs, SiteIs, VhostIs
<1>7. Toggled(a, x2, s, v, m, r2)
  BY <1>0 DEF Toggled, PersonIs, SiteIs, VhostIs
<1>8. Ended(x2, s, v, l, m, r2)
  BY <1>0 DEF Ended, NoVhost, NoLinux
<1>9. Changed(a, x2, r2)
  BY <1>0 DEF Changed, Created
<1>10. Halves(a, x2, l, r2, f)
  BY <1>0 DEF Halves, Created, Changed
<1> QED
  BY <1>1, <1>2, <1>3, <1>4, <1>5, <1>6, <1>7, <1>8, <1>9, <1>10

\* `Link`
LEMMA LinkSound ==
  ASSUME NEW a, NEW x, NEW s, NEW v, NEW l, NEW m, NEW r, NEW f, NEW t, NEW a2, NEW r2,
         Sound(a, x, s, v, l, m, r, f, t), r # None,
         r.step = "link",
         r2 # None, r2.kind = r.kind, r2.arg = r.arg,
         r2.step = "build", r2.uid = r.uid,
         a2 # None, a2.status = a.status, a2.uid = r.uid, r.uid # None, a2.pack = a.pack
  PROVE  Sound(a2, x, s, v, l, m, r2, f, t)
<1> USE DEF Sound
<1>0. r.kind = "create" /\ (f # None => f[1] = r.kind)
  BY DEF Asking, Way, Kinds
<1>1. Asking(r2, f, t)
  BY <1>0 DEF Asking, Way, Kinds
<1>2. Tells(a2, x, s, v, m, t)
  BY <1>0 DEF Tells, Asking
<1>3. Standing(a2, x, s, v, l, m, r2, f)
  BY <1>0 DEF Standing, Stands, PersonIs, SiteIs, VhostIs, Vanished, NoVhost, NoLinux, Amid, Created
<1>4. Strays(s, v, m, r2)
  BY <1>0 DEF Strays, NoVhost, Created, Ended
<1>5. Orphaned(a2, x, s, l, m, r2, f)
  BY <1>0 DEF Orphaned, NoLinux, Amid, Created, Ended
<1>6. Created(a2, x, s, v, l, m, r2)
  BY <1>0 DEF Created, PersonIs, SiteIs, VhostIs
<1>7. Toggled(a2, x, s, v, m, r2)
  BY <1>0 DEF Toggled, PersonIs, SiteIs, VhostIs
<1>8. Ended(x, s, v, l, m, r2)
  BY <1>0 DEF Ended, NoVhost, NoLinux
<1>9. Changed(a2, x, r2)
  BY <1>0 DEF Changed, Created
<1>10. Halves(a2, x, l, r2, f)
  BY <1>0 DEF Halves, Created, Changed
<1> QED
  BY <1>1, <1>2, <1>3, <1>4, <1>5, <1>6, <1>7, <1>8, <1>9, <1>10

\* `Build`
LEMMA BuildSound ==
  ASSUME NEW a, NEW x, NEW s, NEW v, NEW l, NEW m, NEW r, NEW f, NEW t, NEW r2,
         Sound(a, x, s, v, l, m, r, f, t), r # None,
         r.step = "build",
         r2 # None, r2.kind = r.kind, r2.arg = r.arg,
         r2.step = "addsite", r2.uid = r.uid
  PROVE  Sound(a, x, s, "live", l, m, r2, f, t)
<1> USE DEF Sound
<1>0. r.kind = "create" /\ (f # None => f[1] = r.kind)
  BY DEF Asking, Way, Kinds
<1>1. Asking(r2, f, t)
  BY <1>0 DEF Asking, Way, Kinds
<1>2. Tells(a, x, s, "live", m, t)
  BY <1>0 DEF Tells, Asking
<1>3. Standing(a, x, s, "live", l, m, r2, f)
  BY <1>0 DEF Standing, Stands, PersonIs, SiteIs, VhostIs, Vanished, NoVhost, NoLinux, Amid, Created
<1>4. Strays(s, "live", m, r2)
  BY <1>0 DEF Strays, NoVhost, Created, Ended
<1>5. Orphaned(a, x, s, l, m, r2, f)
  BY <1>0 DEF Orphaned, NoLinux, Amid, Created, Ended
<1>6. Created(a, x, s, "live", l, m, r2)
  BY <1>0 DEF Created, PersonIs, SiteIs, VhostIs
<1>7. Toggled(a, x, s, "live", m, r2)
  BY <1>0 DEF Toggled, PersonIs, SiteIs, VhostIs
<1>8. Ended(x, s, "live", l, m, r2)
  BY <1>0 DEF Ended, NoVhost, NoLinux
<1>9. Changed(a, x, r2)
  BY <1>0 DEF Changed, Created
<1>10. Halves(a, x, l, r2, f)
  BY <1>0 DEF Halves, Created, Changed
<1> QED
  BY <1>1, <1>2, <1>3, <1>4, <1>5, <1>6, <1>7, <1>8, <1>9, <1>10

\* `AddSite`
LEMMA AddSiteSound ==
  ASSUME NEW a, NEW x, NEW s, NEW v, NEW l, NEW m, NEW r, NEW f, NEW t, NEW s2, NEW r2,
         Sound(a, x, s, v, l, m, r, f, t), r # None,
         r.step = "addsite",
         r2 # None, r2.kind = r.kind, r2.arg = r.arg,
         r2.step = "activate", r2.uid = r.uid,
         s2 # None, s2.on = TRUE
  PROVE  Sound(a, x, s2, v, l, m, r2, f, t)
<1> USE DEF Sound
<1>0. r.kind = "create" /\ (f # None => f[1] = r.kind)
  BY DEF Asking, Way, Kinds
<1>1. Asking(r2, f, t)
  BY <1>0 DEF Asking, Way, Kinds
<1>2. Tells(a, x, s2, v, m, t)
  BY <1>0 DEF Tells, Asking
<1>3. Standing(a, x, s2, v, l, m, r2, f)
  BY <1>0 DEF Standing, Stands, PersonIs, SiteIs, VhostIs, Vanished, NoVhost, NoLinux, Amid, Created
<1>4. Strays(s2, v, m, r2)
  BY <1>0 DEF Strays, NoVhost, Created, Ended
<1>5. Orphaned(a, x, s2, l, m, r2, f)
  BY <1>0 DEF Orphaned, NoLinux, Amid, Created, Ended
<1>6. Created(a, x, s2, v, l, m, r2)
  BY <1>0 DEF Created, PersonIs, SiteIs, VhostIs
<1>7. Toggled(a, x, s2, v, m, r2)
  BY <1>0 DEF Toggled, PersonIs, SiteIs, VhostIs
<1>8. Ended(x, s2, v, l, m, r2)
  BY <1>0 DEF Ended, NoVhost, NoLinux
<1>9. Changed(a, x, r2)
  BY <1>0 DEF Changed, Created
<1>10. Halves(a, x, l, r2, f)
  BY <1>0 DEF Halves, Created, Changed
<1> QED
  BY <1>1, <1>2, <1>3, <1>4, <1>5, <1>6, <1>7, <1>8, <1>9, <1>10

\* `WorkFails`
LEMMA WorkFailsSound ==
  ASSUME NEW a, NEW x, NEW s, NEW v, NEW l, NEW m, NEW r, NEW f, NEW t, NEW r2,
         Sound(a, x, s, v, l, m, r, f, t), r # None,
         r2 # None, r2.kind = r.kind, r2.arg = r.arg,
         r2.step = "fail", r2.uid = r.uid,
         r.step \in {"ensure", "setpw", "build"},
         r.step = "build" => a.uid # None /\ r.uid # None
  PROVE  Sound(a, x, s, v, l, m, r2, f, t)
<1> USE DEF Sound
<1>0. r.kind = "create" /\ (f # None => f[1] = r.kind)
  BY DEF Asking, Way, Kinds
<1>1. Asking(r2, f, t)
  BY <1>0 DEF Asking, Way, Kinds
<1>2. Tells(a, x, s, v, m, t)
  BY <1>0 DEF Tells, Asking
<1>3. Standing(a, x, s, v, l, m, r2, f)
  BY <1>0 DEF Standing, Stands, PersonIs, SiteIs, VhostIs, Vanished, NoVhost, NoLinux, Amid
<1>4. Strays(s, v, m, r2)
  BY <1>0 DEF Strays, NoVhost, Created, Ended
<1>5. Orphaned(a, x, s, l, m, r2, f)
  BY <1>0 DEF Orphaned, NoLinux, Amid, Created, Ended
<1>6. Created(a, x, s, v, l, m, r2)
  BY <1>0 DEF Created, PersonIs, SiteIs, VhostIs
<1>7. Toggled(a, x, s, v, m, r2)
  BY <1>0 DEF Toggled, PersonIs, SiteIs, VhostIs
<1>8. Ended(x, s, v, l, m, r2)
  BY <1>0 DEF Ended, NoVhost, NoLinux
<1>9. Changed(a, x, r2)
  BY <1>0 DEF Changed, Created
<1>10. Halves(a, x, l, r2, f)
  BY <1>0 DEF Halves, Created, Changed
<1> QED
  BY <1>1, <1>2, <1>3, <1>4, <1>5, <1>6, <1>7, <1>8, <1>9, <1>10

\* `Fail`
LEMMA FailSound ==
  ASSUME NEW a, NEW x, NEW s, NEW v, NEW l, NEW m, NEW r, NEW f, NEW t, NEW a2, NEW m2,
         Sound(a, x, s, v, l, m, r, f, t), r # None,
         r.step = "fail",
         a2 # None, a2.uid = a.uid, a2.pack = a.pack, a2.status \in {a.status, "failed"},
         m \subseteq m2, r.uid = None /\ l # None => "linux" \in m2
  PROVE  Sound(a2, x, s, v, l, m2, None, None, t)
<1> USE DEF Sound
<1>0. r.kind = "create" /\ (f # None => f[1] = r.kind)
  BY DEF Asking, Way, Kinds
<1>1. Asking(None, None, t)
  BY <1>0 DEF Asking, Way, Kinds
<1>2. Tells(a2, x, s, v, m2, t)
  BY <1>0 DEF Tells, Asking
<1>3. Standing(a2, x, s, v, l, m2, None, None)
  BY <1>0 DEF Standing, Stands, PersonIs, SiteIs, VhostIs, Vanished, NoVhost, NoLinux, Amid, Created
<1>4. Strays(s, v, m2, None)
  BY <1>0 DEF Strays, NoVhost, Created, Ended
<1>5. Orphaned(a2, x, s, l, m2, None, None)
  BY <1>0 DEF Orphaned, NoLinux, Amid, Created, Ended
<1>6. Created(a2, x, s, v, l, m2, None)
  BY <1>0 DEF Created, PersonIs, SiteIs, VhostIs
<1>7. Toggled(a2, x, s, v, m2, None)
  BY <1>0 DEF Toggled, PersonIs, SiteIs, VhostIs
<1>8. Ended(x, s, v, l, m2, None)
  BY <1>0 DEF Ended, NoVhost, NoLinux
<1>9. Changed(a2, x, None)
  BY <1>0 DEF Changed, Created
<1>10. Halves(a2, x, l, None, None)
  BY <1>0 DEF Halves, Created, Changed
<1> QED
  BY <1>1, <1>2, <1>3, <1>4, <1>5, <1>6, <1>7, <1>8, <1>9, <1>10

\* `Activate`
LEMMA ActivateSound ==
  ASSUME NEW a, NEW x, NEW s, NEW v, NEW l, NEW m, NEW r, NEW f, NEW t, NEW a2, NEW f2, NEW t2,
         Sound(a, x, s, v, l, m, r, f, t), r # None,
         r.step = "activate",
         a2 # None, a2.uid = a.uid, a2.pack = a.pack, a2.status = "active",
         a.uid # None,
         \/ t2 = "active" /\ f2 = None
         \/ t2 = t /\ f2 # None /\ f2[1] = r.kind
  PROVE  Sound(a2, x, s, v, l, m, None, f2, t2)
<1> USE DEF Sound
<1>0. r.kind = "create" /\ (f # None => f[1] = r.kind)
  BY DEF Asking, Way, Kinds
<1>1. Asking(None, f2, t2)
  BY <1>0 DEF Asking, Way, Kinds
<1>2. Tells(a2, x, s, v, m, t2)
  BY <1>0 DEF Tells, Asking, Stands, PersonIs, SiteIs, VhostIs, Created
<1>3. Standing(a2, x, s, v, l, m, None, f2)
  BY <1>0 DEF Standing, Stands, PersonIs, SiteIs, VhostIs, Vanished, NoVhost, NoLinux, Amid, Created
<1>4. Strays(s, v, m, None)
  BY <1>0 DEF Strays, NoVhost, Created, Ended
<1>5. Orphaned(a2, x, s, l, m, None, f2)
  BY <1>0 DEF Orphaned, NoLinux, Amid, Created, Ended
<1>6. Created(a2, x, s, v, l, m, None)
  BY <1>0 DEF Created, PersonIs, SiteIs, VhostIs
<1>7. Toggled(a2, x, s, v, m, None)
  BY <1>0 DEF Toggled, PersonIs, SiteIs, VhostIs
<1>8. Ended(x, s, v, l, m, None)
  BY <1>0 DEF Ended, NoVhost, NoLinux
<1>9. Changed(a2, x, None)
  BY <1>0 DEF Changed, Created
<1>10. Halves(a2, x, l, None, f2)
  BY <1>0 DEF Halves, Created, Asking
<1> QED
  BY <1>1, <1>2, <1>3, <1>4, <1>5, <1>6, <1>7, <1>8, <1>9, <1>10
-----------------------------------------------------------------------------
(* A suspension, or its end.                                               *)

\* `ToggleUser`
LEMMA ToggleUserSound ==
  ASSUME NEW a, NEW x, NEW s, NEW v, NEW l, NEW m, NEW r, NEW f, NEW t, NEW x2, NEW r2,
         Sound(a, x, s, v, l, m, r, f, t), r # None,
         r.step = "user",
         r2 # None, r2.kind = r.kind, r2.arg = r.arg,
         x # None, x2 # None,
         r.kind = "unsuspend" => x2.active = TRUE,
         r.kind # "unsuspend" => x2.active = FALSE /\ x2.signed = FALSE,
         x2.pack = x.pack, x2.pw = x.pw,
         r2.step = (IF s # None THEN "site" ELSE "lock"), r2.uid = r.uid
  PROVE  Sound(a, x2, s, v, l, m, r2, f, t)
<1> USE DEF Sound
<1>0. r.kind \in {"suspend", "unsuspend"} /\ (f # None => f[1] = r.kind)
  BY DEF Asking, Way, Kinds
<1>1. Asking(r2, f, t)
  BY <1>0 DEF Asking, Way, Kinds
<1>2. Tells(a, x2, s, v, m, t)
  BY <1>0 DEF Tells, Asking
<1>3. Standing(a, x2, s, v, l, m, r2, f)
  BY <1>0 DEF Standing, Stands, PersonIs, SiteIs, VhostIs, Vanished, NoVhost, NoLinux, Amid, Toggled
<1>4. Strays(s, v, m, r2)
  BY <1>0 DEF Strays, NoVhost, Created, Ended
<1>5. Orphaned(a, x2, s, l, m, r2, f)
  BY <1>0 DEF Orphaned, NoLinux, Amid
<1>6. Created(a, x2, s, v, l, m, r2)
  BY <1>0 DEF Created, PersonIs, SiteIs, VhostIs
<1>7. Toggled(a, x2, s, v, m, r2)
  BY <1>0 DEF Toggled, PersonIs, SiteIs, VhostIs
<1>8. Ended(x2, s, v, l, m, r2)
  BY <1>0 DEF Ended, NoVhost, NoLinux
<1>9. Changed(a, x2, r2)
  BY <1>0 DEF Changed, Created
<1>10. Halves(a, x2, l, r2, f)
  BY <1>0 DEF Halves, Created, Changed
<1> QED
  BY <1>1, <1>2, <1>3, <1>4, <1>5, <1>6, <1>7, <1>8, <1>9, <1>10

\* `ToggleSite`
LEMMA ToggleSiteSound ==
  ASSUME NEW a, NEW x, NEW s, NEW v, NEW l, NEW m, NEW r, NEW f, NEW t, NEW s2, NEW m2, NEW r2,
         Sound(a, x, s, v, l, m, r, f, t), r # None,
         r.step = "site",
         r2 # None, r2.kind = r.kind, r2.arg = r.arg,
         a.uid # None, s2 # None, s2.on = (r.kind = "unsuspend"), m2 = m \ {"site"},
         r2.step = "vhost", r2.uid = r.uid
  PROVE  Sound(a, x, s2, v, l, m2, r2, f, t)
<1> USE DEF Sound
<1>0. r.kind \in {"suspend", "unsuspend"} /\ (f # None => f[1] = r.kind)
  BY DEF Asking, Way, Kinds
<1>1. Asking(r2, f, t)
  BY <1>0 DEF Asking, Way, Kinds
<1>2. Tells(a, x, s2, v, m2, t)
  BY <1>0 DEF Tells, Asking
<1>3. Standing(a, x, s2, v, l, m2, r2, f)
  BY <1>0 DEF Standing, Stands, PersonIs, SiteIs, VhostIs, Vanished, NoVhost, NoLinux, Amid, Toggled
<1>4. Strays(s2, v, m2, r2)
  BY <1>0 DEF Strays, NoVhost, Created, Ended
<1>5. Orphaned(a, x, s2, l, m2, r2, f)
  BY <1>0 DEF Orphaned, NoLinux, Amid
<1>6. Created(a, x, s2, v, l, m2, r2)
  BY <1>0 DEF Created, PersonIs, SiteIs, VhostIs
<1>7. Toggled(a, x, s2, v, m2, r2)
  BY <1>0 DEF Toggled, PersonIs, SiteIs, VhostIs
<1>8. Ended(x, s2, v, l, m2, r2)
  BY <1>0 DEF Ended, NoVhost, NoLinux
<1>9. Changed(a, x, r2)
  BY <1>0 DEF Changed, Created
<1>10. Halves(a, x, l, r2, f)
  BY <1>0 DEF Halves, Created, Changed
<1> QED
  BY <1>1, <1>2, <1>3, <1>4, <1>5, <1>6, <1>7, <1>8, <1>9, <1>10

\* `ToggleVhost`
LEMMA ToggleVhostSound ==
  ASSUME NEW a, NEW x, NEW s, NEW v, NEW l, NEW m, NEW r, NEW f, NEW t, NEW v2, NEW m2, NEW r2,
         Sound(a, x, s, v, l, m, r, f, t), r # None,
         r.step = "vhost",
         r2 # None, r2.kind = r.kind, r2.arg = r.arg,
         v2 = (IF r.kind = "suspend" THEN "off" ELSE "live"), m2 = m \ {"vhost"},
         r2.step = "lock", r2.uid = r.uid
  PROVE  Sound(a, x, s, v2, l, m2, r2, f, t)
<1> USE DEF Sound
<1>0. r.kind \in {"suspend", "unsuspend"} /\ (f # None => f[1] = r.kind)
  BY DEF Asking, Way, Kinds
<1>1. Asking(r2, f, t)
  BY <1>0 DEF Asking, Way, Kinds
<1>2. Tells(a, x, s, v2, m2, t)
  BY <1>0 DEF Tells, Asking
<1>3. Standing(a, x, s, v2, l, m2, r2, f)
  BY <1>0 DEF Standing, Stands, PersonIs, SiteIs, VhostIs, Vanished, NoVhost, NoLinux, Amid, Toggled
<1>4. Strays(s, v2, m2, r2)
  BY <1>0 DEF Strays, NoVhost, Toggled
<1>5. Orphaned(a, x, s, l, m2, r2, f)
  BY <1>0 DEF Orphaned, NoLinux, Amid
<1>6. Created(a, x, s, v2, l, m2, r2)
  BY <1>0 DEF Created, PersonIs, SiteIs, VhostIs
<1>7. Toggled(a, x, s, v2, m2, r2)
  BY <1>0 DEF Toggled, PersonIs, SiteIs, VhostIs
<1>8. Ended(x, s, v2, l, m2, r2)
  BY <1>0 DEF Ended, NoVhost, NoLinux
<1>9. Changed(a, x, r2)
  BY <1>0 DEF Changed, Created
<1>10. Halves(a, x, l, r2, f)
  BY <1>0 DEF Halves, Created, Changed
<1> QED
  BY <1>1, <1>2, <1>3, <1>4, <1>5, <1>6, <1>7, <1>8, <1>9, <1>10

\* `ToggleLock`
LEMMA ToggleLockSound ==
  ASSUME NEW a, NEW x, NEW s, NEW v, NEW l, NEW m, NEW r, NEW f, NEW t, NEW l2, NEW m2, NEW r2,
         Sound(a, x, s, v, l, m, r, f, t), r # None,
         r.step = "lock",
         r2 # None, r2.kind = r.kind, r2.arg = r.arg,
         a.uid # None, l # None, l2 # None, l2.pw = l.pw, m2 = m \ {"linux"},
         r2.step = "mark", r2.uid = r.uid
  PROVE  Sound(a, x, s, v, l2, m2, r2, f, t)
<1> USE DEF Sound
<1>0. r.kind \in {"suspend", "unsuspend"} /\ (f # None => f[1] = r.kind)
  BY DEF Asking, Way, Kinds
<1>1. Asking(r2, f, t)
  BY <1>0 DEF Asking, Way, Kinds
<1>2. Tells(a, x, s, v, m2, t)
  BY <1>0 DEF Tells, Asking
<1>3. Standing(a, x, s, v, l2, m2, r2, f)
  BY <1>0 DEF Standing, Stands, PersonIs, SiteIs, VhostIs, Vanished, NoVhost, NoLinux, Amid, Toggled
<1>4. Strays(s, v, m2, r2)
  BY <1>0 DEF Strays, NoVhost, Created, Ended
<1>5. Orphaned(a, x, s, l2, m2, r2, f)
  BY <1>0 DEF Orphaned, NoLinux, Amid
<1>6. Created(a, x, s, v, l2, m2, r2)
  BY <1>0 DEF Created, PersonIs, SiteIs, VhostIs
<1>7. Toggled(a, x, s, v, m2, r2)
  BY <1>0 DEF Toggled, PersonIs, SiteIs, VhostIs
<1>8. Ended(x, s, v, l2, m2, r2)
  BY <1>0 DEF Ended, NoVhost, NoLinux
<1>9. Changed(a, x, r2)
  BY <1>0 DEF Changed, Created
<1>10. Halves(a, x, l2, r2, f)
  BY <1>0 DEF Halves, Created, Changed
<1> QED
  BY <1>1, <1>2, <1>3, <1>4, <1>5, <1>6, <1>7, <1>8, <1>9, <1>10

\* What fails is left as it is, and is amiss.
LEMMA SkipSound ==
  ASSUME NEW a, NEW x, NEW s, NEW v, NEW l, NEW m, NEW r, NEW f, NEW t, NEW m2, NEW r2,
         Sound(a, x, s, v, l, m, r, f, t), r # None,
         r2 # None, r2.kind = r.kind, r2.arg = r.arg,
         m \subseteq m2, r2.uid = r.uid,
         \/ r.step = "site" /\ r2.step = "vhost" /\ "site" \in m2
         \/ r.step = "site" /\ r2.step = "lock" /\ {"site", "vhost"} \subseteq m2
         \/ r.step = "vhost" /\ r2.step = "lock" /\ "vhost" \in m2
         \/ r.step = "lock" /\ r2.step = "mark" /\ "linux" \in m2
  PROVE  Sound(a, x, s, v, l, m2, r2, f, t)
<1> USE DEF Sound
<1>0. r.kind \in {"suspend", "unsuspend"} /\ (f # None => f[1] = r.kind)
  BY DEF Asking, Way, Kinds
<1>1. Asking(r2, f, t)
  BY <1>0 DEF Asking, Way, Kinds
<1>2. Tells(a, x, s, v, m2, t)
  BY <1>0 DEF Tells, Asking
<1>3. Standing(a, x, s, v, l, m2, r2, f)
  BY <1>0 DEF Standing, Stands, PersonIs, SiteIs, VhostIs, Vanished, NoVhost, NoLinux, Amid, Toggled
<1>4. Strays(s, v, m2, r2)
  BY <1>0 DEF Strays, NoVhost
<1>5. Orphaned(a, x, s, l, m2, r2, f)
  BY <1>0 DEF Orphaned, NoLinux, Amid
<1>6. Created(a, x, s, v, l, m2, r2)
  BY <1>0 DEF Created, PersonIs, SiteIs, VhostIs
<1>7. Toggled(a, x, s, v, m2, r2)
  BY <1>0 DEF Toggled, PersonIs, SiteIs, VhostIs
<1>8. Ended(x, s, v, l, m2, r2)
  BY <1>0 DEF Ended, NoVhost, NoLinux
<1>9. Changed(a, x, r2)
  BY <1>0 DEF Changed, Created
<1>10. Halves(a, x, l, r2, f)
  BY <1>0 DEF Halves, Created, Changed
<1> QED
  BY <1>1, <1>2, <1>3, <1>4, <1>5, <1>6, <1>7, <1>8, <1>9, <1>10

\* `Mark`
LEMMA MarkSound ==
  ASSUME NEW a, NEW x, NEW s, NEW v, NEW l, NEW m, NEW r, NEW f, NEW t, NEW a2, NEW t2,
         Sound(a, x, s, v, l, m, r, f, t), r # None,
         r.step = "mark",
         a2 # None, a2.uid = a.uid, a2.pack = a.pack, a2.status = t2,
         t2 = (IF r.kind = "suspend" THEN "suspended" ELSE "active")
  PROVE  Sound(a2, x, s, v, l, m, None, None, t2)
<1> USE DEF Sound
<1>0. r.kind \in {"suspend", "unsuspend"} /\ (f # None => f[1] = r.kind)
  BY DEF Asking, Way, Kinds
<1>1. Asking(None, None, t2)
  BY <1>0 DEF Asking, Way, Kinds
<1>2. Tells(a2, x, s, v, m, t2)
  BY <1>0 DEF Tells, Asking, Stands, PersonIs, SiteIs, VhostIs, Toggled
<1>3. Standing(a2, x, s, v, l, m, None, None)
  BY <1>0 DEF Standing, Stands, PersonIs, SiteIs, VhostIs, Vanished, NoVhost, NoLinux, Amid, Toggled
<1>4. Strays(s, v, m, None)
  BY <1>0 DEF Strays, NoVhost, Created, Ended
<1>5. Orphaned(a2, x, s, l, m, None, None)
  BY <1>0 DEF Orphaned, NoLinux, Amid, Toggled
<1>6. Created(a2, x, s, v, l, m, None)
  BY <1>0 DEF Created, PersonIs, SiteIs, VhostIs
<1>7. Toggled(a2, x, s, v, m, None)
  BY <1>0 DEF Toggled, PersonIs, SiteIs, VhostIs
<1>8. Ended(x, s, v, l, m, None)
  BY <1>0 DEF Ended, NoVhost, NoLinux
<1>9. Changed(a2, x, None)
  BY <1>0 DEF Changed, Created
<1>10. Halves(a2, x, l, None, None)
  BY <1>0 DEF Halves, Toggled
<1> QED
  BY <1>1, <1>2, <1>3, <1>4, <1>5, <1>6, <1>7, <1>8, <1>9, <1>10
-----------------------------------------------------------------------------
(* The end of an account.                                                  *)

\* `List`
LEMMA ListSound ==
  ASSUME NEW a, NEW x, NEW s, NEW v, NEW l, NEW m, NEW r, NEW f, NEW t, NEW r2,
         Sound(a, x, s, v, l, m, r, f, t), r # None,
         r.step = "list",
         r2 # None, r2.kind = r.kind, r2.arg = r.arg,
         r2.step \in {"dropvhost", "droplinux"}, r2.uid = r.uid
  PROVE  Sound(a, x, s, v, l, m, r2, f, t)
<1> USE DEF Sound
<1>0. r.kind = "terminate" /\ (f # None => f[1] = r.kind)
  BY DEF Asking, Way, Kinds
<1>1. Asking(r2, f, t)
  BY <1>0 DEF Asking, Way, Kinds
<1>2. Tells(a, x, s, v, m, t)
  BY <1>0 DEF Tells, Asking
<1>3. Standing(a, x, s, v, l, m, r2, f)
  BY <1>0 DEF Standing, Stands, PersonIs, SiteIs, VhostIs, Vanished, NoVhost, NoLinux, Amid
<1>4. Strays(s, v, m, r2)
  BY <1>0 DEF Strays, NoVhost, Created, Ended
<1>5. Orphaned(a, x, s, l, m, r2, f)
  BY <1>0 DEF Orphaned, NoLinux, Amid, Created, Ended
<1>6. Created(a, x, s, v, l, m, r2)
  BY <1>0 DEF Created, PersonIs, SiteIs, VhostIs
<1>7. Toggled(a, x, s, v, m, r2)
  BY <1>0 DEF Toggled, PersonIs, SiteIs, VhostIs
<1>8. Ended(x, s, v, l, m, r2)
  BY <1>0 DEF Ended, NoVhost, NoLinux
<1>9. Changed(a, x, r2)
  BY <1>0 DEF Changed, Created
<1>10. Halves(a, x, l, r2, f)
  BY <1>0 DEF Halves, Created, Changed
<1> QED
  BY <1>1, <1>2, <1>3, <1>4, <1>5, <1>6, <1>7, <1>8, <1>9, <1>10

\* `DropVhost`
LEMMA DropVhostSound ==
  ASSUME NEW a, NEW x, NEW s, NEW v, NEW l, NEW m, NEW r, NEW f, NEW t, NEW m2, NEW r2,
         Sound(a, x, s, v, l, m, r, f, t), r # None,
         r.step = "dropvhost",
         r2 # None, r2.kind = r.kind, r2.arg = r.arg,
         m2 = m \ {"vhost"},
         r2.step = "dropsite", r2.uid = r.uid
  PROVE  Sound(a, x, s, "none", l, m2, r2, f, t)
<1> USE DEF Sound
<1>0. r.kind = "terminate" /\ (f # None => f[1] = r.kind)
  BY DEF Asking, Way, Kinds
<1>1. Asking(r2, f, t)
  BY <1>0 DEF Asking, Way, Kinds
<1>2. Tells(a, x, s, "none", m2, t)
  BY <1>0 DEF Tells, Asking
<1>3. Standing(a, x, s, "none", l, m2, r2, f)
  BY <1>0 DEF Standing, Stands, PersonIs, SiteIs, VhostIs, Vanished, NoVhost, NoLinux, Amid
<1>4. Strays(s, "none", m2, r2)
  BY <1>0 DEF Strays, NoVhost, Created, Ended
<1>5. Orphaned(a, x, s, l, m2, r2, f)
  BY <1>0 DEF Orphaned, NoLinux, Amid, Created, Ended
<1>6. Created(a, x, s, "none", l, m2, r2)
  BY <1>0 DEF Created, PersonIs, SiteIs, VhostIs
<1>7. Toggled(a, x, s, "none", m2, r2)
  BY <1>0 DEF Toggled, PersonIs, SiteIs, VhostIs
<1>8. Ended(x, s, "none", l, m2, r2)
  BY <1>0 DEF Ended, NoVhost, NoLinux
<1>9. Changed(a, x, r2)
  BY <1>0 DEF Changed, Created
<1>10. Halves(a, x, l, r2, f)
  BY <1>0 DEF Halves, Created, Changed
<1> QED
  BY <1>1, <1>2, <1>3, <1>4, <1>5, <1>6, <1>7, <1>8, <1>9, <1>10

\* `DropSite`
LEMMA DropSiteSound ==
  ASSUME NEW a, NEW x, NEW s, NEW v, NEW l, NEW m, NEW r, NEW f, NEW t, NEW m2, NEW r2,
         Sound(a, x, s, v, l, m, r, f, t), r # None,
         r.step = "dropsite",
         r2 # None, r2.kind = r.kind, r2.arg = r.arg,
         m2 = m \ {"site"},
         r2.step = "droplinux", r2.uid = r.uid
  PROVE  Sound(a, x, None, v, l, m2, r2, f, t)
<1> USE DEF Sound
<1>0. r.kind = "terminate" /\ (f # None => f[1] = r.kind)
  BY DEF Asking, Way, Kinds
<1>1. Asking(r2, f, t)
  BY <1>0 DEF Asking, Way, Kinds
<1>2. Tells(a, x, None, v, m2, t)
  BY <1>0 DEF Tells, Asking
<1>3. Standing(a, x, None, v, l, m2, r2, f)
  BY <1>0 DEF Standing, Stands, PersonIs, SiteIs, VhostIs, Vanished, NoVhost, NoLinux, Amid
<1>4. Strays(None, v, m2, r2)
  BY <1>0 DEF Strays, NoVhost, Created, Ended
<1>5. Orphaned(a, x, None, l, m2, r2, f)
  BY <1>0 DEF Orphaned, NoLinux, Amid, Created, Ended
<1>6. Created(a, x, None, v, l, m2, r2)
  BY <1>0 DEF Created, PersonIs, SiteIs, VhostIs
<1>7. Toggled(a, x, None, v, m2, r2)
  BY <1>0 DEF Toggled, PersonIs, SiteIs, VhostIs
<1>8. Ended(x, None, v, l, m2, r2)
  BY <1>0 DEF Ended, NoVhost, NoLinux
<1>9. Changed(a, x, r2)
  BY <1>0 DEF Changed, Created
<1>10. Halves(a, x, l, r2, f)
  BY <1>0 DEF Halves, Created, Changed
<1> QED
  BY <1>1, <1>2, <1>3, <1>4, <1>5, <1>6, <1>7, <1>8, <1>9, <1>10

\* `DropLinux`
LEMMA DropLinuxSound ==
  ASSUME NEW a, NEW x, NEW s, NEW v, NEW l, NEW m, NEW r, NEW f, NEW t, NEW m2, NEW r2,
         Sound(a, x, s, v, l, m, r, f, t), r # None,
         r.step = "droplinux",
         r2 # None, r2.kind = r.kind, r2.arg = r.arg,
         m2 = m \ {"linux"},
         r2.step = "dropuser", r2.uid = r.uid
  PROVE  Sound(a, x, s, v, None, m2, r2, f, t)
<1> USE DEF Sound
<1>0. r.kind = "terminate" /\ (f # None => f[1] = r.kind)
  BY DEF Asking, Way, Kinds
<1>1. Asking(r2, f, t)
  BY <1>0 DEF Asking, Way, Kinds
<1>2. Tells(a, x, s, v, m2, t)
  BY <1>0 DEF Tells, Asking
<1>3. Standing(a, x, s, v, None, m2, r2, f)
  BY <1>0 DEF Standing, Stands, PersonIs, SiteIs, VhostIs, Vanished, NoVhost, NoLinux, Amid
<1>4. Strays(s, v, m2, r2)
  BY <1>0 DEF Strays, NoVhost, Created, Ended
<1>5. Orphaned(a, x, s, None, m2, r2, f)
  BY <1>0 DEF Orphaned, NoLinux, Amid, Created, Ended
<1>6. Created(a, x, s, v, None, m2, r2)
  BY <1>0 DEF Created, PersonIs, SiteIs, VhostIs
<1>7. Toggled(a, x, s, v, m2, r2)
  BY <1>0 DEF Toggled, PersonIs, SiteIs, VhostIs
<1>8. Ended(x, s, v, None, m2, r2)
  BY <1>0 DEF Ended, NoVhost, NoLinux
<1>9. Changed(a, x, r2)
  BY <1>0 DEF Changed, Created
<1>10. Halves(a, x, None, r2, f)
  BY <1>0 DEF Halves, Created, Changed
<1> QED
  BY <1>1, <1>2, <1>3, <1>4, <1>5, <1>6, <1>7, <1>8, <1>9, <1>10

\* `VhostStays` and `LinuxStays`
LEMMA StaySound ==
  ASSUME NEW a, NEW x, NEW s, NEW v, NEW l, NEW m, NEW r, NEW f, NEW t, NEW m2, NEW r2,
         Sound(a, x, s, v, l, m, r, f, t), r # None,
         r2 # None, r2.kind = r.kind, r2.arg = r.arg,
         m \subseteq m2, r2.uid = r.uid,
         \/ r.step = "dropvhost" /\ r2.step = "dropsite" /\ "vhost" \in m2
         \/ r.step = "droplinux" /\ r2.step = "dropuser" /\ "linux" \in m2
  PROVE  Sound(a, x, s, v, l, m2, r2, f, t)
<1> USE DEF Sound
<1>0. r.kind = "terminate" /\ (f # None => f[1] = r.kind)
  BY DEF Asking, Way, Kinds
<1>1. Asking(r2, f, t)
  BY <1>0 DEF Asking, Way, Kinds
<1>2. Tells(a, x, s, v, m2, t)
  BY <1>0 DEF Tells, Asking
<1>3. Standing(a, x, s, v, l, m2, r2, f)
  BY <1>0 DEF Standing, Stands, PersonIs, SiteIs, VhostIs, Vanished, NoVhost, NoLinux, Amid
<1>4. Strays(s, v, m2, r2)
  BY <1>0 DEF Strays, NoVhost, Created, Ended
<1>5. Orphaned(a, x, s, l, m2, r2, f)
  BY <1>0 DEF Orphaned, NoLinux, Amid, Created, Ended
<1>6. Created(a, x, s, v, l, m2, r2)
  BY <1>0 DEF Created, PersonIs, SiteIs, VhostIs
<1>7. Toggled(a, x, s, v, m2, r2)
  BY <1>0 DEF Toggled, PersonIs, SiteIs, VhostIs
<1>8. Ended(x, s, v, l, m2, r2)
  BY <1>0 DEF Ended, NoVhost, NoLinux
<1>9. Changed(a, x, r2)
  BY <1>0 DEF Changed, Created
<1>10. Halves(a, x, l, r2, f)
  BY <1>0 DEF Halves, Created, Changed
<1> QED
  BY <1>1, <1>2, <1>3, <1>4, <1>5, <1>6, <1>7, <1>8, <1>9, <1>10

\* `DropUser`
LEMMA DropUserSound ==
  ASSUME NEW a, NEW x, NEW s, NEW v, NEW l, NEW m, NEW r, NEW f, NEW t, NEW a2, NEW r2,
         Sound(a, x, s, v, l, m, r, f, t), r # None,
         r.step = "dropuser",
         r2 # None, r2.kind = r.kind, r2.arg = r.arg,
         s = None, a # None,
         a2 # None, a2.uid = None, a2.pack = a.pack, a2.status = a.status,
         r2.step = "close", r2.uid = r.uid
  PROVE  Sound(a2, None, s, v, l, m, r2, f, t)
<1> USE DEF Sound
<1>0. r.kind = "terminate" /\ (f # None => f[1] = r.kind)
  BY DEF Asking, Way, Kinds
<1>1. Asking(r2, f, t)
  BY <1>0 DEF Asking, Way, Kinds
<1>2. Tells(a2, None, s, v, m, t)
  BY <1>0 DEF Tells, Asking
<1>3. Standing(a2, None, s, v, l, m, r2, f)
  BY <1>0 DEF Standing, Stands, PersonIs, SiteIs, VhostIs, Vanished, NoVhost, NoLinux, Amid
<1>4. Strays(s, v, m, r2)
  BY <1>0 DEF Strays, NoVhost, Created, Ended
<1>5. Orphaned(a2, None, s, l, m, r2, f)
  BY <1>0 DEF Orphaned, NoLinux, Amid, Created, Ended
<1>6. Created(a2, None, s, v, l, m, r2)
  BY <1>0 DEF Created, PersonIs, SiteIs, VhostIs
<1>7. Toggled(a2, None, s, v, m, r2)
  BY <1>0 DEF Toggled, PersonIs, SiteIs, VhostIs
<1>8. Ended(None, s, v, l, m, r2)
  BY <1>0 DEF Ended, NoVhost, NoLinux
<1>9. Changed(a2, None, r2)
  BY <1>0 DEF Changed, Created
<1>10. Halves(a2, None, l, r2, f)
  BY <1>0 DEF Halves, Created, Changed
<1> QED
  BY <1>1, <1>2, <1>3, <1>4, <1>5, <1>6, <1>7, <1>8, <1>9, <1>10

\* `Close`
LEMMA CloseSound ==
  ASSUME NEW a, NEW x, NEW s, NEW v, NEW l, NEW m, NEW r, NEW f, NEW t, NEW a2,
         Sound(a, x, s, v, l, m, r, f, t), r # None,
         r.step = "close",
         a2 # None, a2.uid = None, a2.pack = a.pack, a2.status = "terminated"
  PROVE  Sound(a2, x, s, v, l, m, None, None, "terminated")
<1> USE DEF Sound
<1>0. r.kind = "terminate" /\ (f # None => f[1] = r.kind)
  BY DEF Asking, Way, Kinds
<1>1. Asking(None, None, "terminated")
  BY <1>0 DEF Asking, Way, Kinds
<1>2. Tells(a2, x, s, v, m, "terminated")
  BY <1>0 DEF Tells, Asking, Stands, PersonIs, SiteIs, VhostIs
<1>3. Standing(a2, x, s, v, l, m, None, None)
  BY <1>0 DEF Standing, Stands, PersonIs, SiteIs, VhostIs, Vanished, NoVhost, NoLinux, Amid, Ended, Strays
<1>4. Strays(s, v, m, None)
  BY <1>0 DEF Strays, NoVhost, Created, Ended
<1>5. Orphaned(a2, x, s, l, m, None, None)
  BY <1>0 DEF Orphaned, NoLinux, Amid, Created, Ended
<1>6. Created(a2, x, s, v, l, m, None)
  BY <1>0 DEF Created, PersonIs, SiteIs, VhostIs
<1>7. Toggled(a2, x, s, v, m, None)
  BY <1>0 DEF Toggled, PersonIs, SiteIs, VhostIs
<1>8. Ended(x, s, v, l, m, None)
  BY <1>0 DEF Ended, NoVhost, NoLinux
<1>9. Changed(a2, x, None)
  BY <1>0 DEF Changed, Created
<1>10. Halves(a2, x, l, None, None)
  BY <1>0 DEF Halves, Created, Changed
<1> QED
  BY <1>1, <1>2, <1>3, <1>4, <1>5, <1>6, <1>7, <1>8, <1>9, <1>10
-----------------------------------------------------------------------------
(* A new password and a new package.                                       *)

\* `Hash`
LEMMA HashSound ==
  ASSUME NEW a, NEW x, NEW s, NEW v, NEW l, NEW m, NEW r, NEW f, NEW t, NEW x2, NEW r2,
         Sound(a, x, s, v, l, m, r, f, t), r # None,
         r.step = "hash",
         r2 # None, r2.kind = r.kind, r2.arg = r.arg,
         x # None, x2 # None, x2.active = x.active, x2.signed = x.signed, x2.pack = x.pack, x2.pw = r.arg,
         r2.step = "bump", r2.uid = r.uid
  PROVE  Sound(a, x2, s, v, l, m, r2, f, t)
<1> USE DEF Sound
<1>0. r.kind = "password" /\ (f # None => f[1] = r.kind)
  BY DEF Asking, Way, Kinds
<1>1. Asking(r2, f, t)
  BY <1>0 DEF Asking, Way, Kinds
<1>2. Tells(a, x2, s, v, m, t)
  BY <1>0 DEF Tells, Asking, Stands, PersonIs, SiteIs, VhostIs
<1>3. Standing(a, x2, s, v, l, m, r2, f)
  BY <1>0 DEF Standing, Stands, PersonIs, SiteIs, VhostIs, Vanished, NoVhost, NoLinux, Amid
<1>4. Strays(s, v, m, r2)
  BY <1>0 DEF Strays, NoVhost, Created, Ended
<1>5. Orphaned(a, x2, s, l, m, r2, f)
  BY <1>0 DEF Orphaned, NoLinux, Amid, Created, Ended
<1>6. Created(a, x2, s, v, l, m, r2)
  BY <1>0 DEF Created, PersonIs, SiteIs, VhostIs
<1>7. Toggled(a, x2, s, v, m, r2)
  BY <1>0 DEF Toggled, PersonIs, SiteIs, VhostIs
<1>8. Ended(x2, s, v, l, m, r2)
  BY <1>0 DEF Ended, NoVhost, NoLinux
<1>9. Changed(a, x2, r2)
  BY <1>0 DEF Changed, Created
<1>10. Halves(a, x2, l, r2, f)
  BY <1>0 DEF Halves, Created, Changed
<1> QED
  BY <1>1, <1>2, <1>3, <1>4, <1>5, <1>6, <1>7, <1>8, <1>9, <1>10

\* `Bump`
LEMMA BumpSound ==
  ASSUME NEW a, NEW x, NEW s, NEW v, NEW l, NEW m, NEW r, NEW f, NEW t, NEW x2, NEW r2,
         Sound(a, x, s, v, l, m, r, f, t), r # None,
         r.step = "bump",
         r2 # None, r2.kind = r.kind, r2.arg = r.arg,
         x # None, x2 # None, x2.active = x.active, ~x2.signed, x2.pack = x.pack, x2.pw = x.pw,
         r2.step = "follow", r2.uid = r.uid
  PROVE  Sound(a, x2, s, v, l, m, r2, f, t)
<1> USE DEF Sound
<1>0. r.kind = "password" /\ (f # None => f[1] = r.kind)
  BY DEF Asking, Way, Kinds
<1>1. Asking(r2, f, t)
  BY <1>0 DEF Asking, Way, Kinds
<1>2. Tells(a, x2, s, v, m, t)
  BY <1>0 DEF Tells, Asking, Stands, PersonIs, SiteIs, VhostIs
<1>3. Standing(a, x2, s, v, l, m, r2, f)
  BY <1>0 DEF Standing, Stands, PersonIs, SiteIs, VhostIs, Vanished, NoVhost, NoLinux, Amid
<1>4. Strays(s, v, m, r2)
  BY <1>0 DEF Strays, NoVhost, Created, Ended
<1>5. Orphaned(a, x2, s, l, m, r2, f)
  BY <1>0 DEF Orphaned, NoLinux, Amid, Created, Ended
<1>6. Created(a, x2, s, v, l, m, r2)
  BY <1>0 DEF Created, PersonIs, SiteIs, VhostIs
<1>7. Toggled(a, x2, s, v, m, r2)
  BY <1>0 DEF Toggled, PersonIs, SiteIs, VhostIs
<1>8. Ended(x2, s, v, l, m, r2)
  BY <1>0 DEF Ended, NoVhost, NoLinux
<1>9. Changed(a, x2, r2)
  BY <1>0 DEF Changed, Created
<1>10. Halves(a, x2, l, r2, f)
  BY <1>0 DEF Halves, Created, Changed
<1> QED
  BY <1>1, <1>2, <1>3, <1>4, <1>5, <1>6, <1>7, <1>8, <1>9, <1>10

\* `Follow`
LEMMA FollowSound ==
  ASSUME NEW a, NEW x, NEW s, NEW v, NEW l, NEW m, NEW r, NEW f, NEW t, NEW l2,
         Sound(a, x, s, v, l, m, r, f, t), r # None,
         r.step = "follow",
         l # None, l2 # None, l2.pw = r.arg
  PROVE  Sound(a, x, s, v, l2, m, None, None, t)
<1> USE DEF Sound
<1>0. r.kind = "password" /\ (f # None => f[1] = r.kind)
  BY DEF Asking, Way, Kinds
<1>1. Asking(None, None, t)
  BY <1>0 DEF Asking, Way, Kinds
<1>2. Tells(a, x, s, v, m, t)
  BY <1>0 DEF Tells, Asking, Stands, PersonIs, SiteIs, VhostIs
<1>3. Standing(a, x, s, v, l2, m, None, None)
  BY <1>0 DEF Standing, Stands, PersonIs, SiteIs, VhostIs, Vanished, NoVhost, NoLinux, Amid
<1>4. Strays(s, v, m, None)
  BY <1>0 DEF Strays, NoVhost, Created, Ended
<1>5. Orphaned(a, x, s, l2, m, None, None)
  BY <1>0 DEF Orphaned, NoLinux, Amid, Created, Ended
<1>6. Created(a, x, s, v, l2, m, None)
  BY <1>0 DEF Created, PersonIs, SiteIs, VhostIs
<1>7. Toggled(a, x, s, v, m, None)
  BY <1>0 DEF Toggled, PersonIs, SiteIs, VhostIs
<1>8. Ended(x, s, v, l2, m, None)
  BY <1>0 DEF Ended, NoVhost, NoLinux
<1>9. Changed(a, x, None)
  BY <1>0 DEF Changed, Created
<1>10. Halves(a, x, l2, None, None)
  BY <1>0 DEF Halves, Created, Changed
<1> QED
  BY <1>1, <1>2, <1>3, <1>4, <1>5, <1>6, <1>7, <1>8, <1>9, <1>10

\* `SetPackage`
LEMMA SetPackageSound ==
  ASSUME NEW a, NEW x, NEW s, NEW v, NEW l, NEW m, NEW r, NEW f, NEW t, NEW a2, NEW r2,
         Sound(a, x, s, v, l, m, r, f, t), r # None,
         r.step = "row",
         r2 # None, r2.kind = r.kind, r2.arg = r.arg,
         a # None, a2 # None, a2.uid = a.uid, a2.status = a.status, a2.pack = r.arg,
         r2.step = "copy", r2.uid = r.uid
  PROVE  Sound(a2, x, s, v, l, m, r2, f, t)
<1> USE DEF Sound
<1>0. r.kind = "package" /\ (f # None => f[1] = r.kind)
  BY DEF Asking, Way, Kinds
<1>1. Asking(r2, f, t)
  BY <1>0 DEF Asking, Way, Kinds
<1>2. Tells(a2, x, s, v, m, t)
  BY <1>0 DEF Tells, Asking, Stands, PersonIs, SiteIs, VhostIs
<1>3. Standing(a2, x, s, v, l, m, r2, f)
  BY <1>0 DEF Standing, Stands, PersonIs, SiteIs, VhostIs, Vanished, NoVhost, NoLinux, Amid
<1>4. Strays(s, v, m, r2)
  BY <1>0 DEF Strays, NoVhost, Created, Ended
<1>5. Orphaned(a2, x, s, l, m, r2, f)
  BY <1>0 DEF Orphaned, NoLinux, Amid, Created, Ended
<1>6. Created(a2, x, s, v, l, m, r2)
  BY <1>0 DEF Created, PersonIs, SiteIs, VhostIs
<1>7. Toggled(a2, x, s, v, m, r2)
  BY <1>0 DEF Toggled, PersonIs, SiteIs, VhostIs
<1>8. Ended(x, s, v, l, m, r2)
  BY <1>0 DEF Ended, NoVhost, NoLinux
<1>9. Changed(a2, x, r2)
  BY <1>0 DEF Changed, Created
<1>10. Halves(a2, x, l, r2, f)
  BY <1>0 DEF Halves, Created, Changed
<1> QED
  BY <1>1, <1>2, <1>3, <1>4, <1>5, <1>6, <1>7, <1>8, <1>9, <1>10

\* `CopyLimits`
LEMMA CopyLimitsSound ==
  ASSUME NEW a, NEW x, NEW s, NEW v, NEW l, NEW m, NEW r, NEW f, NEW t, NEW x2,
         Sound(a, x, s, v, l, m, r, f, t), r # None,
         r.step = "copy",
         x # None, x2 # None, x2.active = x.active, x2.signed = x.signed, x2.pw = x.pw, x2.pack = r.arg
  PROVE  Sound(a, x2, s, v, l, m, None, None, t)
<1> USE DEF Sound
<1>0. r.kind = "package" /\ (f # None => f[1] = r.kind)
  BY DEF Asking, Way, Kinds
<1>1. Asking(None, None, t)
  BY <1>0 DEF Asking, Way, Kinds
<1>2. Tells(a, x2, s, v, m, t)
  BY <1>0 DEF Tells, Asking, Stands, PersonIs, SiteIs, VhostIs
<1>3. Standing(a, x2, s, v, l, m, None, None)
  BY <1>0 DEF Standing, Stands, PersonIs, SiteIs, VhostIs, Vanished, NoVhost, NoLinux, Amid
<1>4. Strays(s, v, m, None)
  BY <1>0 DEF Strays, NoVhost, Created, Ended
<1>5. Orphaned(a, x2, s, l, m, None, None)
  BY <1>0 DEF Orphaned, NoLinux, Amid, Created, Ended
<1>6. Created(a, x2, s, v, l, m, None)
  BY <1>0 DEF Created, PersonIs, SiteIs, VhostIs
<1>7. Toggled(a, x2, s, v, m, None)
  BY <1>0 DEF Toggled, PersonIs, SiteIs, VhostIs
<1>8. Ended(x2, s, v, l, m, None)
  BY <1>0 DEF Ended, NoVhost, NoLinux
<1>9. Changed(a, x2, None)
  BY <1>0 DEF Changed, Created
<1>10. Halves(a, x2, l, None, None)
  BY <1>0 DEF Halves, Created, Changed
<1> QED
  BY <1>1, <1>2, <1>3, <1>4, <1>5, <1>6, <1>7, <1>8, <1>9, <1>10
-----------------------------------------------------------------------------
(* What is not a request.                                                   *)

\* `SignIn`
LEMMA SignInSound ==
  ASSUME NEW a, NEW x, NEW s, NEW v, NEW l, NEW m, NEW r, NEW f, NEW t, NEW x2,
         Sound(a, x, s, v, l, m, r, f, t),
         x # None, x.active = TRUE, x2 # None, x2.active = TRUE,
         x2.pack = x.pack, x2.pw = x.pw
  PROVE  Sound(a, x2, s, v, l, m, r, f, t)
<1> USE DEF Sound
<1>1. Asking(r, f, t)
  OBVIOUS
<1>2. Tells(a, x2, s, v, m, t)
  BY DEF Tells, Stands, PersonIs
<1>3. Standing(a, x2, s, v, l, m, r, f)
  BY DEF Standing, Stands, PersonIs, Vanished
<1>4. Strays(s, v, m, r)
  OBVIOUS
<1>5. Orphaned(a, x2, s, l, m, r, f)
  BY DEF Orphaned
<1>6. Created(a, x2, s, v, l, m, r)
  BY DEF Created, PersonIs
<1>7. Toggled(a, x2, s, v, m, r)
  BY DEF Toggled, PersonIs
<1>8. Ended(x2, s, v, l, m, r)
  BY DEF Ended
<1>9. Changed(a, x2, r)
  BY DEF Changed
<1>10. Halves(a, x2, l, r, f)
  BY DEF Halves
<1> QED
  BY <1>1, <1>2, <1>3, <1>4, <1>5, <1>6, <1>7, <1>8, <1>9, <1>10

\* `RemoveUser`
LEMMA RemoveSound ==
  ASSUME NEW a, NEW x, NEW s, NEW v, NEW l, NEW m, NEW f, NEW t, NEW a2, NEW v2, NEW m2,
         Sound(a, x, s, v, l, m, None, f, t),
         \/ a = None /\ a2 = None
         \/ a # None /\ a2 # None /\ a2.uid = None /\ a2.status = a.status,
         \/ s = None /\ v2 = v /\ m2 = m \ {"site", "linux"}
         \/ v2 = "none"
  PROVE  Sound(a2, None, None, v2, None, m2, None, f, None)
<1> USE DEF Sound
<1>1. Asking(None, f, None)
  BY DEF Asking
<1>2. Tells(a2, None, None, v2, m2, None)
  BY DEF Tells
<1>3. NoVhost(v2, m2)
  BY DEF Strays, NoVhost
<1>4. Standing(a2, None, None, v2, None, m2, None, f)
  BY <1>3 DEF Standing, Stands, PersonIs, SiteIs, VhostIs, Vanished, NoLinux
<1>5. Strays(None, v2, m2, None)
  BY <1>3 DEF Strays
<1>6. Orphaned(a2, None, None, None, m2, None, f)
  BY DEF Orphaned, NoLinux
<1>7. /\ Created(a2, None, None, v2, None, m2, None) /\ Toggled(a2, None, None, v2, m2, None)
      /\ Ended(None, None, v2, None, m2, None) /\ Changed(a2, None, None)
      /\ Halves(a2, None, None, None, f)
  BY DEF Created, Toggled, Ended, Changed, Halves
<1> QED
  BY <1>1, <1>2, <1>4, <1>5, <1>6, <1>7

-----------------------------------------------------------------------------
(* What a step leaves of the values that are the customer's.                *)

LEMMA PersonNow ==
  ASSUME NEW c
  PROVE  /\ OneUserEach => \A u : IsTheirs(c, u) => Person(c) = users[u]
         /\ Person(c) = None <=> UserOf(c) = {}
<1>1. UserOf(c) # {} => (CHOOSE u \in UserOf(c) : TRUE) \in UserOf(c)
  OBVIOUS
<1> QED
  BY <1>1 DEF Person, UserOf, IsTheirs, OneUserEach

LEMMA PersonNext ==
  ASSUME NEW c
  PROVE  /\ OneUserEach' => \A u : IsTheirs(c, u)' => Person(c)' = users'[u]
         /\ Person(c)' = None <=> UserOf(c)' = {}
<1>1. UserOf(c)' # {} => (CHOOSE u \in UserOf(c) : TRUE)' \in UserOf(c)'
  OBVIOUS
<1> QED
  BY <1>1 DEF Person, UserOf, IsTheirs, OneUserEach

LEMMA PersonStays == ASSUME UNCHANGED users, NEW c PROVE Person(c)' = Person(c)
BY DEF Person, UserOf

LEMMA AmissNext ==
  ASSUME NEW c, NEW P \in SUBSET Pieces
  PROVE  /\ Leaves(c, P) => Amiss(c)' = Amiss(c) \cup P
         /\ Settled(c, P) => Amiss(c)' = Amiss(c) \ P
BY DEF Leaves, Settled, Amiss, Pieces

LEMMA Went ==
  ASSUME TypeOK, NEW c \in Customers, req[c] # None, NEW k \in Steps, Goto(c, k)
  PROVE  /\ req'[c] # None /\ req'[c].kind = req[c].kind /\ req'[c].arg = req[c].arg
         /\ req'[c].step = k /\ req'[c].uid = req[c].uid
<1>1. req[c] \in Request /\ req'[c] = [req[c] EXCEPT !.step = k]
  BY DEF TypeOK, Goto
<1>2. req'[c] \in Request
  BY <1>1 DEF Request
<1> QED
  BY <1>1, <1>2, ConstantsAssumption DEF Request

\* The row that is written is the customer's, and says what is written.
LEMMA PutIs ==
  ASSUME Inv, NEW c \in Customers, req[c] # None, req[c].step \notin {"look", "insert"},
         NEW k \in Statuses, NEW u \in Ids \cup {None}, NEW p \in Values, PutAccount(c, k, u, p)
  PROVE  /\ acct[c] # None /\ acct'[c] # None
         /\ acct'[c].status = k /\ acct'[c].uid = u /\ acct'[c].pack = p
<1>1. acct[c] \in Account /\ acct[c] # None /\ acct[c].id = req[c].id
  BY InHand
<1>2. acct'[c] = [acct[c] EXCEPT !.status = k, !.uid = u, !.pack = p]
  BY <1>1 DEF PutAccount
<1>3. acct'[c] \in Account
  BY <1>1, <1>2 DEF Account
<1> QED
  BY <1>1, <1>2, <1>3, ConstantsAssumption DEF Account

\* What is written of the customer's user.
LEMMA PutUserIs ==
  ASSUME Inv, Inv', NEW c \in Customers, req[c] # None, req[c].step \in Working,
         NEW w \in User, w.name = c, PutUser(c, w)
  PROVE  /\ Person(c) = TheirUser(c) /\ Person(c) # None /\ Person(c) \in User
         /\ Person(c)' = w /\ Person(c)' # None
<1>1. PICK u \in Ids : u = req[c].uid /\ IsTheirs(c, u) /\ users[u] \in User
  BY UserInHand DEF IsTheirs
<1>2. Person(c) = users[u] /\ Person(c) # None
  BY <1>1, PersonNow DEF Inv, IsTheirs
<1>3. users'[u] = w /\ w # None
  BY <1>1, ConstantsAssumption DEF PutUser, Inv, TypeOK
<1>4. IsTheirs(c, u)'
  BY <1>3 DEF IsTheirs
<1> QED
  BY <1>1, <1>2, <1>3, <1>4, PersonNext DEF Inv, TheirUser
-----------------------------------------------------------------------------
(* The other customers.                                                     *)

LEMMA HistoriesKept ==
  ASSUME TypeOK, NEW c \in Customers, Step(c), NEW d \in Customers \ {c}
  PROVE  told'[d] = told[d] /\ due'[d] = due[d] /\ Amiss(d)' = Amiss(d)
<1>1. told'[d] = told[d]
  BY DEF TypeOK, Step, Ask, Breaks, LookCreate, Forget, Insert, Taken, Ensure, SetPw, AddUser,
         Link, Build, AddSite, WorkFails, Fail, Activate, LookStatus, ToggleUser, SitesUnread,
         ToggleSite, SiteFails, ToggleVhost, VhostFails, ToggleLock, LockFails, Mark, LookEnd,
         List, DropVhost, VhostStays, DropSite, DropLinux, LinuxStays, DropUser, Close, LookUser,
         Hash, Bump, Follow, SetPackage, CopyLimits, SignIn, RemoveUser, Logged, Answered,
         Refused, Broken, Proceed, Done
<1>2. due'[d] = due[d]
  BY DEF TypeOK, Step, Ask, Breaks, LookCreate, Forget, Insert, Taken, Ensure, SetPw, AddUser,
         Link, Build, AddSite, WorkFails, Fail, Activate, LookStatus, ToggleUser, SitesUnread,
         ToggleSite, SiteFails, ToggleVhost, VhostFails, ToggleLock, LockFails, Mark, LookEnd,
         List, DropVhost, VhostStays, DropSite, DropLinux, LinuxStays, DropUser, Close, LookUser,
         Hash, Bump, Follow, SetPackage, CopyLimits, SignIn, RemoveUser, Logged, Answered,
         Refused, Broken, Proceed, Done
<1>3. \E P \in SUBSET Pieces :
        amiss' = amiss \/ amiss' = amiss \cup {<<c, p>> : p \in P}
                       \/ amiss' = amiss \ {<<c, p>> : p \in P}
  BY DEF Step, Ask, Breaks, LookCreate, Forget, Insert, Taken, Ensure, SetPw, AddUser,
         Link, Build, AddSite, WorkFails, Fail, Activate, LookStatus, ToggleUser, SitesUnread,
         ToggleSite, SiteFails, ToggleVhost, VhostFails, ToggleLock, LockFails, Mark, LookEnd,
         List, DropVhost, VhostStays, DropSite, DropLinux, LinuxStays, DropUser, Close, LookUser,
         Hash, Bump, Follow, SetPackage, CopyLimits, SignIn, RemoveUser, Logged, Leaves, Settled,
         Pieces
<1>4. Amiss(d)' = Amiss(d)
  BY <1>3 DEF Amiss
<1> QED
  BY <1>1, <1>2, <1>4

LEMMA OthersSound ==
  ASSUME ToldInv, NEW c \in Customers, Step(c), NEW d \in Customers \ {c}
  PROVE  SoundOf(d)'
<1>1. Inv /\ TypeOK /\ SoundOf(d)
  BY DEF ToldInv, Inv
<1>2. acct'[d] = acct[d] /\ site'[d] = site[d] /\ req'[d] = req[d] /\ TouchesOnly(c)
  BY <1>1, OthersKept, RequestType
<1>3. vhost'[d] = vhost[d] /\ linux'[d] = linux[d]
  BY <1>1, MachineKept
<1>4. told'[d] = told[d] /\ due'[d] = due[d] /\ Amiss(d)' = Amiss(d)
  BY <1>1, HistoriesKept
<1>5. Person(d)' = Person(d)
  <2>1. UserOf(d)' = UserOf(d) /\ \A u \in UserOf(d) : users'[u] = users[u]
    BY <1>2, TheirsKept
  <2>2. UserOf(d) # {} => (CHOOSE u \in UserOf(d) : TRUE) \in UserOf(d)
    OBVIOUS
  <2> QED
    BY <2>1, <2>2 DEF Person
<1> QED
  BY <1>1, <1>2, <1>3, <1>4, <1>5 DEF SoundOf
-----------------------------------------------------------------------------
(* The steps of the customer's own request.                                 *)

LEMMA AmissStays == ASSUME UNCHANGED amiss, NEW c PROVE Amiss(c)' = Amiss(c)
BY DEF Amiss

\* What a request can count on, of the rows it has in hand.
LEMMA Counts ==
  ASSUME ToldInv, NEW c \in Customers
  PROVE  /\ Inv /\ TypeOK
         /\ Sound(acct[c], Person(c), site[c], vhost[c], linux[c], Amiss(c), req[c], due[c],
                  told[c])
         /\ site[c] # None => Person(c) # None
         /\ req[c] # None =>
              /\ req[c].step \notin {"look", "insert"} => acct[c] # None
              /\ req[c].step = "insert" => acct[c] = None
              /\ req[c].step \in Working =>
                   acct[c].uid = req[c].uid /\ acct[c].uid # None /\ Person(c) # None
              /\ req[c].step = "close" => acct[c].uid = None
              /\ req[c].step = "site" => site[c] # None
<1>1. Inv /\ TypeOK /\ SoundOf(c)
  BY DEF ToldInv, Inv
<1>2. site[c] # None => Person(c) # None
  BY <1>1, PersonNow DEF Inv, Sited, UserOf, IsTheirs
<1>3. req[c] # None /\ req[c].step \in Working => Person(c) # None
  BY <1>1, PersonNow, UserInHand DEF UserOf, IsTheirs
<1>4. Held(c, req[c])
  BY <1>1 DEF Inv
<1> QED
  BY <1>1, <1>2, <1>3, <1>4 DEF SoundOf, Held, Working

LEMMA AskTold ==
  ASSUME ToldInv, Patient, NEW c \in Customers, Ask(c)
  PROVE  SoundOf(c)'
<1>1. PICK ask \in Asks[c] :
        /\ due[c] # None => due[c] = ask
        /\ req' = [req EXCEPT ![c] = [kind |-> ask[1], arg |-> ask[2], step |-> "look",
                                      id |-> None, uid |-> None]]
  BY DEF Ask
<1>2. ask = <<ask[1], ask[2]>> /\ ask[1] \in Kinds /\ ask[2] \in Values
  BY <1>1, ConstantsAssumption
<1>3. [kind |-> ask[1], arg |-> ask[2], step |-> "look", id |-> None, uid |-> None] \in Request
  BY <1>2 DEF Request, Steps
<1>4. /\ req'[c] # None /\ req'[c].kind = ask[1] /\ req'[c].arg = ask[2]
      /\ req'[c].step = "look" /\ req'[c].uid = None
  BY <1>1, <1>3, Counts, ConstantsAssumption DEF TypeOK
<1>5. req[c] = None /\ UNCHANGED <<rows, machine, told, due, amiss>>
  BY DEF Ask
<1>6. /\ Person(c)' = Person(c) /\ Amiss(c)' = Amiss(c) /\ acct'[c] = acct[c]
      /\ site'[c] = site[c] /\ vhost'[c] = vhost[c] /\ linux'[c] = linux[c]
      /\ due'[c] = due[c] /\ told'[c] = told[c]
  BY <1>5, PersonStays, AmissStays DEF rows, machine
<1>7. due[c] # None => due[c] = <<req'[c].kind, req'[c].arg>>
  BY <1>1, <1>2, <1>4
<1> QED
  BY <1>2, <1>4, <1>5, <1>6, <1>7, Counts, AskSound DEF SoundOf

LEMMA BreaksTold ==
  ASSUME ToldInv, NEW c \in Customers, Breaks(c)
  PROVE  SoundOf(c)'
<1>1. /\ req[c] # None /\ UNCHANGED <<rows, machine, told>>
      /\ req'[c] = None /\ due'[c] = <<req[c].kind, req[c].arg>>
  BY Counts DEF Breaks, Broken, TypeOK
<1>2. due'[c] # None /\ due'[c][1] = req[c].kind
  <2>1. due'[c] \in Kinds \X Values
    BY <1>1, Counts DEF TypeOK, Request
  <2> QED
    BY <1>1, <2>1, ConstantsAssumption
<1>3. Amiss(c) \subseteq Amiss(c)' /\ (req[c].step = "addsite" => "vhost" \in Amiss(c)')
  BY DEF Breaks, Leaves, Amiss, Pieces
<1>4. /\ Person(c)' = Person(c) /\ acct'[c] = acct[c] /\ site'[c] = site[c]
      /\ vhost'[c] = vhost[c] /\ linux'[c] = linux[c] /\ told'[c] = told[c]
  BY <1>1, PersonStays DEF rows, machine
<1> QED
  BY <1>1, <1>2, <1>3, <1>4, Counts, BreakSound DEF SoundOf
LEMMA AnswerTold ==
  ASSUME ToldInv, NEW c \in Customers, req[c] # None, req[c].step = "look",
         acct[c] # None, NEW k, k = acct[c].status, Answered(c, k),
         UNCHANGED <<rows, machine, amiss>>,
         \/ req[c].kind = "create" /\ Alive(c)
         \/ req[c].kind = "suspend" /\ k = "suspended"
         \/ req[c].kind = "unsuspend" /\ k = "active"
         \/ req[c].kind = "terminate" /\ k = "terminated"
  PROVE  SoundOf(c)'
<1>1. req'[c] = None /\ due'[c] = None /\ told'[c] = acct[c].status
  BY Counts DEF Answered, TypeOK
<1>2. /\ Person(c)' = Person(c) /\ Amiss(c)' = Amiss(c) /\ acct'[c] = acct[c]
      /\ site'[c] = site[c] /\ vhost'[c] = vhost[c] /\ linux'[c] = linux[c]
  BY PersonStays, AmissStays DEF rows, machine
<1> QED
  BY <1>1, <1>2, Counts, AnswerSound DEF SoundOf, Alive

LEMMA RefuseTold ==
  ASSUME ToldInv, NEW c \in Customers, req[c] # None, Refused(c),
         UNCHANGED <<rows, machine, amiss>>,
         \/ req[c].step = "insert"
         \/ /\ req[c].step = "look"
            /\ \/ req[c].kind \in {"suspend", "unsuspend"} /\
                    (acct[c] # None => acct[c].status \notin {"active", "suspended"})
               \/ req[c].kind = "terminate" /\ acct[c] = None
               \/ req[c].kind \in {"password", "package"} /\
                    (acct[c] # None => acct[c].uid = None)
  PROVE  SoundOf(c)'
<1>1. req'[c] = None /\ due'[c] = None /\ told'[c] = told[c]
  BY Counts DEF Refused, TypeOK
<1>2. /\ Person(c)' = Person(c) /\ Amiss(c)' = Amiss(c) /\ acct'[c] = acct[c]
      /\ site'[c] = site[c] /\ vhost'[c] = vhost[c] /\ linux'[c] = linux[c]
  BY PersonStays, AmissStays DEF rows, machine
<1>3. req[c].step = "insert" => acct[c] = None
  BY Counts
<1> QED
  BY <1>1, <1>2, <1>3, Counts, RefuseSound DEF SoundOf

\* What is read of the account's row.
LEMMA WentOn ==
  ASSUME TypeOK, NEW c \in Customers, req[c] # None, acct[c] # None, NEW k \in Steps,
         req' = [req EXCEPT ![c].step = k, ![c].id = acct[c].id, ![c].uid = acct[c].uid]
  PROVE  /\ req'[c] # None /\ req'[c].kind = req[c].kind /\ req'[c].arg = req[c].arg
         /\ req'[c].step = k /\ req'[c].uid = acct[c].uid
<1>1. /\ req[c] \in Request /\ acct[c] \in Account
      /\ req'[c] = [req[c] EXCEPT !.step = k, !.id = acct[c].id, !.uid = acct[c].uid]
  BY DEF TypeOK
<1>2. acct[c].id \in Ids /\ acct[c].uid \in Ids \cup {None}
  BY <1>1 DEF Account
<1>3. PICK n \in Ids, u \in Ids \cup {None} : n = acct[c].id /\ u = acct[c].uid
  BY <1>2
<1>4. [req[c] EXCEPT !.step = k, !.id = n, !.uid = u] \in Request
  BY <1>1 DEF Request
<1> QED
  BY <1>1, <1>3, <1>4, ConstantsAssumption DEF Request

LEMMA ProceedTold ==
  ASSUME ToldInv, NEW c \in Customers, req[c] # None, req[c].step = "look", acct[c] # None,
         NEW k \in Steps,
         req' = [req EXCEPT ![c].step = k, ![c].id = acct[c].id, ![c].uid = acct[c].uid],
         UNCHANGED <<rows, machine, due, amiss>>,
         told' = IF req[c].kind \in {"password", "package"} THEN told
                 ELSE [told EXCEPT ![c] = None],
         \/ req[c].kind = "create" /\ k = "forget"
         \/ /\ \/ req[c].kind = "suspend" /\ acct[c].status = "active"
               \/ req[c].kind = "unsuspend" /\ acct[c].status = "suspended"
            /\ k = (IF acct[c].uid = None THEN "mark" ELSE "user")
         \/ req[c].kind = "terminate" /\ k = (IF acct[c].uid = None THEN "close" ELSE "list")
         \/ req[c].kind = "password" /\ k = "hash"
         \/ req[c].kind = "package" /\ k = "row"
  PROVE  SoundOf(c)'
<1>1. /\ req'[c] # None /\ req'[c].kind = req[c].kind /\ req'[c].arg = req[c].arg
      /\ req'[c].step = k /\ req'[c].uid = acct[c].uid
  BY Counts, WentOn
<1>2. told'[c] = IF req[c].kind \in {"password", "package"} THEN told[c] ELSE None
  BY Counts DEF TypeOK
<1>3. /\ Person(c)' = Person(c) /\ Amiss(c)' = Amiss(c) /\ acct'[c] = acct[c]
      /\ site'[c] = site[c] /\ vhost'[c] = vhost[c] /\ linux'[c] = linux[c] /\ due'[c] = due[c]
  BY PersonStays, AmissStays DEF rows, machine
<1>4. /\ acct[c] # None /\ req'[c].uid = acct[c].uid
      /\ \/ req[c].kind = "create" /\ req'[c].step = "forget"
         \/ /\ \/ req[c].kind = "suspend" /\ acct[c].status = "active"
               \/ req[c].kind = "unsuspend" /\ acct[c].status = "suspended"
            /\ req'[c].step = (IF acct[c].uid = None THEN "mark" ELSE "user")
         \/ /\ req[c].kind = "terminate"
            /\ req'[c].step = (IF acct[c].uid = None THEN "close" ELSE "list")
         \/ req[c].kind = "password" /\ req'[c].step = "hash"
         \/ req[c].kind = "package" /\ req'[c].step = "row"
  BY <1>1
<1>5. Sound(acct[c], Person(c), site[c], vhost[c], linux[c], Amiss(c), req'[c], due[c], told'[c])
  BY <1>1, <1>2, <1>4, Counts, ProceedSound
<1> QED
  BY <1>3, <1>5 DEF SoundOf

\* `LookCreate`, `LookStatus`, `LookEnd` and `LookUser`
LEMMA LooksTold ==
  ASSUME ToldInv, NEW c \in Customers,
         LookCreate(c) \/ LookStatus(c) \/ LookEnd(c) \/ LookUser(c)
  PROVE  SoundOf(c)'
<1>1. req[c] # None /\ req[c].step = "look"
  BY DEF LookCreate, LookStatus, LookEnd, LookUser, Asked, At
<1>2. UNCHANGED <<rows, machine, amiss>>
  BY DEF LookCreate, LookStatus, LookEnd, LookUser
<1>3. {"forget", "insert", "mark", "user", "close", "list", "hash", "row"} \subseteq Steps
  BY DEF Steps
<1>4. CASE LookCreate(c)
  <2>1. req[c].kind = "create"
    BY <1>4 DEF LookCreate, Asked
  <2>2. CASE acct[c] # None /\ Alive(c) /\ Answered(c, acct[c].status)
    BY <1>1, <1>2, <2>1, <2>2, AnswerTold
  <2>3. CASE acct[c] # None /\ Proceed(c, "forget")
    BY <1>1, <1>2, <1>3, <2>1, <2>3, ProceedTold DEF Proceed
  <2>4. CASE acct[c] = None /\ Goto(c, "insert") /\ UNCHANGED <<told, due>>
    <3>1. /\ req'[c] # None /\ req'[c].kind = req[c].kind /\ req'[c].arg = req[c].arg
          /\ req'[c].step = "insert" /\ req'[c].uid = req[c].uid
      BY <1>1, <1>3, <2>4, Counts, Went
    <3>2. /\ Person(c)' = Person(c) /\ Amiss(c)' = Amiss(c) /\ acct'[c] = acct[c]
          /\ site'[c] = site[c] /\ vhost'[c] = vhost[c] /\ linux'[c] = linux[c]
          /\ due'[c] = due[c] /\ told'[c] = told[c]
      BY <1>2, <2>4, PersonStays, AmissStays DEF rows, machine
    <3> QED
      BY <1>1, <2>1, <2>4, <3>1, <3>2, Counts, ProceedSound DEF SoundOf
  <2> QED
    BY <1>4, <2>2, <2>3, <2>4 DEF LookCreate
<1>5. CASE LookStatus(c)
  <2>1. req[c].kind \in {"suspend", "unsuspend"}
    BY <1>5 DEF LookStatus, Asked
  <2>2. CASE acct[c] # None /\ acct[c].status = Target(c) /\ Answered(c, Target(c))
    BY <1>1, <1>2, <2>1, <2>2, AnswerTold DEF Target
  <2>3. CASE Refused(c) /\ (acct[c] # None => acct[c].status \notin {Target(c), Source(c)})
    BY <1>1, <1>2, <2>1, <2>3, RefuseTold DEF Target, Source
  <2>4. CASE /\ acct[c] # None /\ acct[c].status = Source(c)
             /\ Proceed(c, IF acct[c].uid = None THEN "mark" ELSE "user")
    BY <1>1, <1>2, <1>3, <2>1, <2>4, ProceedTold DEF Proceed, Source
  <2> QED
    BY <1>5, <2>2, <2>3, <2>4 DEF LookStatus
<1>6. CASE LookEnd(c)
  <2>1. req[c].kind = "terminate"
    BY <1>6 DEF LookEnd, Asked
  <2>2. CASE acct[c] = None /\ Refused(c)
    BY <1>1, <1>2, <2>1, <2>2, RefuseTold
  <2>3. CASE acct[c] # None /\ acct[c].status = "terminated" /\ Answered(c, "terminated")
    BY <1>1, <1>2, <2>1, <2>3, AnswerTold
  <2>4. CASE acct[c] # None /\ Proceed(c, IF acct[c].uid = None THEN "close" ELSE "list")
    BY <1>1, <1>2, <1>3, <2>1, <2>4, ProceedTold DEF Proceed
  <2> QED
    BY <1>6, <2>2, <2>3, <2>4 DEF LookEnd
<1>7. CASE LookUser(c)
  <2>1. req[c].kind \in {"password", "package"}
    BY <1>7 DEF LookUser, Asked
  <2>2. CASE Refused(c) /\ (acct[c] # None => acct[c].uid = None)
    BY <1>1, <1>2, <2>1, <2>2, RefuseTold
  <2>3. CASE
          /\ acct[c] # None /\ UNCHANGED <<told, due>>
          /\ req' = [req EXCEPT ![c].step = IF req[c].kind = "password" THEN "hash" ELSE "row",
                                ![c].id = acct[c].id, ![c].uid = acct[c].uid]
    BY <1>1, <1>2, <1>3, <2>1, <2>3, ProceedTold
  <2> QED
    BY <1>7, <2>2, <2>3 DEF LookUser
<1> QED
  BY <1>4, <1>5, <1>6, <1>7

LEMMA TakenTold ==
  ASSUME ToldInv, NEW c \in Customers, Taken(c)
  PROVE  SoundOf(c)'
BY RefuseTold DEF Taken, At
LEMMA ForgetTold ==
  ASSUME ToldInv, NEW c \in Customers, Forget(c)
  PROVE  SoundOf(c)'
<1>1. req[c] # None /\ req[c].step = "forget"
  BY DEF Forget, At
<1>2. /\ req'[c] # None /\ req'[c].kind = req[c].kind /\ req'[c].arg = req[c].arg
      /\ req'[c].step = "insert" /\ req'[c].uid = req[c].uid
  BY <1>1, Counts, Went DEF Forget, Steps
<1>3. acct[c] # None /\ acct'[c] = None
  BY <1>1, Counts, InHand DEF Forget
<1>4. /\ Person(c)' = Person(c) /\ Amiss(c)' = Amiss(c) /\ site'[c] = site[c]
      /\ vhost'[c] = vhost[c] /\ linux'[c] = linux[c] /\ due'[c] = due[c] /\ told'[c] = told[c]
  BY PersonStays, AmissStays DEF Forget, machine
<1> QED
  BY <1>1, <1>2, <1>3, <1>4, Counts, ForgetSound DEF SoundOf

LEMMA InsertTold ==
  ASSUME ToldInv, NEW c \in Customers, Insert(c)
  PROVE  SoundOf(c)'
<1>1. /\ req[c] # None /\ req[c].step = "insert" /\ req[c] \in Request
      /\ site[c] = None /\ vhost[c] = "none"
  BY Counts DEF Insert, At, TypeOK
<1>2. PICK i \in Ids :
        /\ acct' = [acct EXCEPT ![c] = [id |-> i, status |-> "pending",
                                       uid |-> None, pack |-> req[c].arg]]
        /\ req' = [req EXCEPT ![c].step = "ensure", ![c].id = i]
  BY DEF Insert
<1>3. [req[c] EXCEPT !.step = "ensure", !.id = i] \in Request
  BY <1>1 DEF Request, Steps
<1>4. /\ req'[c] # None /\ req'[c].kind = req[c].kind /\ req'[c].arg = req[c].arg
      /\ req'[c].step = "ensure" /\ req'[c].uid = req[c].uid
  BY <1>1, <1>2, <1>3, Counts, ConstantsAssumption DEF Request, TypeOK
<1>5. [id |-> i, status |-> "pending", uid |-> None, pack |-> req[c].arg] \in Account
  BY <1>1 DEF Account, Request, Statuses
<1>6. /\ acct'[c] # None /\ acct'[c].status = "pending" /\ acct'[c].uid = None
      /\ acct'[c].pack = req[c].arg
  BY <1>2, <1>5, Counts, ConstantsAssumption DEF TypeOK
<1>7. Person(c) = None
  BY PersonNow DEF Insert
<1>8. /\ Person(c)' = Person(c) /\ Amiss(c)' = Amiss(c) /\ site'[c] = site[c]
      /\ vhost'[c] = vhost[c] /\ linux'[c] = linux[c] /\ due'[c] = due[c] /\ told'[c] = told[c]
  BY PersonStays, AmissStays DEF Insert, machine
<1> QED
  BY <1>1, <1>4, <1>6, <1>7, <1>8, Counts, InsertSound DEF SoundOf

\* `Ensure` and `SetPw`
LEMMA LinuxTold ==
  ASSUME ToldInv, NEW c \in Customers, Ensure(c) \/ SetPw(c)
  PROVE  SoundOf(c)'
<1>1. /\ req[c] # None /\ req[c] \in Request
      /\ req[c].step = (IF Ensure(c) THEN "ensure" ELSE "setpw")
  BY Counts DEF Ensure, SetPw, At, TypeOK
<1>2. /\ req'[c] # None /\ req'[c].kind = req[c].kind /\ req'[c].arg = req[c].arg
      /\ req'[c].step = (IF req[c].step = "ensure" THEN "setpw" ELSE "adduser")
      /\ req'[c].uid = req[c].uid
  BY <1>1, Counts, Went DEF Ensure, SetPw, Steps
<1>3. linux'[c] # None /\ (req[c].step = "setpw" => linux'[c].pw = req[c].arg)
  <2>1. CASE Ensure(c)
    <3>1. [locked |-> TRUE, pw |-> None] \in Linux
      BY DEF Linux
    <3> QED
      BY <1>1, <2>1, <3>1, Counts, ConstantsAssumption DEF Ensure, TypeOK
  <2>2. CASE SetPw(c)
    <3>1. [locked |-> FALSE, pw |-> req[c].arg] \in Linux
      BY <1>1 DEF Linux, Request
    <3> QED
      BY <2>2, <3>1, Counts, ConstantsAssumption DEF SetPw, TypeOK
  <2> QED
    BY <2>1, <2>2
<1>4. /\ Person(c)' = Person(c) /\ Amiss(c)' = Amiss(c) /\ acct'[c] = acct[c]
      /\ site'[c] = site[c] /\ vhost'[c] = vhost[c] /\ due'[c] = due[c] /\ told'[c] = told[c]
  BY PersonStays, AmissStays DEF Ensure, SetPw, rows
<1>5. req[c].step \in {"ensure", "setpw"}
  BY <1>1
<1> QED
  BY <1>1, <1>2, <1>3, <1>4, <1>5, Counts, LinuxSound DEF SoundOf

LEMMA AddUserTold ==
  ASSUME ToldInv, Inv', NEW c \in Customers, AddUser(c)
  PROVE  SoundOf(c)'
<1>1. req[c] # None /\ req[c].step = "adduser" /\ req[c] \in Request
  BY Counts DEF AddUser, At, TypeOK
<1>2. PICK u \in Ids :
        /\ users' = [users EXCEPT ![u] = [name |-> c, active |-> TRUE, signed |-> FALSE,
                                         pack |-> req[c].arg, pw |-> req[c].arg]]
        /\ req' = [req EXCEPT ![c].step = "link", ![c].uid = u]
  BY DEF AddUser
<1>3. [req[c] EXCEPT !.step = "link", !.uid = u] \in Request
  BY <1>1 DEF Request, Steps
<1>4. /\ req'[c] # None /\ req'[c].kind = req[c].kind /\ req'[c].arg = req[c].arg
      /\ req'[c].step = "link" /\ req'[c].uid = u
  BY <1>1, <1>2, <1>3, Counts, ConstantsAssumption DEF Request, TypeOK
<1>5. [name |-> c, active |-> TRUE, signed |-> FALSE,
       pack |-> req[c].arg, pw |-> req[c].arg] \in User
  BY <1>1 DEF User, Request
<1>6. /\ users'[u] # None /\ users'[u].name = c /\ users'[u].active /\ ~users'[u].signed
      /\ users'[u].pack = req[c].arg /\ users'[u].pw = req[c].arg
  BY <1>2, <1>5, Counts, ConstantsAssumption DEF TypeOK
<1>7. Person(c)' = users'[u]
  BY <1>6, PersonNext DEF Inv, IsTheirs
<1>8. /\ Amiss(c)' = Amiss(c) /\ acct'[c] = acct[c] /\ site'[c] = site[c]
      /\ vhost'[c] = vhost[c] /\ linux'[c] = linux[c] /\ due'[c] = due[c] /\ told'[c] = told[c]
  BY AmissStays DEF AddUser, machine
<1>9. u # None
  BY ConstantsAssumption
<1> QED
  BY <1>1, <1>4, <1>6, <1>7, <1>8, <1>9, Counts, AddUserSound DEF SoundOf

LEMMA LinkTold ==
  ASSUME ToldInv, NEW c \in Customers, Link(c)
  PROVE  SoundOf(c)'
<1>1. req[c] # None /\ req[c].step = "link"
  BY DEF Link, At
<1>2. /\ req'[c] # None /\ req'[c].kind = req[c].kind /\ req'[c].arg = req[c].arg
      /\ req'[c].step = "build" /\ req'[c].uid = req[c].uid
  BY <1>1, Counts, Went DEF Link, Steps
<1>3. req[c].uid \in Ids /\ req[c].uid # None
  BY <1>1, Counts, ConstantsAssumption DEF Inv, Held, IsTheirs
<1>4. acct[c] # None /\ acct[c].status \in Statuses /\ acct[c].pack \in Values
  BY <1>1, Counts DEF TypeOK, Account
<1>5. /\ acct'[c] # None /\ acct'[c].status = acct[c].status /\ acct'[c].uid = req[c].uid
      /\ acct'[c].pack = acct[c].pack
  BY <1>1, <1>3, <1>4, Counts, PutIs DEF Link
<1>6. /\ Person(c)' = Person(c) /\ Amiss(c)' = Amiss(c) /\ site'[c] = site[c]
      /\ vhost'[c] = vhost[c] /\ linux'[c] = linux[c] /\ due'[c] = due[c] /\ told'[c] = told[c]
  BY PersonStays, AmissStays DEF Link, machine
<1> QED
  BY <1>1, <1>2, <1>3, <1>5, <1>6, Counts, LinkSound DEF SoundOf

LEMMA BuildTold ==
  ASSUME ToldInv, NEW c \in Customers, Build(c)
  PROVE  SoundOf(c)'
<1>1. req[c] # None /\ req[c].step = "build"
  BY DEF Build, At
<1>2. /\ req'[c] # None /\ req'[c].kind = req[c].kind /\ req'[c].arg = req[c].arg
      /\ req'[c].step = "addsite" /\ req'[c].uid = req[c].uid
  BY <1>1, Counts, Went DEF Build, Steps
<1>3. /\ Person(c)' = Person(c) /\ Amiss(c)' = Amiss(c) /\ acct'[c] = acct[c]
      /\ site'[c] = site[c] /\ linux'[c] = linux[c] /\ due'[c] = due[c] /\ told'[c] = told[c]
      /\ vhost'[c] = "live"
  BY PersonStays, AmissStays, Counts DEF Build, rows, TypeOK
<1> QED
  BY <1>1, <1>2, <1>3, Counts, BuildSound DEF SoundOf

LEMMA AddSiteTold ==
  ASSUME ToldInv, NEW c \in Customers, AddSite(c)
  PROVE  SoundOf(c)'
<1>1. req[c] # None /\ req[c].step = "addsite" /\ req[c] \in Request
  BY Counts DEF AddSite, At, TypeOK
<1>2. /\ req'[c] # None /\ req'[c].kind = req[c].kind /\ req'[c].arg = req[c].arg
      /\ req'[c].step = "activate" /\ req'[c].uid = req[c].uid
  BY <1>1, Counts, Went DEF AddSite, Steps
<1>3. [uid |-> req[c].uid, on |-> TRUE] \in Site
  BY <1>1, Counts DEF Site, Request, Working
<1>4. site'[c] # None /\ site'[c].on = TRUE
  BY <1>3, Counts, ConstantsAssumption DEF AddSite, TypeOK
<1>5. /\ Person(c)' = Person(c) /\ Amiss(c)' = Amiss(c) /\ acct'[c] = acct[c]
      /\ vhost'[c] = vhost[c] /\ linux'[c] = linux[c] /\ due'[c] = due[c] /\ told'[c] = told[c]
  BY PersonStays, AmissStays DEF AddSite, machine
<1>6. Sound(acct[c], Person(c), site'[c], vhost[c], linux[c], Amiss(c), req'[c], due[c], told[c])
  BY <1>1, <1>2, <1>4, Counts, AddSiteSound
<1> QED
  BY <1>5, <1>6 DEF SoundOf

LEMMA WorkFailsTold ==
  ASSUME ToldInv, NEW c \in Customers, WorkFails(c)
  PROVE  SoundOf(c)'
<1>1. req[c] # None /\ req[c].step \in {"ensure", "setpw", "build"}
  BY DEF WorkFails, At
<1>2. /\ req'[c] # None /\ req'[c].kind = req[c].kind /\ req'[c].arg = req[c].arg
      /\ req'[c].step = "fail" /\ req'[c].uid = req[c].uid
  BY <1>1, Counts, Went DEF WorkFails, Steps
<1>3. req[c].step = "build" => acct[c].uid # None /\ req[c].uid # None
  BY <1>1, Counts DEF Working
<1>4. /\ Person(c)' = Person(c) /\ Amiss(c)' = Amiss(c) /\ acct'[c] = acct[c]
      /\ site'[c] = site[c] /\ vhost'[c] = vhost[c] /\ linux'[c] = linux[c]
      /\ due'[c] = due[c] /\ told'[c] = told[c]
  BY PersonStays, AmissStays DEF WorkFails, rows, machine
<1> QED
  BY <1>1, <1>2, <1>3, <1>4, Counts, WorkFailsSound DEF SoundOf

LEMMA FailTold ==
  ASSUME ToldInv, NEW c \in Customers, Fail(c)
  PROVE  SoundOf(c)'
<1>1. req[c] # None /\ req[c].step = "fail"
  BY DEF Fail, At
<1>2. req'[c] = None /\ due'[c] = None /\ told'[c] = told[c]
  BY Counts DEF Fail, Refused, TypeOK
<1>3. /\ acct[c] # None /\ acct[c].uid \in Ids \cup {None} /\ acct[c].pack \in Values
      /\ "failed" \in Statuses
  BY <1>1, Counts DEF TypeOK, Account, Statuses
<1>4. /\ acct'[c] # None /\ acct'[c].status \in {acct[c].status, "failed"}
      /\ acct'[c].uid = acct[c].uid /\ acct'[c].pack = acct[c].pack
  BY <1>1, <1>3, Counts, PutIs DEF Fail, SetStatus
<1>5. /\ Amiss(c) \subseteq Amiss(c)'
      /\ req[c].uid = None /\ linux[c] # None => "linux" \in Amiss(c)'
  BY DEF Fail, Leaves, Amiss, Pieces
<1>6. /\ Person(c)' = Person(c) /\ site'[c] = site[c] /\ vhost'[c] = vhost[c]
      /\ linux'[c] = linux[c]
  BY PersonStays DEF Fail, machine
<1> QED
  BY <1>1, <1>2, <1>4, <1>5, <1>6, Counts, FailSound DEF SoundOf

LEMMA ActivateTold ==
  ASSUME ToldInv, NEW c \in Customers, Activate(c)
  PROVE  SoundOf(c)'
<1>1. req[c] # None /\ req[c].step = "activate" /\ req[c] \in Request
  BY Counts DEF Activate, At, TypeOK
<1>2. /\ req'[c] = None
      /\ \/ told'[c] = "active" /\ due'[c] = None
         \/ told'[c] = told[c] /\ due'[c] = <<req[c].kind, req[c].arg>>
  BY Counts DEF Activate, Answered, Broken, TypeOK
<1>3. \/ told'[c] = "active" /\ due'[c] = None
      \/ told'[c] = told[c] /\ due'[c] # None /\ due'[c][1] = req[c].kind
  <2>1. <<req[c].kind, req[c].arg>> \in Kinds \X Values
    BY <1>1 DEF Request
  <2> QED
    BY <1>2, <2>1, ConstantsAssumption
<1>4. /\ acct[c] # None /\ acct[c].uid \in Ids \cup {None} /\ acct[c].pack \in Values
      /\ acct[c].uid # None /\ "active" \in Statuses
  BY <1>1, Counts DEF TypeOK, Account, Statuses, Working
<1>5. /\ acct'[c] # None /\ acct'[c].status = "active"
      /\ acct'[c].uid = acct[c].uid /\ acct'[c].pack = acct[c].pack
  BY <1>1, <1>4, Counts, PutIs DEF Activate, SetStatus
<1>6. /\ Person(c)' = Person(c) /\ Amiss(c)' = Amiss(c) /\ site'[c] = site[c]
      /\ vhost'[c] = vhost[c] /\ linux'[c] = linux[c]
  BY PersonStays, AmissStays DEF Activate, machine
<1> QED
  BY <1>1, <1>2, <1>3, <1>4, <1>5, <1>6, Counts, ActivateSound DEF SoundOf
LEMMA ToggleUserTold ==
  ASSUME ToldInv, Inv', NEW c \in Customers, ToggleUser(c)
  PROVE  SoundOf(c)'
<1>1. /\ req[c] # None /\ req[c].step = "user" /\ req[c].step \in Working
      /\ IsTheirs(c, req[c].uid) /\ users[req[c].uid] \in User
  BY Counts, UserInHand DEF ToggleUser, At, Working
<1>2. site[c] # None <=> c \in Owned(req[c].uid)
  BY <1>1, Counts DEF Inv, Sited, OneUserEach, IsTheirs, Owned
<1>3. /\ req'[c] # None /\ req'[c].kind = req[c].kind /\ req'[c].arg = req[c].arg
      /\ req'[c].step = (IF site[c] # None THEN "site" ELSE "lock")
      /\ req'[c].uid = req[c].uid
  BY <1>1, <1>2, Counts, Went DEF ToggleUser, Steps
<1>4. PICK on \in BOOLEAN : on = (req[c].kind = "unsuspend")
  OBVIOUS
<1>5. PICK w : /\ w = [TheirUser(c) EXCEPT !.active = on, !.signed = TheirUser(c).signed /\ on]
               /\ PutUser(c, w)
  BY <1>4 DEF ToggleUser
<1>6. (TheirUser(c).signed /\ on) \in BOOLEAN
  BY <1>4
<1>7. /\ w \in User /\ w.name = c /\ w.pack = TheirUser(c).pack /\ w.pw = TheirUser(c).pw
      /\ w.active = on /\ (w.signed => on) /\ w.signed \in BOOLEAN
  BY <1>1, <1>5, <1>6 DEF User, TheirUser, IsTheirs
<1>8. /\ Person(c) = TheirUser(c) /\ Person(c) # None
      /\ Person(c)' = w /\ Person(c)' # None
  BY <1>1, <1>5, <1>7, Counts, PutUserIs
<1>9. /\ Amiss(c)' = Amiss(c) /\ acct'[c] = acct[c] /\ site'[c] = site[c]
      /\ vhost'[c] = vhost[c] /\ linux'[c] = linux[c] /\ due'[c] = due[c] /\ told'[c] = told[c]
  BY AmissStays DEF ToggleUser, machine
<1>10. /\ w # None /\ w.pack = Person(c).pack /\ w.pw = Person(c).pw
       /\ req[c].kind = "unsuspend" => w.active = TRUE
       /\ req[c].kind # "unsuspend" => w.active = FALSE /\ w.signed = FALSE
  BY <1>4, <1>7, <1>8
<1>11. Sound(acct[c], w, site[c], vhost[c], linux[c], Amiss(c), req'[c], due[c], told[c])
  BY <1>1, <1>3, <1>8, <1>10, Counts, ToggleUserSound
<1> QED
  BY <1>8, <1>9, <1>11 DEF SoundOf

LEMMA ToggleSiteTold ==
  ASSUME ToldInv, Inv', NEW c \in Customers, ToggleSite(c)
  PROVE  SoundOf(c)'
<1>1. /\ req[c] # None /\ req[c].step = "site" /\ req[c].step \in Working
      /\ acct[c].uid # None /\ site[c] # None /\ site[c] \in Site
  BY Counts DEF ToggleSite, At, Working, TypeOK
<1>2. /\ req'[c] # None /\ req'[c].kind = req[c].kind /\ req'[c].arg = req[c].arg
      /\ req'[c].step = "vhost" /\ req'[c].uid = req[c].uid
  BY <1>1, Counts, Went DEF ToggleSite, Steps
<1>3. PICK on \in BOOLEAN : on = (req[c].kind = "unsuspend")
  OBVIOUS
<1>4. [site[c] EXCEPT !.on = on] \in Site /\ [site[c] EXCEPT !.on = on].on = on
  BY <1>1 DEF Site
<1>5. site'[c] = [site[c] EXCEPT !.on = on]
  BY <1>3, Counts DEF ToggleSite, TypeOK
<1>6. site'[c] # None /\ site'[c].on = (req[c].kind = "unsuspend")
  BY <1>3, <1>4, <1>5, ConstantsAssumption
<1>7. Amiss(c)' = Amiss(c) \ {"site"}
  BY AmissNext DEF ToggleSite, Pieces
<1>8. /\ Person(c)' = Person(c) /\ acct'[c] = acct[c] /\ vhost'[c] = vhost[c]
      /\ linux'[c] = linux[c] /\ due'[c] = due[c] /\ told'[c] = told[c]
  BY PersonStays DEF ToggleSite, machine
<1>9. Sound(acct[c], Person(c), site'[c], vhost[c], linux[c], Amiss(c)', req'[c], due[c], told[c])
  BY <1>1, <1>2, <1>6, <1>7, Counts, ToggleSiteSound
<1> QED
  BY <1>8, <1>9 DEF SoundOf

LEMMA ToggleVhostTold ==
  ASSUME ToldInv, NEW c \in Customers, ToggleVhost(c)
  PROVE  SoundOf(c)'
<1>1. req[c] # None /\ req[c].step = "vhost"
  BY DEF ToggleVhost, At
<1>2. /\ req'[c] # None /\ req'[c].kind = req[c].kind /\ req'[c].arg = req[c].arg
      /\ req'[c].step = "lock" /\ req'[c].uid = req[c].uid
  BY <1>1, Counts, Went DEF ToggleVhost, Steps
<1>3. vhost'[c] = IF req[c].kind = "suspend" THEN "off" ELSE "live"
  BY Counts DEF ToggleVhost, TypeOK
<1>4. Amiss(c)' = Amiss(c) \ {"vhost"}
  BY AmissNext DEF ToggleVhost, Pieces
<1>5. /\ Person(c)' = Person(c) /\ acct'[c] = acct[c] /\ site'[c] = site[c]
      /\ linux'[c] = linux[c] /\ due'[c] = due[c] /\ told'[c] = told[c]
  BY PersonStays DEF ToggleVhost, rows
<1>6. Sound(acct[c], Person(c), site[c], vhost'[c], linux[c], Amiss(c)', req'[c], due[c], told[c])
  BY <1>1, <1>2, <1>3, <1>4, Counts, ToggleVhostSound
<1> QED
  BY <1>5, <1>6 DEF SoundOf

LEMMA ToggleLockTold ==
  ASSUME ToldInv, NEW c \in Customers, ToggleLock(c)
  PROVE  SoundOf(c)'
<1>1. /\ req[c] # None /\ req[c].step = "lock" /\ req[c].step \in Working
      /\ linux[c] # None /\ linux[c] \in Linux /\ acct[c].uid # None
  BY Counts DEF ToggleLock, At, Working, TypeOK
<1>2. /\ req'[c] # None /\ req'[c].kind = req[c].kind /\ req'[c].arg = req[c].arg
      /\ req'[c].step = "mark" /\ req'[c].uid = req[c].uid
  BY <1>1, Counts, Went DEF ToggleLock, Steps
<1>3. PICK on \in BOOLEAN : on = (req[c].kind = "suspend")
  OBVIOUS
<1>4. [linux[c] EXCEPT !.locked = on] \in Linux /\ [linux[c] EXCEPT !.locked = on].pw = linux[c].pw
  BY <1>1 DEF Linux
<1>5. linux'[c] = [linux[c] EXCEPT !.locked = on]
  BY <1>3, Counts DEF ToggleLock, TypeOK
<1>6. linux'[c] # None /\ linux'[c].pw = linux[c].pw
  BY <1>4, <1>5, ConstantsAssumption
<1>7. Amiss(c)' = Amiss(c) \ {"linux"}
  BY AmissNext DEF ToggleLock, Pieces
<1>8. /\ Person(c)' = Person(c) /\ acct'[c] = acct[c] /\ site'[c] = site[c]
      /\ vhost'[c] = vhost[c] /\ due'[c] = due[c] /\ told'[c] = told[c]
  BY PersonStays DEF ToggleLock, rows
<1>9. Sound(acct[c], Person(c), site[c], vhost[c], linux'[c], Amiss(c)', req'[c], due[c], told[c])
  BY <1>1, <1>2, <1>6, <1>7, Counts, ToggleLockSound
<1> QED
  BY <1>8, <1>9 DEF SoundOf

\* What fails and is logged.
LEMMA LoggedTold ==
  ASSUME ToldInv, NEW c \in Customers,
         \/ SitesUnread(c) \/ SiteFails(c) \/ VhostFails(c) \/ LockFails(c)
         \/ VhostStays(c) \/ LinuxStays(c)
  PROVE  SoundOf(c)'
<1>1. PICK k \in Steps, P \in SUBSET Pieces :
        /\ req[c] # None /\ Logged(c, P, k)
        /\ \/ req[c].step = "site" /\ k = "vhost" /\ "site" \in P
           \/ req[c].step = "site" /\ k = "lock" /\ {"site", "vhost"} \subseteq P
           \/ req[c].step = "vhost" /\ k = "lock" /\ "vhost" \in P
           \/ req[c].step = "lock" /\ k = "mark" /\ "linux" \in P
           \/ req[c].step = "dropvhost" /\ k = "dropsite" /\ "vhost" \in P
           \/ req[c].step = "droplinux" /\ k = "dropuser" /\ "linux" \in P
  <2>1. {"vhost", "lock", "mark", "dropsite", "dropuser"} \subseteq Steps
    BY DEF Steps
  <2>2. /\ {"site", "vhost"} \in SUBSET Pieces /\ {"site"} \in SUBSET Pieces
        /\ {"vhost"} \in SUBSET Pieces /\ {"linux"} \in SUBSET Pieces
    BY DEF Pieces
  <2>3. CASE SitesUnread(c)
    BY <2>1, <2>2, <2>3 DEF SitesUnread, At
  <2>4. CASE SiteFails(c)
    BY <2>1, <2>2, <2>4 DEF SiteFails, At
  <2>5. CASE VhostFails(c)
    BY <2>1, <2>2, <2>5 DEF VhostFails, At
  <2>6. CASE LockFails(c)
    BY <2>1, <2>2, <2>6 DEF LockFails, At
  <2>7. CASE VhostStays(c)
    BY <2>1, <2>2, <2>7 DEF VhostStays, At
  <2>8. CASE LinuxStays(c)
    BY <2>1, <2>2, <2>8 DEF LinuxStays, At
  <2> QED
    BY <2>3, <2>4, <2>5, <2>6, <2>7, <2>8
<1>2. /\ req'[c] # None /\ req'[c].kind = req[c].kind /\ req'[c].arg = req[c].arg
      /\ req'[c].step = k /\ req'[c].uid = req[c].uid
  BY <1>1, Counts, Went DEF Logged
<1>3. Amiss(c)' = Amiss(c) \cup P
  BY <1>1, AmissNext DEF Logged
<1>4. /\ Person(c)' = Person(c) /\ acct'[c] = acct[c] /\ site'[c] = site[c]
      /\ vhost'[c] = vhost[c] /\ linux'[c] = linux[c] /\ due'[c] = due[c] /\ told'[c] = told[c]
  BY <1>1, PersonStays DEF Logged, rows, machine
<1>5. Amiss(c) \subseteq Amiss(c)'
  BY <1>3
<1>6. Sound(acct[c], Person(c), site[c], vhost[c], linux[c], Amiss(c)', req'[c], due[c], told[c])
  <2>1. CASE req[c].step \in {"site", "vhost", "lock"}
    BY <1>1, <1>2, <1>3, <1>5, <2>1, Counts, SkipSound
  <2>2. CASE req[c].step \in {"dropvhost", "droplinux"}
    BY <1>1, <1>2, <1>3, <1>5, <2>2, Counts, StaySound
  <2> QED
    BY <1>1, <2>1, <2>2
<1> QED
  BY <1>4, <1>6 DEF SoundOf

LEMMA MarkTold ==
  ASSUME ToldInv, NEW c \in Customers, Mark(c)
  PROVE  SoundOf(c)'
<1>1. req[c] # None /\ req[c].step = "mark"
  BY DEF Mark, At
<1>2. req'[c] = None /\ due'[c] = None /\ told'[c] = Target(c)
  BY Counts DEF Mark, Answered, TypeOK
<1>3. /\ acct[c] # None /\ acct[c].uid \in Ids \cup {None} /\ acct[c].pack \in Values
      /\ Target(c) \in Statuses
  BY <1>1, Counts DEF TypeOK, Account, Statuses, Target
<1>4. /\ acct'[c] # None /\ acct'[c].status = Target(c)
      /\ acct'[c].uid = acct[c].uid /\ acct'[c].pack = acct[c].pack
  BY <1>1, <1>3, Counts, PutIs DEF Mark, SetStatus
<1>5. /\ Person(c)' = Person(c) /\ Amiss(c)' = Amiss(c) /\ site'[c] = site[c]
      /\ vhost'[c] = vhost[c] /\ linux'[c] = linux[c]
  BY PersonStays, AmissStays DEF Mark, machine
<1>6. Sound(acct'[c], Person(c), site[c], vhost[c], linux[c], Amiss(c), None, None, told'[c])
  BY <1>1, <1>2, <1>4, Counts, MarkSound DEF Target
<1> QED
  BY <1>2, <1>5, <1>6 DEF SoundOf
\* `List`, `DropVhost`, `DropSite` and `DropLinux`
LEMMA DropsTold ==
  ASSUME ToldInv, NEW c \in Customers,
         List(c) \/ DropVhost(c) \/ DropSite(c) \/ DropLinux(c)
  PROVE  SoundOf(c)'
<1>1. CASE List(c)
  <2>1. req[c] # None /\ req[c].step = "list"
    BY <1>1 DEF List, At
  <2>2. PICK k \in {"dropvhost", "droplinux"} : Goto(c, k)
    BY <1>1 DEF List
  <2>3. /\ req'[c] # None /\ req'[c].kind = req[c].kind /\ req'[c].arg = req[c].arg
        /\ req'[c].step = k /\ req'[c].uid = req[c].uid
    BY <2>1, <2>2, Counts, Went DEF Steps
  <2>4. /\ Person(c)' = Person(c) /\ Amiss(c)' = Amiss(c) /\ acct'[c] = acct[c]
        /\ site'[c] = site[c] /\ vhost'[c] = vhost[c] /\ linux'[c] = linux[c]
        /\ due'[c] = due[c] /\ told'[c] = told[c]
    BY <1>1, PersonStays, AmissStays DEF List, rows, machine
  <2> QED
    BY <2>1, <2>2, <2>3, <2>4, Counts, ListSound DEF SoundOf
<1>2. CASE DropVhost(c)
  <2>1. req[c] # None /\ req[c].step = "dropvhost"
    BY <1>2 DEF DropVhost, At
  <2>2. /\ req'[c] # None /\ req'[c].kind = req[c].kind /\ req'[c].arg = req[c].arg
        /\ req'[c].step = "dropsite" /\ req'[c].uid = req[c].uid
    BY <1>2, <2>1, Counts, Went DEF DropVhost, Steps
  <2>3. vhost'[c] = "none" /\ Amiss(c)' = Amiss(c) \ {"vhost"}
    BY <1>2, Counts, AmissNext DEF DropVhost, TypeOK, Pieces
  <2>4. /\ Person(c)' = Person(c) /\ acct'[c] = acct[c] /\ site'[c] = site[c]
        /\ linux'[c] = linux[c] /\ due'[c] = due[c] /\ told'[c] = told[c]
    BY <1>2, PersonStays DEF DropVhost, rows
  <2> QED
    BY <2>1, <2>2, <2>3, <2>4, Counts, DropVhostSound DEF SoundOf
<1>3. CASE DropSite(c)
  <2>1. req[c] # None /\ req[c].step = "dropsite"
    BY <1>3 DEF DropSite, At
  <2>2. /\ req'[c] # None /\ req'[c].kind = req[c].kind /\ req'[c].arg = req[c].arg
        /\ req'[c].step = "droplinux" /\ req'[c].uid = req[c].uid
    BY <1>3, <2>1, Counts, Went DEF DropSite, Steps
  <2>3. site'[c] = None /\ Amiss(c)' = Amiss(c) \ {"site"}
    BY <1>3, Counts, AmissNext DEF DropSite, TypeOK, Pieces
  <2>4. /\ Person(c)' = Person(c) /\ acct'[c] = acct[c] /\ vhost'[c] = vhost[c]
        /\ linux'[c] = linux[c] /\ due'[c] = due[c] /\ told'[c] = told[c]
    BY <1>3, PersonStays DEF DropSite, machine
  <2> QED
    BY <2>1, <2>2, <2>3, <2>4, Counts, DropSiteSound DEF SoundOf
<1>4. CASE DropLinux(c)
  <2>1. req[c] # None /\ req[c].step = "droplinux"
    BY <1>4 DEF DropLinux, At
  <2>2. /\ req'[c] # None /\ req'[c].kind = req[c].kind /\ req'[c].arg = req[c].arg
        /\ req'[c].step = "dropuser" /\ req'[c].uid = req[c].uid
    BY <1>4, <2>1, Counts, Went DEF DropLinux, Steps
  <2>3. linux'[c] = None /\ Amiss(c)' = Amiss(c) \ {"linux"}
    BY <1>4, Counts, AmissNext DEF DropLinux, TypeOK, Pieces
  <2>4. /\ Person(c)' = Person(c) /\ acct'[c] = acct[c] /\ site'[c] = site[c]
        /\ vhost'[c] = vhost[c] /\ due'[c] = due[c] /\ told'[c] = told[c]
    BY <1>4, PersonStays DEF DropLinux, rows
  <2> QED
    BY <2>1, <2>2, <2>3, <2>4, Counts, DropLinuxSound DEF SoundOf
<1> QED
  BY <1>1, <1>2, <1>3, <1>4

LEMMA UnlinkedIs ==
  ASSUME TypeOK, NEW c \in Customers, NEW u, acct' = Unlinked(u), acct[c] # None
  PROVE  /\ acct'[c] # None /\ acct'[c].status = acct[c].status /\ acct'[c].pack = acct[c].pack
         /\ acct'[c].uid = (IF acct[c].uid = u THEN None ELSE acct[c].uid)
<1>1. acct[c] \in Account
  BY DEF TypeOK
<1>2. [acct[c] EXCEPT !.uid = None] \in Account
  BY <1>1 DEF Account
<1>3. acct'[c] = IF acct[c].uid = u THEN [acct[c] EXCEPT !.uid = None] ELSE acct[c]
  BY DEF Unlinked
<1> QED
  BY <1>1, <1>2, <1>3, ConstantsAssumption DEF Account

LEMMA DropUserTold ==
  ASSUME ToldInv, Inv', NEW c \in Customers, DropUser(c)
  PROVE  SoundOf(c)'
<1>1. PICK u \in Ids : u = req[c].uid /\ IsTheirs(c, u)
  BY Counts, UserInHand DEF DropUser, At, Working, IsTheirs
<1>2. /\ req[c] # None /\ req[c].step = "dropuser"
      /\ acct[c] # None /\ acct[c].uid = u
  BY <1>1, Counts DEF DropUser, At, Working
<1>3. site[c] = None
  BY <1>1, <1>2, Counts DEF DropUser, Owned, Inv, Sited, OneUserEach, IsTheirs
<1>4. /\ req'[c] # None /\ req'[c].kind = req[c].kind /\ req'[c].arg = req[c].arg
      /\ req'[c].step = "close" /\ req'[c].uid = req[c].uid
  BY <1>2, Counts, Went DEF DropUser, Steps
<1>5. /\ acct'[c] # None /\ acct'[c].status = acct[c].status /\ acct'[c].pack = acct[c].pack
      /\ acct'[c].uid = None
  BY <1>1, <1>2, Counts, UnlinkedIs DEF DropUser
<1>6. UserOf(c)' = {}
  BY <1>1, Counts DEF DropUser, Inv, TypeOK, OneUserEach, IsTheirs, UserOf
<1>7. Person(c)' = None
  BY <1>6, PersonNext
<1>8. /\ Amiss(c)' = Amiss(c) /\ site'[c] = None /\ vhost'[c] = vhost[c]
      /\ linux'[c] = linux[c] /\ due'[c] = due[c] /\ told'[c] = told[c]
  BY <1>3, AmissStays DEF DropUser, machine
<1> QED
  BY <1>2, <1>3, <1>4, <1>5, <1>7, <1>8, Counts, DropUserSound DEF SoundOf

LEMMA CloseTold ==
  ASSUME ToldInv, NEW c \in Customers, Close(c)
  PROVE  SoundOf(c)'
<1>1. req[c] # None /\ req[c].step = "close"
  BY DEF Close, At
<1>2. req'[c] = None /\ due'[c] = None /\ told'[c] = "terminated"
  BY Counts DEF Close, Answered, TypeOK
<1>3. /\ acct[c] # None /\ acct[c].pack \in Values
      /\ "terminated" \in Statuses
  BY <1>1, Counts DEF TypeOK, Account, Statuses
<1>4. /\ acct'[c] # None /\ acct'[c].status = "terminated" /\ acct'[c].uid = None
      /\ acct'[c].pack = acct[c].pack
  BY <1>1, <1>3, Counts, PutIs DEF Close
<1>5. /\ Person(c)' = Person(c) /\ Amiss(c)' = Amiss(c) /\ site'[c] = site[c]
      /\ vhost'[c] = vhost[c] /\ linux'[c] = linux[c]
  BY PersonStays, AmissStays DEF Close, machine
<1> QED
  BY <1>1, <1>2, <1>4, <1>5, Counts, CloseSound DEF SoundOf
\* `Hash`, `Bump` and `CopyLimits`
LEMMA UserWrittenTold ==
  ASSUME ToldInv, Inv', NEW c \in Customers, Hash(c) \/ Bump(c) \/ CopyLimits(c)
  PROVE  SoundOf(c)'
<1>1. /\ req[c] # None /\ req[c].step \in Working /\ req[c].arg \in Values
      /\ IsTheirs(c, req[c].uid) /\ TheirUser(c) \in User /\ TheirUser(c).name = c
  BY Counts, UserInHand
  DEF Hash, Bump, CopyLimits, At, Working, TypeOK, Request, TheirUser, IsTheirs
<1>2. /\ Amiss(c)' = Amiss(c) /\ acct'[c] = acct[c] /\ site'[c] = site[c]
      /\ vhost'[c] = vhost[c] /\ linux'[c] = linux[c] /\ told'[c] = told[c]
  BY AmissStays DEF Hash, Bump, CopyLimits, Done, machine
<1>3. CASE Hash(c)
  <2>1. PICK w : w = [TheirUser(c) EXCEPT !.pw = req[c].arg] /\ PutUser(c, w)
    BY <1>3 DEF Hash
  <2>2. /\ w \in User /\ w.name = c /\ w.active = TheirUser(c).active
        /\ w.signed = TheirUser(c).signed /\ w.pack = TheirUser(c).pack /\ w.pw = req[c].arg
    BY <1>1, <2>1 DEF User
  <2>3. Person(c) = TheirUser(c) /\ Person(c) # None /\ Person(c)' = w /\ w # None
    BY <1>1, <2>1, <2>2, Counts, PutUserIs
  <2>4. req[c].step = "hash" /\ due'[c] = due[c]
    BY <1>3 DEF Hash, At
  <2>5. /\ req'[c] # None /\ req'[c].kind = req[c].kind /\ req'[c].arg = req[c].arg
        /\ req'[c].step = "bump" /\ req'[c].uid = req[c].uid
    BY <1>1, <1>3, Counts, Went DEF Hash, Steps
  <2>6. Sound(acct[c], w, site[c], vhost[c], linux[c], Amiss(c), req'[c], due[c], told[c])
    BY <1>1, <2>2, <2>3, <2>4, <2>5, Counts, HashSound
  <2> QED
    BY <1>2, <2>3, <2>4, <2>6 DEF SoundOf
<1>4. CASE Bump(c)
  <2>1. PICK w : w = [TheirUser(c) EXCEPT !.signed = FALSE] /\ PutUser(c, w)
    BY <1>4 DEF Bump
  <2>2. /\ w \in User /\ w.name = c /\ w.active = TheirUser(c).active
        /\ ~w.signed /\ w.pack = TheirUser(c).pack /\ w.pw = TheirUser(c).pw
    BY <1>1, <2>1 DEF User
  <2>3. Person(c) = TheirUser(c) /\ Person(c) # None /\ Person(c)' = w /\ w # None
    BY <1>1, <2>1, <2>2, Counts, PutUserIs
  <2>4. req[c].step = "bump" /\ due'[c] = due[c]
    BY <1>4 DEF Bump, At
  <2>5. /\ req'[c] # None /\ req'[c].kind = req[c].kind /\ req'[c].arg = req[c].arg
        /\ req'[c].step = "follow" /\ req'[c].uid = req[c].uid
    BY <1>1, <1>4, Counts, Went DEF Bump, Steps
  <2>6. Sound(acct[c], w, site[c], vhost[c], linux[c], Amiss(c), req'[c], due[c], told[c])
    BY <1>1, <2>2, <2>3, <2>4, <2>5, Counts, BumpSound
  <2> QED
    BY <1>2, <2>3, <2>4, <2>6 DEF SoundOf
<1>5. CASE CopyLimits(c)
  <2>1. PICK w : w = [TheirUser(c) EXCEPT !.pack = req[c].arg] /\ PutUser(c, w)
    BY <1>5 DEF CopyLimits
  <2>2. /\ w \in User /\ w.name = c /\ w.active = TheirUser(c).active
        /\ w.signed = TheirUser(c).signed /\ w.pack = req[c].arg /\ w.pw = TheirUser(c).pw
    BY <1>1, <2>1 DEF User
  <2>3. Person(c) = TheirUser(c) /\ Person(c) # None /\ Person(c)' = w /\ w # None
    BY <1>1, <2>1, <2>2, Counts, PutUserIs
  <2>4. req[c].step = "copy" /\ req'[c] = None /\ due'[c] = None
    BY <1>5, Counts DEF CopyLimits, At, Done, TypeOK
  <2>5. Sound(acct[c], w, site[c], vhost[c], linux[c], Amiss(c), None, None, told[c])
    BY <1>1, <2>2, <2>3, <2>4, Counts, CopyLimitsSound
  <2> QED
    BY <1>2, <2>3, <2>4, <2>5 DEF SoundOf
<1> QED
  BY <1>3, <1>4, <1>5

LEMMA FollowTold ==
  ASSUME ToldInv, NEW c \in Customers, Follow(c)
  PROVE  SoundOf(c)'
<1>1. req[c] # None /\ req[c].step = "follow" /\ req[c].arg \in Values /\ linux[c] # None
  BY Counts DEF Follow, At, TypeOK, Request
<1>2. [locked |-> FALSE, pw |-> req[c].arg] \in Linux
  BY <1>1 DEF Linux
<1>3. linux'[c] # None /\ linux'[c].pw = req[c].arg
  BY <1>2, Counts, ConstantsAssumption DEF Follow, TypeOK
<1>4. /\ Person(c)' = Person(c) /\ Amiss(c)' = Amiss(c) /\ acct'[c] = acct[c]
      /\ site'[c] = site[c] /\ vhost'[c] = vhost[c] /\ told'[c] = told[c]
      /\ req'[c] = None /\ due'[c] = None
  BY PersonStays, AmissStays, Counts DEF Follow, Done, rows, TypeOK
<1> QED
  BY <1>1, <1>3, <1>4, Counts, FollowSound DEF SoundOf

LEMMA SetPackageTold ==
  ASSUME ToldInv, NEW c \in Customers, SetPackage(c)
  PROVE  SoundOf(c)'
<1>1. req[c] # None /\ req[c].step = "row" /\ req[c].arg \in Values
  BY Counts DEF SetPackage, At, TypeOK, Request
<1>2. /\ req'[c] # None /\ req'[c].kind = req[c].kind /\ req'[c].arg = req[c].arg
      /\ req'[c].step = "copy" /\ req'[c].uid = req[c].uid
  BY <1>1, Counts, Went DEF SetPackage, Steps
<1>3. acct[c] # None /\ acct[c].status \in Statuses /\ acct[c].uid \in Ids \cup {None}
  BY <1>1, Counts DEF TypeOK, Account
<1>4. /\ acct'[c] # None /\ acct'[c].status = acct[c].status /\ acct'[c].uid = acct[c].uid
      /\ acct'[c].pack = req[c].arg
  BY <1>1, <1>3, Counts, PutIs DEF SetPackage
<1>5. /\ Person(c)' = Person(c) /\ Amiss(c)' = Amiss(c) /\ site'[c] = site[c]
      /\ vhost'[c] = vhost[c] /\ linux'[c] = linux[c] /\ due'[c] = due[c] /\ told'[c] = told[c]
  BY PersonStays, AmissStays DEF SetPackage, machine
<1> QED
  BY <1>1, <1>2, <1>3, <1>4, <1>5, Counts, SetPackageSound DEF SoundOf

LEMMA SignInTold ==
  ASSUME ToldInv, Inv', NEW c \in Customers, SignIn(c)
  PROVE  SoundOf(c)'
<1>1. PICK u \in UserOf(c) : users[u].active /\ users' = [users EXCEPT ![u].signed = TRUE]
  BY DEF SignIn
<1>2. u \in Ids /\ IsTheirs(c, u) /\ users[u] \in User
  BY <1>1, Counts DEF UserOf, IsTheirs, TypeOK
<1>3. PICK w : w = [users[u] EXCEPT !.signed = TRUE]
  OBVIOUS
<1>4. /\ w \in User /\ w.name = c /\ w.active = TRUE
      /\ w.pack = users[u].pack /\ w.pw = users[u].pw /\ users[u].active = TRUE
  BY <1>1, <1>2, <1>3 DEF User, IsTheirs
<1>5. users'[u] = w /\ w # None
  BY <1>1, <1>2, <1>3, <1>4, Counts, ConstantsAssumption DEF TypeOK
<1>6. Person(c) = users[u] /\ Person(c) # None /\ Person(c)' = w
  BY <1>2, <1>4, <1>5, Counts, PersonNow, PersonNext DEF Inv, IsTheirs
<1>7. /\ Amiss(c)' = Amiss(c) /\ acct'[c] = acct[c] /\ site'[c] = site[c]
      /\ vhost'[c] = vhost[c] /\ linux'[c] = linux[c] /\ req'[c] = req[c]
      /\ due'[c] = due[c] /\ told'[c] = told[c]
  BY AmissStays DEF SignIn, machine
<1>8. Person(c).active = TRUE /\ w.pack = Person(c).pack /\ w.pw = Person(c).pw
  BY <1>4, <1>6
<1>9. Sound(acct[c], w, site[c], vhost[c], linux[c], Amiss(c), req[c], due[c], told[c])
  BY <1>4, <1>5, <1>6, <1>8, Counts, SignInSound
<1> QED
  BY <1>6, <1>7, <1>9 DEF SoundOf

LEMMA RemoveUserTold ==
  ASSUME ToldInv, Inv', NEW c \in Customers, RemoveUser(c)
  PROVE  SoundOf(c)'
<1>1. PICK u \in UserOf(c) : users' = [users EXCEPT ![u] = None] /\ acct' = Unlinked(u)
  BY DEF RemoveUser
<1>2. u \in Ids /\ IsTheirs(c, u)
  BY <1>1 DEF UserOf, IsTheirs
<1>3. UserOf(c)' = {}
  BY <1>1, <1>2, Counts DEF Inv, TypeOK, OneUserEach, IsTheirs, UserOf
<1>4. Person(c)' = None
  BY <1>3, PersonNext
<1>5. acct[c] = None => acct'[c] = None
  BY <1>1 DEF Unlinked
<1>6. acct[c] # None =>
        acct'[c] # None /\ acct'[c].uid = None /\ acct'[c].status = acct[c].status
  <2>1. acct[c] # None => acct[c].uid \in {None, u}
    BY <1>2, Counts DEF Inv, Linked, OneUserEach, IsTheirs
  <2> QED
    BY <1>1, <2>1, Counts, UnlinkedIs
<1>7. \/ site[c] = None /\ vhost'[c] = vhost[c] /\ Amiss(c)' = Amiss(c) \ {"site", "linux"}
      \/ vhost'[c] = "none"
  <2>1. Pieces \ {"vhost"} = {"site", "linux"}
    BY DEF Pieces
  <2> QED
    BY <2>1, Counts, AmissNext DEF RemoveUser, TypeOK
<1>8. /\ req[c] = None /\ req'[c] = None /\ site'[c] = None /\ linux'[c] = None
      /\ due'[c] = due[c] /\ told'[c] = None
  BY Counts DEF RemoveUser, TypeOK
<1>9. Sound(acct'[c], None, None, vhost'[c], None, Amiss(c)', None, due[c], None)
  BY <1>5, <1>6, <1>7, <1>8, Counts, RemoveSound
<1> QED
  BY <1>4, <1>8, <1>9 DEF SoundOf
-----------------------------------------------------------------------------
(* What is told is so, whatever else is asked, fails or is cut off.         *)

LEMMA OwnStep ==
  ASSUME ToldInv, Inv', Patient, NEW c \in Customers, Step(c)
  PROVE  SoundOf(c)'
BY AskTold, BreaksTold, LooksTold, TakenTold, ForgetTold, InsertTold, LinuxTold, AddUserTold,
   LinkTold, BuildTold, AddSiteTold, WorkFailsTold, FailTold, ActivateTold, ToggleUserTold,
   ToggleSiteTold, ToggleVhostTold, ToggleLockTold, LoggedTold, MarkTold, DropsTold, DropUserTold,
   CloseTold, UserWrittenTold, FollowTold, SetPackageTold, SignInTold, RemoveUserTold
DEF Step

LEMMA ToldInit == Init => ToldInv
<1> SUFFICES ASSUME Init PROVE ToldInv
  OBVIOUS
<1>1. SUFFICES ASSUME NEW c \in Customers PROVE SoundOf(c)
  BY InvInit DEF ToldInv
<1>2. UserOf(c) = {} /\ Amiss(c) = {}
  BY DEF Init, UserOf, Amiss
<1>3. Person(c) = None
  BY <1>2, PersonNow
<1>4. /\ acct[c] = None /\ site[c] = None /\ vhost[c] = "none" /\ linux[c] = None
      /\ req[c] = None /\ due[c] = None /\ told[c] = None
  BY DEF Init
<1>5. Sound(None, None, None, "none", None, Amiss(c), None, None, None)
  BY DEF Sound, Asking, Tells, Standing, Strays, NoVhost, Orphaned, Created, Toggled, Ended,
         Changed, Halves
<1> QED
  BY <1>3, <1>4, <1>5 DEF SoundOf

LEMMA ToldNext == Patient /\ ToldInv /\ [Next]_vars => ToldInv'
<1> SUFFICES ASSUME Patient, ToldInv, [Next]_vars PROVE ToldInv'
  OBVIOUS
<1>1. Inv'
  BY InvNext DEF ToldInv
<1>2. CASE UNCHANGED vars
  <2>1. ASSUME NEW c \in Customers PROVE SoundOf(c)'
    <3>1. Person(c)' = Person(c) /\ Amiss(c)' = Amiss(c)
      BY <1>2, PersonStays, AmissStays DEF vars, rows
    <3> QED
      BY <1>2, <3>1 DEF ToldInv, SoundOf, vars, rows, machine
  <2> QED
    BY <1>1, <2>1 DEF ToldInv
<1>3. CASE Next
  <2>1. PICK c \in Customers : Step(c)
    BY <1>3 DEF Next
  <2>2. SoundOf(c)'
    BY <1>1, <2>1, OwnStep
  <2>3. \A d \in Customers \ {c} : SoundOf(d)'
    BY <2>1, OthersSound
  <2> QED
    BY <1>1, <2>2, <2>3 DEF ToldInv
<1> QED
  BY <1>2, <1>3

LEMMA ToldHolds == Patient => (Spec => []ToldInv)
<1> SUFFICES ASSUME Patient PROVE Spec => []ToldInv
  OBVIOUS
<1>1. ToldInv /\ [Next]_vars => ToldInv'
  BY ToldNext
<1> QED
  BY <1>1, ToldInit, PTL DEF Spec

\* What a billing system is told is so: a customer who it is told is suspended
\* has a user that is neither active nor signed in and a site that is off, one
\* who is ended has nothing left; whatever failed or was cut off before, but
\* for what was only logged (`suspend`, `unsuspend`, `terminate`,
\* `create_account`).  A request that failed must be the next to come: one
\* that was suspended half-way and is then told to be active still is blocked.
THEOREM ToldIsDone == Patient => (Spec => []OkMeansDone)
<1>1. ToldInv => OkMeansDone
  <2> SUFFICES ASSUME ToldInv, NEW c \in Customers
               PROVE  /\ told[c] = "suspended"  => Blocked(c)
                      /\ told[c] = "active"     => Served(c)
                      /\ told[c] = "terminated" => Gone(c)
    BY DEF OkMeansDone
  <2>1. \A u \in UserOf(c) : users[u] = Person(c) /\ Person(c) # None
    BY Counts, PersonNow DEF Inv, UserOf, IsTheirs
  <2>2. /\ Tells(acct[c], Person(c), site[c], vhost[c], Amiss(c), told[c])
        /\ Standing(acct[c], Person(c), site[c], vhost[c], linux[c], Amiss(c), req[c], due[c])
    BY Counts DEF Sound
  <2>3. \A p \in Pieces : p \in Amiss(c) <=> <<c, p>> \in amiss
    BY DEF Amiss
  <2>4. {"suspended", "active", "terminated"} \subseteq Statuses /\ None \notin Statuses
    BY ConstantsAssumption DEF Statuses
  <2>5. ASSUME told[c] = "suspended" PROVE Blocked(c)
    <3>1. Stands(Person(c), site[c], vhost[c], Amiss(c), FALSE)
      BY <2>2, <2>4, <2>5 DEF Tells
    <3> QED
      BY <2>1, <2>3, <3>1 DEF Stands, PersonIs, SiteIs, VhostIs, Blocked, Pieces
  <2>6. ASSUME told[c] = "active" PROVE Served(c)
    <3>1. Stands(Person(c), site[c], vhost[c], Amiss(c), TRUE) /\ acct[c] # None
      BY <2>2, <2>4, <2>6 DEF Tells
    <3> QED
      BY <2>1, <2>3, <3>1 DEF Stands, PersonIs, SiteIs, VhostIs, Served, Pieces
  <2>7. ASSUME told[c] = "terminated" PROVE Gone(c)
    <3>1. Vanished(Person(c), site[c], vhost[c], linux[c], Amiss(c))
      BY <2>2, <2>4, <2>7 DEF Tells, Standing
    <3> QED
      BY <2>3, <3>1, PersonNow DEF Vanished, NoVhost, NoLinux, Gone, Pieces
  <2> QED
    BY <2>5, <2>6, <2>7
<1> QED
  BY <1>1, ToldHolds, PTL

\* The package that is paid for is the one that is enforced, and one password
\* opens the panel and SFTP, unless a request to change them is under way or
\* has failed and is to be repeated (`change_package`, `change_password`).
THEOREM BothAreWritten == Patient => (Spec => []BothHalves)
<1>1. ToldInv => BothHalves
  <2> SUFFICES ASSUME ToldInv, NEW c \in Customers,
                      acct[c] # None, acct[c].uid # None, req[c] = None, due[c] = None
               PROVE  /\ users[acct[c].uid].pack = acct[c].pack
                      /\ linux[c] # None => users[acct[c].uid].pw = linux[c].pw
    BY DEF BothHalves
  <2>1. Person(c) = users[acct[c].uid]
    BY Counts, PersonNow DEF Inv, Linked
  <2>2. Halves(acct[c], Person(c), linux[c], req[c], due[c])
    BY Counts DEF Sound
  <2> QED
    BY <2>1, <2>2 DEF Halves
<1> QED
  BY <1>1, ToldHolds, PTL
=============================================================================
