--------------------------- MODULE SiteLife_proofs ---------------------------
(***************************************************************************)
(* A website that nothing left half-way is whole, and what is over leaves  *)
(* no name taken: for any number of requests, sites, owners and databases. *)
(*                                                                         *)
(* A request at work changes what belongs to its own site, and a database  *)
(* that a site of another domain may share.  So each action is reasoned    *)
(* about at its own site (`Elsewhere`, `Proceeds`), and what the others    *)
(* keep is proved once for all of them (`LifeGoesOn`, `WholeGoesOn`).      *)
(***************************************************************************)
EXTENDS SiteLife, TLAPS

-----------------------------------------------------------------------------
(* What a step of a request does to the requests, and leaves alone.         *)

Kept(c) == \A b \in Clients \ {c} : req'[b] = req[b]

SameRequest(c) ==
  /\ req'[c] # None
  /\ req'[c].kind = req[c].kind /\ req'[c].site = req[c].site /\ req'[c].app = req[c].app
  /\ req'[c].secret = req[c].secret /\ req'[c].from = req[c].from
  /\ req'[c].owner = req[c].owner /\ req'[c].item = req[c].item

ReqType == req \in [Clients -> Request \cup {None}]

Onward(c, s) == ReqType' /\ Kept(c) /\ SameRequest(c) /\ req'[c].step = s
Over(c)      == ReqType' /\ Kept(c) /\ req'[c] = None
Proceeds(c)  == Kept(c) /\ (SameRequest(c) \/ req'[c] = None)

Elsewhere(c) ==
  /\ \A e \in Domains \ {req[c].site} : row'[e] = row[e] /\ vhost'[e] = vhost[e]
  /\ \A e \in Domains \ {req[c].site}, o \in Owners :
       /\ tree'[<<e, o>>] = tree[<<e, o>>]
       /\ <<e, o>> \in pool' <=> <<e, o>> \in pool
  /\ \A n \in Names \ {Name(c)} : base'[n] = base[n] /\ account'[n] = account[n]
  /\ marred \subseteq marred' /\ stuck \subseteq stuck'

Works(c) ==
  \/ Ensure(c) \/ Page(c) \/ Base(c) \/ Config(c) \/ Core(c) \/ Drop(c) \/ Undo(c)
  \/ Vhost(c) \/ Test(c) \/ Row(c) \/ Store(c) \/ Rewrite(c) \/ Mark(c)
  \/ Move(c) \/ Assign(c)
  \/ Unbase(c) \/ Unvhost(c) \/ Files(c) \/ Unaccount(c) \/ Unrow(c)

LEMMA Here == ASSUME TypeOK, NEW c \in Clients, req[c] # None
              PROVE  /\ req[c] \in Request
                     /\ req[c].site \in Domains /\ req[c].owner \in Owners
                     /\ req[c].from \in Owners /\ req[c].app \in Apps
                     /\ req[c].kind \in Kinds /\ req[c].step \in Steps
                     /\ req[c].secret \in Secrets
                     /\ Name(c) \in Names /\ Root(c) \in Roots /\ OldRoot(c) \in Roots
  <1>1. req[c] \in Request
    BY DEF TypeOK
  <1> QED  BY <1>1, ConstantsAssumption DEF Request, Name, Root, OldRoot, Roots

LEMMA NoneIsNone == /\ \A x \in Request : x # None
                    /\ \A x \in Site : x # None
                    /\ \A x \in Tree : x # None
                    /\ \A x \in Account : x # None
                    /\ \A x \in Owners : x # None
                    /\ \A x \in Domains : x # None
  BY ConstantsAssumption

LEMMA Goes == ASSUME TypeOK, NEW c \in Clients, req[c] # None, NEW s \in Steps, Go(c, s)
              PROVE  Onward(c, s)
  <1> DEFINE new == [req[c] EXCEPT !.step = s]
  <1>1. req[c] \in Request
    BY Here
  <1>2. new \in Request
    BY <1>1 DEF Request
  <1>3. /\ new.kind = req[c].kind /\ new.site = req[c].site /\ new.app = req[c].app
        /\ new.secret = req[c].secret /\ new.from = req[c].from
        /\ new.owner = req[c].owner /\ new.item = req[c].item /\ new.step = s
    BY <1>1 DEF Request
  <1>4. new # None
    BY <1>2, NoneIsNone
  <1>5. req' = [req EXCEPT ![c] = new]
    BY DEF Go
  <1> HIDE DEF new
  <1> QED  BY <1>2, <1>3, <1>4, <1>5 DEF Onward, ReqType, Kept, SameRequest, TypeOK

LEMMA Ends == ASSUME TypeOK, NEW c \in Clients, End(c)
              PROVE  Over(c)
  BY DEF End, Over, ReqType, Kept, TypeOK

LEMMA Onwards == ASSUME NEW c, NEW s, Onward(c, s)
                 PROVE  Proceeds(c) /\ ReqType'
  BY DEF Onward, Proceeds

LEMMA Overs == ASSUME NEW c, Over(c)
               PROVE  Proceeds(c) /\ ReqType'
  BY DEF Over, Proceeds

-----------------------------------------------------------------------------
(* Types, and what every step leaves alone.                                 *)

Framed(c) == TypeOK' /\ Elsewhere(c) /\ Proceeds(c)

\* A row that is changed in one field has to be there.
LEMMA Frame == ASSUME TypeOK, NEW c \in Clients, Works(c),
                      req[c].step \in {"mark", "assign"} => row[req[c].site] # None
               PROVE  req[c] # None /\ Framed(c)
  <1> USE DEF disk, past
  <1>0. req[c] # None
    BY DEF Works, Ensure, Page, Base, Config, Core, Drop, Undo, Vhost, Test, Row, Store, Rewrite,
           Mark, Move, Assign, Unbase, Unvhost, Files, Unaccount, Unrow, At
  <1>1. PICK d \in Domains : d = req[c].site
    BY <1>0, Here
  <1>2. PICK o \in Owners : o = req[c].owner
    BY <1>0, Here
  <1>3. PICK n \in Names : n = Name(c)
    BY <1>0, Here
  <1>4. PICK k \in Secrets : k = req[c].secret
    BY <1>0, Here
  <1>5. Root(c) = <<d, o>> /\ <<d, o>> \in Roots
    BY <1>1, <1>2 DEF Root, Roots
  <1>6. PICK f \in Owners : f = req[c].from
    BY <1>0, Here
  <1>7. OldRoot(c) = <<d, f>> /\ <<d, f>> \in Roots
    BY <1>1, <1>6 DEF OldRoot, Roots
  <1>8. 0 \in Secrets
    BY ConstantsAssumption DEF Secrets
  <1>9. CASE Ensure(c)
    <2>1. Proceeds(c) /\ ReqType'
      BY <1>0, <1>9, Goes, Ends, Onwards, Overs DEF Ensure, Build, Steps
    <2>2. [config |-> 0] \in Tree
      BY <1>8 DEF Tree
    <2>3. /\ tree' = tree \/ tree' = [tree EXCEPT ![<<d, o>>] = [config |-> 0]]
          /\ pool' = pool \/ pool' = pool \cup {<<d, o>>}
      BY <1>9, <1>5 DEF Ensure
    <2>4. /\ tree' \in [Roots -> Tree \cup {None}] /\ pool' \subseteq Roots
          /\ \A e \in Domains \ {d}, x \in Owners :
               tree'[<<e, x>>] = tree[<<e, x>>] /\ (<<e, x>> \in pool' <=> <<e, x>> \in pool)
      BY <2>2, <2>3, <1>5 DEF TypeOK, Roots
    <2> QED  BY <1>0, <1>1, <1>9, <2>1, <2>4 DEF Ensure, Framed, Elsewhere, TypeOK, ReqType
  <1>10. CASE Page(c)
    <2>1. Proceeds(c) /\ ReqType'
      BY <1>0, <1>10, Goes, Onwards DEF Page, Steps
    <2> QED  BY <1>0, <1>1, <1>10, <2>1 DEF Page, Framed, Elsewhere, TypeOK, ReqType
  <1>11. CASE Base(c)
    <2>1. Proceeds(c) /\ ReqType'
      BY <1>0, <1>11, Goes, Ends, Onwards, Overs DEF Base, Steps
    <2>2. base' = base \/ base' = [base EXCEPT ![n] = k]
      BY <1>11, <1>3, <1>4 DEF Base
    <2>3. base' \in [Names -> Secrets] /\ \A m \in Names \ {n} : base'[m] = base[m]
      BY <2>2 DEF TypeOK
    <2>4. marred \subseteq marred' /\ marred' \subseteq Domains
      BY <1>11, <1>1 DEF Base, Sharers, TypeOK
    <2> QED  BY <1>0, <1>1, <1>3, <1>11, <2>1, <2>3, <2>4 DEF Base, Framed, Elsewhere, TypeOK, ReqType
  <1>12. CASE Config(c) \/ Core(c)
    <2>1. Proceeds(c) /\ ReqType'
      BY <1>0, <1>12, Goes, Onwards DEF Config, Core, GiveUp, Steps
    <2>2. \/ tree' = tree
          \/ tree[<<d, o>>] # None /\ tree' = [tree EXCEPT ![<<d, o>>] = [@ EXCEPT !.config = k]]
      BY <1>12, <1>4, <1>5 DEF Config, Core, Configured
    <2>3. tree[<<d, o>>] # None => [tree[<<d, o>>] EXCEPT !.config = k] \in Tree
      BY <1>5 DEF TypeOK, Tree
    <2>4. /\ tree' \in [Roots -> Tree \cup {None}]
          /\ \A e \in Domains \ {d}, x \in Owners : tree'[<<e, x>>] = tree[<<e, x>>]
      BY <2>2, <2>3, <1>5 DEF TypeOK, Roots
    <2> QED  BY <1>0, <1>1, <1>12, <2>1, <2>4 DEF Config, Core, Framed, Elsewhere, TypeOK, ReqType
  <1>13. CASE Drop(c)
    <2>1. Proceeds(c) /\ ReqType'
      BY <1>0, <1>13, Goes, Ends, Onwards, Overs DEF Drop, Steps
    <2>2. PICK left \in {0, base[n]} : base' = [base EXCEPT ![n] = left]
      BY <1>13, <1>3 DEF Drop
    <2>3. base' \in [Names -> Secrets] /\ \A m \in Names \ {n} : base'[m] = base[m]
      BY <2>2, <1>8 DEF TypeOK
    <2> QED  BY <1>0, <1>1, <1>3, <1>13, <2>1, <2>3 DEF Drop, Framed, Elsewhere, TypeOK, ReqType
  <1>14. CASE Undo(c) \/ Files(c)
    <2>1. Proceeds(c) /\ ReqType'
      BY <1>0, <1>14, Goes, Ends, Onwards, Overs DEF Undo, Files, AfterFiles, Steps
    <2>2. /\ tree' = tree \/ tree' = [tree EXCEPT ![<<d, o>>] = None]
          /\ pool' = pool \/ pool' = pool \ {<<d, o>>}
      BY <1>14, <1>5 DEF Undo, Files, Deleted
    <2>3. /\ tree' \in [Roots -> Tree \cup {None}] /\ pool' \subseteq Roots
          /\ \A e \in Domains \ {d}, x \in Owners :
               tree'[<<e, x>>] = tree[<<e, x>>] /\ (<<e, x>> \in pool' <=> <<e, x>> \in pool)
      BY <2>2, <1>5 DEF TypeOK, Roots
    <2> QED  BY <1>0, <1>1, <1>14, <2>1, <2>3 DEF Undo, Files, Framed, Elsewhere, TypeOK, ReqType
  <1>15. CASE Vhost(c) \/ Test(c)
    <2>1. Proceeds(c) /\ ReqType'
      BY <1>0, <1>15, Goes, Onwards DEF Vhost, Test, Fails, Steps
    <2>2. \/ vhost' = vhost
          \/ vhost' = [vhost EXCEPT ![d] = o]
          \/ vhost' = [vhost EXCEPT ![d] = None]
      BY <1>15, <1>1, <1>2 DEF Vhost, Test
    <2>3. /\ vhost' \in [Domains -> Owners \cup {None}]
          /\ \A e \in Domains \ {d} : vhost'[e] = vhost[e]
      BY <2>2 DEF TypeOK
    <2>4. stuck \subseteq stuck' /\ stuck' \subseteq Domains
      BY <1>15, <1>1 DEF Vhost, Test, Sticks, TypeOK
    <2> QED  BY <1>0, <1>1, <1>15, <2>1, <2>3, <2>4 DEF Vhost, Test, Framed, Elsewhere, TypeOK, ReqType
  <1>16. CASE Row(c)
    <2>1. Proceeds(c) /\ ReqType'
      BY <1>0, <1>16, Goes, Ends, Onwards, Overs DEF Row, Steps
    <2>2. PICK a \in Apps : a = req[c].app
      BY <1>0, Here
    <2>3. [owner |-> o, app |-> a] \in Site
      BY DEF Site
    <2>4. row' = row \/ row' = [row EXCEPT ![d] = [owner |-> o, app |-> a]]
      BY <1>16, <1>1, <1>2, <2>2 DEF Row
    <2>5. /\ row' \in [Domains -> Site \cup {None}]
          /\ \A e \in Domains \ {d} : row'[e] = row[e]
      BY <2>3, <2>4 DEF TypeOK
    <2>6. stuck \subseteq stuck' /\ stuck' \subseteq Domains
      BY <1>16, <1>1 DEF Row, Sticks, TypeOK
    <2> QED  BY <1>0, <1>1, <1>16, <2>1, <2>5, <2>6 DEF Row, Framed, Elsewhere, TypeOK, ReqType
  <1>17. CASE Store(c) \/ Unaccount(c)
    <2>1. Proceeds(c) /\ ReqType'
      BY <1>0, <1>17, Goes, Ends, Onwards, Overs DEF Store, Unaccount, Steps
    <2>2. [site |-> d, secret |-> k] \in Account
      BY DEF Account
    <2>3. \/ account' = account
          \/ account' = [account EXCEPT ![n] = [site |-> d, secret |-> k]]
          \/ account' = [account EXCEPT ![n] = None]
      BY <1>17, <1>1, <1>3, <1>4 DEF Store, Unaccount, Entry
    <2>4. /\ account' \in [Names -> Account \cup {None}]
          /\ \A m \in Names \ {n} : account'[m] = account[m]
      BY <2>2, <2>3 DEF TypeOK
    <2>5. marred \subseteq marred' /\ marred' \subseteq Domains
      BY <1>17, <1>1 DEF Store, Unaccount, Mar, TypeOK
    <2> QED  BY <1>0, <1>1, <1>3, <1>17, <2>1, <2>4, <2>5
             DEF Store, Unaccount, Framed, Elsewhere, TypeOK, ReqType
  <1>18. CASE Rewrite(c)
    <2>1. Proceeds(c) /\ ReqType'
      BY <1>0, <1>18, Goes, Ends, Onwards, Overs DEF Rewrite, GiveUp, Steps
    <2>2. vhost' = vhost \/ vhost' = [vhost EXCEPT ![d] = o]
      BY <1>18, <1>1, <1>2 DEF Rewrite
    <2>3. /\ vhost' \in [Domains -> Owners \cup {None}]
          /\ \A e \in Domains \ {d} : vhost'[e] = vhost[e]
      BY <2>2 DEF TypeOK
    <2>4. marred \subseteq marred' /\ marred' \subseteq Domains
      BY <1>18, <1>1 DEF Rewrite, Mar, TypeOK
    <2> QED  BY <1>0, <1>1, <1>18, <2>1, <2>3, <2>4 DEF Rewrite, Framed, Elsewhere, TypeOK, ReqType
  <1>19. CASE Mark(c) \/ Assign(c)
    <2>1. Proceeds(c) /\ ReqType'
      BY <1>0, <1>19, Goes, Ends, Onwards, Overs DEF Mark, Assign, Steps
    <2>2. \/ row' = row
          \/ row' = [row EXCEPT ![d].app = "wordpress"]
          \/ row' = [row EXCEPT ![d].owner = o]
      BY <1>19, <1>1, <1>2 DEF Mark, Assign
    <2>3. row[d] \in Site
      BY <1>1, <1>19 DEF Mark, Assign, At, TypeOK
    <2>4. [row[d] EXCEPT !.app = "wordpress"] \in Site /\ [row[d] EXCEPT !.owner = o] \in Site
      BY <2>3 DEF Site, Apps
    <2>5. /\ row' \in [Domains -> Site \cup {None}]
          /\ \A e \in Domains \ {d} : row'[e] = row[e]
      BY <2>2, <2>4 DEF TypeOK
    <2>6. marred \subseteq marred' /\ marred' \subseteq Domains
      BY <1>19, <1>1 DEF Mark, Assign, Mar, TypeOK
    <2> QED  BY <1>0, <1>1, <1>19, <2>1, <2>5, <2>6 DEF Mark, Assign, Framed, Elsewhere, TypeOK, ReqType
  <1>20. CASE Move(c)
    <2>1. Proceeds(c) /\ ReqType'
      BY <1>0, <1>20, Goes, Ends, Onwards, Overs DEF Move, Steps
    <2>2. /\ \/ tree' = tree
             \/ tree' = [tree EXCEPT ![<<d, o>>] = tree[<<d, f>>], ![<<d, f>>] = None]
          /\ \/ pool' = pool
             \/ pool' = pool \ {<<d, f>>}
             \/ pool' = (pool \ {<<d, f>>}) \cup {<<d, o>>}
      BY <1>20, <1>5, <1>7 DEF Move, Moved
    <2>3. /\ tree' \in [Roots -> Tree \cup {None}] /\ pool' \subseteq Roots
          /\ \A e \in Domains \ {d}, x \in Owners :
               tree'[<<e, x>>] = tree[<<e, x>>] /\ (<<e, x>> \in pool' <=> <<e, x>> \in pool)
      BY <2>2, <1>5, <1>7 DEF TypeOK, Roots
    <2>4. marred \subseteq marred' /\ marred' \subseteq Domains
      BY <1>20, <1>1 DEF Move, Mar, TypeOK
    <2> QED  BY <1>0, <1>1, <1>20, <2>1, <2>3, <2>4 DEF Move, Framed, Elsewhere, TypeOK, ReqType
  <1>21. CASE Unbase(c)
    <2>1. Proceeds(c) /\ ReqType'
      BY <1>0, <1>21, Goes, Ends, Onwards, Overs DEF Unbase, Steps
    <2>2. base' = base \/ base' = [base EXCEPT ![n] = 0]
      BY <1>21, <1>3 DEF Unbase
    <2>3. base' \in [Names -> Secrets] /\ \A m \in Names \ {n} : base'[m] = base[m]
      BY <2>2, <1>8 DEF TypeOK
    <2> QED  BY <1>0, <1>1, <1>3, <1>21, <2>1, <2>3 DEF Unbase, Framed, Elsewhere, TypeOK, ReqType
  <1>22. CASE Unvhost(c)
    <2>1. Proceeds(c) /\ ReqType'
      BY <1>0, <1>22, Goes, Ends, Onwards, Overs DEF Unvhost, AfterVhost, AfterFiles, Steps
    <2>2. vhost' = vhost \/ vhost' = [vhost EXCEPT ![d] = None]
      BY <1>22, <1>1 DEF Unvhost
    <2>3. /\ vhost' \in [Domains -> Owners \cup {None}]
          /\ \A e \in Domains \ {d} : vhost'[e] = vhost[e]
      BY <2>2 DEF TypeOK
    <2>4. stuck \subseteq stuck' /\ stuck' \subseteq Domains
      BY <1>22, <1>1 DEF Unvhost, Sticks, TypeOK
    <2> QED  BY <1>0, <1>1, <1>22, <2>1, <2>3, <2>4 DEF Unvhost, Framed, Elsewhere, TypeOK, ReqType
  <1>23. CASE Unrow(c)
    <2>1. Proceeds(c) /\ ReqType'
      BY <1>0, <1>23, Ends, Overs DEF Unrow
    <2>2. row' = row \/ row' = [row EXCEPT ![d] = None]
      BY <1>23, <1>1 DEF Unrow
    <2>3. /\ row' \in [Domains -> Site \cup {None}]
          /\ \A e \in Domains \ {d} : row'[e] = row[e]
      BY <2>2 DEF TypeOK
    <2> QED  BY <1>0, <1>1, <1>23, <2>1, <2>3 DEF Unrow, Framed, Elsewhere, TypeOK, ReqType
  <1> QED  BY <1>9, <1>10, <1>11, <1>12, <1>13, <1>14, <1>15, <1>16, <1>17, <1>18, <1>19, <1>20,
              <1>21, <1>22, <1>23 DEF Works

-----------------------------------------------------------------------------
(* What each request may expect, and what keeps a name.                     *)

CreateSteps  == {"ensure", "page", "base", "config", "core", "vhost", "test", "row", "account",
                 "drop", "undo"}
InstallSteps == {"base", "config", "core", "rewrite", "mark", "account", "drop"}
OwnerSteps   == {"move", "rewrite", "assign"}
DeleteSteps  == {"unbase", "unvhost", "files", "unaccount", "unrow"}

Is(c, kind)  == req[c] # None /\ req[c].kind = kind
On(c, d)     == req[c] # None /\ req[c].site = d
Wordpress(d) == row[d] # None /\ row[d].app = "wordpress"

\* A request that has set its database's password, or given it up.
Past(c) == req[c] # None /\ req[c].secret # 0 /\ req[c].step \notin {"ensure", "base"}

\* Each kind of request keeps to its steps.
SteadyAt(c) ==
  /\ Is(c, "create") =>
       /\ req[c].step \in CreateSteps
       /\ req[c].secret # 0 <=> req[c].app = "wordpress"
       /\ req[c].step \in {"base", "config", "core", "drop", "account"} => req[c].secret # 0
       /\ req[c].step = "page" => req[c].secret = 0
  /\ Is(c, "install") => req[c].step \in InstallSteps /\ req[c].secret # 0
  /\ Is(c, "owner")   => req[c].step \in OwnerSteps /\ req[c].secret = 0
  /\ Is(c, "delete")  =>
       /\ req[c].step \in DeleteSteps /\ req[c].secret = 0
       /\ req[c].step \in {"unbase", "unaccount"} => req[c].item
Steady == \A c \in Clients : SteadyAt(c)

\* Only installations are at work on a site together.
Together == \A b, c \in Clients :
  req[b] # None /\ req[c] # None /\ req[b].site = req[c].site /\ b # c =>
    req[b].kind = "install" /\ req[c].kind = "install"

\* What each kind of request may expect of its site's row.
RowThere(c) == req[c] # None =>
  LET d == req[c].site IN
  /\ req[c].kind = "create" =>
       IF req[c].step = "account" THEN row[d] = [owner |-> req[c].owner, app |-> req[c].app]
                                  ELSE row[d] = None
  /\ req[c].kind # "create" => row[d] # None
  /\ req[c].kind = "install" =>
       /\ row[d].owner = req[c].owner
       /\ ~Bare => row[d].app # "static"
       /\ req[c].step = "account" => row[d].app = "wordpress"
  /\ req[c].kind = "owner" =>
       row[d].owner = req[c].from /\ row[d].app = req[c].app /\ req[c].owner # req[c].from
  /\ req[c].kind = "delete" => d \in marred /\ (req[c].item => row[d].app = "wordpress")
RowsThere == \A c \in Clients : RowThere(c)

\* A vhost without a row is a creation's that is about to write it, or is stuck.
VhostLeft(d) == row[d] = None /\ vhost[d] # None =>
  \/ d \in stuck
  \/ \E c \in Clients : /\ Is(c, "create") /\ req[c].site = d
                        /\ req[c].step \in {"test", "row"}
VhostsLeft == \A d \in Domains : VhostLeft(d)

VhostGone(c) == Is(c, "delete") /\ req[c].step \in {"files", "unaccount", "unrow"} =>
  vhost[req[c].site] = None \/ req[c].site \in stuck
VhostsGone == \A c \in Clients : VhostGone(c)

\* A database's row is of a site that has WordPress.
ItemAt(n) == account[n] # None =>
  NameOf[account[n].site] = n /\ Wordpress(account[n].site)
Items == \A n \in Names : ItemAt(n)

LifeInv ==
  TypeOK /\ Steady /\ Together /\ RowsThere /\ VhostsLeft /\ VhostsGone /\ Items

\* No two requests are at work on a site that are not both installations.
OneByOne == Beside \subseteq {"install"}

LEMMA OthersInstall == ASSUME LifeInv, NEW c \in Clients, req[c] # None,
                              NEW b \in Clients \ {c}, On(b, req[c].site)
                       PROVE  Is(b, "install") /\ Is(c, "install")
  BY DEF LifeInv, Together, On, Is

\* A step of a request that leaves its own site in order leaves all in order.
LEMMA LifeGoesOn ==
  ASSUME LifeInv, NEW c \in Clients, req[c] # None, Framed(c),
         NEW d \in Domains, d = req[c].site, NEW n \in Names, n = Name(c),
         SteadyAt(c)', RowThere(c)', VhostLeft(d)', VhostGone(c)', ItemAt(n)',
         \A m \in Names : account[m] # None /\ account[m].site = d => Wordpress(d)',
         req[c].kind = "install" =>
           /\ row'[d] # None
           /\ row'[d].owner = row[d].owner
           /\ row'[d].app \in {row[d].app, "wordpress"}
  PROVE  LifeInv'
  <1>1. Kept(c) /\ (SameRequest(c) \/ req'[c] = None) /\ TypeOK'
    BY DEF LifeInv, Framed, Proceeds
  <1>2. Steady'
    <2>1. \A b \in Clients \ {c} : SteadyAt(b)'
      BY <1>1 DEF LifeInv, Steady, SteadyAt, Is, Kept
    <2> QED  BY <2>1 DEF Steady
  <1>3. Together'
    BY <1>1 DEF LifeInv, Together, Kept, SameRequest
  <1>4. RowsThere'
    <2> SUFFICES ASSUME NEW b \in Clients \ {c}, req[b] # None
                 PROVE  RowThere(b)'
      BY <1>1 DEF RowsThere, RowThere, Kept
    <2>1. req'[b] = req[b] /\ RowThere(b) /\ req[b].site \in Domains
      BY <1>1, Here DEF Kept, LifeInv, RowsThere
    <2>2. CASE req[b].site # d
      <3>1. row'[req[b].site] = row[req[b].site] /\ marred \subseteq marred'
        BY <2>1, <2>2 DEF Framed, Elsewhere
      <3> QED  BY <2>1, <3>1 DEF RowThere
    <2>3. CASE req[b].site = d
      <3>1. Is(b, "install") /\ Is(c, "install")
        BY <2>3, OthersInstall DEF On
      <3> QED  BY <2>1, <2>3, <3>1 DEF RowThere, Is
    <2> QED  BY <2>2, <2>3
  <1>5. VhostsLeft'
    <2> SUFFICES ASSUME NEW e \in Domains, e # d
                 PROVE  VhostLeft(e)'
      BY DEF VhostsLeft
    <2>1. row'[e] = row[e] /\ vhost'[e] = vhost[e] /\ stuck \subseteq stuck' /\ VhostLeft(e)
      BY DEF Framed, Elsewhere, LifeInv, VhostsLeft
    <2> QED  BY <1>1, <2>1 DEF VhostLeft, Is, Kept
  <1>6. VhostsGone'
    <2> SUFFICES ASSUME NEW b \in Clients \ {c}, Is(b, "delete")
                 PROVE  VhostGone(b)'
      BY <1>1 DEF VhostsGone, VhostGone, Kept, Is
    <2>1. req'[b] = req[b] /\ VhostGone(b) /\ req[b].site \in Domains
      BY <1>1, Here DEF Kept, LifeInv, VhostsGone, Is
    <2>2. req[b].site # d
      BY OthersInstall DEF On, Is
    <2>3. vhost'[req[b].site] = vhost[req[b].site] /\ stuck \subseteq stuck'
      BY <2>1, <2>2 DEF Framed, Elsewhere
    <2> QED  BY <2>1, <2>3 DEF VhostGone, Is
  <1>7. Items'
    <2> SUFFICES ASSUME NEW m \in Names, m # n, account[m] # None
                 PROVE  ItemAt(m)'
      BY DEF Items, ItemAt, Framed, Elsewhere
    <2>1. account'[m] = account[m] /\ ItemAt(m) /\ account[m].site \in Domains
      BY DEF Framed, Elsewhere, LifeInv, Items, TypeOK, Account
    <2>2. account[m].site # d => row'[account[m].site] = row[account[m].site]
      BY <2>1 DEF Framed, Elsewhere
    <2> QED  BY <2>1, <2>2 DEF ItemAt, Wordpress
  <1> QED  BY <1>1, <1>2, <1>3, <1>4, <1>5, <1>6, <1>7 DEF LifeInv

\* What a request that goes on to step s has to find there.
InOrder(c) == SteadyAt(c) /\ RowThere(c) /\ VhostGone(c)

LEMMA OverInOrder == ASSUME NEW c \in Clients, Over(c)
                     PROVE  InOrder(c)'
  BY DEF Over, InOrder, SteadyAt, RowThere, VhostGone, Is

LEMMA LifeFramed == ASSUME LifeInv, NEW c \in Clients, Works(c)
                    PROVE  /\ req[c] # None /\ Framed(c)
                           /\ SteadyAt(c) /\ RowThere(c) /\ VhostGone(c)
  <1>1. req[c] # None
    BY DEF Works, Ensure, Page, Base, Config, Core, Drop, Undo, Vhost, Test, Row, Store, Rewrite,
           Mark, Move, Assign, Unbase, Unvhost, Files, Unaccount, Unrow, At
  <1>2. SteadyAt(c) /\ RowThere(c) /\ VhostGone(c) /\ TypeOK
    BY DEF LifeInv, Steady, RowsThere, VhostsGone
  <1>3. req[c].step \in {"mark", "assign"} => row[req[c].site] # None
    BY <1>1, <1>2, Here DEF SteadyAt, RowThere, Is, Kinds, CreateSteps, DeleteSteps
  <1> QED  BY <1>1, <1>2, <1>3, Frame

\* A step that leaves row, vhost and database's row alone.
LEMMA QuietLife ==
  ASSUME LifeInv, NEW c \in Clients, Works(c), UNCHANGED <<row, vhost, account>>,
         req[c].step \notin {"test", "row"}, InOrder(c)'
  PROVE  LifeInv'
  <1>1. req[c] # None /\ Framed(c) /\ RowThere(c) /\ TypeOK
    BY LifeFramed DEF LifeInv
  <1>2. PICK d \in Domains : d = req[c].site
    BY <1>1, Here
  <1>3. PICK n \in Names : n = Name(c)
    BY <1>1, Here
  <1>4. VhostLeft(d)'
    BY <1>1 DEF VhostLeft, LifeInv, VhostsLeft, Framed, Proceeds, Kept, Elsewhere, Is
  <1>5. ItemAt(n)' /\ \A m \in Names : account[m] # None /\ account[m].site = d => Wordpress(d)'
    BY DEF ItemAt, LifeInv, Items, Wordpress
  <1>6. req[c].kind = "install" => row[d] # None
    BY <1>1, <1>2 DEF RowThere
  <1> QED  BY <1>1, <1>2, <1>3, <1>4, <1>5, <1>6, LifeGoesOn DEF InOrder

LEMMA Readies == ASSUME LifeInv, NEW c \in Clients,
                        \/ Ensure(c) \/ Page(c) \/ Base(c) \/ Config(c) \/ Core(c) \/ Drop(c)
                        \/ Undo(c)
                 PROVE  LifeInv'
  <1> USE DEF disk, past
  <1>1. Works(c)
    BY DEF Works
  <1>2. req[c] # None /\ SteadyAt(c) /\ RowThere(c) /\ req[c] \in Request /\ TypeOK
    BY <1>1, LifeFramed, Here DEF LifeInv
  <1>3. UNCHANGED <<row, vhost, account>> /\ req[c].step \notin {"test", "row"}
    BY DEF Ensure, Page, Base, Config, Core, Drop, Undo, At
  <1>4. SUFFICES InOrder(c)'
    BY <1>1, <1>3, QuietLife
  <1>5. ~Is(c, "delete")
    BY <1>2 DEF SteadyAt, DeleteSteps, Ensure, Page, Base, Config, Core, Drop, Undo, At
  <1>6. \A s \in CreateSteps \ {"account"} :
          /\ Onward(c, s) /\ Is(c, "create") /\ req[c].step # "account"
          /\ s \in {"base", "config", "core", "drop"} => req[c].secret # 0
          /\ s = "page" => req[c].secret = 0
          => InOrder(c)'
    BY <1>2, <1>3 DEF InOrder, SteadyAt, RowThere, VhostGone, Is, Onward, SameRequest
  <1>7. \A s \in InstallSteps \ {"account"} : Onward(c, s) /\ Is(c, "install") => InOrder(c)'
    BY <1>2, <1>3 DEF InOrder, SteadyAt, RowThere, VhostGone, Is, Onward, SameRequest
  <1>8. CASE Over(c)
    BY <1>8, OverInOrder
  <1>9. CASE Ensure(c)
    <2>1. Over(c) \/ Onward(c, Build(c))
      BY <1>2, <1>9, Goes, Ends DEF Ensure, Build, Steps
    <2>2. Is(c, "create") /\ req[c].step = "ensure"
      BY <1>2, <1>9, Here DEF SteadyAt, Is, Kinds, InstallSteps, OwnerSteps, DeleteSteps, Ensure, At
    <2> QED  BY <1>2, <1>6, <1>8, <2>1, <2>2 DEF Build, CreateSteps, SteadyAt
  <1>10. CASE Page(c)
    <2>1. Onward(c, "vhost") \/ Onward(c, "undo")
      BY <1>2, <1>10, Goes DEF Page, Steps
    <2>2. Is(c, "create") /\ req[c].step = "page"
      BY <1>2, <1>10, Here DEF SteadyAt, Is, Kinds, InstallSteps, OwnerSteps, DeleteSteps, Page, At
    <2> QED  BY <1>6, <2>1, <2>2 DEF CreateSteps
  <1>11. CASE Base(c)
    <2>1. Over(c) \/ Onward(c, "config")
      BY <1>2, <1>11, Goes, Ends DEF Base, Steps
    <2>2. (Is(c, "create") \/ Is(c, "install")) /\ req[c].step = "base"
      BY <1>2, <1>11, Here DEF SteadyAt, Is, Kinds, OwnerSteps, DeleteSteps, Base, At
    <2> QED  BY <1>2, <1>6, <1>7, <1>8, <2>1, <2>2 DEF CreateSteps, InstallSteps, SteadyAt
  <1>12. CASE Config(c)
    <2>1. Onward(c, "drop") \/ Onward(c, "core")
      BY <1>2, <1>12, Goes DEF Config, GiveUp, Steps
    <2>2. (Is(c, "create") \/ Is(c, "install")) /\ req[c].step = "config"
      BY <1>2, <1>12, Here DEF SteadyAt, Is, Kinds, OwnerSteps, DeleteSteps, Config, At
    <2> QED  BY <1>2, <1>6, <1>7, <2>1, <2>2 DEF CreateSteps, InstallSteps, SteadyAt
  <1>13. CASE Core(c)
    <2>1. \/ Onward(c, "drop")
          \/ Is(c, "create") /\ Onward(c, "vhost")
          \/ ~Is(c, "create") /\ Onward(c, "rewrite")
      BY <1>2, <1>13, Goes DEF Core, GiveUp, Steps, Is
    <2>2. (Is(c, "create") \/ Is(c, "install")) /\ req[c].step = "core"
      BY <1>2, <1>13, Here DEF SteadyAt, Is, Kinds, OwnerSteps, DeleteSteps, Core, At
    <2> QED  BY <1>2, <1>6, <1>7, <2>1, <2>2 DEF CreateSteps, InstallSteps, SteadyAt
  <1>14. CASE Drop(c)
    <2>1. Over(c) \/ (Is(c, "create") /\ Onward(c, "undo"))
      BY <1>2, <1>14, Goes, Ends DEF Drop, Steps, Is
    <2> QED  BY <1>6, <1>8, <1>14, <2>1 DEF CreateSteps, Drop, At
  <1>15. CASE Undo(c)
    BY <1>2, <1>8, <1>15, Ends DEF Undo
  <1> QED  BY <1>9, <1>10, <1>11, <1>12, <1>13, <1>14, <1>15

LEMMA Removals == ASSUME LifeInv, NEW c \in Clients, Files(c) \/ Unbase(c) \/ Move(c)
                  PROVE  LifeInv'
  <1> USE DEF disk, past
  <1>1. Works(c)
    BY DEF Works
  <1>2. /\ req[c] # None /\ SteadyAt(c) /\ RowThere(c) /\ VhostGone(c) /\ TypeOK
        /\ Elsewhere(c) /\ marred \subseteq marred'
    BY <1>1, LifeFramed DEF LifeInv, Framed, Elsewhere
  <1>3. UNCHANGED <<row, vhost, account>> /\ req[c].step \notin {"test", "row"}
    BY DEF Files, Unbase, Move, At
  <1>4. SUFFICES InOrder(c)'
    BY <1>1, <1>3, QuietLife
  <1>5. CASE Over(c)
    BY <1>5, OverInOrder
  <1>6. CASE Files(c)
    <2>1. Is(c, "delete") /\ req[c].step = "files"
      BY <1>2, <1>6, Here DEF SteadyAt, Is, Kinds, CreateSteps, InstallSteps, OwnerSteps, Files, At
    <2>2. Onward(c, "unrow") \/ (req[c].item /\ Onward(c, "unaccount"))
      BY <1>2, <1>6, Goes DEF Files, AfterFiles, Steps
    <2>3. UNCHANGED <<marred, stuck>>
      BY <1>6 DEF Files
    <2> QED  BY <1>2, <1>3, <2>1, <2>2, <2>3
             DEF InOrder, SteadyAt, RowThere, VhostGone, Is, Onward, SameRequest, DeleteSteps
  <1>7. CASE Unbase(c)
    <2>1. Is(c, "delete") /\ req[c].step = "unbase"
      BY <1>2, <1>7, Here DEF SteadyAt, Is, Kinds, CreateSteps, InstallSteps, OwnerSteps, Unbase, At
    <2>2. Over(c) \/ Onward(c, "unvhost")
      BY <1>2, <1>7, Goes, Ends DEF Unbase, Steps
    <2>3. UNCHANGED <<marred, stuck>>
      BY <1>7 DEF Unbase
    <2> QED  BY <1>2, <1>3, <1>5, <2>1, <2>2, <2>3
             DEF InOrder, SteadyAt, RowThere, VhostGone, Is, Onward, SameRequest, DeleteSteps
  <1>8. CASE Move(c)
    <2>1. Is(c, "owner") /\ req[c].step = "move"
      BY <1>2, <1>8, Here DEF SteadyAt, Is, Kinds, CreateSteps, InstallSteps, DeleteSteps, Move, At
    <2>2. Over(c) \/ Onward(c, "rewrite")
      BY <1>2, <1>8, Goes, Ends DEF Move, Steps
    <2> QED  BY <1>2, <1>3, <1>5, <2>1, <2>2
             DEF InOrder, SteadyAt, RowThere, VhostGone, Is, Onward, SameRequest, OwnerSteps
  <1> QED  BY <1>6, <1>7, <1>8

\* The vhost of a site that is being created: whoever leaves it for good says so.
LEMMA Creations == ASSUME LifeInv, NEW c \in Clients, Vhost(c) \/ Test(c) \/ Row(c)
                   PROVE  LifeInv'
  <1> USE DEF disk, past
  <1>1. Works(c)
    BY DEF Works
  <1>2. /\ req[c] # None /\ SteadyAt(c) /\ RowThere(c) /\ TypeOK
        /\ Framed(c) /\ req[c] \in Request
    BY <1>1, LifeFramed, Here DEF LifeInv
  <1>3. PICK d \in Domains : d = req[c].site
    BY <1>2, Here
  <1>4. PICK n \in Names : n = Name(c)
    BY <1>2, Here
  <1>5. Is(c, "create") /\ req[c].step \in {"vhost", "test", "row"} /\ row[d] = None
    BY <1>2, <1>3, Here DEF SteadyAt, RowThere, Is, Kinds, InstallSteps, OwnerSteps, DeleteSteps,
                        Vhost, Test, Row, At
  <1>6. UNCHANGED <<account, marred>>
    BY DEF Vhost, Test, Row
  <1>7. \A m \in Names : account[m] # None => account[m].site # d
    BY <1>5 DEF LifeInv, Items, ItemAt, Wordpress
  <1>8. ItemAt(n)'
    <2>1. account[n] # None => account[n].site \in Domains /\ ItemAt(n)
      BY DEF LifeInv, Items, TypeOK, Account
    <2> QED  BY <1>2, <1>3, <1>6, <1>7, <2>1 DEF ItemAt, Wordpress, Framed, Elsewhere
  <1>9. SUFFICES InOrder(c)' /\ VhostLeft(d)'
    BY <1>2, <1>3, <1>4, <1>5, <1>7, <1>8, LifeGoesOn DEF InOrder, Is
  <1>10. \A s \in {"test", "row", "drop", "undo"} :
           /\ Onward(c, s) /\ row'[d] = None
           /\ s = "drop" => req[c].secret # 0
           => InOrder(c)'
    BY <1>2, <1>3, <1>5
       DEF InOrder, SteadyAt, RowThere, VhostGone, Is, Onward, SameRequest, CreateSteps
  <1>11. \A s \in {"test", "row"} : Onward(c, s) => VhostLeft(d)'
    BY <1>3, <1>5 DEF VhostLeft, Onward, SameRequest, Is
  <1>12. vhost[d] # None /\ ~(d \in stuck) =>
           req[c].step \in {"test", "row"}
    <2> SUFFICES ASSUME vhost[d] # None, d \notin stuck
                 PROVE  req[c].step \in {"test", "row"}
      OBVIOUS
    <2>1. PICK b \in Clients : Is(b, "create") /\ req[b].site = d /\ req[b].step \in {"test", "row"}
      BY <1>5 DEF LifeInv, VhostsLeft, VhostLeft
    <2>2. b = c
      BY <1>2, <1>3, <2>1, OthersInstall DEF On, Is
    <2> QED  BY <2>1, <2>2
  <1>13. Fails(c) => Onward(c, "undo") \/ (Onward(c, "drop") /\ req[c].secret # 0)
    BY <1>2, <1>5, Goes DEF Fails, Steps, SteadyAt
  <1>14. CASE Vhost(c)
    <2>1. req[c].step = "vhost" /\ UNCHANGED row
      BY <1>14 DEF Vhost, At
    <2>2. \/ Onward(c, "test")
          \/ Fails(c) /\ d \in stuck'
          \/ Fails(c) /\ UNCHANGED <<vhost, stuck>>
      BY <1>2, <1>3, <1>14, Goes DEF Vhost, Sticks, Steps
    <2> QED  BY <1>5, <1>10, <1>11, <1>12, <1>13, <2>1, <2>2 DEF VhostLeft
  <1>15. CASE Test(c)
    <2>1. UNCHANGED row
      BY <1>15 DEF Test
    <2>2. \/ Onward(c, "row")
          \/ Fails(c) /\ (d \in stuck' \/ vhost'[d] = None)
      BY <1>2, <1>3, <1>15, Goes DEF Test, Sticks, Steps, TypeOK
    <2> QED  BY <1>5, <1>10, <1>11, <1>13, <2>1, <2>2 DEF VhostLeft
  <1>16. CASE Row(c)
    <2>1. CASE UNCHANGED row /\ Over(c) /\ d \in stuck'
      BY <2>1, OverInOrder DEF VhostLeft
    <2>2. CASE /\ row'[d] = [owner |-> req[c].owner, app |-> req[c].app]
               /\ row'[d] # None
               /\ \/ Over(c)
                  \/ req[c].app = "wordpress" /\ Onward(c, "account")
      <3>1. VhostLeft(d)'
        BY <2>2 DEF VhostLeft
      <3>2. CASE Over(c)
        BY <3>1, <3>2, OverInOrder
      <3>3. CASE req[c].app = "wordpress" /\ Onward(c, "account")
        BY <1>2, <1>3, <1>5, <2>2, <3>1, <3>3
           DEF InOrder, SteadyAt, RowThere, VhostGone, Is, Onward, SameRequest, CreateSteps
      <3> QED  BY <2>2, <3>2, <3>3
    <2>3. [owner |-> req[c].owner, app |-> req[c].app] \in Site
      BY <1>2 DEF Request, Site
    <2>4. [owner |-> req[c].owner, app |-> req[c].app] # None
      BY <2>3, NoneIsNone
    <2> DEFINE new == [owner |-> req[c].owner, app |-> req[c].app]
    <2>5. \/ /\ row' = [row EXCEPT ![d] = new]
             /\ Over(c) \/ (req[c].app = "wordpress" /\ Onward(c, "account"))
          \/ UNCHANGED row /\ Over(c) /\ d \in stuck'
      BY <1>2, <1>3, <1>16, Goes, Ends DEF Row, Sticks, Steps
    <2> HIDE DEF new
    <2>6. row' = [row EXCEPT ![d] = new] => row'[d] = new
      BY <1>2 DEF TypeOK
    <2> QED  BY <2>1, <2>2, <2>4, <2>5, <2>6 DEF new
  <1> QED  BY <1>14, <1>15, <1>16

\* The rows of databases: a site that has WordPress keeps its row while it has one.
LEMMA Entries == ASSUME LifeInv, NEW c \in Clients, Store(c) \/ Unaccount(c) \/ Unrow(c)
                 PROVE  LifeInv'
  <1> USE DEF disk, past
  <1>1. Works(c)
    BY DEF Works
  <1>2. /\ req[c] # None /\ SteadyAt(c) /\ RowThere(c) /\ VhostGone(c) /\ TypeOK /\ VhostsLeft
        /\ Framed(c) /\ req[c] \in Request
    BY <1>1, LifeFramed, Here DEF LifeInv
  <1>3. PICK d \in Domains : d = req[c].site
    BY <1>2, Here
  <1>4. PICK n \in Names : n = Name(c)
    BY <1>2, Here
  <1>5. PICK k \in Secrets : k = req[c].secret
    BY <1>2, Here
  <1>6. n = NameOf[d]
    BY <1>3, <1>4 DEF Name
  <1>7. CASE Store(c)
    <2>1. UNCHANGED <<row, vhost, stuck>> /\ Over(c) /\ req[c].step = "account"
      BY <1>2, <1>7, Ends DEF Store, At
    <2>2. Is(c, "create") \/ Is(c, "install")
      BY <1>2, <2>1, Here DEF SteadyAt, Is, Kinds, OwnerSteps, DeleteSteps
    <2>3. Wordpress(d)
      <3>1. Is(c, "create") => row[d] = [owner |-> req[c].owner, app |-> "wordpress"]
        BY <1>2, <1>3, <2>1 DEF SteadyAt, RowThere, Is
      <3>2. [owner |-> req[c].owner, app |-> "wordpress"] \in Site
        BY <1>2 DEF Request, Site, Apps
      <3> QED  BY <1>2, <1>3, <2>1, <2>2, <3>1, <3>2, NoneIsNone DEF RowThere, Wordpress, Is
    <2>4. account' = account \/ account' = [account EXCEPT ![n] = [site |-> d, secret |-> k]]
      BY <1>3, <1>4, <1>5, <1>7 DEF Store, Entry
    <2>5. ItemAt(n)'
      <3>1. account[n] # None => NameOf[account[n].site] = n /\ Wordpress(account[n].site)
        BY DEF LifeInv, Items, ItemAt
      <3>2. account'[n] \in {account[n], [site |-> d, secret |-> k]}
        BY <1>2, <2>4 DEF TypeOK
      <3> QED  BY <1>6, <2>1, <2>3, <3>1, <3>2 DEF ItemAt, Wordpress
    <2>6. VhostLeft(d)'
      BY <1>2, <2>1 DEF VhostsLeft, VhostLeft, Framed, Proceeds, Kept, Is
    <2>7. InOrder(c)'
      BY <2>1, OverInOrder
    <2>8. \A m \in Names : account[m] # None /\ account[m].site = d => Wordpress(d)'
      BY <2>1, <2>3 DEF Wordpress
    <2> QED  BY <1>2, <1>3, <1>4, <2>1, <2>3, <2>5, <2>6, <2>7, <2>8, LifeGoesOn
             DEF InOrder, Wordpress
  <1>8. CASE Unaccount(c)
    <2>1. Is(c, "delete") /\ req[c].step = "unaccount"
      BY <1>2, <1>8, Here DEF SteadyAt, Is, Kinds, CreateSteps, InstallSteps, OwnerSteps,
                              Unaccount, At
    <2>2. UNCHANGED <<row, vhost, stuck, marred>> /\ (Over(c) \/ Onward(c, "unrow"))
      BY <1>2, <1>8, Goes, Ends DEF Unaccount, Steps
    <2>3. account' = account \/ account' = [account EXCEPT ![n] = None]
      BY <1>4, <1>8 DEF Unaccount
    <2>4. ItemAt(n)' /\ \A m \in Names : account[m] # None /\ account[m].site = d => Wordpress(d)'
      BY <1>2, <2>2, <2>3 DEF LifeInv, Items, ItemAt, Wordpress, TypeOK
    <2>5. VhostLeft(d)'
      BY <1>2, <2>1, <2>2 DEF VhostsLeft, VhostLeft, Framed, Proceeds, Kept, Is
    <2>6. InOrder(c)'
      BY <1>2, <2>1, <2>2, OverInOrder
         DEF InOrder, SteadyAt, RowThere, VhostGone, Is, Onward, SameRequest, DeleteSteps
    <2> QED  BY <1>2, <1>3, <1>4, <2>1, <2>4, <2>5, <2>6, LifeGoesOn DEF InOrder, Is
  <1>9. CASE Unrow(c)
    <2>1. Is(c, "delete") /\ req[c].step = "unrow"
      BY <1>2, <1>9, Here DEF SteadyAt, Is, Kinds, CreateSteps, InstallSteps, OwnerSteps, Unrow, At
    <2>2. UNCHANGED <<account, vhost, stuck>> /\ Over(c)
      BY <1>2, <1>9, Ends DEF Unrow
    <2>3. row' = row \/ (~HasItem(d) /\ row' = [row EXCEPT ![d] = None])
      BY <1>3, <1>9 DEF Unrow
    <2>4. \A m \in Names : account[m] # None => account[m].site \in Domains /\ ItemAt(m)
      BY DEF LifeInv, Items, TypeOK, Account
    <2>5. \A m \in Names : account[m] # None /\ account[m].site = d => Wordpress(d)'
      BY <2>3, <2>4, <1>2 DEF HasItem, ItemAt, Wordpress
    <2>6. ItemAt(n)'
      <3>1. account[n] # None /\ account[n].site # d => row'[account[n].site] = row[account[n].site]
        BY <1>2, <1>3, <2>4 DEF Framed, Elsewhere
      <3> QED  BY <2>2, <2>4, <2>5, <3>1 DEF ItemAt, Wordpress
    <2>7. VhostLeft(d)'
      BY <1>2, <1>3, <2>1, <2>2 DEF VhostLeft, VhostGone
    <2>8. InOrder(c)'
      BY <2>2, OverInOrder
    <2> QED  BY <1>2, <1>3, <1>4, <2>1, <2>5, <2>6, <2>7, <2>8, LifeGoesOn DEF InOrder, Is
  <1> QED  BY <1>7, <1>8, <1>9

\* The vhost or the row of a site that is there.
LEMMA Changes == ASSUME LifeInv, NEW c \in Clients,
                        Rewrite(c) \/ Mark(c) \/ Assign(c) \/ Unvhost(c)
                 PROVE  LifeInv'
  <1> USE DEF disk, past
  <1>1. Works(c)
    BY DEF Works
  <1>2. /\ req[c] # None /\ SteadyAt(c) /\ RowThere(c) /\ VhostGone(c) /\ TypeOK
        /\ Framed(c) /\ Elsewhere(c) /\ req[c] \in Request /\ marred \subseteq marred'
    BY <1>1, LifeFramed, Here DEF LifeInv, Framed, Elsewhere
  <1>3. PICK d \in Domains : d = req[c].site
    BY <1>2, Here
  <1>4. PICK n \in Names : n = Name(c)
    BY <1>2, Here
  <1>5. PICK o \in Owners : o = req[c].owner
    BY <1>2, Here
  <1>6. ~Is(c, "create") /\ row[d] # None /\ row[d] \in Site
    <2>1. ~Is(c, "create")
      BY <1>2 DEF SteadyAt, CreateSteps, Rewrite, Mark, Assign, Unvhost, At
    <2> QED  BY <1>2, <1>3, <2>1 DEF RowThere, Is, TypeOK
  <1>7. UNCHANGED account
    BY DEF Rewrite, Mark, Assign, Unvhost
  <1>8. \A m \in Names : account[m] # None => account[m].site \in Domains /\ ItemAt(m)
    BY DEF LifeInv, Items, TypeOK, Account
  <1>9. SUFFICES /\ InOrder(c)' /\ row'[d] # None
                 /\ row'[d].app \in {row[d].app, "wordpress"}
                 /\ req[c].kind = "install" => row'[d].owner = row[d].owner
    <2>1. VhostLeft(d)'
      BY <1>9 DEF VhostLeft
    <2>2. \A m \in Names : account[m] # None /\ account[m].site = d => Wordpress(d)'
      BY <1>8, <1>9 DEF ItemAt, Wordpress
    <2>3. ItemAt(n)'
      <3>1. account[n] # None /\ account[n].site # d => row'[account[n].site] = row[account[n].site]
        BY <1>2, <1>3, <1>8 DEF Elsewhere
      <3> QED  BY <1>7, <1>8, <2>2, <3>1 DEF ItemAt, Wordpress
    <2> QED  BY <1>2, <1>3, <1>4, <1>9, <2>1, <2>2, <2>3, LifeGoesOn DEF InOrder
  <1>10. CASE Rewrite(c)
    <2>1. (Is(c, "install") \/ Is(c, "owner")) /\ req[c].step = "rewrite"
      BY <1>2, <1>10, Here DEF SteadyAt, Is, Kinds, CreateSteps, DeleteSteps, Rewrite, At
    <2>2. UNCHANGED row
      BY <1>10 DEF Rewrite
    <2>3. \/ Over(c)
          \/ Is(c, "install") /\ (Onward(c, "mark") \/ Onward(c, "drop"))
          \/ Is(c, "owner") /\ Onward(c, "assign")
      BY <1>2, <1>10, <2>1, Goes, Ends DEF Rewrite, GiveUp, Steps, Is
    <2>4. InOrder(c)'
      BY <1>2, <2>1, <2>2, <2>3, OverInOrder
         DEF InOrder, SteadyAt, RowThere, VhostGone, Is, Onward, SameRequest, InstallSteps, OwnerSteps
    <2> QED  BY <1>6, <2>2, <2>4
  <1>11. CASE Mark(c)
    <2>1. Is(c, "install") /\ req[c].step = "mark"
      BY <1>2, <1>11, Here DEF SteadyAt, Is, Kinds, CreateSteps, OwnerSteps, DeleteSteps, Mark, At
    <2> DEFINE new == [row[d] EXCEPT !.app = "wordpress"]
    <2>2. new \in Site /\ new.owner = row[d].owner /\ new.app = "wordpress"
      BY <1>6 DEF Site, Apps
    <2>3. (row' = row /\ Over(c)) \/ (row' = [row EXCEPT ![d] = new] /\ Onward(c, "account"))
      BY <1>2, <1>3, <1>11, Goes, Ends DEF Mark, Steps
    <2>4. new # None
      BY <2>2, NoneIsNone
    <2> HIDE DEF new
    <2>5. (row' = row /\ Over(c)) \/ (row'[d] = new /\ Onward(c, "account"))
      BY <1>2, <2>3 DEF TypeOK
    <2>6. InOrder(c)'
      BY <1>2, <1>3, <2>1, <2>2, <2>4, <2>5, OverInOrder
         DEF InOrder, SteadyAt, RowThere, VhostGone, Is, Onward, SameRequest, InstallSteps
    <2> QED  BY <1>6, <2>2, <2>4, <2>5, <2>6
  <1>12. CASE Assign(c)
    <2>1. Is(c, "owner") /\ req[c].step = "assign" /\ Over(c)
      BY <1>2, <1>12, Here, Ends DEF SteadyAt, Is, Kinds, CreateSteps, InstallSteps, DeleteSteps,
                                     Assign, At
    <2> DEFINE new == [row[d] EXCEPT !.owner = o]
    <2>2. new \in Site /\ new.app = row[d].app
      BY <1>6 DEF Site
    <2>3. row' = row \/ row' = [row EXCEPT ![d] = new]
      BY <1>3, <1>5, <1>12 DEF Assign
    <2>4. new # None
      BY <2>2, NoneIsNone
    <2> HIDE DEF new
    <2>5. row'[d] \in {row[d], new}
      BY <1>2, <2>3 DEF TypeOK
    <2> QED  BY <1>6, <2>1, <2>2, <2>4, <2>5, OverInOrder DEF Is
  <1>13. CASE Unvhost(c)
    <2>1. Is(c, "delete") /\ req[c].step = "unvhost" /\ UNCHANGED row
      BY <1>2, <1>13, Here DEF SteadyAt, Is, Kinds, CreateSteps, InstallSteps, OwnerSteps,
                               Unvhost, At
    <2>2. AfterVhost(c) \in {"files", "unaccount", "unrow"}
          /\ (AfterVhost(c) = "unaccount" => req[c].item)
      BY DEF AfterVhost, AfterFiles
    <2>3. Over(c) \/ (Onward(c, AfterVhost(c)) /\ (vhost'[d] = None \/ d \in stuck'))
      BY <1>2, <1>3, <1>13, <2>2, Goes, Ends DEF Unvhost, Sticks, Steps, TypeOK
    <2>4. InOrder(c)'
      BY <1>2, <1>3, <2>1, <2>2, <2>3, OverInOrder
         DEF InOrder, SteadyAt, RowThere, VhostGone, Is, Onward, SameRequest, DeleteSteps
    <2> QED  BY <1>6, <2>1, <2>4
  <1> QED  BY <1>10, <1>11, <1>12, <1>13

LEMMA LifeWorks == ASSUME LifeInv, NEW c \in Clients, Works(c)
                   PROVE  LifeInv'
  BY Readies, Removals, Creations, Entries, Changes DEF Works

-----------------------------------------------------------------------------
(* Requests come in, and the panel stops.                                   *)

Asks(c) == AskCreate(c) \/ AskInstall(c) \/ AskOwner(c) \/ AskDelete(c)

\* A request r about the site d that comes to a client which has none.
Comes(c, d, r) ==
  /\ req[c] = None /\ r \in Request /\ r # None /\ r.site = d
  /\ req'[c] = r /\ Kept(c)
  /\ \A b \in Clients \ {c} : On(b, d) => req[b].kind = r.kind /\ r.kind \in Beside
  /\ TypeOK' /\ UNCHANGED <<row, account, disk, stuck>>

ComesToCreate(d, r) ==
  /\ r.kind = "create" /\ r.step = "ensure" /\ (r.secret # 0 <=> r.app = "wordpress")
  /\ Free(d) /\ marred' = marred \ {d}

ComesToInstall(d, r) ==
  /\ r.kind = "install" /\ r.step = "base" /\ r.secret # 0 /\ r.owner = row[d].owner
  /\ row[d] # None /\ (row[d].app = "php" \/ Bare) /\ UNCHANGED marred

ComesToOwn(d, r) ==
  /\ r.kind = "owner" /\ r.step = "move" /\ r.secret = 0 /\ r.app = row[d].app
  /\ r.from = row[d].owner /\ r.owner # r.from
  /\ row[d] # None /\ UNCHANGED marred

ComesToDelete(d, r) ==
  /\ r.kind = "delete" /\ r.step \in {"unbase", "unvhost"} /\ r.secret = 0
  /\ r.item => HasItem(d)
  /\ r.step = "unbase" => r.item
  /\ row[d] # None /\ marred' = marred \cup {d}

LEMMA Comings ==
  ASSUME TypeOK, NEW c \in Clients, Asks(c)
  PROVE  \E d \in Domains, r \in Request :
           /\ Comes(c, d, r)
           /\ \/ ComesToCreate(d, r) \/ ComesToInstall(d, r)
              \/ ComesToOwn(d, r) \/ ComesToDelete(d, r)
  <1> USE DEF disk
  <1>1. ASSUME NEW d \in Domains, NEW r \in Request, Ask(c, r), r.site = d,
               marred' \in SUBSET Domains
        PROVE  Comes(c, d, r)
    <2>1. r # None /\ asks' \in Secrets
      BY <1>1, NoneIsNone, ConstantsAssumption DEF Ask, TypeOK, Secrets
    <2>2. req' = [req EXCEPT ![c] = r]
      BY <1>1 DEF Ask
    <2>3. ReqType' /\ Kept(c) /\ req'[c] = r
      BY <2>2 DEF TypeOK, ReqType, Kept
    <2> QED  BY <1>1, <2>1, <2>3 DEF Ask, Comes, On, TypeOK, ReqType
  <1>2. asks < MaxAsks => asks + 1 \in Secrets /\ asks + 1 # 0
    BY ConstantsAssumption DEF TypeOK, Secrets
  <1>3. 0 \in Secrets
    BY ConstantsAssumption DEF Secrets
  <1>4. marred \in SUBSET Domains
    BY DEF TypeOK
  <1>5. \A d \in Domains : row[d] # None =>
          row[d].owner \in Owners /\ row[d].app \in Apps
    BY DEF TypeOK, Site
  <1>6. CASE AskCreate(c)
    <2>1. PICK d \in Domains, o \in Owners, a \in Apps :
            /\ Free(d) /\ marred' = marred \ {d}
            /\ Ask(c, [kind |-> "create", site |-> d, step |-> "ensure", app |-> a,
                       secret |-> IF a = "wordpress" THEN asks + 1 ELSE 0, from |-> o,
                       owner |-> o, files |-> FALSE, data |-> FALSE, item |-> FALSE])
      BY <1>6 DEF AskCreate
    <2> DEFINE k == IF a = "wordpress" THEN asks + 1 ELSE 0
               r == [kind |-> "create", site |-> d, step |-> "ensure", app |-> a,
                     secret |-> k, from |-> o, owner |-> o, files |-> FALSE, data |-> FALSE,
                     item |-> FALSE]
    <2>2. k \in Secrets /\ (k # 0 <=> a = "wordpress")
      BY <1>2, <1>3, <2>1 DEF Ask
    <2>3. Ask(c, r)
      BY <2>1
    <2> HIDE DEF k
    <2>4. r \in Request
      BY <2>2 DEF Request, Kinds, Steps
    <2>5. Comes(c, d, r)
      BY <1>1, <1>4, <2>1, <2>3, <2>4
    <2>6. ComesToCreate(d, r)
      BY <2>1, <2>2 DEF ComesToCreate
    <2> QED  BY <2>4, <2>5, <2>6
  <1>7. CASE AskInstall(c)
    <2>1. PICK d \in Domains :
            /\ row[d] # None /\ (row[d].app = "php" \/ Bare) /\ UNCHANGED marred
            /\ AskAbout(c, d, "install", "base", row[d].owner, asks + 1, FALSE, FALSE, FALSE)
      BY <1>7 DEF AskInstall
    <2> DEFINE r == [kind |-> "install", site |-> d, step |-> "base", app |-> row[d].app,
                     secret |-> asks + 1, from |-> row[d].owner, owner |-> row[d].owner,
                     files |-> FALSE, data |-> FALSE, item |-> FALSE]
    <2>2. Ask(c, r)
      BY <2>1 DEF AskAbout
    <2>3. asks + 1 \in Secrets /\ asks + 1 # 0
      BY <1>2, <2>2 DEF Ask
    <2>4. r \in Request
      BY <1>5, <2>1, <2>3 DEF Request, Kinds, Steps
    <2>5. Comes(c, d, r)
      BY <1>1, <1>4, <2>1, <2>2, <2>4
    <2>6. ComesToInstall(d, r)
      BY <2>1, <2>3 DEF ComesToInstall
    <2> QED  BY <2>4, <2>5, <2>6
  <1>8. CASE AskOwner(c)
    <2>1. PICK d \in Domains, o \in Owners :
            /\ row[d] # None /\ o # row[d].owner /\ UNCHANGED marred
            /\ AskAbout(c, d, "owner", "move", o, 0, FALSE, FALSE, FALSE)
      BY <1>8 DEF AskOwner
    <2> DEFINE r == [kind |-> "owner", site |-> d, step |-> "move", app |-> row[d].app,
                     secret |-> 0, from |-> row[d].owner, owner |-> o,
                     files |-> FALSE, data |-> FALSE, item |-> FALSE]
    <2>2. Ask(c, r)
      BY <2>1 DEF AskAbout
    <2>3. r \in Request
      BY <1>3, <1>5, <2>1 DEF Request, Kinds, Steps
    <2>4. Comes(c, d, r)
      BY <1>1, <1>4, <2>1, <2>2, <2>3
    <2>5. ComesToOwn(d, r)
      BY <2>1 DEF ComesToOwn
    <2> QED  BY <2>3, <2>4, <2>5
  <1>9. CASE AskDelete(c)
    <2>1. PICK d \in Domains, files \in BOOLEAN, data \in BOOLEAN, item \in BOOLEAN :
            /\ row[d] # None /\ (item => HasItem(d)) /\ marred' = marred \cup {d}
            /\ AskAbout(c, d, "delete", IF data /\ item THEN "unbase" ELSE "unvhost",
                        row[d].owner, 0, files, data, item)
      BY <1>9 DEF AskDelete
    <2> DEFINE s == IF data /\ item THEN "unbase" ELSE "unvhost"
               r == [kind |-> "delete", site |-> d, step |-> s, app |-> row[d].app,
                     secret |-> 0, from |-> row[d].owner, owner |-> row[d].owner,
                     files |-> files, data |-> data, item |-> item]
    <2>2. Ask(c, r)
      BY <2>1 DEF AskAbout
    <2>3. s \in {"unbase", "unvhost"} /\ (s = "unbase" => item)
      OBVIOUS
    <2> HIDE DEF s
    <2>4. r \in Request
      BY <1>3, <1>5, <2>1, <2>3 DEF Request, Kinds, Steps
    <2>5. Comes(c, d, r)
      BY <1>1, <1>4, <2>1, <2>2, <2>4
    <2>6. ComesToDelete(d, r)
      BY <2>1, <2>3 DEF ComesToDelete
    <2> QED  BY <2>4, <2>5, <2>6
  <1> QED  BY <1>6, <1>7, <1>8, <1>9 DEF Asks

LEMMA LifeAsks == ASSUME OneByOne, LifeInv, NEW c \in Clients, Asks(c)
                  PROVE  LifeInv'
  <1> USE DEF disk
  <1>1. PICK d \in Domains, r \in Request :
          /\ Comes(c, d, r)
          /\ \/ ComesToCreate(d, r) \/ ComesToInstall(d, r)
             \/ ComesToOwn(d, r) \/ ComesToDelete(d, r)
    BY Comings DEF LifeInv
  <1>2. /\ req[c] = None /\ req'[c] = r /\ r # None /\ r.site = d
        /\ \A b \in Clients \ {c} : req'[b] = req[b]
        /\ UNCHANGED <<row, vhost, account, stuck>> /\ TypeOK'
    BY <1>1 DEF Comes, Kept
  <1>3. \A b \in Clients \ {c} : On(b, d) => Is(b, "install") /\ r.kind = "install"
    BY <1>1 DEF Comes, OneByOne, On, Is
  <1>4. Steady'
    <2>1. SteadyAt(c)'
      BY <1>1, <1>2 DEF SteadyAt, Is, ComesToCreate, ComesToInstall, ComesToOwn, ComesToDelete,
                        CreateSteps, InstallSteps, OwnerSteps, DeleteSteps
    <2> QED  BY <1>2, <2>1 DEF LifeInv, Steady, SteadyAt, Is
  <1>5. Together'
    BY <1>2, <1>3 DEF LifeInv, Together, On, Is
  <1>6. RowsThere'
    <2>1. RowThere(c)'
      <3>1. CASE ComesToCreate(d, r)
        BY <1>2, <3>1 DEF RowThere, ComesToCreate, Free
      <3>2. CASE ComesToInstall(d, r)
        BY <1>2, <3>2 DEF RowThere, ComesToInstall
      <3>3. CASE ComesToOwn(d, r)
        BY <1>2, <3>3 DEF RowThere, ComesToOwn
      <3>4. CASE ComesToDelete(d, r)
        <4>1. r.item => Wordpress(d)
          BY <3>4, ConstantsAssumption DEF ComesToDelete, HasItem, LifeInv, Items, ItemAt
        <4> QED  BY <1>2, <3>4, <4>1 DEF RowThere, ComesToDelete, Wordpress
      <3> QED  BY <1>1, <3>1, <3>2, <3>3, <3>4
    <2> SUFFICES ASSUME NEW b \in Clients \ {c}, req[b] # None
                 PROVE  RowThere(b)'
      BY <1>2, <2>1 DEF RowsThere, RowThere
    <2>2. RowThere(b) /\ (req[b].site \in marred /\ req[b].kind = "delete" => req[b].site \in marred')
      BY <1>1, <1>3 DEF LifeInv, RowsThere, On, Is,
                        ComesToCreate, ComesToInstall, ComesToOwn, ComesToDelete
    <2> QED  BY <1>2, <2>2 DEF RowThere
  <1>7. VhostsLeft'
    BY <1>2 DEF LifeInv, VhostsLeft, VhostLeft, Is
  <1>8. VhostsGone'
    <2>1. VhostGone(c)'
      BY <1>1, <1>2 DEF VhostGone, Is, ComesToCreate, ComesToInstall, ComesToOwn, ComesToDelete
    <2> QED  BY <1>2, <2>1 DEF LifeInv, VhostsGone, VhostGone, Is
  <1>9. Items'
    BY <1>2 DEF LifeInv, Items, ItemAt, Wordpress
  <1> QED  BY <1>2, <1>4, <1>5, <1>6, <1>7, <1>8, <1>9 DEF LifeInv

LEMMA LifeStops == ASSUME LifeInv, PanelStops
                   PROVE  LifeInv'
  <1> USE DEF disk
  <1>1. /\ \A c \in Clients : req'[c] = None
        /\ UNCHANGED <<row, vhost, account>>
    BY DEF PanelStops
  <1>2. TypeOK'
    BY ConstantsAssumption DEF LifeInv, TypeOK, PanelStops
  <1>3. Steady' /\ Together' /\ RowsThere' /\ VhostsGone'
    BY <1>1 DEF Steady, SteadyAt, Is, Together, RowsThere, RowThere, VhostsGone, VhostGone
  <1>4. VhostsLeft'
    <2> SUFFICES ASSUME NEW d \in Domains, row[d] = None, vhost[d] # None
                 PROVE  d \in stuck'
      BY <1>1 DEF VhostsLeft, VhostLeft
    <2>1. d \in stuck \/ Busy(d)
      BY DEF LifeInv, VhostsLeft, VhostLeft, Busy, Is
    <2> QED  BY <2>1 DEF PanelStops
  <1>5. Items'
    BY <1>1 DEF LifeInv, Items, ItemAt, Wordpress
  <1> QED  BY <1>2, <1>3, <1>4, <1>5 DEF LifeInv

LEMMA LifeStarts == Init => LifeInv
  <1> SUFFICES ASSUME Init PROVE LifeInv
    OBVIOUS
  <1>1. TypeOK
    BY ConstantsAssumption DEF Init, TypeOK, Secrets
  <1>2. /\ \A c \in Clients : req[c] = None
        /\ \A d \in Domains : vhost[d] = None
        /\ \A n \in Names : account[n] = None
    BY DEF Init
  <1> QED  BY <1>1, <1>2 DEF LifeInv, Steady, SteadyAt, Is, Together, RowsThere, RowThere,
              VhostsGone, VhostGone, VhostsLeft, VhostLeft, Items, ItemAt

LEMMA LifeStays == ASSUME OneByOne, LifeInv, [Next]_vars
                   PROVE  LifeInv'
  <1>1. CASE \E c \in Clients : Serve(c)
    BY <1>1, LifeAsks, LifeWorks DEF Serve, Asks, Works
  <1>2. CASE PanelStops
    BY <1>2, LifeStops
  <1>3. CASE UNCHANGED vars
    BY <1>3 DEF vars, disk, past, LifeInv, TypeOK, Steady, SteadyAt, Is, Together, RowsThere,
                RowThere, VhostsGone, VhostGone, VhostsLeft, VhostLeft, Items, ItemAt, Wordpress
  <1> QED  BY <1>1, <1>2, <1>3 DEF Next

LEMMA Living == ASSUME OneByOne
                PROVE  Spec => []LifeInv
  <1>1. LifeInv /\ [Next]_vars => LifeInv'
    BY LifeStays
  <1> QED  BY <1>1, LifeStarts, PTL DEF Spec

\* Types of all variables: a row that is changed in one field is there, since what overlaps
\* on one site are installations only, which remove no row (`install_wordpress_on_website`,
\* `set_wordpress_installed`).  The panel itself keeps nothing from overlapping.
THEOREM Types == OneByOne => (Spec => []TypeOK)
  <1> SUFFICES ASSUME OneByOne PROVE Spec => []TypeOK
    OBVIOUS
  <1>1. LifeInv => TypeOK
    BY DEF LifeInv
  <1> QED  BY <1>1, Living, PTL

\* What is over leaves no vhost without a row, but for what the history `stuck` names: for
\* any number of requests at work, on any sites, of which only installations overlap on one
\* site (`vhost_exists`, `build_new_site`, `delete_website`).
THEOREM NamesComeFree == OneByOne => (Spec => []NameComesFree)
  <1> SUFFICES ASSUME OneByOne PROVE Spec => []NameComesFree
    OBVIOUS
  <1>1. LifeInv => NameComesFree
    BY DEF LifeInv, VhostsLeft, VhostLeft, NameComesFree, Busy, Is
  <1> QED  BY <1>1, Living, PTL

-----------------------------------------------------------------------------
(* What is there of a site that nothing marred.                             *)

\* Sites that take one database to be theirs are marred.
Alone == \A d, e \in Domains :
  d # e /\ NameOf[d] = NameOf[e] /\ Claims(d) /\ Claims(e) => d \in marred /\ e \in marred

\* One request at a time has a site's database.
OnePastAt(c) == Past(c) /\ req[c].site \notin marred =>
  /\ \A b \in Clients \ {c} : On(b, req[c].site) => ~Past(b)
  /\ Wordpress(req[c].site) => req[c].step = "account"
  /\ req[c].step # "undo" => base[Name(c)] = req[c].secret
  /\ req[c].step \in {"vhost", "test", "row", "account", "rewrite", "mark"} =>
       tree[Root(c)] # None /\ tree[Root(c)].config = req[c].secret
OnePast == \A c \in Clients : OnePastAt(c)

Ready(c) == tree[Root(c)] # None /\ (Runs(req[c].app) => Root(c) \in pool)

\* What a request has made so far is there.
UnderwayAt(c) == req[c] # None /\ req[c].site \notin marred =>
  /\ req[c].kind = "create" =>
       /\ req[c].step \notin {"ensure", "drop", "undo"} => Ready(c)
       /\ req[c].step \in {"test", "row", "account"} => vhost[req[c].site] = req[c].owner
  /\ req[c].kind = "owner" =>
       /\ req[c].step # "move" =>
            Ready(c) /\ (req[c].app = "wordpress" => tree[Root(c)].config = base[Name(c)])
       /\ req[c].step = "assign" => vhost[req[c].site] = req[c].owner
Underway == \A c \in Clients : UnderwayAt(c)

\* A tree that is on its way to another owner.
Away(d) == \E c \in Clients : Is(c, "owner") /\ req[c].site = d /\ req[c].step # "move"

AtAccount(d) == \E c \in Clients : On(c, d) /\ req[c].step = "account"

\* What is there of a site that nothing marred.
WholeAt(d) == row[d] # None /\ d \notin marred =>
  /\ ~Away(d) => Served(d)
  /\ Wordpress(d) =>
       /\ base[NameOf[d]] # 0
       /\ ~Away(d) => tree[<<d, row[d].owner>>].config = base[NameOf[d]]
       /\ account[NameOf[d]] = [site |-> d, secret |-> base[NameOf[d]]] \/ AtAccount(d)
Whole == \A d \in Domains : WholeAt(d)

WholeInv == Alone /\ OnePast /\ Underway /\ Whole

LEMMA ClaimsIs == ASSUME NEW d \in Domains
                  PROVE  Claims(d) <=> Wordpress(d) \/ \E c \in Clients : Past(c) /\ On(c, d)
  BY DEF Claims, Wordpress, Past, On

LEMMA ClaimsLater == ASSUME NEW d \in Domains
                     PROVE  Claims(d)' <=> (Wordpress(d) \/ \E c \in Clients : Past(c) /\ On(c, d))'
  BY DEF Claims, Wordpress, Past, On

LEMMA PastClaims == ASSUME TypeOK, NEW c \in Clients, Past(c)
                    PROVE  Claims(req[c].site)
  BY Here, ClaimsIs DEF Past, On

\* The sites other than d that take the database n to be theirs are marred.
OthersMarred(d, n) == \A e \in Domains \ {d} : NameOf[e] = n /\ Claims(e) => e \in marred'

\* A step of a request that leaves its own site in order leaves all in order.
LEMMA WholeGoesOn ==
  ASSUME LifeInv, LifeInv', WholeInv, NEW c \in Clients, req[c] # None, Framed(c),
         NEW d \in Domains, d = req[c].site, NEW n \in Names, n = Name(c),
         UNCHANGED <<base, account>> \/ OthersMarred(d, n),
         Claims(d)' => Claims(d) \/ \A e \in Domains \ {d} :
           NameOf[e] = n /\ Claims(e) => d \in marred' /\ e \in marred',
         OnePastAt(c)', UnderwayAt(c)', WholeAt(d)',
         \A b \in Clients \ {c} : On(b, d) => OnePastAt(b)'
  PROVE  WholeInv'
  <1> USE DEF Framed, Elsewhere
  <1>1. /\ TypeOK /\ \A b \in Clients \ {c} : req'[b] = req[b]
        /\ req'[c] # None => req'[c].site = d
        /\ n = NameOf[d] /\ marred \subseteq marred'
    BY DEF LifeInv, Proceeds, Kept, SameRequest, Name
  <1>2. ASSUME NEW e \in Domains \ {d}
        PROVE  /\ row'[e] = row[e] /\ vhost'[e] = vhost[e]
               /\ Claims(e)' <=> Claims(e)
               /\ Claims(e) /\ e \notin marred' =>
                    base'[NameOf[e]] = base[NameOf[e]] /\ account'[NameOf[e]] = account[NameOf[e]]
    <2>1. row'[e] = row[e] /\ vhost'[e] = vhost[e]
      OBVIOUS
    <2>2. \A b \in Clients : (Past(b) /\ On(b, e))' <=> (Past(b) /\ On(b, e))
      BY <1>1 DEF Past, On
    <2>3. Claims(e)' <=> Claims(e)
      BY <2>1, <2>2, ClaimsIs, ClaimsLater DEF Wordpress
    <2>4. NameOf[e] \in Names
      BY ConstantsAssumption
    <2> QED  BY <2>1, <2>3, <2>4 DEF OthersMarred
  <1>3. Alone'
    <2> SUFFICES ASSUME NEW x \in Domains, NEW y \in Domains, x # y, NameOf[x] = NameOf[y],
                        Claims(x)', Claims(y)'
                 PROVE  x \in marred' /\ y \in marred'
      BY DEF Alone
    <2>1. CASE x # d /\ y # d
      BY <1>1, <1>2, <2>1 DEF WholeInv, Alone
    <2>2. CASE x = d
      BY <1>1, <1>2, <2>2 DEF WholeInv, Alone, OthersMarred
    <2>3. CASE y = d
      BY <1>1, <1>2, <2>3 DEF WholeInv, Alone, OthersMarred
    <2> QED  BY <2>1, <2>2, <2>3
  <1>4. OnePast'
    <2> SUFFICES ASSUME NEW b \in Clients \ {c}, req[b] # None, req[b].site # d
                 PROVE  OnePastAt(b)'
      BY <1>1 DEF OnePast, OnePastAt, On, Past
    <2>1. PICK e \in Domains : e = req[b].site
      BY <1>1, Here
    <2>2. PICK o \in Owners : o = req[b].owner
      BY <1>1, Here
    <2>3. SUFFICES ASSUME Past(b), e \notin marred'
                   PROVE  OnePastAt(b)'
      BY <1>1, <2>1 DEF OnePastAt, Past
    <2>4. Claims(e) /\ OnePastAt(b) /\ e \notin marred
      BY <1>1, <2>1, <2>3, PastClaims DEF WholeInv, OnePast
    <2>5. base'[NameOf[e]] = base[NameOf[e]] /\ row'[e] = row[e]
      BY <1>2, <2>1, <2>3, <2>4
    <2>6. tree'[<<e, o>>] = tree[<<e, o>>]
      BY <2>1
    <2> QED  BY <1>1, <2>1, <2>2, <2>3, <2>4, <2>5, <2>6
             DEF OnePastAt, Past, On, Wordpress, Name, Root
  <1>5. Underway'
    <2> SUFFICES ASSUME NEW b \in Clients \ {c}, req[b] # None
                 PROVE  UnderwayAt(b)'
      BY <1>1 DEF Underway, UnderwayAt
    <2>1. CASE req[b].site = d
      <3>1. Is(b, "install")
        BY <2>1, OthersInstall DEF On
      <3> QED  BY <1>1, <3>1 DEF UnderwayAt, Is
    <2>2. CASE req[b].site # d
      <3>1. PICK e \in Domains : e = req[b].site
        BY <1>1, Here
      <3>2. PICK o \in Owners : o = req[b].owner
        BY <1>1, Here
      <3>3. UnderwayAt(b) /\ RowThere(b)
        BY DEF WholeInv, Underway, LifeInv, RowsThere
      <3>4. tree'[<<e, o>>] = tree[<<e, o>>] /\ (<<e, o>> \in pool' <=> <<e, o>> \in pool)
        BY <2>2, <3>1
      <3>5. vhost'[e] = vhost[e]
        BY <2>2, <3>1
      <3>6. req[b].kind = "owner" /\ req[b].app = "wordpress" /\ e \notin marred' =>
              base'[NameOf[e]] = base[NameOf[e]]
        BY <1>2, <2>2, <3>1, <3>3, ClaimsIs DEF RowThere, Wordpress
      <3> QED  BY <1>1, <3>1, <3>2, <3>3, <3>4, <3>5, <3>6 DEF UnderwayAt, Ready, Root, Name
    <2> QED  BY <2>1, <2>2
  <1>6. Whole'
    <2> SUFFICES ASSUME NEW e \in Domains \ {d}, row[e] # None, e \notin marred'
                 PROVE  WholeAt(e)'
      BY <1>2 DEF Whole, WholeAt
    <2>1. WholeAt(e) /\ e \notin marred
      BY <1>1 DEF WholeInv, Whole
    <2>2. PICK o \in Owners : o = row[e].owner
      BY <1>1 DEF TypeOK, Site
    <2>3. tree'[<<e, o>>] = tree[<<e, o>>] /\ (<<e, o>> \in pool' <=> <<e, o>> \in pool)
      OBVIOUS
    <2>4. row'[e] = row[e] /\ vhost'[e] = vhost[e]
      BY <1>2
    <2>5. Wordpress(e) =>
            base'[NameOf[e]] = base[NameOf[e]] /\ account'[NameOf[e]] = account[NameOf[e]]
      BY <1>2, ClaimsIs
    <2>6. Away(e)' <=> Away(e)
      BY <1>1 DEF Away, Is
    <2>7. AtAccount(e)' <=> AtAccount(e)
      BY <1>1 DEF AtAccount, On
    <2>8. Served(e)' <=> Served(e)
      BY <2>2, <2>3, <2>4 DEF Served
    <2> QED  BY <2>1, <2>2, <2>3, <2>4, <2>5, <2>6, <2>7, <2>8 DEF WholeAt, Wordpress
  <1> QED  BY <1>3, <1>4, <1>5, <1>6 DEF WholeInv

\* What a request and its site owe to each other.
Local(c, d) == OnePastAt(c) /\ UnderwayAt(c) /\ WholeAt(d)

LEMMA MarredIsLocal ==
  ASSUME NEW c \in Clients, Proceeds(c), NEW d \in Domains, d = req[c].site, d \in marred'
  PROVE  Local(c, d)'
  BY DEF Proceeds, SameRequest, Local, OnePastAt, UnderwayAt, WholeAt, Past

\* A step, other than the first, of what a request does with its database.
LEMMA WholeStep ==
  ASSUME LifeInv, WholeInv, NEW c \in Clients, Works(c), req[c].step # "base",
         NEW d \in Domains, d = req[c].site,
         UNCHANGED <<base, account>> \/ Claims(d),
         Past(c)' => Past(c), Wordpress(d)' => Claims(d),
         Local(c, d)'
  PROVE  WholeInv'
  <1>1. /\ LifeInv' /\ req[c] # None /\ Framed(c) /\ SteadyAt(c) /\ TypeOK
        /\ Kept(c) /\ Proceeds(c) /\ marred \subseteq marred'
    BY LifeWorks, LifeFramed DEF LifeInv, Framed, Proceeds, Elsewhere
  <1>2. PICK n \in Names : n = Name(c)
    BY <1>1, Here
  <1>3. n = NameOf[d]
    BY <1>2 DEF Name
  <1>4. Claims(d) => OthersMarred(d, n)
    BY <1>1, <1>3 DEF WholeInv, Alone, OthersMarred
  <1>5. Claims(d)' => Claims(d)
    <2>1. \A b \in Clients : (Past(b) /\ On(b, d))' => (Past(b) /\ On(b, d))
      BY <1>1 DEF Proceeds, Kept, SameRequest, Past, On
    <2> QED  BY <2>1, ClaimsIs, ClaimsLater
  <1>6. ASSUME NEW b \in Clients \ {c}, On(b, d)
        PROVE  OnePastAt(b)'
    <2>1. Is(c, "install")
      BY <1>1, <1>6, OthersInstall
    <2>2. Past(c)
      BY <1>1, <2>1 DEF SteadyAt, Past, Is, InstallSteps
    <2>3. d \notin marred => ~Past(b)
      BY <1>6, <2>2 DEF WholeInv, OnePast, OnePastAt
    <2> QED  BY <1>1, <1>6, <2>3 DEF OnePastAt, Past, Kept, On
  <1> QED  BY <1>1, <1>2, <1>4, <1>5, <1>6, WholeGoesOn DEF Local

LEMMA WholeCreations ==
  ASSUME LifeInv, WholeInv, NEW c \in Clients,
         Ensure(c) \/ Page(c) \/ Undo(c) \/ Vhost(c) \/ Test(c) \/ Row(c)
  PROVE  WholeInv'
  <1> USE DEF disk, past
  <1>1. Works(c)
    BY DEF Works
  <1>2. /\ req[c] # None /\ SteadyAt(c) /\ RowThere(c) /\ TypeOK /\ Framed(c) /\ Proceeds(c)
        /\ req[c] \in Request
    BY <1>1, LifeFramed, Here DEF LifeInv, Framed
  <1>3. PICK d \in Domains : d = req[c].site
    BY <1>2, Here
  <1>4. PICK o \in Owners : o = req[c].owner
    BY <1>2, Here
  <1>5. Root(c) = <<d, o>> /\ <<d, o>> \in Roots /\ Name(c) = NameOf[d]
    BY <1>3, <1>4 DEF Root, Roots, Name
  <1>6. /\ Is(c, "create") /\ row[d] = None
        /\ req[c].step \in {"ensure", "page", "undo", "vhost", "test", "row"}
    BY <1>2, <1>3, Here DEF SteadyAt, RowThere, Is, Kinds, InstallSteps, OwnerSteps, DeleteSteps,
                            Ensure, Page, Undo, Vhost, Test, Row, At
  <1>7. OnePastAt(c) /\ UnderwayAt(c) /\ WholeAt(d)
    BY DEF WholeInv, OnePast, Underway, Whole
  <1>8. UNCHANGED <<base, account>> /\ marred' = marred
    BY DEF Ensure, Page, Undo, Vhost, Test, Row
  <1>9. \A b \in Clients \ {c} : ~On(b, d) /\ ~On(b, d)'
    BY <1>2, <1>3, <1>6, OthersInstall DEF Is, Proceeds, Kept, On
  <1>10. SUFFICES (Past(c)' => Past(c)) /\ (Wordpress(d)' => Claims(d)) /\ Local(c, d)'
    BY <1>1, <1>3, <1>6, <1>8, WholeStep
  <1>11. CASE Over(c) /\ UNCHANGED row
    BY <1>6, <1>11 DEF Over, Local, OnePastAt, UnderwayAt, WholeAt, Past, Wordpress
  <1>12. CASE d \in marred /\ UNCHANGED row /\ (Past(c)' => Past(c))
    BY <1>2, <1>3, <1>6, <1>8, <1>12, MarredIsLocal DEF Wordpress
  <1>13. CASE Ensure(c)
    <2>1. Over(c) \/ Onward(c, Build(c))
      BY <1>2, <1>13, Goes, Ends DEF Ensure, Build, Steps
    <2>2. SUFFICES ASSUME Onward(c, Build(c))
                   PROVE  (Past(c)' => Past(c)) /\ (d \notin marred => Local(c, d)')
      <3>1. UNCHANGED row
        BY <1>13 DEF Ensure
      <3>2. CASE Over(c)
        BY <1>11, <3>1, <3>2
      <3>3. CASE Onward(c, Build(c))
        BY <1>12, <2>2, <3>1, <3>3, <1>6 DEF Wordpress
      <3> QED  BY <2>1, <3>2, <3>3
    <2>3. ~Past(c)'
      BY <1>2, <1>6, <2>2 DEF Past, Onward, SameRequest, Build, SteadyAt
    <2>4. WholeAt(d)'
      BY <1>6, <1>13 DEF Ensure, WholeAt
    <2>5. tree'[<<d, o>>] # None /\ (Runs(req[c].app) => <<d, o>> \in pool')
      <3>1. req'[c] # None
        BY <2>2 DEF Onward, SameRequest
      <3>2. ~End(c)
        BY <3>1, <1>2 DEF End, TypeOK
      <3>3. /\ tree' = IF tree[<<d, o>>] = None THEN [tree EXCEPT ![<<d, o>>] = [config |-> 0]] ELSE tree
            /\ Runs(req[c].app) => pool' = pool \cup {<<d, o>>}
        BY <1>5, <1>13, <3>2 DEF Ensure
      <3>4. [config |-> 0] # None
        BY NoneIsNone, ConstantsAssumption DEF Tree, Secrets
      <3>5. tree'[<<d, o>>] # None
        BY <1>2, <1>5, <3>3, <3>4 DEF TypeOK
      <3> QED  BY <3>3, <3>5
    <2>6. UnderwayAt(c)'
      BY <1>3, <1>4, <1>6, <2>2, <2>5 DEF UnderwayAt, Ready, Root, Onward, SameRequest, Build, Is
    <2>7. OnePastAt(c)'
      BY <2>3 DEF OnePastAt
    <2> QED  BY <2>3, <2>4, <2>6, <2>7 DEF Local
  <1>14. CASE Page(c) \/ Vhost(c) \/ Test(c)
    <2>1. PICK s \in {"vhost", "undo", "drop", "test", "row"} :
            /\ Onward(c, s)
            /\ s = "vhost" => Page(c)
            /\ s = "test" => Vhost(c) /\ vhost'[d] = req[c].owner
            /\ s = "row" => Test(c) /\ vhost'[d] = vhost[d]
            /\ s = "drop" => req[c].app = "wordpress"
      <3>1. CASE Page(c)
        BY <1>2, <3>1, Goes DEF Page, Steps
      <3>2. CASE Vhost(c)
        BY <1>2, <1>3, <3>2, Goes DEF Vhost, Fails, Steps, TypeOK
      <3>3. CASE Test(c)
        BY <1>2, <1>3, <3>3, Goes DEF Test, Fails, Steps
      <3> QED  BY <1>14, <3>1, <3>2, <3>3
    <2>2. UNCHANGED <<row, tree, pool>> /\ req[c].step \in {"page", "vhost", "test"}
      BY <1>14 DEF Page, Vhost, Test, At
    <2>3. (Page(c) => req[c].step = "page") /\ (Vhost(c) => req[c].step = "vhost")
          /\ (Test(c) => req[c].step = "test")
      BY DEF Page, Vhost, Test, At
    <2>4. Past(c)' => Past(c)
      BY <1>2, <2>1, <2>2 DEF Past, Onward, SameRequest
    <2>5. SUFFICES ASSUME d \notin marred
                   PROVE  Local(c, d)'
      BY <1>12, <2>2, <2>4, <1>6 DEF Wordpress
    <2>6. WholeAt(d)'
      BY <1>6, <2>2 DEF WholeAt
    <2>7. OnePastAt(c)'
      BY <1>2, <1>3, <1>4, <1>5, <1>6, <1>7, <1>8, <1>9, <2>1, <2>2, <2>3, <2>4, <2>5
         DEF OnePastAt, Past, On, Wordpress, Onward, SameRequest, Name, Root, SteadyAt, Is
    <2>8. UnderwayAt(c)'
      BY <1>3, <1>4, <1>5, <1>6, <1>7, <1>8, <2>1, <2>2, <2>3, <2>5
         DEF UnderwayAt, Ready, Root, Onward, SameRequest, Is
    <2> QED  BY <2>6, <2>7, <2>8 DEF Local
  <1>15. CASE Undo(c)
    BY <1>2, <1>11, <1>15, Ends DEF Undo
  <1>16. CASE Row(c)
    <2> DEFINE new == [owner |-> req[c].owner, app |-> req[c].app]
    <2>1. \/ UNCHANGED row /\ Over(c)
          \/ /\ row' = [row EXCEPT ![d] = new]
             /\ \/ Over(c) /\ req[c].app # "wordpress"
                \/ req[c].app = "wordpress" /\ Onward(c, "account")
      BY <1>2, <1>3, <1>16, Goes, Ends DEF Row, Steps
    <2>2. new \in Site /\ new.owner = o /\ new.app = req[c].app
      BY <1>2, <1>4 DEF Request, Site
    <2>3. new # None
      BY <2>2, NoneIsNone
    <2> HIDE DEF new
    <2>4. SUFFICES ASSUME row'[d] = new,
                          \/ Over(c) /\ req[c].app # "wordpress"
                          \/ req[c].app = "wordpress" /\ Onward(c, "account")
                   PROVE  (Past(c)' => Past(c)) /\ (Wordpress(d)' => Claims(d)) /\ Local(c, d)'
      BY <1>2, <1>11, <2>1 DEF TypeOK
    <2>5. UNCHANGED <<tree, pool, vhost>> /\ req[c].step = "row"
      BY <1>16 DEF Row, At
    <2>6. req[c].app = "wordpress" => Past(c) /\ Onward(c, "account")
      BY <1>2, <1>6, <2>4, <2>5 DEF Past, SteadyAt
    <2>7. Past(c)' => Past(c)
      BY <2>4, <2>6 DEF Past, Over
    <2>8. Wordpress(d)' => Claims(d)
      BY <1>2, <1>3, <2>2, <2>4, <2>6, ClaimsIs DEF Wordpress, On
    <2>9. SUFFICES ASSUME d \notin marred
                   PROVE  Local(c, d)'
      BY <1>2, <1>3, <1>8, <2>7, <2>8, <2>9, MarredIsLocal
    <2>10. /\ tree[<<d, o>>] # None /\ (Runs(req[c].app) => <<d, o>> \in pool)
           /\ vhost[d] = o
           /\ Past(c) => /\ base[NameOf[d]] = req[c].secret
                         /\ tree[<<d, o>>].config = req[c].secret
      BY <1>2, <1>3, <1>4, <1>5, <1>6, <1>7, <2>5, <2>9 DEF OnePastAt, UnderwayAt, Ready, Is
    <2>11. OnePastAt(c)'
      BY <1>3, <1>4, <1>5, <1>8, <1>9, <2>4, <2>5, <2>6, <2>7, <2>10
         DEF OnePastAt, Past, On, Over, Onward, SameRequest, Name, Root
    <2>12. UnderwayAt(c)'
      BY <1>3, <1>4, <1>5, <1>6, <2>4, <2>5, <2>10
         DEF UnderwayAt, Ready, Root, Onward, SameRequest, Over, Is
    <2>13. Served(d)'
      BY <2>2, <2>4, <2>5, <2>10 DEF Served
    <2>14. Wordpress(d)' => AtAccount(d)'
      BY <1>3, <2>2, <2>4, <2>6 DEF Wordpress, AtAccount, On, Onward, SameRequest
    <2>15. Wordpress(d)' => Past(c)
      BY <2>2, <2>4, <2>6 DEF Wordpress
    <2>16. WholeAt(d)'
      BY <1>8, <2>2, <2>4, <2>5, <2>10, <2>13, <2>14, <2>15 DEF WholeAt, Past
    <2> QED  BY <2>11, <2>12, <2>16 DEF Local
  <1> QED  BY <1>13, <1>14, <1>15, <1>16

\* What a request does with the database it has set the password of.
LEMMA WholeSecrets ==
  ASSUME LifeInv, WholeInv, NEW c \in Clients, Config(c) \/ Core(c) \/ Drop(c) \/ Store(c)
  PROVE  WholeInv'
  <1> USE DEF disk, past
  <1>1. Works(c)
    BY DEF Works
  <1>2. /\ req[c] # None /\ SteadyAt(c) /\ RowThere(c) /\ TypeOK /\ Framed(c) /\ Proceeds(c)
        /\ Kept(c) /\ req[c] \in Request
    BY <1>1, LifeFramed, Here DEF LifeInv, Framed, Proceeds
  <1>3. PICK d \in Domains : d = req[c].site
    BY <1>2, Here
  <1>4. PICK o \in Owners : o = req[c].owner
    BY <1>2, Here
  <1>5. PICK k \in Secrets : k = req[c].secret
    BY <1>2, Here
  <1>6. PICK n \in Names : n = Name(c)
    BY <1>2, Here
  <1>7. Root(c) = <<d, o>> /\ <<d, o>> \in Roots /\ n = NameOf[d]
    BY <1>3, <1>4, <1>6 DEF Root, Roots, Name
  <1>8. /\ Is(c, "create") \/ Is(c, "install")
        /\ req[c].step \in {"config", "core", "drop", "account"}
        /\ Past(c) /\ k # 0
    BY <1>2, <1>5, Here DEF SteadyAt, Is, Kinds, OwnerSteps, DeleteSteps, Past,
                            Config, Core, Drop, Store, At
  <1>9. OnePastAt(c) /\ UnderwayAt(c) /\ WholeAt(d) /\ Claims(d)
    BY <1>3, <1>8, PastClaims, <1>2 DEF WholeInv, OnePast, Underway, Whole
  <1>10. UNCHANGED <<row, pool, vhost>> /\ marred \subseteq marred'
    BY <1>2 DEF Config, Core, Drop, Store, Framed, Elsewhere
  <1>11. d \notin marred => \A b \in Clients \ {c} : On(b, d) => ~Past(b) /\ ~Past(b)'
    BY <1>2, <1>3, <1>8, <1>9 DEF OnePastAt, Kept, Past, On
  <1>12. SUFFICES ASSUME d \notin marred'
                  PROVE  Local(c, d)'
    BY <1>1, <1>2, <1>3, <1>8, <1>9, <1>10, MarredIsLocal, WholeStep, ClaimsIs DEF Wordpress
  <1>13. d \notin marred
    BY <1>10, <1>12
  <1>14. Away(d)' <=> Away(d)
    BY <1>2, <1>3, <1>8 DEF Away, Is, Kept, Proceeds, SameRequest
  <1>15. row[d] # None => row[d].owner = o
    BY <1>2, <1>3, <1>4, <1>8 DEF RowThere, Is, Request, Site
  <1>16. \A b \in Clients \ {c} : On(b, d)' <=> On(b, d)
    BY <1>2 DEF Kept, On
  <1>17. CASE Config(c) \/ Core(c)
    <2>1. PICK s \in {"drop", "core", "vhost", "rewrite"} :
            /\ Onward(c, s)
            /\ s \in {"vhost", "rewrite"} => tree[<<d, o>>] # None /\ Configured(c)
            /\ tree' = tree \/ (tree[<<d, o>>] # None /\ Configured(c))
      <3>1. CASE Config(c)
        BY <1>2, <1>7, <3>1, Goes DEF Config, GiveUp, Steps
      <3>2. CASE Core(c)
        BY <1>2, <1>7, <3>2, Goes DEF Core, GiveUp, Steps
      <3> QED  BY <1>17, <3>1, <3>2
    <2>2. UNCHANGED <<base, account, marred>> /\ req[c].step \in {"config", "core"}
      BY <1>17 DEF Config, Core, At
    <2>3. ~Wordpress(d)
      BY <1>3, <1>8, <1>9, <1>13, <2>2 DEF OnePastAt
    <2> DEFINE new == [tree[<<d, o>>] EXCEPT !.config = k]
    <2>4. Configured(c) => tree' = [tree EXCEPT ![<<d, o>>] = new]
      BY <1>5, <1>7 DEF Configured
    <2>5. tree[<<d, o>>] # None => new \in Tree /\ new.config = k
      BY <1>2, <1>7 DEF TypeOK, Tree
    <2>6. tree[<<d, o>>] # None => new # None
      BY <2>5, NoneIsNone
    <2> HIDE DEF new
    <2>7. tree[<<d, o>>] # None /\ Configured(c) => tree'[<<d, o>>] # None /\ tree'[<<d, o>>].config = k
      BY <1>2, <1>7, <2>4, <2>5, <2>6 DEF TypeOK
    <2>8. tree[<<d, o>>] # None => tree'[<<d, o>>] # None
      BY <2>1, <2>7
    <2>9. Served(d) /\ row[d] # None => Served(d)'
      BY <1>10, <1>15, <2>8 DEF Served
    <2>10. WholeAt(d)'
      BY <1>9, <1>10, <1>14, <2>2, <2>3, <2>9 DEF WholeAt, Wordpress
    <2>11. OnePastAt(c)'
      BY <1>3, <1>4, <1>5, <1>6, <1>7, <1>8, <1>9, <1>10, <1>11, <1>13, <1>16,
         <2>1, <2>2, <2>3, <2>7
         DEF OnePastAt, Past, On, Wordpress, Onward, SameRequest, Name, Root
    <2>12. UnderwayAt(c)'
      BY <1>3, <1>4, <1>7, <1>8, <1>9, <1>10, <1>13, <2>1, <2>2, <2>8
         DEF UnderwayAt, Ready, Root, Onward, SameRequest, Is
    <2> QED  BY <2>10, <2>11, <2>12 DEF Local
  <1>18. CASE Drop(c)
    <2>1. Over(c) \/ Onward(c, "undo")
      BY <1>2, <1>18, Goes, Ends DEF Drop, Steps
    <2>2. UNCHANGED <<tree, account, marred>> /\ req[c].step = "drop"
      BY <1>18 DEF Drop, At
    <2>3. ~Wordpress(d)
      BY <1>3, <1>8, <1>9, <1>13, <2>2 DEF OnePastAt
    <2>4. WholeAt(d)'
      BY <1>9, <1>10, <1>14, <2>2, <2>3 DEF WholeAt, Wordpress, Served
    <2>5. OnePastAt(c)'
      BY <1>3, <1>10, <1>11, <1>13, <1>16, <2>1, <2>3
         DEF OnePastAt, Past, On, Wordpress, Onward, SameRequest, Over
    <2>6. UnderwayAt(c)'
      BY <1>8, <2>1 DEF UnderwayAt, Onward, SameRequest, Over, Is
    <2> QED  BY <2>4, <2>5, <2>6 DEF Local
  <1>19. CASE Store(c)
    <2>1. Over(c) /\ UNCHANGED <<tree, base>> /\ req[c].step = "account"
      BY <1>2, <1>19, Ends DEF Store, At
    <2>2. OnePastAt(c)' /\ UnderwayAt(c)'
      BY <2>1 DEF OnePastAt, UnderwayAt, Past, Over
    <2>3. account' = [account EXCEPT ![n] = [site |-> d, secret |-> k]]
      BY <1>3, <1>5, <1>6, <1>12, <1>19 DEF Store, Mar, Entry
    <2>4. account'[n] = [site |-> d, secret |-> k] /\ base[n] = k
      BY <1>2, <1>3, <1>5, <1>6, <1>8, <1>9, <1>13, <2>1, <2>3 DEF TypeOK, OnePastAt
    <2>5. WholeAt(d)'
      BY <1>7, <1>9, <1>10, <1>13, <1>14, <2>1, <2>4 DEF WholeAt, Wordpress, Served
    <2> QED  BY <2>2, <2>5 DEF Local
  <1> QED  BY <1>17, <1>18, <1>19

\* WordPress on a site that is there, or its vhost under another owner.
LEMMA WholeChanges ==
  ASSUME ~Bare, LifeInv, WholeInv, NEW c \in Clients, Rewrite(c) \/ Mark(c)
  PROVE  WholeInv'
  <1> USE DEF disk, past
  <1>1. Works(c)
    BY DEF Works
  <1>2. /\ req[c] # None /\ SteadyAt(c) /\ RowThere(c) /\ TypeOK /\ Framed(c) /\ Proceeds(c)
        /\ Kept(c) /\ req[c] \in Request
    BY <1>1, LifeFramed, Here DEF LifeInv, Framed, Proceeds
  <1>3. PICK d \in Domains : d = req[c].site
    BY <1>2, Here
  <1>4. PICK o \in Owners : o = req[c].owner
    BY <1>2, Here
  <1>5. PICK n \in Names : n = Name(c)
    BY <1>2, Here
  <1>6. Root(c) = <<d, o>> /\ n = NameOf[d]
    BY <1>3, <1>4, <1>5 DEF Root, Name
  <1>7. OnePastAt(c) /\ UnderwayAt(c) /\ WholeAt(d)
    BY DEF WholeInv, OnePast, Underway, Whole
  <1>8. /\ UNCHANGED <<tree, pool, base, account>> /\ marred \subseteq marred'
        /\ req[c].step \in {"rewrite", "mark"}
    BY <1>2 DEF Rewrite, Mark, Framed, Elsewhere, At
  <1>9. /\ Is(c, "install") \/ Is(c, "owner")
        /\ Is(c, "install") => Past(c)
        /\ Is(c, "owner") => ~Past(c) /\ req[c].step = "rewrite"
    BY <1>2, <1>8, Here DEF SteadyAt, Is, Kinds, CreateSteps, OwnerSteps, DeleteSteps, Past
  <1>10. Past(c) => Claims(d)
    BY <1>2, <1>3, PastClaims
  <1>11. \A b \in Clients \ {c} : On(b, d)' <=> On(b, d)
    BY <1>2 DEF Kept, On
  <1>12. d \notin marred /\ Past(c) => \A b \in Clients \ {c} : On(b, d) => ~Past(b) /\ ~Past(b)'
    BY <1>2, <1>3, <1>7 DEF OnePastAt, Kept, Past, On
  <1>13. row[d] # None /\ row[d] \in Site /\ (Is(c, "install") => row[d].owner = o /\ Runs(row[d].app))
    BY <1>2, <1>3, <1>4, <1>9 DEF RowThere, Is, TypeOK, Runs
  <1>14. CASE Rewrite(c)
    <2>1. UNCHANGED row
      BY <1>14 DEF Rewrite
    <2>2. SUFFICES ASSUME d \notin marred'
                   PROVE  Local(c, d)'
      BY <1>1, <1>2, <1>3, <1>8, <1>9, <2>1, MarredIsLocal, WholeStep, ClaimsIs
         DEF Wordpress, Past, Proceeds, SameRequest
    <2>3. d \notin marred
      BY <1>8, <2>2
    <2>4. PICK s \in {"mark", "drop", "assign"} :
            /\ Onward(c, s) /\ (vhost' = vhost \/ vhost' = [vhost EXCEPT ![d] = o])
            /\ Is(c, "install") <=> s # "assign"
            /\ s = "assign" => vhost' = [vhost EXCEPT ![d] = o]
      BY <1>2, <1>3, <1>4, <1>9, <1>14, <2>2, Goes DEF Rewrite, GiveUp, Mar, Steps, Is
    <2>5. (vhost'[d] = vhost[d] \/ vhost'[d] = o) /\ (s = "assign" => vhost'[d] = o)
      BY <1>2, <2>4 DEF TypeOK
    <2>6. req[c].step = "rewrite"
      BY <1>14 DEF Rewrite, At
    <2>7. CASE Is(c, "install")
      <3>1. ~Wordpress(d)
        BY <1>3, <1>7, <1>9, <2>3, <2>6, <2>7 DEF OnePastAt
      <3>2. OnePastAt(c)'
        BY <1>3, <1>4, <1>5, <1>6, <1>7, <1>8, <1>9, <1>11, <1>12, <2>1, <2>3, <2>4, <2>6, <2>7, <3>1
           DEF OnePastAt, Past, On, Wordpress, Onward, SameRequest, Name, Root
      <3>3. UnderwayAt(c)'
        BY <2>4, <2>7 DEF UnderwayAt, Onward, SameRequest, Is
      <3>4. Served(d) => Served(d)'
        BY <1>8, <1>13, <2>1, <2>5, <2>7 DEF Served
      <3>5. Away(d)' <=> Away(d)
        BY <1>2, <1>3, <2>7 DEF Away, Is, Kept, Proceeds, SameRequest
      <3>6. WholeAt(d)'
        BY <1>7, <2>1, <2>3, <3>1, <3>4, <3>5 DEF WholeAt, Wordpress
      <3> QED  BY <3>2, <3>3, <3>6 DEF Local
    <2>8. CASE Is(c, "owner")
      <3>1. OnePastAt(c)'
        BY <1>9, <2>4, <2>8 DEF OnePastAt, Past, Onward, SameRequest, Is
      <3>2. UnderwayAt(c)'
        BY <1>3, <1>4, <1>5, <1>6, <1>7, <1>8, <2>3, <2>4, <2>5, <2>6, <2>8
           DEF UnderwayAt, Ready, Root, Name, Onward, SameRequest, Is
      <3>3. Away(d)'
        BY <1>3, <2>4, <2>8 DEF Away, Is, Onward, SameRequest
      <3>4. AtAccount(d) => AtAccount(d)'
        BY <1>2, <1>8 DEF AtAccount, On, Kept
      <3>5. WholeAt(d)'
        BY <1>7, <1>8, <2>1, <2>3, <3>3, <3>4 DEF WholeAt, Wordpress
      <3> QED  BY <3>1, <3>2, <3>5 DEF Local
    <2> QED  BY <1>9, <2>7, <2>8
  <1>15. CASE Mark(c)
    <2>1. req[c].step = "mark" /\ Is(c, "install") /\ Past(c) /\ UNCHANGED vhost
      BY <1>9, <1>15 DEF Mark, At
    <2>2. SUFFICES ASSUME d \notin marred'
                   PROVE  Local(c, d)'
      BY <1>1, <1>2, <1>3, <1>8, <1>10, <2>1, MarredIsLocal, WholeStep DEF Past
    <2>3. d \notin marred
      BY <1>8, <2>2
    <2> DEFINE new == [row[d] EXCEPT !.app = "wordpress"]
    <2>4. row' = [row EXCEPT ![d] = new] /\ Onward(c, "account")
      BY <1>2, <1>3, <1>15, <2>2, Goes DEF Mark, Mar, Steps
    <2>5. new \in Site /\ new.app = "wordpress" /\ new.owner = o
      BY <1>13, <2>1 DEF Site, Apps
    <2> HIDE DEF new
    <2>6. row'[d] = new
      BY <1>2, <2>4 DEF TypeOK
    <2>7. OnePastAt(c)'
      BY <1>3, <1>4, <1>5, <1>6, <1>7, <1>8, <1>11, <1>12, <2>1, <2>3, <2>4
         DEF OnePastAt, Past, On, Onward, SameRequest, Name, Root
    <2>8. UnderwayAt(c)'
      BY <2>1, <2>4 DEF UnderwayAt, Onward, SameRequest, Is
    <2>9. ~Away(d) /\ ~Away(d)'
      BY <1>2, <1>3, <2>1, OthersInstall DEF Away, Is, On, Kept, Proceeds, SameRequest
    <2>10. Served(d)'
      BY <1>7, <1>8, <1>13, <2>1, <2>3, <2>5, <2>6, <2>9 DEF WholeAt, Served, Runs
    <2>11. AtAccount(d)'
      BY <1>3, <2>4 DEF AtAccount, On, Onward, SameRequest
    <2>12. base[n] # 0 /\ tree[<<d, o>>].config = base[n]
      BY <1>3, <1>4, <1>5, <1>6, <1>7, <2>1, <2>3 DEF OnePastAt, Past
    <2>13. WholeAt(d)'
      BY <1>6, <1>8, <2>5, <2>6, <2>10, <2>11, <2>12 DEF WholeAt
    <2> QED  BY <2>7, <2>8, <2>13 DEF Local
  <1> QED  BY <1>14, <1>15

\* A database's password is set: of a name that nobody has, or that others have to give up.
LEMMA WholeBase == ASSUME LifeInv, WholeInv, NEW c \in Clients, Base(c)
                   PROVE  WholeInv'
  <1> USE DEF disk, past
  <1>1. Works(c)
    BY DEF Works
  <1>2. /\ req[c] # None /\ SteadyAt(c) /\ RowThere(c) /\ TypeOK /\ Framed(c) /\ Proceeds(c)
        /\ Kept(c) /\ req[c] \in Request /\ LifeInv'
    BY <1>1, LifeFramed, Here, LifeWorks DEF LifeInv, Framed, Proceeds
  <1>3. PICK d \in Domains : d = req[c].site
    BY <1>2, Here
  <1>4. PICK o \in Owners : o = req[c].owner
    BY <1>2, Here
  <1>5. PICK k \in Secrets : k = req[c].secret
    BY <1>2, Here
  <1>6. PICK n \in Names : n = Name(c)
    BY <1>2, Here
  <1>7. Root(c) = <<d, o>> /\ n = NameOf[d]
    BY <1>3, <1>4, <1>6 DEF Root, Name
  <1>8. /\ Is(c, "create") \/ Is(c, "install")
        /\ req[c].step = "base" /\ ~Past(c) /\ k # 0
    BY <1>2, <1>5, Here DEF SteadyAt, Is, Kinds, OwnerSteps, DeleteSteps, Past, Base, At
  <1>9. UnderwayAt(c) /\ WholeAt(d)
    BY DEF WholeInv, Underway, Whole
  <1>10. UNCHANGED <<row, account, tree, pool, vhost>> /\ marred \subseteq marred'
    BY <1>2 DEF Base, Framed, Elsewhere
  <1>11. Over(c) \/ Onward(c, "config")
    BY <1>2, Goes, Ends DEF Base, Steps
  <1>12. base[n] = 0 \/ Is(c, "create") \/ (base' = base /\ Over(c))
    BY <1>2, <1>6, Ends DEF Base, Adopts, Is
  <1>13. base' = base \/ base' = [base EXCEPT ![n] = k]
    BY <1>5, <1>6 DEF Base
  <1>14. \/ base' = base /\ Over(c)
         \/ \A e \in Domains \ {d} : NameOf[e] = n /\ Claims(e) => d \in marred' /\ e \in marred'
    <2>1. CASE base' = base /\ Over(c)
      BY <2>1
    <2>2. CASE marred' = IF Sharers(c) = {} THEN marred ELSE marred \cup Sharers(c) \cup {req[c].site}
      BY <1>3, <1>6, <2>2 DEF Sharers
    <2> QED  BY <1>2, <2>1, <2>2, Ends DEF Base
  <1>15. \A b \in Clients \ {c} : On(b, d)' <=> On(b, d)
    BY <1>2 DEF Kept, On
  <1>16. \A b \in Clients : (Past(b) /\ On(b, d))' =>
           (Past(b) /\ On(b, d)) \/ (b = c /\ Onward(c, "config"))
    BY <1>2, <1>8, <1>11 DEF Past, On, Kept, Over
  <1>17. Claims(d)' => Claims(d) \/ \A e \in Domains \ {d} :
           NameOf[e] = n /\ Claims(e) => d \in marred' /\ e \in marred'
    <2>1. Over(c) => req'[c] = None
      BY DEF Over
    <2>2. Onward(c, "config") => req'[c] # None
      BY DEF Onward, SameRequest
    <2> QED  BY <1>10, <1>14, <1>16, <2>1, <2>2, ClaimsIs, ClaimsLater DEF Wordpress
  <1>18. UNCHANGED <<base, account>> \/ OthersMarred(d, n)
    BY <1>10, <1>14 DEF OthersMarred
  <1>19. Away(d)' <=> Away(d)
    BY <1>2, <1>3, <1>8 DEF Away, Is, Kept, Proceeds, SameRequest
  \* Nobody else has it who nothing marred.
  <1>20. ASSUME d \notin marred, Onward(c, "config") \/ base' # base
         PROVE  ~Wordpress(d) /\ \A b \in Clients \ {c} : On(b, d) => ~Past(b) /\ ~Past(b)'
    <2>1. base[n] = 0 \/ Is(c, "create")
      <3>1. ~(Over(c) /\ Onward(c, "config"))
        BY DEF Over, Onward, SameRequest
      <3> QED  BY <1>12, <1>20, <3>1
    <2>2. ~Wordpress(d)
      BY <1>2, <1>3, <1>7, <1>8, <1>9, <1>20, <2>1 DEF WholeAt, Wordpress, RowThere, Is
    <2>3. ASSUME NEW b \in Clients \ {c}, On(b, d), Past(b)
          PROVE  FALSE
      <3>1. Is(b, "install") /\ Is(c, "install")
        BY <1>2, <1>3, <2>3, OthersInstall
      <3>2. SteadyAt(b) /\ OnePastAt(b) /\ Name(b) = n
        BY <1>7, <2>3 DEF LifeInv, Steady, WholeInv, OnePast, On, Name
      <3>3. req[b].step # "undo"
        BY <3>1, <3>2 DEF SteadyAt, InstallSteps
      <3>4. base[n] = req[b].secret /\ req[b].secret # 0
        BY <1>20, <2>3, <3>2, <3>3 DEF OnePastAt, Past, On
      <3> QED  BY <2>1, <3>1, <3>4 DEF Is
    <2> QED  BY <1>2, <2>2, <2>3 DEF Kept, Past, On
  <1>21. WholeAt(d)'
    <2> SUFFICES ASSUME row[d] # None, d \notin marred'
                 PROVE  WholeAt(d)'
      BY <1>10 DEF WholeAt
    <2>1. d \notin marred
      BY <1>10
    <2>2. Served(d)' <=> Served(d)
      BY <1>10 DEF Served
    <2>3. Wordpress(d)' <=> Wordpress(d)
      BY <1>10 DEF Wordpress
    <2>4. Wordpress(d) => base' = base
      BY <1>20, <2>1
    <2>5. AtAccount(d) => AtAccount(d)'
      BY <1>2, <1>8 DEF AtAccount, On, Kept
    <2> QED  BY <1>9, <1>10, <1>19, <2>1, <2>2, <2>3, <2>4, <2>5 DEF WholeAt
  <1>22. OnePastAt(c)'
    <2>1. CASE Over(c)
      BY <2>1 DEF OnePastAt, Past, Over
    <2>2. CASE Onward(c, "config")
      <3>1. ~Over(c)
        BY <2>2 DEF Over, Onward, SameRequest
      <3>2. base' = [base EXCEPT ![n] = k]
        BY <1>2, <1>5, <1>6, <3>1, Ends DEF Base
      <3>3. base'[n] = k
        BY <1>2, <3>2 DEF TypeOK
      <3>4. req'[c].site = d /\ req'[c].secret = k /\ req'[c].step = "config" /\ Name(c)' = n
        BY <1>3, <1>5, <1>6, <2>2 DEF Onward, SameRequest, Name
      <3>5. d \notin marred' => ~Wordpress(d)' /\ \A b \in Clients \ {c} : On(b, d)' => ~Past(b)'
        BY <1>10, <1>15, <1>20, <2>2 DEF Wordpress
      <3> QED  BY <3>3, <3>4, <3>5 DEF OnePastAt, On, Wordpress
    <2> QED  BY <1>11, <2>1, <2>2
  <1>23. UnderwayAt(c)'
    BY <1>3, <1>4, <1>7, <1>8, <1>9, <1>10, <1>11
       DEF UnderwayAt, Ready, Root, Over, Onward, SameRequest, Is
  <1>24. ASSUME NEW b \in Clients \ {c}, On(b, d)
         PROVE  OnePastAt(b)'
    <2> SUFFICES ASSUME Past(b), d \notin marred'
                 PROVE  OnePastAt(b)'
      BY <1>2, <1>24 DEF OnePastAt, Past, On, Kept
    <2>1. d \notin marred
      BY <1>10
    <2>2. base' = base /\ ~Onward(c, "config")
      BY <1>20, <1>24, <2>1
    <2>3. Over(c) /\ OnePastAt(b)
      BY <1>11, <2>2 DEF WholeInv, OnePast
    <2>4. PICK x \in Owners : x = req[b].owner
      BY <1>2, <1>24, Here DEF On
    <2>5. req'[b] = req[b] /\ req'[c] = None /\ \A a \in Clients \ {c} : req'[a] = req[a]
      BY <1>2, <2>3 DEF Kept, Over
    <2> QED  BY <1>10, <1>24, <2>1, <2>2, <2>3, <2>4, <2>5
             DEF OnePastAt, Past, On, Wordpress, Name, Root
  <1> QED  BY <1>2, <1>3, <1>6, <1>17, <1>18, <1>21, <1>22, <1>23, <1>24, WholeGoesOn

\* Another owner: the tree moves, and the row follows.
LEMMA WholeOwners == ASSUME LifeInv, WholeInv, NEW c \in Clients, Move(c) \/ Assign(c)
                     PROVE  WholeInv'
  <1> USE DEF disk, past
  <1>1. Works(c)
    BY DEF Works
  <1>2. /\ req[c] # None /\ SteadyAt(c) /\ RowThere(c) /\ TypeOK /\ Framed(c) /\ Proceeds(c)
        /\ Kept(c) /\ req[c] \in Request
    BY <1>1, LifeFramed, Here DEF LifeInv, Framed, Proceeds
  <1>3. PICK d \in Domains : d = req[c].site
    BY <1>2, Here
  <1>4. PICK o \in Owners : o = req[c].owner
    BY <1>2, Here
  <1>5. PICK f \in Owners : f = req[c].from
    BY <1>2, Here
  <1>6. /\ Root(c) = <<d, o>> /\ OldRoot(c) = <<d, f>> /\ Name(c) = NameOf[d]
        /\ <<d, o>> \in Roots /\ <<d, f>> \in Roots
    BY <1>3, <1>4, <1>5 DEF Root, OldRoot, Name, Roots
  <1>7. Is(c, "owner") /\ req[c].step \in {"move", "assign"} /\ ~Past(c)
    BY <1>2, Here DEF SteadyAt, Is, Kinds, CreateSteps, InstallSteps, DeleteSteps, Past,
                      Move, Assign, At
  <1>8. UnderwayAt(c) /\ WholeAt(d)
    BY DEF WholeInv, Underway, Whole
  <1>9. UNCHANGED <<base, account, vhost>> /\ marred \subseteq marred'
    BY <1>2 DEF Move, Assign, Framed, Elsewhere
  <1>10. /\ row[d] # None /\ row[d] \in Site
         /\ row[d].owner = f /\ row[d].app = req[c].app /\ o # f
    BY <1>2, <1>3, <1>4, <1>5, <1>7 DEF RowThere, Is, TypeOK
  <1>11. \A b \in Clients \ {c} : ~On(b, d) /\ ~On(b, d)'
    BY <1>2, <1>3, <1>7, OthersInstall DEF Is, Kept, On
  <1>12. ~Past(c)' /\ OnePastAt(c)'
    BY <1>2, <1>7 DEF Past, OnePastAt, Proceeds, SameRequest, SteadyAt, Is
  <1>13. CASE Move(c)
    <2>1. UNCHANGED row /\ req[c].step = "move"
      BY <1>13 DEF Move, At
    <2>2. SUFFICES ASSUME d \notin marred'
                   PROVE  Local(c, d)'
      BY <1>1, <1>2, <1>3, <1>7, <1>9, <1>12, <2>1, MarredIsLocal, WholeStep, ClaimsIs
         DEF Wordpress
    <2>3. d \notin marred
      BY <1>9, <2>2
    <2>4. ~Away(d) /\ ~AtAccount(d)
      BY <1>7, <1>11, <2>1 DEF Away, AtAccount, Is, On
    <2>5. Served(d) /\ (Wordpress(d) =>
             /\ base[NameOf[d]] # 0 /\ tree[<<d, f>>].config = base[NameOf[d]]
             /\ account[NameOf[d]] = [site |-> d, secret |-> base[NameOf[d]]])
      BY <1>8, <1>10, <2>3, <2>4 DEF WholeAt
    <2>6. CASE UNCHANGED <<tree, pool>> /\ Over(c)
      <3>1. ~Away(d)'
        BY <1>11, <2>6 DEF Away, Is, On, Over
      <3>2. UnderwayAt(c)'
        BY <2>6 DEF UnderwayAt, Over
      <3>3. WholeAt(d)'
        BY <1>9, <1>10, <2>1, <2>5, <2>6, <3>1 DEF WholeAt, Wordpress, Served
      <3> QED  BY <1>12, <3>2, <3>3 DEF Local
    <2>7. CASE /\ tree[<<d, f>>] # None /\ Moved(c)
               /\ pool' = (pool \ {<<d, f>>}) \cup (IF Runs(req[c].app) THEN {<<d, o>>} ELSE {})
               /\ Onward(c, "rewrite")
      <3>1. Away(d)'
        BY <1>3, <1>7, <2>7 DEF Away, Is, Onward, SameRequest
      <3>2. tree'[<<d, o>>] = tree[<<d, f>>]
        BY <1>2, <1>6, <1>10, <2>7 DEF Moved, TypeOK
      <3>3. UnderwayAt(c)'
        BY <1>3, <1>4, <1>6, <1>7, <1>9, <1>10, <2>5, <2>7, <3>2
           DEF UnderwayAt, Ready, Root, Name, Onward, SameRequest, Is, Wordpress
      <3>4. WholeAt(d)'
        BY <1>9, <2>1, <2>5, <3>1 DEF WholeAt, Wordpress
      <3> QED  BY <1>12, <3>3, <3>4 DEF Local
    <2> QED  BY <1>2, <1>3, <1>6, <1>13, <2>2, <2>6, <2>7, Goes, Ends DEF Move, Mar, Steps
  <1>14. CASE Assign(c)
    <2>1. UNCHANGED <<tree, pool>> /\ Over(c) /\ req[c].step = "assign"
      BY <1>2, <1>14, Ends DEF Assign, At
    <2> DEFINE new == [row[d] EXCEPT !.owner = o]
    <2>2. row' = row \/ row' = [row EXCEPT ![d] = new]
      BY <1>3, <1>4, <1>14 DEF Assign
    <2>3. new \in Site /\ new.owner = o /\ new.app = row[d].app
      BY <1>10 DEF Site
    <2> HIDE DEF new
    <2>4. row'[d] \in {row[d], new}
      BY <1>2, <2>2 DEF TypeOK
    <2>5. Wordpress(d)' => Claims(d)
      BY <1>10, <2>3, <2>4, ClaimsIs DEF Wordpress
    <2>6. SUFFICES ASSUME d \notin marred'
                   PROVE  Local(c, d)'
      BY <1>1, <1>2, <1>3, <1>7, <1>9, <1>12, <2>5, MarredIsLocal, WholeStep
    <2>7. d \notin marred
      BY <1>9, <2>6
    <2>8. row'[d] = new
      BY <1>2, <1>3, <1>4, <1>14, <2>6 DEF Assign, Mar, TypeOK, new
    <2>9. ~AtAccount(d)
      BY <1>11, <2>1 DEF AtAccount, On
    <2>10. /\ tree[<<d, o>>] # None /\ (Runs(row[d].app) => <<d, o>> \in pool) /\ vhost[d] = o
           /\ Wordpress(d) => tree[<<d, o>>].config = base[NameOf[d]]
      BY <1>3, <1>4, <1>6, <1>7, <1>8, <1>10, <2>1, <2>7 DEF UnderwayAt, Ready, Is, Wordpress
    <2>11. Served(d)'
      BY <1>9, <2>1, <2>3, <2>8, <2>10 DEF Served
    <2>12. Wordpress(d)' => Wordpress(d)
      BY <1>10, <2>3, <2>8 DEF Wordpress
    <2>13. WholeAt(d)'
      BY <1>8, <1>9, <1>10, <2>1, <2>3, <2>7, <2>8, <2>9, <2>10, <2>11, <2>12 DEF WholeAt
    <2>14. UnderwayAt(c)'
      BY <2>1 DEF UnderwayAt, Over
    <2> QED  BY <1>12, <2>13, <2>14 DEF Local
  <1> QED  BY <1>13, <1>14

\* A deletion marred its site when it came.
LEMMA WholeDeletions ==
  ASSUME LifeInv, WholeInv, NEW c \in Clients,
         Unbase(c) \/ Unvhost(c) \/ Files(c) \/ Unaccount(c) \/ Unrow(c)
  PROVE  WholeInv'
  <1> USE DEF disk, past
  <1>1. Works(c)
    BY DEF Works
  <1>2. /\ req[c] # None /\ SteadyAt(c) /\ RowThere(c) /\ TypeOK /\ Framed(c) /\ Proceeds(c)
        /\ req[c] \in Request
    BY <1>1, LifeFramed, Here DEF LifeInv, Framed
  <1>3. PICK d \in Domains : d = req[c].site
    BY <1>2, Here
  <1>4. Is(c, "delete") /\ req[c].step # "base" /\ ~Past(c)
    BY <1>2, Here DEF SteadyAt, Is, Kinds, CreateSteps, InstallSteps, OwnerSteps, DeleteSteps, Past,
                      Unbase, Unvhost, Files, Unaccount, Unrow, At
  <1>5. d \in marred'
    BY <1>2, <1>3, <1>4 DEF RowThere, Is, Framed, Elsewhere
  <1>6. ~Past(c)'
    BY <1>2, <1>4 DEF Past, Proceeds, SameRequest, SteadyAt, Is
  <1>7. Wordpress(d)' => Wordpress(d)
    <2>1. row' = row \/ row' = [row EXCEPT ![d] = None]
      BY <1>3 DEF Unbase, Unvhost, Files, Unaccount, Unrow
    <2> QED  BY <1>2, <2>1 DEF Wordpress, TypeOK
  <1>8. UNCHANGED <<base, account>> \/ Wordpress(d)
    <2>1. Unbase(c) \/ Unaccount(c) => req[c].item
      BY <1>2, <1>4 DEF SteadyAt, Unbase, Unaccount, At
    <2>2. req[c].item => Wordpress(d)
      BY <1>2, <1>3, <1>4 DEF RowThere, Is, Wordpress
    <2> QED  BY <2>1, <2>2 DEF Unvhost, Files, Unrow
  <1> QED  BY <1>1, <1>2, <1>3, <1>4, <1>5, <1>6, <1>7, <1>8, ClaimsIs, MarredIsLocal, WholeStep

LEMMA WholeAsks == ASSUME OneByOne, LifeInv, WholeInv, NEW c \in Clients, Asks(c)
                   PROVE  WholeInv'
  <1> USE DEF disk
  <1>1. PICK d \in Domains, r \in Request :
          /\ Comes(c, d, r)
          /\ \/ ComesToCreate(d, r) \/ ComesToInstall(d, r)
             \/ ComesToOwn(d, r) \/ ComesToDelete(d, r)
    BY Comings DEF LifeInv
  <1>2. /\ req[c] = None /\ req'[c] = r /\ r # None /\ r.site = d
        /\ \A b \in Clients \ {c} : req'[b] = req[b]
        /\ UNCHANGED <<row, vhost, account, tree, pool, base>>
    BY <1>1 DEF Comes, Kept
  <1>3. ~Past(c)'
    BY <1>1, <1>2 DEF Past, ComesToCreate, ComesToInstall, ComesToOwn, ComesToDelete
  <1>4. \A b \in Clients \ {c} : (Past(b)' <=> Past(b)) /\ \A e \in Domains : On(b, e)' <=> On(b, e)
    BY <1>2 DEF Past, On
  <1>5. \A e \in Domains : (Claims(e)' <=> Claims(e)) /\ (Wordpress(e)' <=> Wordpress(e))
    <2>1. ~Past(c)
      BY <1>2 DEF Past
    <2> QED  BY <1>2, <1>3, <1>4, <2>1, ClaimsIs, ClaimsLater DEF Wordpress
  \* What is created anew has nobody's claims.
  <1>6. \A e \in Domains : e \in marred /\ e \notin marred' =>
          /\ e = d /\ row[e] = None /\ ~Claims(e)
          /\ \A b \in Clients \ {c} : ~On(b, e)
    <2> SUFFICES ASSUME d \in marred, d \notin marred'
                 PROVE  row[d] = None /\ ~Claims(d) /\ \A b \in Clients \ {c} : ~On(b, d)
      BY <1>1 DEF ComesToCreate, ComesToInstall, ComesToOwn, ComesToDelete
    <2>1. ComesToCreate(d, r)
      BY <1>1 DEF ComesToInstall, ComesToOwn, ComesToDelete
    <2>2. row[d] = None
      BY <2>1 DEF ComesToCreate, Free
    <2>3. \A b \in Clients \ {c} : ~On(b, d)
      BY <1>1, <2>1 DEF ComesToCreate, Comes, OneByOne
    <2> QED  BY <1>2, <2>2, <2>3, ClaimsIs DEF Wordpress, On
  <1>7. Alone'
    BY <1>5, <1>6 DEF WholeInv, Alone
  <1>8. OnePast'
    <2> SUFFICES ASSUME NEW b \in Clients \ {c}, Past(b)
                 PROVE  OnePastAt(b)'
      BY <1>3, <1>4 DEF OnePast, OnePastAt
    <2>1. OnePastAt(b) /\ Claims(req[b].site) /\ req[b].site \in Domains
      BY PastClaims, Here DEF WholeInv, OnePast, LifeInv, Past
    <2>2. req[b].site \notin marred' => req[b].site \notin marred
      BY <1>6, <2>1
    <2> QED  BY <1>2, <1>3, <2>1, <2>2 DEF OnePastAt, Past, On, Wordpress, Name, Root
  <1>9. Underway'
    <2>1. UnderwayAt(c)'
      BY <1>1, <1>2 DEF UnderwayAt, ComesToCreate, ComesToInstall, ComesToOwn, ComesToDelete
    <2> SUFFICES ASSUME NEW b \in Clients \ {c}, req[b] # None
                 PROVE  UnderwayAt(b)'
      BY <1>2, <2>1 DEF Underway, UnderwayAt
    <2>2. UnderwayAt(b) /\ req[b].site \in Domains
      BY Here DEF WholeInv, Underway, LifeInv
    <2>3. req[b].site \notin marred' => req[b].site \notin marred
      BY <1>6, <2>2 DEF On
    <2> QED  BY <1>2, <2>2, <2>3 DEF UnderwayAt, Ready, Root, Name
  <1>10. Whole'
    <2> SUFFICES ASSUME NEW e \in Domains, row[e] # None, e \notin marred'
                 PROVE  WholeAt(e)'
      BY <1>2 DEF Whole, WholeAt
    <2>1. WholeAt(e) /\ e \notin marred
      BY <1>6 DEF WholeInv, Whole
    <2>2. Away(e)' <=> Away(e)
      <3>1. ~(Is(c, "owner") /\ req[c].step # "move") /\ ~(Is(c, "owner") /\ req[c].step # "move")'
        BY <1>1, <1>2 DEF Is, ComesToCreate, ComesToInstall, ComesToOwn, ComesToDelete
      <3> QED  BY <1>2, <3>1 DEF Away, Is
    <2>3. AtAccount(e) => AtAccount(e)'
      BY <1>2 DEF AtAccount, On
    <2>4. Served(e)' <=> Served(e)
      BY <1>2 DEF Served
    <2> QED  BY <1>2, <1>5, <2>1, <2>2, <2>3, <2>4 DEF WholeAt
  <1> QED  BY <1>7, <1>8, <1>9, <1>10 DEF WholeInv

LEMMA WholeStops == ASSUME LifeInv, WholeInv, PanelStops
                    PROVE  WholeInv'
  <1> USE DEF disk
  <1>1. /\ \A c \in Clients : req'[c] = None
        /\ UNCHANGED <<row, vhost, account, tree, pool, base>>
        /\ marred' = marred \cup {d \in Domains : Busy(d)}
    BY DEF PanelStops
  <1>2. Alone'
    <2>1. \A d \in Domains : Claims(d)' => Claims(d)
      BY <1>1, ClaimsIs, ClaimsLater DEF Past, Wordpress
    <2> QED  BY <1>1, <2>1 DEF WholeInv, Alone
  <1>3. OnePast' /\ Underway'
    BY <1>1 DEF OnePast, OnePastAt, Past, Underway, UnderwayAt
  <1>4. Whole'
    <2> SUFFICES ASSUME NEW d \in Domains, row[d] # None, d \notin marred, ~Busy(d)
                 PROVE  WholeAt(d)'
      BY <1>1 DEF Whole, WholeAt
    <2>1. WholeAt(d) /\ ~Away(d) /\ ~AtAccount(d)
      BY DEF WholeInv, Whole, Busy, Away, AtAccount, Is, On
    <2> QED  BY <1>1, <2>1 DEF WholeAt, Wordpress, Served
  <1> QED  BY <1>2, <1>3, <1>4 DEF WholeInv

LEMMA WholeStarts == Init => WholeInv
  <1> SUFFICES ASSUME Init PROVE WholeInv
    OBVIOUS
  <1>1. (\A c \in Clients : req[c] = None) /\ \A d \in Domains : row[d] = None
    BY DEF Init
  <1>2. \A d \in Domains : ~Claims(d)
    BY <1>1, ClaimsIs DEF Wordpress, On
  <1> QED  BY <1>1, <1>2 DEF WholeInv, Alone, OnePast, OnePastAt, Past, Underway, UnderwayAt,
                             Whole, WholeAt

LEMMA WholeStays == ASSUME OneByOne, ~Bare, LifeInv, WholeInv, [Next]_vars
                    PROVE  WholeInv'
  <1>1. CASE \E c \in Clients : Serve(c)
    BY <1>1, WholeAsks, WholeCreations, WholeSecrets, WholeChanges, WholeBase, WholeOwners,
       WholeDeletions DEF Serve, Asks
  <1>2. CASE PanelStops
    BY <1>2, WholeStops
  <1>3. CASE UNCHANGED vars
    <2>1. UNCHANGED <<row, account, tree, pool, vhost, base, req, marred>>
      BY <1>3 DEF vars, disk, past
    <2>2. Alone'
      BY <2>1 DEF WholeInv, Alone, Claims
    <2>3. OnePast'
      BY <2>1 DEF WholeInv, OnePast, OnePastAt, Past, On, Wordpress, Name, Root
    <2>4. Underway'
      BY <2>1 DEF WholeInv, Underway, UnderwayAt, Ready, Name, Root
    <2>5. Whole'
      BY <2>1 DEF WholeInv, Whole, WholeAt, Away, AtAccount, Is, On, Served, Wordpress
    <2> QED  BY <2>2, <2>3, <2>4, <2>5 DEF WholeInv
  <1> QED  BY <1>1, <1>2, <1>3 DEF Next

\* A site that has a row and that nothing left half-way is served from its owner's tree by
\* its pool, and its WordPress opens the database that the panel has as that site's: for any
\* number of sites, owners, databases of one name and requests at work, of which only
\* installations overlap on one site, as long as WordPress is installed on sites that run PHP
\* (`install_wordpress_on_website`).
THEOREM LiveSitesAreWhole == OneByOne /\ ~Bare => (Spec => []LiveIsWhole)
  <1> SUFFICES ASSUME OneByOne, ~Bare PROVE Spec => []LiveIsWhole
    OBVIOUS
  <1>1. LifeInv /\ WholeInv /\ [Next]_vars => WholeInv'
    BY WholeStays
  <1>2. WholeInv => LiveIsWhole
    <2> SUFFICES ASSUME WholeInv, NEW d \in Domains, row[d] # None, d \notin marred, ~Unsettled(d)
                 PROVE  Served(d) /\ (row[d].app = "wordpress" => OpensItsBase(d))
      BY DEF LiveIsWhole
    <2>1. WholeAt(d) /\ ~Away(d) /\ ~AtAccount(d)
      BY DEF WholeInv, Whole, Unsettled, Away, AtAccount, Is, On
    <2> QED  BY <2>1 DEF WholeAt, Wordpress, OpensItsBase
  <1> QED  BY <1>1, <1>2, Living, WholeStarts, PTL DEF Spec

=============================================================================
