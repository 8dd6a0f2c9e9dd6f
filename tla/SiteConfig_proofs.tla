-------------------------- MODULE SiteConfig_proofs --------------------------
(***************************************************************************)
(* Proofs about SiteConfig: the types; that a certificate somebody borrows *)
(* stays, which rests on what the request in flight may yet put into its   *)
(* row and may yet take away; and that the vhost of a site that no request *)
(* has left half-way says what its row says and names what is there, which *)
(* rests on what that request has found, and on how far it has come.       *)
(***************************************************************************)
EXTENDS SiteConfig, TLAPS

\* Where only some requests come by, and what these have found.
Fitting ==
  req # None =>
    /\ req.step \in {"drop", "release"} => req.kind = "delete"
    /\ req.step = "remove" => req.kind = "enable"
    /\ req.step = "refile" => req.kind \in {"upload", "recover"}
    /\ req.kind \in {"app", "enable"} => req.old # None
    /\ req.kind = "zone" => Zone[req.site] # None

Source(c) == {<<"live", c>>, <<"manual", c>>} \cap certs # {}

Lent(w) == w # None /\ w.mode = "shared" => Source(w.from)

\* Whatever the request may yet write to its row, the certificate is there.
Sourced == req # None => Lent(req.old) /\ Lent(req.new)

FromOther(w, s) == w # None /\ w.mode = "shared" => w.from # s

\* Nobody borrows from a site whose certificates a request may take away.
Unborrowed ==
  req # None /\ req.kind \in {"upload", "enable", "recover", "delete"} =>
    /\ \A s \in Sites : FromOther(row[s], req.site)
    /\ FromOther(req.old, req.site) /\ FromOther(req.new, req.site)

Inv == TypeOK /\ SourceStays /\ Fitting /\ Sourced /\ Unborrowed

-----------------------------------------------------------------------------
(* How a request goes on.                                                   *)

\* The same request at another step.
Same ==
  /\ req' # None
  /\ req'.kind = req.kind /\ req'.site = req.site
  /\ req'.old = req.old /\ req'.new = req.new /\ req'.had = req.had

LEMMA StepTo ==
  ASSUME req \in Request, NEW st \in Steps, req' = [req EXCEPT !.step = st]
  PROVE  req' \in Request /\ Same /\ req'.step = st
BY ConstantsAssumption DEF Request, Same

LEMMA AfterIsStep ==
  ASSUME NEW k \in Kinds \cup {"recover"}, NEW st \in Steps, NEW w, NEW was
  PROVE  After(k, st, w, was) \in Steps \cup {"end"}
BY DEF After, Steps, Kinds

\* What `Onward` comes to.
LEMMA GoesOn ==
  ASSUME Inv, req # None, Onward
  PROVE  \/ req' = None
         \/ req' \in Request /\ Same /\ Fitting'
<1>1. req \in Request
  BY DEF Inv, TypeOK
<1> DEFINE st == After(req.kind, req.step, req.new, req.old)
<1>2. st \in Steps \cup {"end"}
  BY <1>1, AfterIsStep DEF Request
<1>3. CASE st = "end"
  BY <1>3 DEF Onward, Goto
<1>4. CASE st \in Steps \ {"end"}
  <2>1. req' = [req EXCEPT !.step = st]
    BY <1>4 DEF Onward, Goto
  <2>2. req' \in Request /\ Same /\ req'.step = st
    BY <1>1, <1>4, <2>1, StepTo
  <2>3. /\ st # "drop" /\ st # "refile"
        /\ st = "release" => req.step = "drop"
        /\ st = "remove" => req.kind = "enable"
    BY <1>1 DEF After, Request, Steps, Kinds
  <2> QED
    BY <2>2, <2>3 DEF Inv, Fitting, Same
<1> QED
  BY <1>2, <1>3, <1>4

\* And what comes of a step that fails.
LEMMA GoesWrong ==
  ASSUME Inv, req # None, NEW st, st = Undo(req.kind, req.step), Goto(st)
  PROVE  \/ req' = None
         \/ req' \in Request /\ Same /\ Fitting'
<1>1. req \in Request
  BY DEF Inv, TypeOK
<1>2. \/ st = "end"
      \/ st = "restore"
      \/ st = "refile" /\ req.kind = "upload"
  BY DEF Undo
<1>3. CASE st = "end"
  BY <1>3 DEF Goto
<1>4. CASE st # "end"
  <2>1. req' = [req EXCEPT !.step = st] /\ st \in Steps
    BY <1>2, <1>4 DEF Goto, Steps
  <2>2. req' \in Request /\ Same /\ req'.step = st
    BY <1>1, <2>1, StepTo
  <2> QED
    BY <1>2, <1>4, <2>2 DEF Inv, Fitting, Same
<1> QED
  BY <1>3, <1>4

LEMMA GivesUp ==
  ASSUME Inv, req # None, GiveUp
  PROVE  /\ \/ req' = None
            \/ req' \in Request /\ Same /\ Fitting'
         /\ off' \subseteq off \cup {req.site}
<1>1. CASE Undo(req.kind, req.step) = "end"
  BY <1>1 DEF GiveUp, Falls, Stray
<1>2. CASE Undo(req.kind, req.step) # "end"
  BY <1>2, GoesWrong DEF GiveUp
<1> QED
  BY <1>1, <1>2

-----------------------------------------------------------------------------
(* The files a request writes.                                              *)

LEMMA BorrowedType ==
  ASSUME NEW c \in Sites PROVE Borrowed(c) \in Certs
BY DEF Borrowed, Certs

LEMMA RenderedType ==
  ASSUME NEW w \in Row, NEW v \in VhostOrNone, NEW s \in Sites, NEW p \in BOOLEAN
  PROVE  Rendered(w, v, s, p) \in Vhost
<1>1. Named(w, s) \in Certs \cup {None}
  BY BorrowedType DEF Named, Row, Certs
<1> QED
  BY <1>1 DEF Rendered, Row, Vhost, VhostOrNone

LEMMA ShortType ==
  ASSUME NEW v \in Vhost PROVE Short(v) \in Vhost
BY DEF Short, Vhost

-----------------------------------------------------------------------------
(* What a step keeps, of what it does to the rows and to the certificates.  *)

Taking == {"upload", "enable", "recover", "delete"}

\* A certificate goes only of the site in hand, by a request nobody may
\* borrow from; a row changes only to what the request has read or wants.
LEMMA StepKeeps ==
  ASSUME Inv, req # None,
         \/ req' = None
         \/ req' \in Request /\ Same /\ Fitting',
         NEW r \in {req.old, req.new, None},
         row' \in {row, [row EXCEPT ![req.site] = r]},
         vhost' \in [Sites -> VhostOrNone],
         rules' \subseteq Sites, zones' \subseteq Sites, certs' \subseteq Certs,
         off' \subseteq off \cup {req.site} \/ off' \subseteq Sites,
         \A c \in Sites : Source(c) => Source(c)' \/ (c = req.site /\ req.kind \in Taking)
  PROVE  Inv'
<1> USE DEF Inv
<1>1. req \in Request /\ req.site \in Sites /\ req.new \in Row /\ req.old \in RowOrNone
  BY DEF TypeOK, Request
<1>2. row' \in [Sites -> RowOrNone] /\ r \in RowOrNone
  BY <1>1 DEF TypeOK, RowOrNone
<1>3. TypeOK'
  BY <1>1, <1>2 DEF TypeOK
<1>4. Lent(r) /\ (req.kind \in Taking => FromOther(r, req.site))
  BY DEF Sourced, Lent, FromOther, Unborrowed, Taking
<1>5. \A w \in RowOrNone :
        Lent(w) /\ (req.kind \in Taking => FromOther(w, req.site)) => Lent(w)'
  <2> SUFFICES ASSUME NEW w \in RowOrNone, Lent(w), w # None, w.mode = "shared",
                      req.kind \in Taking => FromOther(w, req.site)
               PROVE  Source(w.from)'
    BY DEF Lent
  <2>1. Source(w.from)
    BY DEF Lent
  <2>2. w.from \in Sites
    <3>1. w.from \in Sites \cup {None}
      BY DEF RowOrNone, Row
    <3>2. w.from # None
      BY <2>1, <1>3, ConstantsAssumption DEF Source, TypeOK, Certs
    <3> QED
      BY <3>1, <3>2
  <2> QED
    BY <2>1, <2>2 DEF FromOther
<1>6. \A s \in Sites : Lent(row[s])' /\ (req.kind \in Taking => FromOther(row'[s], req.site))
  <2> SUFFICES ASSUME NEW s \in Sites
               PROVE  Lent(row[s])' /\ (req.kind \in Taking => FromOther(row'[s], req.site))
    OBVIOUS
  <2>1. Lent(row[s]) /\ (req.kind \in Taking => FromOther(row[s], req.site))
    BY DEF SourceStays, Lent, Source, Unborrowed, Taking
  <2>2. row'[s] \in {row[s], r} /\ row'[s] \in RowOrNone
    BY <1>1, <1>2 DEF TypeOK
  <2> QED
    BY <1>4, <1>5, <2>1, <2>2 DEF Lent, Source
<1>7. SourceStays'
  BY <1>6 DEF SourceStays, Lent, Source
<1>8. Sourced'
  <2>1. Lent(req.old) /\ Lent(req.new)
    BY DEF Sourced
  <2>2. req.kind \in Taking => FromOther(req.old, req.site) /\ FromOther(req.new, req.site)
    BY DEF Unborrowed, Taking
  <2>3. req.new \in RowOrNone
    BY <1>1 DEF RowOrNone
  <2>4. Same => Lent(req.old)' /\ Lent(req.new)'
    BY <1>1, <1>5, <2>1, <2>2, <2>3 DEF Lent, Source, Same
  <2> QED
    BY <2>4 DEF Sourced
<1>9. Unborrowed'
  BY <1>6 DEF Unborrowed, Same, Taking, FromOther
<1> QED
  BY <1>3, <1>7, <1>8, <1>9 DEF Fitting

\* A step that takes no certificate away and leaves the rows alone.
LEMMA FileStepKeeps ==
  ASSUME Inv, req # None,
         \/ req' = None
         \/ req' \in Request /\ Same /\ Fitting',
         row' = row, vhost' \in [Sites -> VhostOrNone],
         rules' \subseteq Sites, zones' \subseteq Sites,
         certs' \subseteq Certs, certs \subseteq certs',
         off' \subseteq off \cup {req.site}
  PROVE  Inv'
<1>1. \A c \in Sites : Source(c) => Source(c)'
  BY DEF Source
<1> QED
  BY <1>1, StepKeeps

-----------------------------------------------------------------------------
(* The requests.                                                            *)

LEMMA AskKeeps ==
  ASSUME Inv, NEW kind \in Kinds, NEW s \in Sites, NEW new \in Row, NEW step \in Steps,
         Ask(kind, s, new, step), Lent(new),
         step \notin {"release", "remove", "refile"},
         step = "drop" => kind = "delete",
         kind \in {"app", "enable"} => row[s] # None,
         kind = "zone" => Zone[s] # None,
         kind \in Taking => Dependents(s) = {} /\ FromOther(new, s)
  PROVE  Inv'
<1> USE DEF Inv
<1>1. /\ row' = row /\ vhost' = vhost /\ rules' = rules /\ zones' = zones /\ certs' = certs
      /\ req' = [kind |-> kind, site |-> s, step |-> step, old |-> row[s], new |-> new,
                 first |-> vhost[s], prev |-> vhost[s], had |-> <<"manual", s>> \in certs]
      /\ off' \subseteq off
  BY DEF Ask, files
<1>2. req' \in Request
  BY <1>1 DEF Request, TypeOK
<1>3. TypeOK' /\ SourceStays'
  BY <1>1, <1>2 DEF TypeOK, SourceStays
<1>4. Fitting'
  BY <1>1 DEF Fitting
<1>5. Sourced'
  <2>1. Lent(row[s])
    BY DEF SourceStays, Lent, Source
  <2> QED
    BY <1>1, <2>1 DEF Sourced, Lent, Source
<1>6. Unborrowed'
  BY <1>1 DEF Unborrowed, Taking, Dependents, FromOther
<1> QED
  BY <1>3, <1>4, <1>5, <1>6

LEMMA BeginKeeps == Inv /\ Begin => Inv'
<1> SUFFICES ASSUME Inv, NEW s \in Sites,
                    \/ Create(s) \/ SetWaf(s) \/ SetFlood(s) \/ SetApp(s)
                    \/ Share(s) \/ Upload(s) \/ Enable(s) \/ Wildcard(s) \/ Delete(s)
             PROVE  Inv'
  BY DEF Begin
<1> USE DEF Inv, Kinds, Steps, Taking
<1>1. Lent(row[s])
  BY DEF SourceStays, Lent, Source
<1>2. row[s] # None => row[s] \in Row
  BY DEF TypeOK, RowOrNone
<1>3. Dependents(s) = {} => FromOther(row[s], s)
  BY DEF Dependents, FromOther
<1>4. CASE Create(s)
  <2>1. PICK a \in Apps :
          Ask("create", s,
              [waf |-> TRUE, flood |-> FALSE, mode |-> "none", from |-> None, app |-> a], "rules")
    BY <1>4 DEF Create
  <2> DEFINE new == [waf |-> TRUE, flood |-> FALSE, mode |-> "none", from |-> None, app |-> a]
  <2>2. new \in Row /\ Lent(new)
    BY DEF Row, Modes, Lent
  <2> HIDE DEF new
  <2> QED
    BY <2>1, <2>2, AskKeeps DEF new
<1>5. CASE SetWaf(s)
  <2>1. PICK on \in BOOLEAN : Ask("waf", s, [row[s] EXCEPT !.waf = on], "rules")
    BY <1>5 DEF SetWaf
  <2>2. [row[s] EXCEPT !.waf = on] \in Row /\ Lent([row[s] EXCEPT !.waf = on])
    BY <1>1, <1>2, <1>5 DEF SetWaf, Row, Lent
  <2> QED
    BY <2>1, <2>2, AskKeeps
<1>6. CASE SetFlood(s)
  <2>1. PICK on \in BOOLEAN : Ask("flood", s, [row[s] EXCEPT !.flood = on], "row")
    BY <1>6 DEF SetFlood
  <2>2. [row[s] EXCEPT !.flood = on] \in Row /\ Lent([row[s] EXCEPT !.flood = on])
    BY <1>1, <1>2, <1>6 DEF SetFlood, Row, Lent
  <2> QED
    BY <2>1, <2>2, AskKeeps
<1>7. CASE SetApp(s)
  <2>1. PICK a \in Apps : Ask("app", s, [row[s] EXCEPT !.app = a], "custom")
    BY <1>7 DEF SetApp
  <2>2. [row[s] EXCEPT !.app = a] \in Row /\ Lent([row[s] EXCEPT !.app = a])
    BY <1>1, <1>2, <1>7 DEF SetApp, Row, Lent
  <2> QED
    BY <1>7, <2>1, <2>2, AskKeeps DEF SetApp
<1>8. CASE Share(s)
  <2>1. PICK t \in Sites \ {s} :
          /\ row[t] # None
          /\ LET c == IF row[t].from # None THEN row[t].from ELSE t
             IN /\ {<<"live", c>>, <<"manual", c>>} \cap certs # {}
                /\ Ask("share", s, [row[s] EXCEPT !.mode = "shared", !.from = c], "row")
    BY <1>8 DEF Share
  <2> DEFINE c   == IF row[t].from # None THEN row[t].from ELSE t
             new == [row[s] EXCEPT !.mode = "shared", !.from = c]
  <2>2. c \in Sites
    BY <2>1 DEF TypeOK, RowOrNone, Row
  <2>3. row[s] \in Row
    BY <1>2, <1>8 DEF Share
  <2>4. new \in Row /\ new.from = c
    BY <2>2, <2>3 DEF Row, Modes
  <2>5. Lent(new)
    BY <2>1, <2>4 DEF Lent, Source
  <2> QED
    BY <2>1, <2>4, <2>5, AskKeeps
<1>9. CASE Upload(s)
  <2> DEFINE new == [row[s] EXCEPT !.mode = "manual"]
  <2>1. new \in Row /\ Lent(new) /\ FromOther(new, s)
    BY <1>2, <1>9 DEF Upload, Row, Modes, Lent, FromOther
  <2>2. Ask("upload", s, new, "install") /\ Dependents(s) = {}
    BY <1>9 DEF Upload
  <2> QED
    BY <2>1, <2>2, AskKeeps
<1>10. CASE Enable(s)
  <2> DEFINE new == [row[s] EXCEPT !.mode = "live", !.from = None]
             st  == IF row[s].mode = "manual" THEN "custom" ELSE "issue"
  <2>1. new \in Row /\ Lent(new) /\ FromOther(new, s)
    BY <1>2, <1>10 DEF Enable, Row, Modes, Lent, FromOther
  <2>2. Ask("enable", s, new, st) /\ Dependents(s) = {} /\ row[s] # None
    BY <1>10 DEF Enable
  <2>3. st \in Steps /\ st \in {"custom", "issue"}
    OBVIOUS
  <2> HIDE DEF st
  <2> QED
    BY <2>1, <2>2, <2>3, AskKeeps
<1>11. CASE Wildcard(s)
  <2> DEFINE new == [row[s] EXCEPT !.mode = "zone", !.from = Zone[s]]
  <2>1. new \in Row /\ Lent(new)
    BY <1>2, <1>11, ConstantsAssumption DEF Wildcard, Row, Modes, Lent
  <2>2. Ask("zone", s, new, "issue") /\ Zone[s] # None
    BY <1>11 DEF Wildcard
  <2> QED
    BY <2>1, <2>2, AskKeeps
<1>12. CASE Delete(s)
  <2>1. Ask("delete", s, row[s], "drop") /\ Dependents(s) = {} /\ row[s] \in Row
    BY <1>2, <1>12 DEF Delete
  <2> QED
    BY <1>1, <1>3, <2>1, AskKeeps
<1> QED
  BY <1>4, <1>5, <1>6, <1>7, <1>8, <1>9, <1>10, <1>11, <1>12

-----------------------------------------------------------------------------
(* The steps.                                                               *)

\* Steps that leave rows and vhosts alone.
LEMMA FilesKept ==
  ASSUME Inv, req # None,
         \/ SaveRules \/ SaveZones \/ Custom \/ Accepted \/ NotPutBack
         \/ Install \/ IssueZone \/ DeleteRules \/ StepFails \/ Dropped
  PROVE  Inv'
<1> USE DEF Inv
<1>1. req \in Request /\ req.site \in Sites
  BY DEF TypeOK, Request
<1>2. row' = row /\ vhost' = vhost /\ vhost' \in [Sites -> VhostOrNone]
  BY DEF TypeOK, SaveRules, SaveZones, Custom, Accepted, NotPutBack, Install, IssueZone,
         DeleteRules, StepFails, Dropped, files
<1>3. /\ rules' \subseteq Sites /\ zones' \subseteq Sites
      /\ certs' \subseteq Certs /\ certs \subseteq certs'
  <2>1. CASE Install \/ IssueZone
    <3>1. Now("issue") /\ req.kind = "zone" => Zone[req.site] \in Sites
      BY <1>1, ConstantsAssumption DEF Fitting
    <3> QED
      BY <1>1, <2>1, <3>1 DEF Install, IssueZone, TypeOK, Certs
  <2>2. CASE ~(Install \/ IssueZone)
    BY <1>1, <2>2 DEF TypeOK, SaveRules, SaveZones, Custom, Accepted, NotPutBack, DeleteRules,
         StepFails, Dropped, files
  <2> QED
    BY <2>1, <2>2
<1>4. /\ \/ req' = None
         \/ req' \in Request /\ Same /\ Fitting'
      /\ off' \subseteq off \cup {req.site}
  <2>1. CASE NotPutBack
    BY <2>1, GoesWrong DEF NotPutBack, Stray
  <2>2. CASE Dropped
    BY <2>2 DEF Dropped, Stray
  <2>3. CASE GiveUp
    BY <2>3, GivesUp
  <2>4. CASE Onward /\ off' = off
    BY <2>4, GoesOn
  <2> QED
    BY <2>1, <2>2, <2>3, <2>4
    DEF SaveRules, SaveZones, Custom, Accepted, Install, IssueZone, DeleteRules, StepFails
<1> QED
  BY <1>2, <1>3, <1>4, FileStepKeeps

LEMMA WrittenTypes ==
  ASSUME Inv, req # None
  PROVE  /\ Whole \in Vhost /\ Plain \in Vhost
         /\ vhost[req.site] # None => Block \in Vhost
<1> USE DEF Inv
<1>1. /\ req \in Request /\ req.site \in Sites /\ req.new \in Row /\ req.old \in RowOrNone
      /\ vhost[req.site] \in VhostOrNone
  BY DEF TypeOK, Request
<1>2. req.kind = "app" => req.old \in Row
  BY <1>1 DEF Fitting, RowOrNone
<1>3. Whole \in Vhost
  BY <1>1, <1>2, RenderedType DEF Whole
<1>4. [req.new EXCEPT !.mode = "none"] \in Row
  BY <1>1 DEF Row, Modes
<1>5. Plain \in Vhost
  BY <1>1, <1>4, RenderedType DEF Plain
<1>6. vhost[req.site] # None => Block \in Vhost
  BY <1>1 DEF Block, VhostOrNone, Vhost, Row
<1> QED
  BY <1>3, <1>5, <1>6

LEMMA PutKeeps ==
  ASSUME Inv, req # None, NEW v \in Vhost, Put(v) \/ PutShort(v)
  PROVE  Inv'
<1> USE DEF Inv
<1>1. req \in Request /\ req.site \in Sites
  BY DEF TypeOK, Request
<1>2. row' = row /\ rules' = rules /\ zones' = zones /\ certs' = certs
  BY DEF Put, PutShort, files
<1>3. v \in VhostOrNone /\ Short(v) \in VhostOrNone
  BY ShortType DEF VhostOrNone
<1>4. vhost' \in [Sites -> VhostOrNone] /\ off' \subseteq off \cup {req.site}
  BY <1>1, <1>3 DEF TypeOK, Put, PutShort, Stray
<1>5. CASE Put(v)
  <2>1. req' = [req EXCEPT !.step = "test", !.prev = vhost[req.site]]
    BY <1>5 DEF Put
  <2>2. req' \in Request /\ Same /\ req'.step = "test"
    <3>1. vhost[req.site] \in VhostOrNone /\ "test" \in Steps
      BY <1>1 DEF TypeOK, Steps
    <3> QED
      BY <1>1, <2>1, <3>1, ConstantsAssumption DEF Request, Same
  <2>3. Fitting'
    BY <2>2 DEF Fitting, Same
  <2> QED
    BY <1>2, <1>4, <2>2, <2>3, FileStepKeeps DEF TypeOK
<1>6. CASE PutShort(v)
  <2>1. \/ req' = None
        \/ req' \in Request /\ Same /\ Fitting'
    BY <1>6, GoesWrong DEF PutShort
  <2> QED
    BY <1>2, <1>4, <2>1, FileStepKeeps DEF TypeOK
<1> QED
  BY <1>5, <1>6

LEMMA ResyncKeeps == ASSUME Inv, Resync PROVE Inv'
<1> USE DEF Inv
<1>1. req # None /\ req \in Request /\ req.site \in Sites
  BY DEF TypeOK, Request, Resync, Now
<1> DEFINE new(s) == Rendered(row[s], vhost[s], s, TRUE)
<1>2. \A s \in Dependents(req.site) : new(s) \in Vhost /\ Short(new(s)) \in Vhost
  <2> SUFFICES ASSUME NEW s \in Dependents(req.site)
               PROVE  new(s) \in Vhost /\ Short(new(s)) \in Vhost
    OBVIOUS
  <2>1. s \in Sites /\ row[s] \in Row /\ vhost[s] \in VhostOrNone
    BY DEF Dependents, TypeOK, RowOrNone
  <2>2. new(s) \in Vhost
    BY <2>1, RenderedType
  <2> QED
    BY <2>2, ShortType
<1> HIDE DEF new
<1>3. PICK ok \in SUBSET Dependents(req.site) :
        \E short \in SUBSET (Dependents(req.site) \ ok) :
          /\ vhost' = [s \in Sites |->
                         IF s \in short THEN Short(new(s))
                         ELSE [t \in Sites |-> IF t \in ok THEN new(t) ELSE vhost[t]][s]]
          /\ off' \subseteq off \cup short
  BY DEF Resync, Stray, new
<1>4. vhost' \in [Sites -> VhostOrNone]
  BY <1>2, <1>3 DEF TypeOK, VhostOrNone
<1>5. off' \subseteq Sites
  BY <1>3 DEF TypeOK, Dependents
<1>6. row' = row /\ rules' = rules /\ zones' = zones /\ certs' = certs /\ Onward
  BY DEF Resync, files
<1>7. \A c \in Sites : Source(c) => Source(c)'
  BY <1>6 DEF Source
<1> QED
  BY <1>1, <1>4, <1>5, <1>6, <1>7, GoesOn, StepKeeps DEF TypeOK

\* Steps that take certificates away, and those that write the row.
LEMMA TakingKeeps ==
  ASSUME Inv, req # None, Refile \/ Remove \/ Release
  PROVE  Inv'
<1> USE DEF Inv
<1>1. req \in Request /\ req.site \in Sites
  BY DEF TypeOK, Request
<1>2. row' = row /\ vhost' = vhost /\ rules' = rules /\ zones' = zones
  BY DEF Refile, Remove, Release
<1>3. req.kind \in Taking
  BY DEF Refile, Remove, Release, Now, Fitting, Taking
<1>4. certs' \subseteq Certs
  BY <1>1 DEF TypeOK, Refile, Remove, Release, PutBack, Certs
<1>5. \A c \in Sites : Source(c) => Source(c)' \/ (c = req.site /\ req.kind \in Taking)
  BY <1>3 DEF Refile, Remove, Release, PutBack, Source
<1>6. /\ \/ req' = None
         \/ req' \in Request /\ Same /\ Fitting'
      /\ off' \subseteq off \cup {req.site}
  BY GoesOn DEF Refile, Remove, Release, Falls, Stray
<1> QED
  BY <1>2, <1>4, <1>5, <1>6, StepKeeps DEF TypeOK

LEMMA RowKeeps ==
  ASSUME Inv, req # None, SetRow \/ Restore \/ DeleteRow
  PROVE  Inv'
<1> USE DEF Inv
<1>1. vhost' = vhost /\ rules' = rules /\ zones' = zones /\ certs' = certs
  BY DEF SetRow, Restore, DeleteRow, files
<1>2. /\ \/ req' = None
         \/ req' \in Request /\ Same /\ Fitting'
      /\ off' \subseteq off \cup {req.site}
  BY GoesOn DEF SetRow, Restore, DeleteRow, Falls, Stray
<1>3. \A c \in Sites : Source(c) => Source(c)'
  BY <1>1 DEF Source
<1>4. PICK r \in {req.old, req.new, None} : row' \in {row, [row EXCEPT ![req.site] = r]}
  BY DEF SetRow, Restore, DeleteRow
<1> QED
  BY <1>1, <1>2, <1>3, <1>4, StepKeeps DEF TypeOK

\* Steps that put back, write or remove vhosts.
LEMMA VhostKeeps ==
  ASSUME Inv, req # None, Refused \/ Issue \/ DropVhost
  PROVE  Inv'
<1> USE DEF Inv
<1>1. req \in Request /\ req.site \in Sites /\ req.prev \in VhostOrNone
  BY DEF TypeOK, Request
<1>2. row' = row /\ rules' = rules /\ zones' = zones /\ certs \subseteq certs'
  BY DEF Refused, Issue, DropVhost, files
<1>3. certs' \subseteq Certs
  BY <1>1 DEF TypeOK, Refused, Issue, DropVhost, files, Certs
<1>4. vhost' \in [Sites -> VhostOrNone]
  <2>1. CASE Issue
    <3>1. vhost[req.site] \in Vhost
      BY <1>1, <2>1 DEF Issue, TypeOK, VhostOrNone
    <3>2. [vhost[req.site] EXCEPT !.cert = <<"live", req.site>>] \in VhostOrNone
      BY <1>1, <3>1 DEF Vhost, VhostOrNone, Certs
    <3> QED
      BY <1>1, <2>1, <3>2 DEF Issue, TypeOK
  <2>2. CASE Refused \/ DropVhost
    BY <1>1, <2>2 DEF Refused, DropVhost, TypeOK, VhostOrNone
  <2> QED
    BY <2>1, <2>2
<1>5. /\ \/ req' = None
         \/ req' \in Request /\ Same /\ Fitting'
      /\ off' \subseteq off \cup {req.site}
  BY GoesOn, GivesUp DEF Refused, Issue, DropVhost, Stray
<1> QED
  BY <1>2, <1>3, <1>4, <1>5, FileStepKeeps DEF TypeOK

\* A site that was on uploaded files goes back to them.
LEMMA IssueFailsKeeps == ASSUME Inv, req # None, IssueFails PROVE Inv'
<1> USE DEF Inv
<1>1. req \in Request /\ req.site \in Sites /\ req.kind = "enable"
  BY DEF TypeOK, Request, IssueFails
<1>2. /\ row' = row /\ vhost' = vhost /\ rules' = rules /\ zones' = zones
      /\ certs \subseteq certs' /\ certs' \subseteq Certs
  BY <1>1 DEF IssueFails, TypeOK, Certs
<1>3. CASE req.old.mode = "manual"
  <2>1. req' = [req EXCEPT !.kind = "recover", !.step = "refile", !.new = req.old] /\ off' = off
    BY <1>3 DEF IssueFails
  <2>2. req.old \in Row
    BY <1>1 DEF Request, Fitting, RowOrNone
  <2>3. "refile" \in Steps
    BY DEF Steps
  <2>4. /\ req' \in Request /\ req'.kind = "recover" /\ req'.step = "refile"
        /\ req'.site = req.site /\ req'.old = req.old /\ req'.new = req.old
    BY <1>1, <2>1, <2>2, <2>3 DEF Request
  <2>5. TypeOK' /\ SourceStays'
    BY <1>2, <2>1, <2>4 DEF TypeOK, SourceStays
  <2>6. Fitting'
    BY <2>4 DEF Fitting
  <2>7. Sourced'
    BY <1>2, <2>4 DEF Sourced, Lent, Source
  <2>8. Unborrowed'
    BY <1>1, <1>2, <2>4 DEF Unborrowed, FromOther
  <2> QED
    BY <2>5, <2>6, <2>7, <2>8
<1>4. CASE req.old.mode # "manual"
  BY <1>2, <1>4, GivesUp, FileStepKeeps DEF IssueFails, TypeOK
<1> QED
  BY <1>3, <1>4

LEMMA InvInit == Init => Inv
BY DEF Init, Inv, TypeOK, RowOrNone, VhostOrNone, SourceStays, Fitting, Sourced, Unborrowed

LEMMA InvNext == Inv /\ [Next]_vars => Inv'
<1> SUFFICES ASSUME Inv, [Next]_vars PROVE Inv'
  OBVIOUS
<1>1. CASE Begin
  BY <1>1, BeginKeeps
<1>2. CASE Write \/ WritePlain \/ WriteBlock
  BY <1>2, WrittenTypes, PutKeeps DEF Write, WritePlain, WriteBlock, Now
<1>3. CASE Resync
  BY <1>3, ResyncKeeps
<1>4. CASE \/ SaveRules \/ SaveZones \/ Custom \/ Accepted \/ NotPutBack
           \/ Install \/ IssueZone \/ DeleteRules \/ StepFails \/ Dropped
  <2>1. req # None
    BY <1>4 DEF SaveRules, SaveZones, Custom, Accepted, NotPutBack, Install, IssueZone,
                DeleteRules, StepFails, Dropped, Now
  <2> QED
    BY <1>4, <2>1, FilesKept
<1>5. CASE Refile \/ Remove \/ Release
  BY <1>5, TakingKeeps DEF Refile, Remove, Release, Now
<1>6. CASE SetRow \/ Restore \/ DeleteRow
  BY <1>6, RowKeeps DEF SetRow, Restore, DeleteRow, Now
<1>7. CASE Refused \/ Issue \/ DropVhost
  BY <1>7, VhostKeeps DEF Refused, Issue, DropVhost, Now
<1>8. CASE IssueFails
  BY <1>8, IssueFailsKeeps DEF IssueFails, Now
<1>9. CASE UNCHANGED vars
  BY <1>9
  DEF vars, files, Inv, TypeOK, SourceStays, Fitting, Sourced, Lent, Source, Unborrowed, FromOther
<1> QED
  BY <1>1, <1>2, <1>3, <1>4, <1>5, <1>6, <1>7, <1>8, <1>9 DEF Next, Step

\* The values the variables of SiteConfig take, whatever sites there are and
\* whatever is asked for them.
THEOREM Types == Spec => []TypeOK
<1>1. Inv => TypeOK
  BY DEF Inv
<1> QED
  BY InvInit, InvNext, <1>1, PTL DEF Spec

\* As long as a row says that it borrows a certificate, there is one of that
\* name, whatever has failed or was dropped (`block_if_source`).
THEOREM BorrowedIsThere == Spec => []SourceStays
<1>1. Inv => SourceStays
  BY DEF Inv
<1> QED
  BY InvInit, InvNext, <1>1, PTL DEF Spec

-----------------------------------------------------------------------------
(* The vhost and the row of a site that no request has left half-way.       *)

\* The steps that each kind of request comes by.
Way(k) ==
  CASE k = "create"  -> {"rules", "custom", "write", "test", "row"}
    [] k = "waf"     -> {"rules", "block", "test", "row"}
    [] k = "app"     -> {"custom", "write", "test", "row"}
    [] k = "flood"   -> {"row", "zones", "block", "test", "restore"}
    [] k = "share"   -> {"row", "rules", "zones", "custom", "write", "test", "restore"}
    [] k = "upload"  -> {"install", "row", "rules", "zones", "custom", "write", "test",
                         "resync", "refile"}
    [] k = "zone"    -> {"issue", "row", "rules", "zones", "custom", "write", "test",
                         "resync", "restore"}
    [] k = "enable"  -> {"custom", "plain", "test", "issue", "row", "remove", "resync"}
    [] k = "recover" -> {"refile", "custom", "write", "test"}
    [] k = "delete"  -> {"drop", "release", "unrule", "gone", "zones"}

\* What a request wants, by what it has found.
Wants(r) ==
  /\ r.step \in Way(r.kind)
  /\ r.kind = "create" <=> r.old = None
  /\ r.old # None =>
       /\ r.kind # "waf" => r.new.waf = r.old.waf
       /\ r.kind # "flood" => r.new.flood = r.old.flood
       /\ r.kind \in {"waf", "flood", "app", "recover"} =>
            r.new.mode = r.old.mode /\ r.new.from = r.old.from
       /\ r.kind = "enable" /\ r.step \in {"custom", "plain", "test", "remove"} =>
            r.old.mode = "manual"
  /\ CASE r.kind = "create" -> r.new.mode = "none"
       [] r.kind = "share"  -> r.new.mode = "shared" /\ r.new.from # None
       [] r.kind \in {"upload", "recover"} -> r.new.mode = "manual"
       [] r.kind = "enable" -> r.new.mode = "live"
       [] r.kind = "zone"   -> r.new.mode = "zone"
       [] OTHER -> TRUE

\* A vhost says what the row says.  Whose certificate a site on a zone names
\* is left open.
Says(w, v, s) ==
  IF w = None THEN v = None
  ELSE /\ v # None /\ v.whole
       /\ v.waf = w.waf /\ v.flood = w.flood
       /\ w.mode # "zone" => v.cert = Wanted(w, s)

\* The files it names are there.
Backed(v, s)    == v # None => (v.waf => s \in rules) /\ (v.flood => s \in zones)
Certified(w, v) == w # None /\ w.mode # "zone" /\ v.cert # None => v.cert \in certs

Fits(w, v, s) == Says(w, v, s) /\ Backed(v, s) /\ Certified(w, v)

\* The steps before the vhost is touched, after it was accepted, and those at
\* which the row is the new one.
Unwritten(r) ==
  /\ r.kind \notin {"recover", "delete"} /\ r.step \notin {"test", "restore", "refile"}
  /\ r.kind \in {"create", "waf", "app"} => r.step # "row"
  /\ r.kind = "enable" => r.step \in {"custom", "plain"} \/ (r.step = "issue" /\ r.old.mode # "manual")
  /\ r.kind \in {"upload", "zone"} => r.step # "resync"
  /\ r.kind = "flood" /\ r.step = "zones" => r.new.flood

Written(r) ==
  \/ r.kind \in {"create", "waf", "app"} /\ r.step = "row"
  \/ r.kind = "enable" /\ r.step \in {"row", "remove", "resync"}
  \/ r.kind \in {"upload", "zone"} /\ r.step = "resync"
  \/ r.kind = "flood" /\ r.step = "zones" /\ ~r.new.flood

Stored(r) ==
  \/ /\ r.kind \in {"flood", "share", "upload", "zone"}
     /\ r.step \notin {"install", "issue", "row", "restore", "refile"}
  \/ r.kind = "enable" /\ r.step \in {"remove", "resync"}
  \/ r.kind = "recover"

\* What a request has found can be gone back to.
Found(r) ==
  /\ Says(r.old, r.first, r.site)
  /\ r.kind # "delete" /\ r.step \notin {"remove", "resync"} => Certified(r.old, r.first)
  /\ r.old # None /\ r.old.mode # "zone" /\ r.first.cert = <<"manual", r.site>> => r.had

\* What it has made of the vhost v and the row w so far.
Made(r, v, w) ==
  /\ Backed(IF r.step = "test" THEN r.prev ELSE v, r.site)
  /\ Unwritten(r) => Says(r.old, v, r.site)
  /\ r.step = "test" /\ r.kind # "enable" => Says(r.new, v, r.site)
  /\ r.kind = "enable" /\ r.step \in {"test", "issue"} =>
       v # None /\ v.whole /\ v.waf = r.new.waf /\ v.flood = r.new.flood
  /\ Written(r) => Says(r.new, v, r.site) /\ Certified(r.new, v)
  /\ Stored(r) => w = r.new
  /\ r.kind = "enable" /\ r.step \notin {"remove", "resync"} => w = r.old
  /\ r.kind = "delete" /\ r.step # "drop" => v = None
  /\ r.kind = "delete" /\ r.step = "zones" => w = None

Wanting  == req # None => Wants(req)
Right    == \A t \in Sites \ (off \cup InHand) : Fits(row[t], vhost[t], t)
Underway == req # None /\ req.site \notin off =>
              Found(req) /\ Made(req, vhost[req.site], row[req.site])

RightInv == Inv /\ Wanting /\ Right /\ Underway

-----------------------------------------------------------------------------
(* What a step does to certificates, and what it leaves as it was.          *)

ManualSame(c) == <<"manual", c>> \in certs' <=> <<"manual", c>> \in certs

\* Certificates are added, or those of one site change that nobody borrows from.
CertsMove ==
  \/ certs \subseteq certs' /\ \A c \in Sites : ManualSame(c)
  \/ req.kind \in Taking /\ \A x \in Certs : x[2] # req.site => (x \in certs' <=> x \in certs)

FloodZones == {x \in Sites : row[x] # None /\ row[x].flood}

LEMMA WantedStays ==
  ASSUME NEW w \in Row, NEW x \in Sites,
         w.mode = "shared" /\ w.from # None => ManualSame(w.from), w.mode # "zone"
  PROVE  Wanted(w, x)' = Wanted(w, x)
BY DEF Wanted, Named, Borrowed, ManualSame

LEMMA SourceSame ==
  ASSUME Inv, req # None, CertsMove, NEW w \in RowOrNone, w # None,
         w.mode = "shared", w.from # None,
         req.kind \in Taking => FromOther(w, req.site)
  PROVE  ManualSame(w.from)
<1>1. w.from \in Sites
  BY DEF RowOrNone, Row
<1>2. <<"manual", w.from>> \in Certs /\ <<"manual", w.from>>[2] = w.from
  BY <1>1 DEF Certs
<1> QED
  BY <1>1, <1>2 DEF CertsMove, FromOther, ManualSame

LEMMA SaysStays ==
  ASSUME Inv, req # None, CertsMove, NEW w \in RowOrNone, NEW v, NEW x \in Sites,
         req.kind \in Taking => FromOther(w, req.site), Says(w, v, x)
  PROVE  Says(w, v, x)'
<1>1. CASE w = None
  BY <1>1 DEF Says
<1>2. CASE w # None /\ w.mode = "zone"
  BY <1>2 DEF Says
<1>3. CASE w # None /\ w.mode # "zone"
  <2>1. w \in Row
    BY <1>3 DEF RowOrNone
  <2>2. w.mode = "shared" /\ w.from # None => ManualSame(w.from)
    BY <1>3, SourceSame
  <2>3. Wanted(w, x)' = Wanted(w, x)
    BY <1>3, <2>1, <2>2, WantedStays
  <2> QED
    BY <1>3, <2>3 DEF Says
<1> QED
  BY <1>1, <1>2, <1>3

\* The other sites are as right as they were.
LEMMA OtherStays ==
  ASSUME Inv, Right, req # None, NEW t \in Sites \ off, t # req.site,
         row'[t] = row[t], vhost'[t] = vhost[t],
         rules \ {req.site} \subseteq rules', zones' \in {zones, FloodZones}, CertsMove
  PROVE  Fits(row[t], vhost[t], t)'
<1> PICK w \in RowOrNone : w = row[t]
  BY DEF Inv, TypeOK
<1> PICK v \in VhostOrNone : v = vhost[t]
  BY DEF Inv, TypeOK
<1>1. Fits(w, v, t)
  BY DEF Right, InHand
<1>2. req.kind \in Taking => FromOther(w, req.site)
  BY DEF Inv, Unborrowed, Taking
<1>3. Says(w, v, t)'
  BY <1>1, <1>2, SaysStays DEF Fits
<1>4. Backed(v, t)'
  BY <1>1 DEF Fits, Backed, Says, FloodZones
<1>5. Certified(w, v)'
  <2> SUFFICES ASSUME w # None, w.mode # "zone", v.cert # None PROVE v.cert \in certs'
    BY DEF Certified
  <2>1. v.cert \in certs /\ v.cert = Wanted(w, t)
    BY <1>1 DEF Fits, Says, Certified
  <2>2. CASE certs \subseteq certs'
    BY <2>1, <2>2
  <2>3. CASE req.kind \in Taking /\ \A x \in Certs : x[2] # req.site => (x \in certs' <=> x \in certs)
    <3>1. w \in Row
      BY DEF RowOrNone
    <3>2. \/ v.cert \in {<<"live", t>>, <<"manual", t>>}
          \/ w.mode = "shared" /\ w.from # None /\ v.cert \in {<<"live", w.from>>, <<"manual", w.from>>}
      BY <2>1, <3>1 DEF Wanted, Named, Borrowed, Row, Modes
    <3>3. v.cert \in Certs /\ v.cert[2] # req.site
      BY <2>1, <2>3, <1>2, <3>2 DEF Inv, TypeOK, FromOther
    <3> QED
      BY <2>1, <2>3, <3>3
  <2> QED
    BY <2>2, <2>3 DEF CertsMove
<1>6. Fits(w, v, t)'
  BY <1>3, <1>4, <1>5 DEF Fits
<1> QED
  BY <1>6

-----------------------------------------------------------------------------
(* What becomes of the site in hand.                                        *)

\* It is left half-way, or it fits its row, or the request goes on.
Comes(s) ==
  /\ off \subseteq off'
  /\ req' # None => req'.site = s /\ Wants(req')
  /\ s \notin off' => IF req' = None THEN Fits(row[s], vhost[s], s)'
                      ELSE Found(req)' /\ Made(req, vhost[s], row[s])'

LEMMA Assembled ==
  ASSUME RightInv, Inv', req # None, NEW s, s = req.site, Comes(s),
         \A t \in Sites \ off' : t # s => Fits(row[t], vhost[t], t)'
  PROVE  RightInv'
<1>1. Wanting'
  BY DEF Comes, Wanting, Wants
<1>2. Right'
  <2> SUFFICES ASSUME NEW t \in Sites, t \notin off', t \notin InHand'
               PROVE  Fits(row[t], vhost[t], t)'
    BY DEF Right
  <2> QED
    BY DEF Comes, InHand
<1>3. Underway'
  <2> SUFFICES ASSUME req' # None, req'.site \notin off'
               PROVE  Found(req)' /\ Made(req, vhost[req.site], row[req.site])'
    BY DEF Underway
  <2>1. req'.site = s
    BY DEF Comes
  <2>2. Found(req)' /\ Made(req, vhost[s], row[s])'
    BY <2>1 DEF Comes
  <2> QED
    BY <2>1, <2>2 DEF Made
<1> QED
  BY <1>1, <1>2, <1>3 DEF RightInv

\* The same, for steps that touch neither row nor vhost of any other site.
LEMMA Apart ==
  ASSUME RightInv, Inv', req # None, NEW s, s = req.site, Comes(s),
         \A t \in Sites : t # s => row'[t] = row[t] /\ vhost'[t] = vhost[t],
         rules \ {s} \subseteq rules', zones' \in {zones, FloodZones}, CertsMove
  PROVE  RightInv'
<1>1. ASSUME NEW t \in Sites \ off', t # s PROVE Fits(row[t], vhost[t], t)'
  BY <1>1, OtherStays DEF Comes, RightInv
<1> QED
  BY <1>1, Assembled

\* The request at its next step still wants what it wanted.
LEMMA WantsOn ==
  ASSUME NEW r \in Request, Wants(r), NEW r2,
         r2 = [r EXCEPT !.step = After(r.kind, r.step, r.new, r.old)],
         After(r.kind, r.step, r.new, r.old) # "end"
  PROVE  /\ Wants(r2) /\ r2.step = After(r.kind, r.step, r.new, r.old)
         /\ r2.kind = r.kind /\ r2.site = r.site /\ r2.old = r.old /\ r2.new = r.new
         /\ r2.first = r.first /\ r2.prev = r.prev /\ r2.had = r.had
<1> DEFINE st == After(r.kind, r.step, r.new, r.old)
<1>1. /\ r2.kind = r.kind /\ r2.site = r.site /\ r2.old = r.old /\ r2.new = r.new
      /\ r2.first = r.first /\ r2.prev = r.prev /\ r2.had = r.had /\ r2.step = st
  BY DEF Request
<1>2. st \in Way(r.kind)
  BY DEF Wants, Way, After, Request, Kinds
<1>3. r.kind = "enable" /\ r.old # None /\ st \in {"custom", "plain", "test", "remove"} =>
        r.old.mode = "manual"
  BY DEF Wants, Way, After
<1> HIDE DEF st
<1> QED
  BY <1>1, <1>2, <1>3 DEF Wants

LEMMA WantsUndone ==
  ASSUME NEW r \in Request, Wants(r), NEW r2, NEW st, st = Undo(r.kind, r.step), st # "end",
         r2 = [r EXCEPT !.step = st]
  PROVE  /\ Wants(r2) /\ r2.step = st /\ st \in {"refile", "restore"}
         /\ r2.kind = r.kind /\ r2.site = r.site /\ r2.old = r.old /\ r2.new = r.new
         /\ r2.first = r.first /\ r2.had = r.had
         /\ r.kind \in {"upload", "flood", "share", "zone"}
<1>1. /\ r2.kind = r.kind /\ r2.site = r.site /\ r2.old = r.old /\ r2.new = r.new
      /\ r2.first = r.first /\ r2.had = r.had /\ r2.step = st
  BY DEF Request
<1>2. st \in Way(r.kind) /\ st \in {"refile", "restore"} /\ r.kind \in {"upload", "flood", "share", "zone"}
  BY DEF Undo, Way
<1> QED
  BY <1>1, <1>2 DEF Wants

\* What a request that is given up goes back to is as it found it.
Undoable(r) ==
  /\ Says(r.old, r.first, r.site)'
  /\ r.kind # "delete" => Certified(r.old, r.first)'
  /\ r.old # None /\ r.old.mode # "zone" /\ r.first.cert = <<"manual", r.site>> => r.had

\* A request that ends because a step failed has left the site half-way, or
\* as it was.
LEMMA FallsBack ==
  ASSUME RightInv, req # None, NEW r, r = req, NEW s, s = r.site, Falls,
         NEW v, v = vhost'[s],
         s \notin off /\ r.kind = "delete" => v = None,
         s \notin off => Undoable(r) /\ Backed(v, s)'
  PROVE  Comes(s)
<1>1. r \in Request /\ Wants(r)
  BY DEF RightInv, Inv, TypeOK, Wanting
<1>2. off \subseteq off' /\ req' = None
  BY DEF Falls, Stray
<1> SUFFICES ASSUME s \notin off' PROVE Fits(row[s], vhost[s], s)'
  BY <1>2 DEF Comes
<1>3. v = r.first /\ row'[s] = r.old /\ s \notin off
  BY <1>2 DEF Falls, Stray
<1>4. Says(r.old, r.first, s)'
  BY <1>3 DEF Undoable
<1>5. r.kind # "delete"
  BY <1>1, <1>3, <1>4 DEF Says, Wants
<1>6. Fits(r.old, r.first, s)'
  BY <1>3, <1>4, <1>5 DEF Undoable, Fits
<1>7. row'[s] = r.old /\ vhost'[s] = r.first
  BY <1>3
<1> QED
  BY <1>6, <1>7

LEMMA GivenUp ==
  ASSUME RightInv, req # None, NEW r, r = req, NEW s, s = r.site, GiveUp,
         NEW v, v = vhost'[s],
         s \notin off /\ r.kind = "delete" => v = None,
         s \notin off => Undoable(r) /\ Backed(v, s)'
  PROVE  Comes(s)
<1>1. r \in Request /\ Wants(r)
  BY DEF RightInv, Inv, TypeOK, Wanting
<1> DEFINE st == Undo(r.kind, r.step)
<1>2. CASE st = "end"
  BY <1>2, FallsBack DEF GiveUp
<1>3. CASE st # "end"
  <2> PICK r2 : r2 = [r EXCEPT !.step = st]
    OBVIOUS
  <2>1. req' = r2 /\ off' = off
    BY <1>3 DEF GiveUp, Goto
  <2>2. /\ Wants(r2) /\ r2.step = st /\ st \in {"refile", "restore"}
        /\ r2.kind = r.kind /\ r2.site = s /\ r2.old = r.old /\ r2.new = r.new
        /\ r2.first = r.first /\ r2.had = r.had
        /\ r.kind \in {"upload", "flood", "share", "zone"}
    BY <1>1, <1>3, WantsUndone
  <2> PICK w : w = row'[s]
    OBVIOUS
  <2>3. s \notin off => Found(r2)' /\ Made(r2, v, w)'
    <3> SUFFICES ASSUME s \notin off PROVE Found(r2)' /\ Made(r2, v, w)'
      OBVIOUS
    <3>1. Found(r2)'
      BY <2>2 DEF Found, Undoable
    <3>2. Made(r2, v, w)'
      BY <2>2 DEF Made, Unwritten, Written, Stored
    <3> QED
      BY <3>1, <3>2
  <2>4. req' # None
    <3>1. r2 \in Request
      BY <1>1, <2>2 DEF Request, Steps
    <3> QED
      BY <2>1, <3>1, ConstantsAssumption
  <2> QED
    BY <2>1, <2>2, <2>3, <2>4 DEF Comes
<1> QED
  BY <1>2, <1>3

LEMMA AtStep ==
  ASSUME NEW r \in Request, NEW st, NEW r2, r2 = [r EXCEPT !.step = st]
  PROVE  /\ r2.step = st /\ r2.kind = r.kind /\ r2.site = r.site /\ r2.old = r.old
         /\ r2.new = r.new /\ r2.first = r.first /\ r2.prev = r.prev /\ r2.had = r.had
BY DEF Request

\* The request goes on, or is over.
LEMMA GoneOn ==
  ASSUME RightInv, req # None, NEW r, r = req, NEW s, s = r.site,
         Onward, off \subseteq off',
         NEW v, v = vhost'[s], NEW w, w = row'[s],
         NEW st, st = After(r.kind, r.step, r.new, r.old),
         s \notin off' /\ st = "end" => Fits(w, v, s)',
         NEW r2, r2 = [r EXCEPT !.step = st],
         s \notin off' /\ st # "end" => Found(r2)' /\ Made(r2, v, w)'
  PROVE  Comes(s)
<1>1. r \in Request /\ Wants(r)
  BY DEF RightInv, Inv, TypeOK, Wanting
<1>2. CASE st = "end"
  BY <1>2 DEF Onward, Goto, Comes
<1>3. CASE st # "end"
  <2>1. req' = r2
    BY <1>3 DEF Onward, Goto
  <2>2. /\ Wants(r2) /\ r2.step = st
        /\ r2.kind = r.kind /\ r2.site = s /\ r2.old = r.old /\ r2.new = r.new
        /\ r2.first = r.first /\ r2.prev = r.prev /\ r2.had = r.had
    BY <1>1, <1>3, WantsOn
  <2>3. s \notin off' => Found(r2)' /\ Made(r2, v, w)'
    BY <1>3
  <2>4. req' # None
    <3>1. st \in Steps
      BY <1>1, <1>3, AfterIsStep DEF Request
    <3>2. r2 \in Request
      BY <1>1, <3>1 DEF Request
    <3> QED
      BY <2>1, <3>2, ConstantsAssumption
  <2> QED
    BY <2>1, <2>2, <2>3, <2>4 DEF Comes
<1> QED
  BY <1>2, <1>3

LEMMA InHandNow ==
  ASSUME RightInv, req # None, NEW r, r = req, NEW s, s = r.site
  PROVE  /\ r \in Request /\ s \in Sites /\ Wants(r) /\ r.kind \in Kinds \cup {"recover"}
         /\ r.new \in Row /\ r.new \in RowOrNone /\ r.old \in RowOrNone
         /\ vhost[s] \in VhostOrNone /\ row[s] \in RowOrNone
         /\ r.kind \in Taking => FromOther(r.old, s) /\ FromOther(r.new, s)
         /\ s \notin off => Found(r) /\ Made(r, vhost[s], row[s])
<1>1. r \in Request /\ Wants(r)
  BY DEF RightInv, Inv, TypeOK, Wanting
<1>2. s \in Sites /\ r.new \in Row /\ r.old \in RowOrNone /\ r.kind \in Kinds \cup {"recover"}
  BY <1>1 DEF Request
<1>3. r.kind \in Taking => FromOther(r.old, s) /\ FromOther(r.new, s)
  BY DEF RightInv, Inv, Unborrowed, Taking
<1>4. s \notin off => Found(r) /\ Made(r, vhost[s], row[s])
  BY DEF RightInv, Underway
<1>5. vhost[s] \in VhostOrNone /\ row[s] \in RowOrNone
  BY <1>2 DEF RightInv, Inv, TypeOK
<1> QED
  BY <1>1, <1>2, <1>3, <1>4, <1>5 DEF RowOrNone

LEMMA FoundSays ==
  ASSUME RightInv, req # None, NEW r, r = req, r.site \notin off, CertsMove
  PROVE  Says(r.old, r.first, r.site)'
<1>1. Found(r) /\ r.old \in RowOrNone /\ r.site \in Sites
      /\ (r.kind \in Taking => FromOther(r.old, r.site))
  BY InHandNow
<1> PICK o \in RowOrNone : o = r.old
  BY <1>1
<1> PICK f : f = r.first
  OBVIOUS
<1>2. Says(o, f, r.site)
  BY <1>1 DEF Found
<1>3. Says(o, f, r.site)'
  BY <1>1, <1>2, SaysStays DEF RightInv
<1> QED
  BY <1>3

\* The certificate that was found is kept, or there is no way back to it.
Kept(r) == certs \subseteq certs' /\ r.step \notin {"remove", "resync"}
Past(r) == r.kind = "delete" \/ r.step \in {"remove", "resync"}

\* No certificate goes: what was found can still be gone back to.
LEMMA UndoStays ==
  ASSUME RightInv, req # None, NEW r, r = req, r.site \notin off, CertsMove,
         certs \subseteq certs', r.step \notin {"remove", "resync"}
  PROVE  Undoable(r)
<1>1. Found(r)
  BY InHandNow
<1>2. Says(r.old, r.first, r.site)'
  BY FoundSays
<1> QED
  BY <1>1, <1>2 DEF Found, Undoable, Certified

LEMMA FoundStays ==
  ASSUME RightInv, req # None, NEW r, r = req, r.site \notin off, CertsMove,
         NEW r2, r2.kind = r.kind, r2.site = r.site, r2.old = r.old,
         r2.first = r.first, r2.had = r.had,
         Kept(r) \/ Past(r2)
  PROVE  Found(r2)'
<1>1. Found(r)
  BY InHandNow
<1>2. Says(r.old, r.first, r.site)'
  BY FoundSays
<1>3. certs \subseteq certs' => (Certified(r.old, r.first) => Certified(r.old, r.first)')
  BY DEF Certified
<1> QED
  BY <1>1, <1>2, <1>3 DEF Found, Kept, Past

\* A step before the vhost is written, which touches neither it nor the row.
LEMMA FilesFirst ==
  ASSUME RightInv, req # None, NEW r, r = req, NEW s, s = r.site,
         row' = row, vhost' = vhost, CertsMove, certs \subseteq certs',
         r.step \in {"rules", "zones", "custom", "install", "issue"},
         Unwritten(r) \/ (r.kind = "recover" /\ r.step = "custom"),
         r.step = "issue" => r.kind = "zone",
         s \notin off => Backed(vhost[s], s)',
         (Onward /\ off' = off) \/ GiveUp
  PROVE  Comes(s)
<1> PICK v : v = vhost[s]
  OBVIOUS
<1> PICK w : w = row[s]
  OBVIOUS
<1>1. /\ r \in Request /\ s \in Sites /\ Wants(r) /\ r.old \in RowOrNone
      /\ r.kind \in Kinds \cup {"recover"}
      /\ r.kind \in Taking => FromOther(r.old, s)
      /\ s \notin off => Found(r) /\ Made(r, v, w)
  BY InHandNow
<1>2. v = vhost'[s] /\ w = row'[s] /\ (s \notin off => Backed(v, s)')
  BY DEF Backed
<1>3. r.kind # "delete"
  BY DEF Unwritten
<1>4. CASE GiveUp
  <2>1. s \notin off => Undoable(r)
    BY UndoStays
  <2> QED
    BY <1>2, <1>3, <1>4, <2>1, GivenUp
<1>5. CASE Onward /\ off' = off
  <2> PICK st : st = After(r.kind, r.step, r.new, r.old)
    OBVIOUS
  <2>1. st # "end"
    BY <1>1, <1>3 DEF After, Wants, Way, Unwritten, Kinds
  <2> PICK r2 : r2 = [r EXCEPT !.step = st]
    OBVIOUS
  <2>2. /\ r2.step = st /\ r2.kind = r.kind /\ r2.site = r.site /\ r2.old = r.old
        /\ r2.new = r.new /\ r2.first = r.first /\ r2.prev = r.prev /\ r2.had = r.had
    BY <1>1, AtStep
  <2>3. ASSUME s \notin off' PROVE Found(r2)' /\ Made(r2, v, w)'
    <3>1. s \notin off /\ Made(r, v, w)
      BY <1>1, <1>5, <2>3
    <3>2. Found(r2)'
      <4>1. Kept(r)
        BY DEF Kept
      <4> QED
        BY <2>2, <3>1, <4>1, FoundStays
    <3>3. Unwritten(r) => Says(r.old, v, s)'
      BY <1>1, <3>1, SaysStays DEF Made, RightInv
    <3>4. /\ r2.step # "test" /\ ~Written(r2)
          /\ Unwritten(r2) => Unwritten(r)
          /\ r.kind = "enable" => r2.step = "plain"
          /\ Stored(r2) => Stored(r)
      BY <1>1, <1>3, <2>2 DEF After, Wants, Way, Unwritten, Written, Stored, Kinds
    <3>5. Stored(r2) => w = r.new
      BY <3>1, <3>4 DEF Made
    <3>6. r.kind = "enable" => w = r.old
      BY <1>1, <3>1 DEF Made
    <3>7. Backed(v, s)'
      BY <1>2, <3>1
    <3> QED
      BY <1>3, <2>2, <3>2, <3>3, <3>4, <3>5, <3>6, <3>7 DEF Made
  <2> QED
    BY <1>2, <1>5, <2>1, <2>3, GoneOn
<1> QED
  BY <1>4, <1>5

LEMMA RulesRight == ASSUME RightInv, Inv', SaveRules PROVE RightInv'
<1> PICK r : r = req
  OBVIOUS
<1> PICK s : s = r.site
  OBVIOUS
<1>1. req # None /\ r.step = "rules"
  BY DEF SaveRules, Now
<1>2. /\ s \in Sites /\ Wants(r) /\ r.kind \in Kinds \cup {"recover"}
      /\ s \notin off => Made(r, vhost[s], row[s])
  BY <1>1, InHandNow
<1>3. row' = row /\ vhost' = vhost /\ zones' = zones /\ certs' = certs /\ rules \subseteq rules'
  BY DEF SaveRules
<1>4. CertsMove
  BY <1>3 DEF CertsMove, ManualSame
<1>5. s \notin off => Backed(vhost[s], s)'
  BY <1>1, <1>2, <1>3 DEF Made, Backed
<1>6. Unwritten(r)
  BY <1>1, <1>2 DEF Wants, Way, Unwritten, Kinds
<1>7. (Onward /\ off' = off) \/ GiveUp
  BY DEF SaveRules
<1>8. Comes(s)
  BY <1>1, <1>3, <1>4, <1>5, <1>6, <1>7, FilesFirst
<1> QED
  BY <1>1, <1>3, <1>4, <1>8, Apart

LEMMA CustomRight == ASSUME RightInv, Inv', Custom PROVE RightInv'
<1> PICK r : r = req
  OBVIOUS
<1> PICK s : s = r.site
  OBVIOUS
<1>1. req # None /\ r.step = "custom"
  BY DEF Custom, Now
<1>2. /\ s \in Sites /\ Wants(r) /\ r.kind \in Kinds \cup {"recover"}
      /\ s \notin off => Made(r, vhost[s], row[s])
  BY <1>1, InHandNow
<1>3. row' = row /\ vhost' = vhost /\ zones' = zones /\ certs' = certs /\ rules' = rules
  BY DEF Custom, files
<1>4. CertsMove
  BY <1>3 DEF CertsMove, ManualSame
<1>5. s \notin off => Backed(vhost[s], s)'
  BY <1>1, <1>2, <1>3 DEF Made, Backed
<1>6. Unwritten(r) \/ r.kind = "recover"
  BY <1>1, <1>2 DEF Wants, Way, Unwritten, Kinds
<1>7. Onward /\ off' = off
  BY DEF Custom
<1>8. Comes(s)
  BY <1>1, <1>3, <1>4, <1>5, <1>6, <1>7, FilesFirst
<1> QED
  BY <1>1, <1>3, <1>4, <1>8, Apart

LEMMA CertsRight == ASSUME RightInv, Inv', Install \/ IssueZone PROVE RightInv'
<1> PICK r : r = req
  OBVIOUS
<1> PICK s : s = r.site
  OBVIOUS
<1>1. req # None /\ r.step \in {"install", "issue"} /\ (r.step = "issue" => r.kind = "zone")
  BY DEF Install, IssueZone, Now
<1>2. /\ s \in Sites /\ Wants(r) /\ r.kind \in Kinds \cup {"recover"}
      /\ s \notin off => Made(r, vhost[s], row[s])
  BY <1>1, InHandNow
<1>3. row' = row /\ vhost' = vhost /\ zones' = zones /\ rules' = rules /\ certs \subseteq certs'
  BY DEF Install, IssueZone
<1>4. CertsMove
  <2>1. CASE Install
    <3>1. r.kind \in Taking
      BY <1>2, <2>1 DEF Install, Now, Wants, Way, Kinds, Taking
    <3>2. \A x \in Certs : x[2] # s => (x \in certs' <=> x \in certs)
      BY <2>1 DEF Install
    <3> QED
      BY <3>1, <3>2 DEF CertsMove
  <2>2. CASE IssueZone
    BY <1>3, <2>2 DEF IssueZone, CertsMove, ManualSame
  <2> QED
    BY <2>1, <2>2
<1>5. s \notin off => Backed(vhost[s], s)'
  BY <1>1, <1>2, <1>3 DEF Made, Backed
<1>6. Unwritten(r)
  BY <1>1, <1>2 DEF Wants, Way, Unwritten, Kinds
<1>7. (Onward /\ off' = off) \/ GiveUp
  BY DEF Install, IssueZone
<1>8. Comes(s)
  BY <1>1, <1>3, <1>4, <1>5, <1>6, <1>7, FilesFirst
<1> QED
  BY <1>1, <1>3, <1>4, <1>8, Apart

\* The zones, of all rows: before the block that names one, or after it.
LEMMA ZonesRight == ASSUME RightInv, Inv', SaveZones PROVE RightInv'
<1> PICK r : r = req
  OBVIOUS
<1> PICK s : s = r.site
  OBVIOUS
<1> PICK v : v = vhost[s]
  OBVIOUS
<1> PICK w : w = row[s]
  OBVIOUS
<1>1. req # None /\ r.step = "zones"
  BY DEF SaveZones, Now
<1>2. /\ r \in Request /\ s \in Sites /\ Wants(r) /\ r.kind \in Kinds \cup {"recover"}
      /\ r.new \in RowOrNone /\ (r.kind \in Taking => FromOther(r.new, s))
      /\ s \notin off => Made(r, v, w)
  BY <1>1, InHandNow
<1>3. row' = row /\ vhost' = vhost /\ zones' = FloodZones /\ certs' = certs /\ rules' = rules
  BY DEF SaveZones, FloodZones
<1>4. CertsMove
  BY <1>3 DEF CertsMove, ManualSame
<1>5. Backed(v, s)'
  BY <1>2, <1>3 DEF SaveZones, FloodZones, Loads, Complete, Backed
<1>6. (Onward /\ off' = off) \/ GiveUp
  BY DEF SaveZones
<1>7. CASE Unwritten(r)
  <2>1. Backed(vhost[s], s)'
    BY <1>3, <1>5 DEF Backed
  <2>2. Comes(s)
    BY <1>1, <1>3, <1>4, <1>6, <1>7, <2>1, FilesFirst
  <2> QED
    BY <1>1, <1>3, <1>4, <2>2, Apart
<1>8. CASE ~Unwritten(r)
  <2>1. r.kind = "delete" \/ (r.kind = "flood" /\ ~r.new.flood)
    BY <1>1, <1>2, <1>8 DEF Wants, Way, Unwritten, Kinds
  <2>2. v = vhost'[s] /\ w = row'[s]
    BY <1>3
  <2>3. r.kind = "delete" /\ s \notin off => v = None /\ w = None
    BY <1>1, <1>2 DEF Made
  <2>4. CASE GiveUp
    <3>1. s \notin off => Undoable(r)
      BY <1>1, <1>3, <1>4, UndoStays
    <3>2. Comes(s)
      BY <1>1, <1>5, <2>2, <2>3, <2>4, <3>1, GivenUp
    <3> QED
      BY <1>1, <1>3, <1>4, <3>2, Apart
  <2>5. CASE Onward /\ off' = off
    <3> PICK st : st = After(r.kind, r.step, r.new, r.old)
      OBVIOUS
    <3> PICK r2 : r2 = [r EXCEPT !.step = st]
      OBVIOUS
    <3>1. st = "end"
      BY <1>1, <2>1 DEF After
    <3>2. ASSUME s \notin off PROVE Fits(w, v, s)'
      <4>1. CASE r.kind = "delete"
        BY <1>5, <2>3, <3>2, <4>1 DEF Fits, Says, Certified
      <4>2. CASE r.kind = "flood" /\ ~r.new.flood
        <5>1. Says(r.new, v, s) /\ Certified(r.new, v) /\ w = r.new
          BY <1>1, <1>2, <3>2, <4>2 DEF Made, Written, Stored
        <5>2. Says(w, v, s)'
          BY <1>1, <1>2, <1>4, <5>1, SaysStays DEF RightInv
        <5>3. Certified(w, v)'
          BY <1>3, <5>1 DEF Certified
        <5> QED
          BY <1>5, <5>2, <5>3 DEF Fits
      <4> QED
        BY <2>1, <4>1, <4>2
    <3>3. Comes(s)
      BY <1>1, <2>2, <2>5, <3>1, <3>2, GoneOn
    <3> QED
      BY <1>1, <1>3, <1>4, <3>3, Apart
  <2> QED
    BY <1>6, <2>4, <2>5
<1> QED
  BY <1>7, <1>8

\* A call or a statement fails and has done nothing.
LEMMA FailRight == ASSUME RightInv, Inv', StepFails PROVE RightInv'
<1> PICK r : r = req
  OBVIOUS
<1> PICK s : s = r.site
  OBVIOUS
<1> PICK v : v = vhost[s]
  OBVIOUS
<1>1. /\ req # None /\ GiveUp
      /\ r.step \in {"rules", "zones", "custom", "block", "row", "install", "gone"}
  BY DEF StepFails
<1>2. s \notin off => Made(r, v, row[s])
  BY <1>1, InHandNow
<1>3. row' = row /\ vhost' = vhost /\ zones' = zones /\ certs' = certs /\ rules' = rules
  BY DEF StepFails, files
<1>4. CertsMove
  BY <1>3 DEF CertsMove, ManualSame
<1>5. s \notin off => Undoable(r) /\ Backed(v, s)' /\ (r.kind = "delete" => v = None)
  <2> SUFFICES ASSUME s \notin off
               PROVE  Undoable(r) /\ Backed(v, s)' /\ (r.kind = "delete" => v = None)
    OBVIOUS
  <2>1. Undoable(r)
    BY <1>1, <1>3, <1>4, UndoStays
  <2>2. Backed(v, s)'
    BY <1>1, <1>2, <1>3 DEF Made, Backed
  <2>3. r.kind = "delete" => v = None
    BY <1>1, <1>2 DEF Made
  <2> QED
    BY <2>1, <2>2, <2>3
<1>6. v = vhost'[s]
  BY <1>3
<1>7. Comes(s)
  BY <1>1, <1>5, <1>6, GivenUp
<1> QED
  BY <1>1, <1>3, <1>4, <1>7, Apart

\* The site is left half-way: nothing is said of it any more.
LEMMA LeftRight ==
  ASSUME RightInv, Inv', req # None, Dropped \/ NotPutBack \/ \E v : PutShort(v)
  PROVE  RightInv'
<1> PICK r : r = req
  OBVIOUS
<1> PICK s : s = r.site
  OBVIOUS
<1> PICK st : st = Undo(r.kind, r.step)
  OBVIOUS
<1> PICK r2 : r2 = [r EXCEPT !.step = st]
  OBVIOUS
<1>1. r \in Request /\ Wants(r) /\ s \in Sites
  BY InHandNow
<1>2. /\ row' = row /\ zones' = zones /\ certs' = certs /\ rules' = rules
      /\ off' = off \cup {s}
      /\ req' = None \/ (req' = r2 /\ st # "end")
      /\ \A t \in Sites : t # s => vhost'[t] = vhost[t]
  BY <1>1 DEF Dropped, NotPutBack, PutShort, Goto, Stray, files, RightInv, Inv, TypeOK
<1>3. CertsMove
  BY <1>2 DEF CertsMove, ManualSame
<1>4. Comes(s)
  BY <1>1, <1>2, WantsUndone DEF Comes
<1> QED
  BY <1>2, <1>3, <1>4, Apart

\* `nginx -t` accepts what is there, of all sites.
LEMMA AcceptedRight == ASSUME RightInv, Inv', Accepted PROVE RightInv'
<1> PICK r : r = req
  OBVIOUS
<1> PICK s : s = r.site
  OBVIOUS
<1> PICK v : v = vhost[s]
  OBVIOUS
<1> PICK w : w = row[s]
  OBVIOUS
<1> PICK st : st = After(r.kind, r.step, r.new, r.old)
  OBVIOUS
<1> PICK r2 : r2 = [r EXCEPT !.step = st]
  OBVIOUS
<1>1. req # None /\ r.step = "test" /\ Onward /\ off' = off
  BY DEF Accepted, Now
<1>2. /\ r \in Request /\ s \in Sites /\ Wants(r) /\ r.kind \in Kinds \cup {"recover"}
      /\ r.new \in RowOrNone /\ (r.kind \in Taking => FromOther(r.new, s))
      /\ s \notin off => Made(r, v, w)
  BY <1>1, InHandNow
<1>3. row' = row /\ vhost' = vhost /\ zones' = zones /\ certs' = certs /\ rules' = rules
  BY DEF Accepted, files
<1>4. CertsMove
  BY <1>3 DEF CertsMove, ManualSame
<1>5. Backed(v, s)' /\ (v # None /\ v.cert # None => v.cert \in certs')
  BY <1>2, <1>3 DEF Accepted, Loads, Complete, Backed
<1>6. s \notin off /\ r.kind # "enable" => Says(r.new, v, s)' /\ Certified(r.new, v)'
  <2> SUFFICES ASSUME s \notin off, r.kind # "enable"
               PROVE  Says(r.new, v, s)' /\ Certified(r.new, v)'
    OBVIOUS
  <2>1. Says(r.new, v, s)
    BY <1>1, <1>2 DEF Made
  <2>2. Says(r.new, v, s)'
    BY <1>1, <1>2, <1>4, <2>1, SaysStays DEF RightInv
  <2>3. r.new # None => v # None
    BY <2>1 DEF Says
  <2> QED
    BY <1>5, <2>2, <2>3 DEF Certified
<1>7. /\ r2.step = st /\ r2.kind = r.kind /\ r2.site = r.site /\ r2.old = r.old
      /\ r2.new = r.new /\ r2.first = r.first /\ r2.prev = r.prev /\ r2.had = r.had
  BY <1>2, AtStep
<1>8. ASSUME s \notin off, st # "end" PROVE Found(r2)' /\ Made(r2, v, w)'
  <2>1. Found(r2)'
    <3>1. Kept(r)
      BY <1>1, <1>3 DEF Kept
    <3> QED
      BY <1>1, <1>4, <1>7, <1>8, <3>1, FoundStays
  <2>2. /\ ~Unwritten(r2) /\ r2.step # "test" /\ r2.kind # "delete"
        /\ Stored(r2) => Stored(r)
        /\ Written(r2) => r.kind # "enable"
        /\ r.kind = "enable" => r2.step = "issue"
    <3>1. r.kind = "enable" => r.old.mode = "manual"
      BY <1>1, <1>2 DEF Wants
    <3> QED
      BY <1>1, <1>2, <1>7, <1>8, <3>1 DEF After, Wants, Way, Unwritten, Written, Stored, Kinds
  <2>3. Stored(r2) => w = r.new
    BY <1>2, <1>8, <2>2 DEF Made
  <2>4. r.kind = "enable" =>
          /\ w = r.old
          /\ v # None /\ v.whole /\ v.waf = r.new.waf /\ v.flood = r.new.flood
    BY <1>1, <1>2, <1>8 DEF Made
  <2> QED
    BY <1>5, <1>6, <1>7, <1>8, <2>1, <2>2, <2>3, <2>4 DEF Made
<1>9. ASSUME s \notin off, st = "end" PROVE Fits(w, v, s)'
  <2>1. r.kind # "enable" /\ Stored(r)
    BY <1>1, <1>2, <1>9 DEF After, Wants, Way, Stored, Kinds
  <2>2. w = r.new
    BY <1>2, <1>9, <2>1 DEF Made
  <2> QED
    BY <1>5, <1>6, <1>9, <2>1, <2>2 DEF Fits
<1>10. v = vhost'[s] /\ w = row'[s]
  BY <1>3
<1>11. Comes(s)
  BY <1>1, <1>8, <1>9, <1>10, GoneOn
<1> QED
  BY <1>1, <1>3, <1>4, <1>11, Apart

\* What was there goes back.
LEMMA RefusedRight == ASSUME RightInv, Inv', Refused PROVE RightInv'
<1> PICK r : r = req
  OBVIOUS
<1> PICK s : s = r.site
  OBVIOUS
<1> PICK v : v = r.prev
  OBVIOUS
<1>1. req # None /\ r.step = "test" /\ GiveUp
  BY DEF Refused, Now
<1>2. /\ s \in Sites /\ Wants(r)
      /\ s \notin off => Made(r, vhost[s], row[s])
  BY <1>1, InHandNow
<1>3. /\ row' = row /\ zones' = zones /\ certs' = certs /\ rules' = rules
      /\ vhost' = [vhost EXCEPT ![s] = v]
  BY DEF Refused, files
<1>4. v = vhost'[s] /\ \A t \in Sites : t # s => vhost'[t] = vhost[t]
  BY <1>2, <1>3 DEF RightInv, Inv, TypeOK
<1>5. CertsMove
  BY <1>3 DEF CertsMove, ManualSame
<1>6. s \notin off => Undoable(r) /\ Backed(v, s)'
  BY <1>1, <1>2, <1>3, <1>5, UndoStays DEF Made, Backed
<1>7. r.kind # "delete"
  BY <1>1, <1>2 DEF Wants, Way
<1>8. Comes(s)
  BY <1>1, <1>4, <1>6, <1>7, GivenUp
<1> QED
  BY <1>1, <1>3, <1>4, <1>5, <1>8, Apart

-----------------------------------------------------------------------------
(* The vhost is written.                                                    *)

\* The file says what the row that is to be says.
LEMMA WholeSays ==
  ASSUME RightInv, Now("write"), NEW r, r = req, NEW s, s = r.site, s \notin off
  PROVE  Says(r.new, Whole, s)
<1>1. req # None
  BY DEF Now
<1> PICK v : v = vhost[s]
  OBVIOUS
<1>2. /\ Wants(r) /\ r.new \in Row /\ r.old \in RowOrNone /\ s \in Sites /\ r.step = "write"
      /\ r.kind \in Kinds \cup {"recover"}
      /\ Made(r, v, row[s]) /\ Found(r)
  BY <1>1, InHandNow DEF Now
<1>3. Unwritten(r) => Says(r.old, v, s)
  BY <1>2 DEF Made
<1>4. r.kind \in {"create", "app", "share", "upload", "zone", "recover"}
  BY <1>2 DEF Wants, Way, Kinds
<1>5. CASE r.kind = "app"
  <2>1. r.old # None /\ r.old \in Row /\ Says(r.old, v, s)
    BY <1>2, <1>3, <1>5 DEF Wants, Unwritten, RowOrNone
  <2>2. Whole = Rendered(r.old, v, s, TRUE)
    BY <1>5 DEF Whole
  <2>3. Wanted(r.new, s) = Wanted(r.old, s) /\ Named(r.new, s) = Named(r.old, s)
    BY <1>2, <1>5, <2>1 DEF Wants, Wanted, Named
  <2>4. r.old.mode # "zone" => Rendered(r.old, v, s, TRUE).cert = Wanted(r.old, s)
    BY <2>1 DEF Says, Rendered, Wanted, Named
  <2>5. Rendered(r.old, v, s, TRUE).whole /\ Rendered(r.old, v, s, TRUE) # None
    <3>1. Rendered(r.old, v, s, TRUE) \in Vhost
      BY <1>2, <2>1, RenderedType DEF RightInv, Inv, TypeOK
    <3> QED
      BY <3>1, ConstantsAssumption DEF Rendered
  <2>6. /\ Rendered(r.old, v, s, TRUE).waf = r.old.waf
        /\ Rendered(r.old, v, s, TRUE).flood = r.old.flood
    BY DEF Rendered
  <2>7. r.new.waf = r.old.waf /\ r.new.flood = r.old.flood /\ r.new.mode = r.old.mode /\ r.new # None
    BY <1>2, <1>5, <2>1, ConstantsAssumption DEF Wants
  <2> QED
    BY <2>2, <2>3, <2>4, <2>5, <2>6, <2>7 DEF Says
<1>6. CASE r.kind # "app"
  <2>1. Whole = Rendered(r.new, v, s, TRUE)
    BY <1>6 DEF Whole
  <2>2. Rendered(r.new, v, s, TRUE) \in Vhost
    BY <1>2, RenderedType DEF RightInv, Inv, TypeOK
  <2>3. r.kind = "create" => v = None
    BY <1>2, <1>3 DEF Wants, Says, Unwritten
  <2>4. r.new.mode # "zone" => Rendered(r.new, v, s, TRUE).cert = Wanted(r.new, s)
    <3>1. \/ r.new.mode \in {"manual", "zone"}
          \/ r.new.mode = "shared" /\ r.new.from # None
          \/ r.new.mode = "none" /\ v = None
      BY <1>2, <1>4, <1>6, <2>3 DEF Wants
    <3>2. r.new.mode # "zone" /\ v # None => Named(r.new, s) # None
      <4>1. <<"manual", s>> \in Certs
        BY <1>2 DEF Certs
      <4>2. r.new.from # None => Borrowed(r.new.from) \in Certs
        BY <1>2, BorrowedType DEF Row
      <4> QED
        BY <3>1, <4>1, <4>2, ConstantsAssumption DEF Named
    <3> QED
      BY <3>1, <3>2 DEF Rendered, Wanted
  <2> QED
    BY <1>2, <2>1, <2>2, <2>4, ConstantsAssumption DEF Says, Rendered
<1> QED
  BY <1>5, <1>6

LEMMA PutRight ==
  ASSUME RightInv, Inv', NEW u, Put(u), req # None, NEW r, r = req, NEW s, s = r.site,
         r.step \in {"write", "plain", "block"},
         s \notin off /\ r.kind # "enable" => Says(r.new, u, s),
         s \notin off /\ r.kind = "enable" =>
           u # None /\ u.whole /\ u.waf = r.new.waf /\ u.flood = r.new.flood
  PROVE  RightInv'
<1> PICK v : v = vhost[s]
  OBVIOUS
<1> PICK w : w = row[s]
  OBVIOUS
<1>0. PICK r2 : r2 = [r EXCEPT !.step = "test", !.prev = v]
  OBVIOUS
<1>1. /\ r \in Request /\ s \in Sites /\ Wants(r) /\ r.kind \in Kinds \cup {"recover"}
      /\ r.new \in RowOrNone /\ (r.kind \in Taking => FromOther(r.new, s))
      /\ s \notin off => Made(r, v, w)
  BY InHandNow
<1>2. /\ row' = row /\ zones' = zones /\ certs' = certs /\ rules' = rules /\ off' = off
      /\ vhost' = [vhost EXCEPT ![s] = u] /\ req' = r2
  BY <1>0 DEF Put, files
<1>3. u = vhost'[s] /\ w = row'[s] /\ \A t \in Sites : t # s => vhost'[t] = vhost[t]
  BY <1>1, <1>2 DEF RightInv, Inv, TypeOK
<1>4. CertsMove
  BY <1>2 DEF CertsMove, ManualSame
<1>5. /\ r2.step = "test" /\ r2.kind = r.kind /\ r2.site = r.site /\ r2.old = r.old
      /\ r2.new = r.new /\ r2.first = r.first /\ r2.prev = v /\ r2.had = r.had
  BY <1>0, <1>1 DEF Request
<1>6. Wants(r2)
  <2>1. "test" \in Way(r.kind)
    BY <1>1 DEF Wants, Way, Kinds
  <2>2. r.kind = "enable" /\ r.old # None => r.old.mode = "manual"
    BY <1>1 DEF Wants, Way
  <2> QED
    BY <1>1, <1>5, <2>1, <2>2 DEF Wants
<1>7. ASSUME s \notin off PROVE Found(r2)' /\ Made(r2, u, w)'
  <2>1. Found(r2)'
    <3>1. Kept(r)
      BY <1>2 DEF Kept
    <3>2. r.site \notin off
      BY <1>7
    <3> QED
      BY <1>4, <1>5, <3>1, <3>2, FoundStays
  <2>2. Backed(v, s)'
    BY <1>1, <1>2, <1>7 DEF Made, Backed
  <2>3. r.kind # "enable" => Says(r.new, u, s)'
    BY <1>1, <1>4, <1>7, SaysStays DEF RightInv
  <2>4. ~Unwritten(r2) /\ ~Written(r2) /\ (Stored(r2) => Stored(r)) /\ r.kind # "delete"
    BY <1>1, <1>5 DEF Unwritten, Written, Stored, Wants, Way
  <2>5. (Stored(r2) => w = r.new) /\ (r.kind = "enable" => w = r.old)
    BY <1>1, <1>7, <2>4 DEF Made
  <2> QED
    <3>1. Backed(IF r2.step = "test" THEN r2.prev ELSE u, r2.site)'
      BY <1>5, <2>2
    <3>2. r2.kind = "enable" => u # None /\ u.whole /\ u.waf = r2.new.waf /\ u.flood = r2.new.flood
      BY <1>5, <1>7
    <3> QED
      BY <1>5, <2>1, <2>3, <2>4, <2>5, <3>1, <3>2 DEF Made
<1>8. Comes(s)
  <2>1. req' # None
    <3>1. v \in VhostOrNone
      BY <1>1 DEF RightInv, Inv, TypeOK
    <3>2. r2 \in Request
      BY <1>0, <1>1, <3>1 DEF Request, Steps
    <3> QED
      BY <1>2, <3>2, ConstantsAssumption
  <2> QED
    BY <1>2, <1>3, <1>5, <1>6, <1>7, <2>1 DEF Comes
<1> QED
  BY <1>2, <1>3, <1>4, <1>8, Apart

LEMMA WriteRight ==
  ASSUME RightInv, Inv', Write \/ WritePlain \/ WriteBlock
  PROVE  RightInv'
<1> PICK r : r = req
  OBVIOUS
<1> PICK s : s = r.site
  OBVIOUS
<1> PICK v : v = vhost[s]
  OBVIOUS
<1>1. req # None /\ r.step \in {"write", "plain", "block"}
  BY DEF Write, WritePlain, WriteBlock, Now
<1>2. /\ Wants(r) /\ r.new \in Row /\ r.old \in RowOrNone /\ s \in Sites
      /\ r.kind \in Kinds \cup {"recover"} /\ v \in VhostOrNone
      /\ s \notin off => Made(r, v, row[s])
  BY <1>1, InHandNow
<1>3. CASE \E u : PutShort(u)
  BY <1>1, <1>3, LeftRight
<1>4. CASE Write /\ Put(Whole)
  <2>1. r.kind # "enable" /\ Now("write") /\ r.step = "write"
    BY <1>2, <1>4 DEF Write, Now, Wants, Way
  <2>2. s \notin off => Says(r.new, Whole, s)
    BY <2>1, WholeSays
  <2> QED
    BY <1>1, <1>4, <2>1, <2>2, PutRight
<1>5. CASE WritePlain /\ Put(Plain)
  <2>1. r.kind = "enable" /\ r.step = "plain"
    BY <1>2, <1>5 DEF WritePlain, Now, Wants, Way, Kinds
  <2>2. Plain \in Vhost
    BY <1>1, WrittenTypes DEF RightInv
  <2>3. Plain # None /\ Plain.whole /\ Plain.waf = r.new.waf /\ Plain.flood = r.new.flood
    BY <1>2, <2>2, ConstantsAssumption DEF Plain, Rendered, Row
  <2> QED
    BY <1>1, <1>5, <2>1, <2>3, PutRight
<1>6. CASE WriteBlock /\ Put(Block)
  <2>1. r.kind \in {"waf", "flood"} /\ r.step = "block"
    BY <1>2, <1>6 DEF WriteBlock, Now, Wants, Way, Kinds
  <2>2. v \in Vhost
    BY <1>2, <1>6 DEF WriteBlock, VhostOrNone
  <2>3. s \notin off => Says(r.new, Block, s)
    <3> SUFFICES ASSUME s \notin off PROVE Says(r.new, Block, s)
      OBVIOUS
    <3>1. Says(r.old, v, s) /\ r.old # None /\ r.old \in Row
      BY <1>2, <2>1 DEF Made, Unwritten, Wants, RowOrNone
    <3>2. Wanted(r.new, s) = Wanted(r.old, s) /\ r.new.mode = r.old.mode
      BY <1>2, <2>1, <3>1 DEF Wants, Wanted, Named
    <3>3. r.new # None
      BY <1>2, ConstantsAssumption
    <3>4. Block \in Vhost
      BY <1>1, <1>6, WrittenTypes DEF RightInv, WriteBlock
    <3>5. Block # None /\ Block.whole /\ Block.cert = v.cert
      BY <2>2, <3>1, <3>4, ConstantsAssumption DEF Block, Vhost, Says
    <3>6. Block.waf = r.new.waf /\ Block.flood = r.new.flood
      BY <1>2, <2>1, <2>2, <3>1 DEF Block, Vhost, Says, Wants
    <3> QED
      BY <3>1, <3>2, <3>3, <3>5, <3>6 DEF Says
  <2> QED
    BY <1>1, <1>6, <2>1, <2>3, PutRight
<1> QED
  BY <1>3, <1>4, <1>5, <1>6 DEF Write, WritePlain, WriteBlock

-----------------------------------------------------------------------------
(* The row is written.                                                      *)

LEMMA SetRowRight == ASSUME RightInv, Inv', SetRow PROVE RightInv'
<1> PICK r : r = req
  OBVIOUS
<1> PICK s : s = r.site
  OBVIOUS
<1> PICK v : v = vhost[s]
  OBVIOUS
<1> PICK w : w = r.new
  OBVIOUS
<1> PICK st : st = After(r.kind, r.step, r.new, r.old)
  OBVIOUS
<1>0. PICK r2 : r2 = [r EXCEPT !.step = st]
  OBVIOUS
<1>1. req # None /\ r.step = "row" /\ Onward /\ off' = off
  BY DEF SetRow, Now
<1>2. /\ r \in Request /\ s \in Sites /\ Wants(r) /\ r.kind \in Kinds \cup {"recover"}
      /\ r.new \in RowOrNone /\ r.old \in RowOrNone
      /\ r.kind \in Taking => FromOther(r.new, s) /\ FromOther(r.old, s)
      /\ s \notin off => Made(r, v, row[s])
  BY <1>1, InHandNow
<1>3. /\ row' = [row EXCEPT ![s] = w] /\ vhost' = vhost
      /\ zones' = zones /\ certs' = certs /\ rules' = rules
  BY DEF SetRow, files
<1>4. v = vhost'[s] /\ w = row'[s] /\ \A t \in Sites : t # s => row'[t] = row[t]
  BY <1>2, <1>3 DEF RightInv, Inv, TypeOK
<1>5. CertsMove
  BY <1>3 DEF CertsMove, ManualSame
<1>6. /\ r2.step = st /\ r2.kind = r.kind /\ r2.site = r.site /\ r2.old = r.old
      /\ r2.new = r.new /\ r2.first = r.first /\ r2.prev = r.prev /\ r2.had = r.had
  BY <1>0, <1>2, AtStep
<1>7. s \notin off => Backed(v, s)'
  BY <1>1, <1>2, <1>3 DEF Made, Backed
<1>8. s \notin off /\ Written(r) => Says(r.new, v, s)' /\ Certified(r.new, v)'
  <2> SUFFICES ASSUME s \notin off, Written(r) PROVE Says(r.new, v, s)' /\ Certified(r.new, v)'
    OBVIOUS
  <2>1. Says(r.new, v, s) /\ Certified(r.new, v)
    BY <1>2 DEF Made
  <2>2. Says(r.new, v, s)'
    BY <1>1, <1>2, <1>5, <2>1, SaysStays DEF RightInv
  <2> QED
    BY <1>3, <2>1, <2>2 DEF Certified
<1>9. s \notin off /\ Unwritten(r) => Says(r.old, v, s)'
  <2> SUFFICES ASSUME s \notin off, Unwritten(r) PROVE Says(r.old, v, s)'
    OBVIOUS
  <2>1. Says(r.old, v, s)
    BY <1>2 DEF Made
  <2> QED
    BY <1>1, <1>2, <1>5, <2>1, SaysStays DEF RightInv
<1>10. ASSUME s \notin off, st = "end" PROVE Fits(w, v, s)'
  <2>1. Written(r)
    BY <1>1, <1>2, <1>10 DEF After, Wants, Way, Written, Kinds
  <2> QED
    BY <1>7, <1>8, <1>10, <2>1 DEF Fits
<1>11. ASSUME s \notin off, st # "end" PROVE Found(r2)' /\ Made(r2, v, w)'
  <2>1. Found(r2)'
    <3>1. Kept(r)
      BY <1>1, <1>3 DEF Kept
    <3> QED
      BY <1>1, <1>5, <1>6, <1>11, <3>1, FoundStays
  <2>2. /\ r2.step \notin {"test", "issue"} /\ r2.kind # "delete"
        /\ Unwritten(r2) => Unwritten(r)
        /\ Written(r2) => Written(r)
        /\ r2.kind = "enable" => r2.step \in {"remove", "resync"}
    BY <1>1, <1>2, <1>6, <1>11 DEF After, Wants, Way, Written, Unwritten, Kinds
  <2> QED
    BY <1>6, <1>7, <1>8, <1>9, <1>11, <2>1, <2>2 DEF Made
<1>12. Comes(s)
  BY <1>0, <1>1, <1>4, <1>10, <1>11, GoneOn
<1> QED
  BY <1>1, <1>3, <1>4, <1>5, <1>12, Apart

LEMMA RestoreRight == ASSUME RightInv, Inv', Restore PROVE RightInv'
<1> PICK r : r = req
  OBVIOUS
<1> PICK s : s = r.site
  OBVIOUS
<1> PICK v : v = vhost[s]
  OBVIOUS
<1>1. req # None /\ r.step = "restore" /\ Falls
  BY DEF Restore, Now
<1>2. /\ s \in Sites /\ Wants(r)
      /\ s \notin off => Made(r, v, row[s])
  BY <1>1, InHandNow
<1>3. /\ vhost' = vhost /\ zones' = zones /\ certs' = certs /\ rules' = rules
      /\ \A t \in Sites : t # s => row'[t] = row[t]
  BY <1>2 DEF Restore, files, RightInv, Inv, TypeOK
<1>4. CertsMove
  BY <1>3 DEF CertsMove, ManualSame
<1>5. s \notin off => Undoable(r) /\ Backed(v, s)'
  BY <1>1, <1>2, <1>3, <1>4, UndoStays DEF Made, Backed
<1>6. r.kind # "delete"
  BY <1>1, <1>2 DEF Wants, Way
<1>7. v = vhost'[s]
  BY <1>3
<1>8. Comes(s)
  BY <1>1, <1>5, <1>6, <1>7, FallsBack
<1> QED
  BY <1>1, <1>3, <1>4, <1>8, Apart

-----------------------------------------------------------------------------
(* Certificates.                                                            *)

LEMMA RefileRight == ASSUME RightInv, Inv', Refile PROVE RightInv'
<1> PICK r : r = req
  OBVIOUS
<1> PICK s : s = r.site
  OBVIOUS
<1> PICK v : v = vhost[s]
  OBVIOUS
<1> PICK w : w = row[s]
  OBVIOUS
<1> PICK st : st = After(r.kind, r.step, r.new, r.old)
  OBVIOUS
<1>0. PICK r2 : r2 = [r EXCEPT !.step = st]
  OBVIOUS
<1>1. req # None /\ r.step = "refile"
  BY DEF Refile, Now
<1>2. /\ r \in Request /\ s \in Sites /\ Wants(r) /\ r.kind \in Kinds \cup {"recover"}
      /\ r.old \in RowOrNone
      /\ s \notin off => Made(r, v, w) /\ Found(r)
  BY <1>1, InHandNow
<1>3. r.kind \in {"upload", "recover"}
  BY <1>1, <1>2 DEF Wants, Way, Kinds
<1>4. row' = row /\ vhost' = vhost /\ zones' = zones /\ rules' = rules
  BY DEF Refile
<1>5. v = vhost'[s] /\ w = row'[s]
  BY <1>4
<1>6. certs' \in {certs \cup {<<"manual", s>>}, certs \ {<<"manual", s>>}, certs}
      /\ (r.had => certs \subseteq certs')
  BY DEF Refile, PutBack
<1>7. CertsMove
  <2>1. \A x \in Certs : x[2] # s => (x \in certs' <=> x \in certs)
    BY <1>6
  <2> QED
    BY <1>3, <2>1 DEF CertsMove, Taking
<1>8. ASSUME s \notin off PROVE Undoable(r)
  <2>1. Says(r.old, r.first, s)'
    BY <1>1, <1>7, <1>8, FoundSays
  <2>2. Certified(r.old, r.first)'
    <3> SUFFICES ASSUME r.old # None, r.old.mode # "zone", r.first.cert # None
                 PROVE  r.first.cert \in certs'
      BY DEF Certified
    <3>1. r.first.cert \in certs /\ (r.first.cert = <<"manual", s>> => r.had)
      BY <1>1, <1>2, <1>3, <1>8 DEF Found, Certified
    <3> QED
      BY <1>6, <3>1
  <2> QED
    BY <1>2, <1>8, <2>1, <2>2 DEF Undoable, Found
<1>9. s \notin off => Backed(v, s)'
  BY <1>1, <1>2, <1>4 DEF Made, Backed
<1>10. CASE r.kind = "upload"
  <2>1. Falls
    BY <1>10 DEF Refile
  <2>2. Comes(s)
    BY <1>1, <1>5, <1>8, <1>9, <1>10, <2>1, FallsBack
  <2> QED
    BY <1>1, <1>4, <1>7, <2>2, Apart
<1>11. CASE r.kind = "recover"
  <2>1. Onward /\ off' = off
    BY <1>11 DEF Refile
  <2>2. st = "custom"
    BY <1>1, <1>11 DEF After
  <2>3. /\ r2.step = st /\ r2.kind = r.kind /\ r2.site = r.site /\ r2.old = r.old
        /\ r2.new = r.new /\ r2.first = r.first /\ r2.prev = r.prev /\ r2.had = r.had
    BY <1>0, <1>2, AtStep
  <2>4. ASSUME s \notin off PROVE Found(r2)' /\ Made(r2, v, w)'
    <3>1. Found(r2)'
      BY <1>8, <2>3, <2>4, <1>11 DEF Undoable, Found
    <3>2. w = r.new
      BY <1>2, <1>11, <2>4 DEF Made, Stored
    <3> QED
      BY <1>9, <1>11, <2>2, <2>3, <2>4, <3>1, <3>2 DEF Made, Unwritten, Written
  <2>5. Comes(s)
    BY <1>0, <1>1, <1>5, <2>1, <2>2, <2>4, GoneOn
  <2> QED
    BY <1>1, <1>4, <1>7, <2>5, Apart
<1> QED
  BY <1>3, <1>10, <1>11

\* certbot's own edit of the vhost.
LEMMA IssueRight == ASSUME RightInv, Inv', Issue PROVE RightInv'
<1> PICK r : r = req
  OBVIOUS
<1> PICK s : s = r.site
  OBVIOUS
<1> PICK w : w = row[s]
  OBVIOUS
<1> PICK u : u = [vhost[s] EXCEPT !.cert = <<"live", s>>]
  OBVIOUS
<1> PICK st : st = After(r.kind, r.step, r.new, r.old)
  OBVIOUS
<1>0. PICK r2 : r2 = [r EXCEPT !.step = st]
  OBVIOUS
<1>1. req # None /\ r.step = "issue" /\ r.kind = "enable" /\ Onward /\ off' = off /\ vhost[s] # None
  BY DEF Issue, Now
<1>2. /\ r \in Request /\ s \in Sites /\ Wants(r) /\ r.new \in Row /\ r.old \in RowOrNone
      /\ vhost[s] \in VhostOrNone
      /\ s \notin off => Made(r, vhost[s], w)
  BY <1>1, InHandNow
<1>3. /\ row' = row /\ zones' = zones /\ rules' = rules
      /\ certs' = certs \cup {<<"live", s>>} /\ vhost' = [vhost EXCEPT ![s] = u]
  BY DEF Issue
<1>4. u = vhost'[s] /\ w = row'[s] /\ \A t \in Sites : t # s => vhost'[t] = vhost[t]
  BY <1>2, <1>3 DEF RightInv, Inv, TypeOK
<1>5. CertsMove
  BY <1>3 DEF CertsMove, ManualSame
<1>6. st = "row"
  BY <1>1 DEF After
<1>7. /\ r2.step = st /\ r2.kind = r.kind /\ r2.site = r.site /\ r2.old = r.old
      /\ r2.new = r.new /\ r2.first = r.first /\ r2.prev = r.prev /\ r2.had = r.had
  BY <1>0, <1>2, AtStep
<1>8. u \in Vhost /\ u.cert = <<"live", s>>
      /\ u.whole = vhost[s].whole /\ u.waf = vhost[s].waf /\ u.flood = vhost[s].flood
  BY <1>1, <1>2 DEF VhostOrNone, Vhost, Certs
<1>9. ASSUME s \notin off PROVE Found(r2)' /\ Made(r2, u, w)'
  <2>1. Found(r2)'
    <3>1. Kept(r)
      BY <1>1, <1>3 DEF Kept
    <3> QED
      BY <1>1, <1>5, <1>7, <1>9, <3>1, FoundStays
  <2>2. /\ vhost[s].whole /\ vhost[s].waf = r.new.waf /\ vhost[s].flood = r.new.flood
        /\ Backed(vhost[s], s) /\ w = r.old
    BY <1>1, <1>2, <1>9 DEF Made
  <2>3. Backed(u, s)'
    BY <1>1, <1>3, <1>8, <2>2 DEF Backed
  <2>4. r.new.mode = "live" /\ r.new # None /\ u # None
    BY <1>1, <1>2, <1>8, ConstantsAssumption DEF Wants
  <2>5. Says(r.new, u, s)' /\ Certified(r.new, u)'
    BY <1>3, <1>8, <2>2, <2>4 DEF Says, Certified, Wanted
  <2> QED
    BY <1>1, <1>6, <1>7, <2>1, <2>2, <2>3, <2>5 DEF Made, Unwritten, Stored
<1>10. Comes(s)
  BY <1>0, <1>1, <1>4, <1>6, <1>9, GoneOn
<1> QED
  BY <1>1, <1>3, <1>4, <1>5, <1>10, Apart

\* Uploaded files that were there are there still.
LEMMA IssueFailsRight == ASSUME RightInv, Inv', IssueFails PROVE RightInv'
<1> PICK r : r = req
  OBVIOUS
<1> PICK s : s = r.site
  OBVIOUS
<1> PICK v : v = vhost[s]
  OBVIOUS
<1> PICK w : w = row[s]
  OBVIOUS
<1>1. req # None /\ r.step = "issue" /\ r.kind = "enable"
  BY DEF IssueFails, Now
<1>2. /\ r \in Request /\ s \in Sites /\ Wants(r)
      /\ s \notin off => Made(r, v, w) /\ Found(r)
  BY <1>1, InHandNow
<1>3. /\ row' = row /\ vhost' = vhost /\ zones' = zones /\ rules' = rules
      /\ certs' \in {certs, certs \cup {<<"live", s>>}}
  BY DEF IssueFails
<1>4. v = vhost'[s] /\ w = row'[s]
  BY <1>3
<1>5. CertsMove /\ certs \subseteq certs'
  BY <1>3 DEF CertsMove, ManualSame
<1>6. s \notin off => Undoable(r)
  BY <1>1, <1>5, UndoStays
<1>7. s \notin off => Backed(v, s)'
  BY <1>1, <1>2, <1>3 DEF Made, Backed
<1>8. CASE r.old.mode # "manual"
  <2>1. GiveUp
    BY <1>8 DEF IssueFails
  <2>2. Comes(s)
    BY <1>1, <1>4, <1>6, <1>7, <2>1, GivenUp
  <2> QED
    BY <1>1, <1>3, <1>5, <2>2, Apart
<1>9. CASE r.old.mode = "manual"
  <2>1. PICK r2 : r2 = [r EXCEPT !.kind = "recover", !.step = "refile", !.new = r.old]
    OBVIOUS
  <2>2. req' = r2 /\ off' = off
    BY <1>9, <2>1 DEF IssueFails
  <2>3. /\ r2.step = "refile" /\ r2.kind = "recover" /\ r2.site = s /\ r2.old = r.old
        /\ r2.new = r.old /\ r2.first = r.first /\ r2.had = r.had
    BY <1>2, <2>1 DEF Request
  <2>4. Wants(r2)
    BY <1>1, <1>2, <1>9, <2>3 DEF Wants, Way
  <2>5. ASSUME s \notin off PROVE Found(r2)' /\ Made(r2, v, w)'
    <3>1. Found(r2)'
      BY <1>1, <1>6, <2>3, <2>5 DEF Undoable, Found
    <3>2. w = r.old
      BY <1>1, <1>2, <2>5 DEF Made
    <3> QED
      BY <1>7, <2>3, <2>5, <3>1, <3>2 DEF Made, Unwritten, Written
  <2>6. req' # None
    <3>1. r.old \in Row
      BY <1>1, <1>2 DEF Wants, Request, RowOrNone
    <3>2. r2 \in Request
      BY <1>2, <2>1, <3>1 DEF Request, Steps
    <3> QED
      BY <2>2, <3>2, ConstantsAssumption
  <2>7. Comes(s)
    BY <1>4, <2>2, <2>3, <2>4, <2>5, <2>6 DEF Comes
  <2> QED
    BY <1>1, <1>3, <1>5, <2>7, Apart
<1> QED
  BY <1>8, <1>9

\* The vhost names certbot's certificate by now, so that the uploaded one may go.
LEMMA RemoveRight == ASSUME RightInv, Inv', Remove PROVE RightInv'
<1> PICK r : r = req
  OBVIOUS
<1> PICK s : s = r.site
  OBVIOUS
<1> PICK v : v = vhost[s]
  OBVIOUS
<1> PICK w : w = row[s]
  OBVIOUS
<1> PICK st : st = After(r.kind, r.step, r.new, r.old)
  OBVIOUS
<1>0. PICK r2 : r2 = [r EXCEPT !.step = st]
  OBVIOUS
<1>1. req # None /\ r.step = "remove" /\ Onward /\ off' = off
  BY DEF Remove, Now
<1>2. /\ r \in Request /\ s \in Sites /\ Wants(r) /\ r.kind \in Kinds \cup {"recover"}
      /\ r.new \in RowOrNone /\ r.new \in Row /\ (r.kind \in Taking => FromOther(r.new, s))
      /\ s \notin off => Made(r, v, w)
  BY <1>1, InHandNow
<1>3. r.kind = "enable" /\ st = "resync"
  BY <1>1, <1>2 DEF Wants, Way, Kinds, After
<1>4. /\ row' = row /\ vhost' = vhost /\ zones' = zones /\ rules' = rules
      /\ certs' \in {certs \ {<<"manual", s>>}, certs}
  BY DEF Remove
<1>5. v = vhost'[s] /\ w = row'[s]
  BY <1>4
<1>6. CertsMove
  <2>1. \A x \in Certs : x[2] # s => (x \in certs' <=> x \in certs)
    BY <1>4
  <2> QED
    BY <1>3, <2>1 DEF CertsMove, Taking
<1>7. /\ r2.step = st /\ r2.kind = r.kind /\ r2.site = r.site /\ r2.old = r.old
      /\ r2.new = r.new /\ r2.first = r.first /\ r2.prev = r.prev /\ r2.had = r.had
  BY <1>0, <1>2, AtStep
<1>8. ASSUME s \notin off PROVE Found(r2)' /\ Made(r2, v, w)'
  <2>1. Found(r2)'
    <3>1. Past(r2)
      BY <1>3, <1>7 DEF Past
    <3> QED
      BY <1>1, <1>6, <1>7, <1>8, <3>1, FoundStays
  <2>2. Says(r.new, v, s) /\ Certified(r.new, v) /\ w = r.new
    BY <1>1, <1>2, <1>3, <1>8 DEF Made, Written, Stored
  <2>3. Backed(v, s)'
    BY <1>1, <1>2, <1>4, <1>8 DEF Made, Backed
  <2>4. Says(r.new, v, s)'
    BY <1>1, <1>2, <1>6, <2>2, SaysStays DEF RightInv
  <2>5. Certified(r.new, v)'
    <3>1. r.new.mode = "live" /\ v.cert = <<"live", s>>
      BY <1>2, <1>3, <2>2, ConstantsAssumption DEF Wants, Says, Wanted
    <3> QED
      BY <1>4, <2>2, <3>1 DEF Certified
  <2> QED
    BY <1>3, <1>7, <2>1, <2>2, <2>3, <2>4, <2>5 DEF Made, Unwritten
<1>9. Comes(s)
  BY <1>0, <1>1, <1>3, <1>5, <1>8, GoneOn
<1> QED
  BY <1>1, <1>4, <1>6, <1>9, Apart

-----------------------------------------------------------------------------
(* `delete_website`: once the vhost is gone there is nothing to be missed.  *)

LEMMA DeleteRight ==
  ASSUME RightInv, Inv', DropVhost \/ Release \/ DeleteRules \/ DeleteRow
  PROVE  RightInv'
<1> PICK r : r = req
  OBVIOUS
<1> PICK s : s = r.site
  OBVIOUS
<1> PICK v : v = vhost'[s]
  OBVIOUS
<1> PICK w : w = row'[s]
  OBVIOUS
<1> PICK st : st = After(r.kind, r.step, r.new, r.old)
  OBVIOUS
<1>0. PICK r2 : r2 = [r EXCEPT !.step = st]
  OBVIOUS
<1>1. /\ req # None /\ Onward /\ off \subseteq off'
      /\ r.step \in {"drop", "release", "unrule", "gone"}
  BY DEF DropVhost, Release, DeleteRules, DeleteRow, Now, Stray
<1>2. /\ r \in Request /\ s \in Sites /\ Wants(r) /\ r.kind \in Kinds \cup {"recover"}
      /\ s \notin off => Made(r, vhost[s], row[s])
  BY <1>1, InHandNow
<1>3. r.kind = "delete"
  BY <1>1, <1>2 DEF Wants, Way, Kinds
<1>4. /\ \A t \in Sites : t # s => row'[t] = row[t] /\ vhost'[t] = vhost[t]
      /\ s \notin off' => v = None
      /\ r.step = "gone" => w = None
  <2>1. CASE DropVhost
    BY <1>1, <1>2, <2>1 DEF DropVhost, Now, files, Stray, RightInv, Inv, TypeOK
  <2>2. CASE Release \/ DeleteRules
    BY <1>1, <1>2, <1>3, <2>2 DEF Release, DeleteRules, Now, Made
  <2>3. CASE DeleteRow
    BY <1>1, <1>2, <1>3, <2>3 DEF DeleteRow, Now, files, Made, RightInv, Inv, TypeOK
  <2> QED
    BY <2>1, <2>2, <2>3, <1>1 DEF DropVhost, Release, DeleteRules, Now
<1>5. /\ zones' = zones /\ rules \ {s} \subseteq rules'
      /\ certs' \in {certs \ {<<"live", s>>}, certs}
  BY DEF DropVhost, Release, DeleteRules, DeleteRow, files
<1>6. CertsMove
  <2>1. \A x \in Certs : x[2] # s => (x \in certs' <=> x \in certs)
    BY <1>5
  <2> QED
    BY <1>3, <2>1 DEF CertsMove, Taking
<1>7. /\ r2.step = st /\ r2.kind = r.kind /\ r2.site = r.site /\ r2.old = r.old
      /\ r2.new = r.new /\ r2.first = r.first /\ r2.prev = r.prev /\ r2.had = r.had
  BY <1>0, <1>2, AtStep
<1>8. st # "test" /\ st # "drop" /\ (st \in {"zones", "end"} => r.step = "gone")
  BY <1>1, <1>3 DEF After
<1>9. ASSUME s \notin off', st # "end" PROVE Found(r2)' /\ Made(r2, v, w)'
  <2>1. Found(r2)'
    <3>1. Past(r2) /\ r.site \notin off
      BY <1>1, <1>3, <1>7, <1>9 DEF Past
    <3> QED
      BY <1>1, <1>6, <1>7, <3>1, FoundStays
  <2> QED
    BY <1>3, <1>4, <1>7, <1>8, <1>9, <2>1 DEF Made, Unwritten, Written, Stored, Backed
<1>10. ASSUME s \notin off', st = "end" PROVE Fits(w, v, s)'
  BY <1>4, <1>8, <1>10 DEF Fits, Says, Backed, Certified
<1>11. Comes(s)
  BY <1>0, <1>1, <1>9, <1>10, GoneOn
<1> QED
  BY <1>1, <1>4, <1>5, <1>6, <1>11, Apart

-----------------------------------------------------------------------------
(* The borrowers' vhosts are written again.                                 *)

LEMMA AgainFits ==
  ASSUME RightInv, NEW t \in Sites, NEW w \in Row, NEW v \in VhostOrNone, NEW u,
         u = Rendered(w, v, t, TRUE), w.mode = "shared", w.from # None,
         Complete(u, t, rules, zones, certs),
         rules' = rules, zones' = zones, certs' = certs
  PROVE  Fits(w, u, t)'
<1>0. u \in Vhost
  BY RenderedType
<1>1. w.from \in Sites /\ w # None /\ u # None
  BY <1>0, ConstantsAssumption DEF Row
<1>2. Named(w, t) # None /\ Named(w, t) = Wanted(w, t)
  BY <1>1, BorrowedType, ConstantsAssumption DEF Named, Wanted
<1>3. u.whole /\ u.waf = w.waf /\ u.flood = w.flood /\ u.cert = Wanted(w, t)
  BY <1>2 DEF Rendered
<1>4. Wanted(w, t)' = Wanted(w, t)
  BY DEF Wanted, Named, Borrowed
<1>5. Says(w, u, t)'
  BY <1>1, <1>3, <1>4 DEF Says
<1>6. Backed(u, t)' /\ Certified(w, u)'
  BY DEF Backed, Certified, Complete
<1> QED
  BY <1>5, <1>6 DEF Fits

LEMMA ResyncRight == ASSUME RightInv, Inv', Resync PROVE RightInv'
<1> PICK r : r = req
  OBVIOUS
<1> PICK s : s = r.site
  OBVIOUS
<1> PICK v : v = vhost[s]
  OBVIOUS
<1> PICK w : w = row[s]
  OBVIOUS
<1> PICK st : st = After(r.kind, r.step, r.new, r.old)
  OBVIOUS
<1>1. req # None /\ r.step = "resync" /\ Onward
  BY DEF Resync, Now
<1>2. /\ r \in Request /\ s \in Sites /\ Wants(r) /\ r.kind \in Kinds \cup {"recover"}
      /\ r.new \in RowOrNone /\ r.new \in Row /\ (r.kind \in Taking => FromOther(r.new, s))
      /\ s \notin off => Made(r, v, w)
  BY <1>1, InHandNow
<1>3. r.kind \in {"upload", "zone", "enable"} /\ st = "end"
  BY <1>1, <1>2 DEF Wants, Way, Kinds, After
<1>4. row' = row /\ zones' = zones /\ rules' = rules /\ certs' = certs
  BY DEF Resync, files
<1>5. CertsMove
  BY <1>4 DEF CertsMove, ManualSame
<1> DEFINE new(t) == Rendered(row[t], vhost[t], t, TRUE)
<1>6. PICK ok \in SUBSET Dependents(s) :
        \E short \in SUBSET (Dependents(s) \ ok) :
          LET tested == [t \in Sites |-> IF t \in ok THEN new(t) ELSE vhost[t]]
          IN /\ ok # {} => Loads(tested, rules, zones, certs)
             /\ vhost' = [t \in Sites |-> IF t \in short THEN Short(new(t)) ELSE tested[t]]
             /\ Stray(off \cup short)
  BY DEF Resync
<1>7. PICK short \in SUBSET (Dependents(s) \ ok) :
          LET tested == [t \in Sites |-> IF t \in ok THEN new(t) ELSE vhost[t]]
          IN /\ ok # {} => Loads(tested, rules, zones, certs)
             /\ vhost' = [t \in Sites |-> IF t \in short THEN Short(new(t)) ELSE tested[t]]
             /\ Stray(off \cup short)
  BY <1>6
<1> HIDE DEF new
<1>8. off' = off \cup short
  BY <1>7 DEF Stray
<1>9. \A t \in Sites : t \notin ok \cup short => vhost'[t] = vhost[t]
  BY <1>7
<1>10. \A t \in ok : vhost'[t] = new(t) /\ t \in Sites /\ t \notin short
  BY <1>7 DEF Dependents
<1>11. \A t \in ok : Complete(new(t), t, rules, zones, certs) \/ new(t) = None
  <2> SUFFICES ASSUME NEW t \in ok PROVE Complete(new(t), t, rules, zones, certs) \/ new(t) = None
    OBVIOUS
  <2> DEFINE tested == [x \in Sites |-> IF x \in ok THEN new(x) ELSE vhost[x]]
  <2>1. Loads(tested, rules, zones, certs)
    BY <1>7
  <2>2. t \in Sites /\ tested[t] = new(t)
    BY <1>10
  <2> HIDE DEF tested
  <2> QED
    BY <2>1, <2>2 DEF Loads
<1>12. ASSUME NEW t \in Sites \ off', t # s PROVE Fits(row[t], vhost[t], t)'
  <2>1. CASE t \in ok
    <3> PICK x : x = row[t]
      OBVIOUS
    <3> PICK u : u = vhost'[t]
      OBVIOUS
    <3>1. x # None /\ x.mode = "shared" /\ x.from = s /\ x \in Row /\ vhost[t] \in VhostOrNone
      BY <1>6, <2>1 DEF Dependents, RightInv, Inv, TypeOK, RowOrNone
    <3>2. u = Rendered(x, vhost[t], t, TRUE)
      BY <1>10, <2>1 DEF new
    <3>3. u # None
      <4>1. u \in Vhost
        BY <3>1, <3>2, RenderedType
      <4> QED
        BY <4>1, ConstantsAssumption
    <3>4. Complete(u, t, rules, zones, certs)
      BY <1>10, <1>11, <2>1, <3>3
    <3>5. x.from # None
      BY <1>2, <3>1, ConstantsAssumption
    <3>6. Fits(x, u, t)'
      BY <1>4, <3>1, <3>2, <3>4, <3>5, AgainFits
    <3>7. u = vhost'[t] /\ x = row'[t]
      BY <1>4
    <3> QED
      BY <3>6, <3>7
  <2>2. CASE t \notin ok
    <3>1. vhost'[t] = vhost[t] /\ row'[t] = row[t] /\ t \in Sites \ off
      BY <1>4, <1>8, <1>9, <1>12, <2>2
    <3> QED
      BY <1>1, <1>4, <1>5, <1>12, <3>1, OtherStays DEF RightInv
  <2> QED
    BY <2>1, <2>2
<1>13. ASSUME s \notin off' PROVE v = vhost'[s] /\ Fits(w, v, s)'
  <2>1. s \notin off /\ w = r.new /\ Says(r.new, v, s) /\ Certified(r.new, v)
    BY <1>1, <1>2, <1>3, <1>8, <1>13 DEF Made, Written, Stored
  <2>2. w.mode # "shared"
    BY <1>2, <1>3, <2>1 DEF Wants
  <2>3. s \notin Dependents(s)
    BY <2>2 DEF Dependents
  <2>4. v = vhost'[s]
    BY <1>2, <1>6, <1>7, <1>9, <2>3
  <2>5. Says(r.new, v, s)'
    BY <1>1, <1>2, <1>5, <2>1, SaysStays DEF RightInv
  <2>6. Backed(v, s)' /\ Certified(r.new, v)'
    BY <1>1, <1>2, <1>4, <2>1 DEF Made, Backed, Certified
  <2> QED
    BY <2>1, <2>4, <2>5, <2>6 DEF Fits
<1>14. Comes(s)
  <2>1. w = row'[s] /\ off \subseteq off' /\ req' = None
    BY <1>1, <1>3, <1>4, <1>8 DEF Onward, Goto
  <2>2. s \notin off' => Fits(row[s], vhost[s], s)'
    BY <1>13, <2>1
  <2> QED
    BY <2>1, <2>2 DEF Comes
<1> QED
  BY <1>1, <1>12, <1>14, Assembled

-----------------------------------------------------------------------------
(* A request comes: what it finds fits, or is left half-way.                *)

LEMMA MendedFits ==
  ASSUME Inv, NEW t \in Sites, Agrees(t), Serving(t)
  PROVE  Fits(row[t], vhost[t], t)
BY DEF Agrees, Serving, Complete, Fits, Says, Backed, Certified

LEMMA AskRight ==
  ASSUME RightInv, Inv', NEW kind \in Kinds, NEW s \in Sites, NEW new \in Row,
         NEW step \in Steps, Ask(kind, s, new, step),
         CASE kind \in {"create", "waf"}  -> step = "rules"
           [] kind = "app"                -> step = "custom"
           [] kind \in {"flood", "share"} -> step = "row"
           [] kind = "upload"             -> step = "install"
           [] kind = "zone"               -> step = "issue"
           [] kind = "delete"             -> step = "drop"
           [] kind = "enable"             ->
                step = IF row[s].mode = "manual" THEN "custom" ELSE "issue",
         NEW r, r = [kind |-> kind, site |-> s, step |-> step, old |-> row[s], new |-> new,
                     first |-> vhost[s], prev |-> vhost[s], had |-> <<"manual", s>> \in certs],
         Wants(r)
  PROVE  RightInv'
<1> PICK v : v = vhost[s]
  OBVIOUS
<1> PICK w : w = row[s]
  OBVIOUS
<1>1. /\ row' = row /\ vhost' = vhost /\ rules' = rules /\ zones' = zones /\ certs' = certs
      /\ req' = r /\ req = None
      /\ off' = {t \in off : ~(Agrees(t) /\ Serving(t))}
  BY DEF Ask, files
<1>2. \A t \in Sites \ off' : Fits(row[t], vhost[t], t)
  BY <1>1, MendedFits DEF RightInv, Right, InHand
<1>3. \A t \in Sites \ off' : Fits(row[t], vhost[t], t)'
  BY <1>1, <1>2 DEF Fits, Says, Backed, Certified, Wanted, Named, Borrowed
<1>4. Right'
  BY <1>3 DEF Right
<1>5. Wanting'
  BY <1>1 DEF Wanting, Wants
<1>6. ASSUME s \notin off' PROVE Found(r)' /\ Made(r, v, w)'
  <2>1. Says(w, v, s)' /\ Backed(v, s)' /\ Certified(w, v)'
    BY <1>1, <1>3, <1>6 DEF Fits
  <2>2. w # None /\ w.mode # "zone" /\ v.cert = <<"manual", s>> => <<"manual", s>> \in certs
    <3>1. <<"manual", s>> # None
      BY ConstantsAssumption DEF Certs
    <3> QED
      BY <1>1, <2>1, <3>1 DEF Certified
  <2>3. Found(r)'
    BY <2>1, <2>2 DEF Found
  <2>4. /\ step # "test" /\ ~Written(r) /\ ~Stored(r)
        /\ kind = "delete" => step = "drop"
    BY DEF Written, Stored, Kinds
  <2>5. kind = "enable" =>
          v # None /\ v.whole /\ v.waf = new.waf /\ v.flood = new.flood
    BY <2>1 DEF Wants, Says
  <2> QED
    BY <2>1, <2>3, <2>4, <2>5 DEF Made
<1>7. Underway'
  <2>1. v = vhost'[s] /\ w = row'[s] /\ req'.site = s /\ req' = r
    BY <1>1
  <2> SUFFICES ASSUME s \notin off' PROVE (Found(req) /\ Made(req, vhost[s], row[s]))'
    BY <2>1 DEF Underway
  <2>2. Found(r)' /\ Made(r, v, w)'
    BY <1>6
  <2> QED
    BY <2>1, <2>2
<1> QED
  BY <1>4, <1>5, <1>7 DEF RightInv

LEMMA BeginRight == ASSUME RightInv, Inv', Begin PROVE RightInv'
<1> PICK s \in Sites :
      \/ Create(s) \/ SetWaf(s) \/ SetFlood(s) \/ SetApp(s)
      \/ Share(s) \/ Upload(s) \/ Enable(s) \/ Wildcard(s) \/ Delete(s)
  BY DEF Begin
<1> PICK w : w = row[s]
  OBVIOUS
<1> DEFINE asked(kind, step, new) ==
      [kind |-> kind, site |-> s, step |-> step, old |-> w, new |-> new,
       first |-> vhost[s], prev |-> vhost[s], had |-> <<"manual", s>> \in certs]
<1> USE DEF Kinds, Steps
<1>1. w # None => w \in Row
  BY DEF RightInv, Inv, TypeOK, RowOrNone
<1>2. CASE Create(s)
  <2>1. PICK a \in Apps :
          Ask("create", s,
              [waf |-> TRUE, flood |-> FALSE, mode |-> "none", from |-> None, app |-> a], "rules")
    BY <1>2 DEF Create
  <2>2. PICK new : new = [waf |-> TRUE, flood |-> FALSE, mode |-> "none", from |-> None, app |-> a]
    OBVIOUS
  <2>3. new \in Row /\ new.mode = "none"
    BY <2>2 DEF Row, Modes
  <2>4. Wants(asked("create", "rules", new))
    BY <1>2, <2>3 DEF Create, Wants, Way
  <2>5. Ask("create", s, new, "rules")
    BY <2>1, <2>2
  <2> QED
    BY <2>3, <2>4, <2>5, AskRight
<1>3. CASE SetWaf(s)
  <2>1. PICK on \in BOOLEAN : Ask("waf", s, [w EXCEPT !.waf = on], "rules")
    BY <1>3 DEF SetWaf
  <2>2. PICK new : new = [w EXCEPT !.waf = on]
    OBVIOUS
  <2>3. w # None /\ new \in Row /\ new.flood = w.flood /\ new.mode = w.mode /\ new.from = w.from
    BY <1>1, <1>3, <2>2 DEF SetWaf, Row
  <2>4. Wants(asked("waf", "rules", new))
    BY <2>3 DEF Wants, Way
  <2> QED
    BY <2>1, <2>2, <2>3, <2>4, AskRight
<1>4. CASE SetFlood(s)
  <2>1. PICK on \in BOOLEAN : Ask("flood", s, [w EXCEPT !.flood = on], "row")
    BY <1>4 DEF SetFlood
  <2>2. PICK new : new = [w EXCEPT !.flood = on]
    OBVIOUS
  <2>3. w # None /\ new \in Row /\ new.waf = w.waf /\ new.mode = w.mode /\ new.from = w.from
    BY <1>1, <1>4, <2>2 DEF SetFlood, Row
  <2>4. Wants(asked("flood", "row", new))
    BY <2>3 DEF Wants, Way
  <2> QED
    BY <2>1, <2>2, <2>3, <2>4, AskRight
<1>5. CASE SetApp(s)
  <2>1. PICK a \in Apps : Ask("app", s, [w EXCEPT !.app = a], "custom")
    BY <1>5 DEF SetApp
  <2>2. PICK new : new = [w EXCEPT !.app = a]
    OBVIOUS
  <2>3. /\ w # None /\ new \in Row /\ new.waf = w.waf /\ new.flood = w.flood
        /\ new.mode = w.mode /\ new.from = w.from
    BY <1>1, <1>5, <2>2 DEF SetApp, Row
  <2>4. Wants(asked("app", "custom", new))
    BY <2>3 DEF Wants, Way
  <2> QED
    BY <2>1, <2>2, <2>3, <2>4, AskRight
<1>6. CASE Share(s)
  <2>1. PICK t \in Sites \ {s} :
          /\ row[t] # None
          /\ LET c == IF row[t].from # None THEN row[t].from ELSE t
             IN Ask("share", s, [w EXCEPT !.mode = "shared", !.from = c], "row")
    BY <1>6 DEF Share
  <2>2. PICK c : c = IF row[t].from # None THEN row[t].from ELSE t
    OBVIOUS
  <2>3. PICK new : new = [w EXCEPT !.mode = "shared", !.from = c]
    OBVIOUS
  <2>4. c \in Sites /\ c # None
    BY <2>1, <2>2, ConstantsAssumption DEF RightInv, Inv, TypeOK, RowOrNone, Row
  <2>5. w # None /\ w \in Row
    BY <1>1, <1>6 DEF Share
  <2>6. /\ new \in Row /\ new.waf = w.waf /\ new.flood = w.flood
        /\ new.mode = "shared" /\ new.from # None
    BY <2>3, <2>4, <2>5 DEF Row, Modes
  <2>7. Wants(asked("share", "row", new))
    BY <2>5, <2>6 DEF Wants, Way
  <2>8. Ask("share", s, new, "row")
    BY <2>1, <2>2, <2>3
  <2> QED
    BY <2>6, <2>7, <2>8, AskRight
<1>7. CASE Upload(s)
  <2>1. Ask("upload", s, [w EXCEPT !.mode = "manual"], "install")
    BY <1>7 DEF Upload
  <2>2. PICK new : new = [w EXCEPT !.mode = "manual"]
    OBVIOUS
  <2>3. w # None /\ new \in Row /\ new.waf = w.waf /\ new.flood = w.flood /\ new.mode = "manual"
    BY <1>1, <1>7, <2>2 DEF Upload, Row, Modes
  <2>4. Wants(asked("upload", "install", new))
    BY <2>3 DEF Wants, Way
  <2> QED
    BY <2>1, <2>2, <2>3, <2>4, AskRight
<1>8. CASE Enable(s)
  <2>1. PICK st : st = IF w.mode = "manual" THEN "custom" ELSE "issue"
    OBVIOUS
  <2>2. Ask("enable", s, [w EXCEPT !.mode = "live", !.from = None], st)
    BY <1>8, <2>1 DEF Enable
  <2>3. PICK new : new = [w EXCEPT !.mode = "live", !.from = None]
    OBVIOUS
  <2>4. w # None /\ new \in Row /\ new.waf = w.waf /\ new.flood = w.flood /\ new.mode = "live"
    BY <1>1, <1>8, <2>3 DEF Enable, Row, Modes
  <2>5. Wants(asked("enable", st, new))
    BY <2>1, <2>4 DEF Wants, Way
  <2> QED
    BY <2>1, <2>2, <2>3, <2>4, <2>5, AskRight
<1>9. CASE Wildcard(s)
  <2>1. Ask("zone", s, [w EXCEPT !.mode = "zone", !.from = Zone[s]], "issue")
    BY <1>9 DEF Wildcard
  <2>2. PICK new : new = [w EXCEPT !.mode = "zone", !.from = Zone[s]]
    OBVIOUS
  <2>3. w # None /\ new \in Row /\ new.waf = w.waf /\ new.flood = w.flood /\ new.mode = "zone"
    BY <1>1, <1>9, <2>2, ConstantsAssumption DEF Wildcard, Row, Modes
  <2>4. Wants(asked("zone", "issue", new))
    BY <2>3 DEF Wants, Way
  <2> QED
    BY <2>1, <2>2, <2>3, <2>4, AskRight
<1>10. CASE Delete(s)
  <2>1. Ask("delete", s, w, "drop") /\ w # None
    BY <1>10 DEF Delete
  <2>2. Wants(asked("delete", "drop", w))
    BY <2>1 DEF Wants, Way
  <2> QED
    BY <1>1, <2>1, <2>2, AskRight
<1> QED
  BY <1>2, <1>3, <1>4, <1>5, <1>6, <1>7, <1>8, <1>9, <1>10

-----------------------------------------------------------------------------
LEMMA RightInit == Init => RightInv
<1> SUFFICES ASSUME Init PROVE RightInv
  OBVIOUS
<1>1. Inv
  BY InvInit
<1>2. Wanting /\ Underway
  BY DEF Init, Wanting, Underway
<1>3. Right
  BY DEF Init, Right, Fits, Says, Backed, Certified
<1> QED
  BY <1>1, <1>2, <1>3 DEF RightInv

LEMMA RightNext == RightInv /\ [Next]_vars => RightInv'
<1> SUFFICES ASSUME RightInv, [Next]_vars PROVE RightInv'
  OBVIOUS
<1>0. Inv'
  BY InvNext DEF RightInv
<1>1. CASE Begin
  BY <1>0, <1>1, BeginRight
<1>2. CASE SaveRules \/ SaveZones \/ Custom \/ Install \/ IssueZone \/ StepFails
  BY <1>0, <1>2, RulesRight, ZonesRight, CustomRight, CertsRight, FailRight
<1>3. CASE Write \/ WritePlain \/ WriteBlock \/ Accepted \/ Refused
  BY <1>0, <1>3, WriteRight, AcceptedRight, RefusedRight
<1>4. CASE NotPutBack \/ Dropped
  BY <1>0, <1>4, LeftRight DEF NotPutBack, Dropped, Now
<1>5. CASE SetRow \/ Restore \/ Refile \/ Issue \/ IssueFails
  BY <1>0, <1>5, SetRowRight, RestoreRight, RefileRight, IssueRight, IssueFailsRight
<1>6. CASE Remove \/ Resync \/ DropVhost \/ Release \/ DeleteRules \/ DeleteRow
  BY <1>0, <1>6, RemoveRight, ResyncRight, DeleteRight
<1>7. CASE UNCHANGED vars
  BY <1>0, <1>7
  DEF vars, files, RightInv, Wanting, Right, InHand, Underway, Wants, Found, Made,
      Fits, Says, Backed, Certified, Wanted, Named, Borrowed
<1> QED
  BY <1>1, <1>2, <1>3, <1>4, <1>5, <1>6, <1>7 DEF Next, Step

\* Whatever requests come, fail and are dropped, no site that no request has
\* left half-way names a file that is not there, except that nobody knows
\* whose certificate a site on a zone names (`apply_vhost_message`,
\* `delete_website`, `block_if_source`).
THEOREM NamesWhatIsThere == Spec => []NothingMissing
<1>1. RightInv => NothingMissing
  <2> SUFFICES ASSUME RightInv, NEW s \in Sites \ (off \cup InHand), ~Borrows(s)
               PROVE  Serving(s)
    BY DEF NothingMissing
  <2>1. Fits(row[s], vhost[s], s)
    BY DEF RightInv, Right
  <2> QED
    BY <2>1 DEF Fits, Says, Backed, Certified, Borrows, Serving, Complete
<1> QED
  BY RightInit, RightNext, <1>1, PTL DEF Spec

\* And its vhost says what its row says.
THEOREM SaysWhatTheRowSays == Spec => []ServesItsRow
<1>1. RightInv => ServesItsRow
  <2> SUFFICES ASSUME RightInv, NEW s \in Sites \ (off \cup InHand), ~Borrows(s)
               PROVE  Agrees(s)
    BY DEF ServesItsRow
  <2>1. Fits(row[s], vhost[s], s)
    BY DEF RightInv, Right
  <2> QED
    BY <2>1 DEF Fits, Says, Borrows, Agrees
<1> QED
  BY RightInit, RightNext, <1>1, PTL DEF Spec
=============================================================================
