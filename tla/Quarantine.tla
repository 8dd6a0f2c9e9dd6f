----------------------------- MODULE Quarantine -----------------------------
(***************************************************************************)
(* What malware scans find, set aside in a store of the helper's           *)
(* (snpanel-helper/src/ops/quarantine.rs) and put back, judged fine or     *)
(* deleted by an administrator (routes/malware_quarantine.rs), with the    *)
(* scan's job saying what became of each file (malware_quarantine.rs).     *)
(*                                                                         *)
(* The helper moves one file at a time, since its operations share a lock  *)
(* (HelperServer).  The customers put, rename and write files where they   *)
(* like meanwhile; every system call may fail, a request may be dropped,   *)
(* and the panel, the helper or the server stop between two calls.         *)
(*                                                                         *)
(* A file is known by its content.  What at has at a path is the content   *)
(* of the file there, and a customer who writes changes it in place.       *)
(***************************************************************************)
EXTENDS Naturals, FiniteSets

CONSTANTS
  Paths,   \* where files are
  Scanned, \* the ones that the scans look at
  Movable, \* the paths under ROOTS, from which files are set aside
  Far,     \* the paths on another file system than the store's
  Files,   \* regular files, by their contents, that the customers put anywhere
  Links,   \* and links
  Torn,    \* a copy that was cut short
  Jobs,    \* scans
  None,
  MaxIds,  \* bound: files that are set aside
  MaxAsks, \* bound: requests of administrators about what was found
  MaxFalls \* bound: stops of the helper or of the server, and answers that are lost

Ids    == 1..MaxIds
Things == Files \cup Links \cup {Torn}

States == {"found", "quarantined", "whitelisted", "restored", "deleted", "missing", "left",
           "failed"}
Threat == [state : States, id : Ids \cup {None}]
Item   == [file : Things \cup {None}, sum : Things \cup {None},
           path : Paths \cup {None}, job : Jobs \cup {None}]

\* What the helper is at, for a scan's job or for the administrator: the content it has taken
\* the sum of, and the path where the file that it opened is by now.
Op == [by : Jobs \cup {"admin", None}, kind : {"quarantine", "restore", "delete", "add", "drop"},
       path : Paths, id : Ids \cup {None}, job : Jobs \cup {None}, file : Things \cup {None},
       lies : Paths \cup {None},
       step : {"start", "move", "same", "unlink", "open", "record", "put", "clear", "own",
               "forget"}]

Worker == [step : {"scan", "isolate", "over"}, todo : SUBSET Paths,
           got : [Paths -> Threat \cup {None}]]

Kinds == {"restore", "fine", "judge", "delete", "quarantine", "whitelist", "unwhitelist"}
Ask   == [kind : Kinds, path : Paths, job : Jobs \cup {None}, id : Ids \cup {None},
          step : {"ask", "wait", "told"}, out : Threat \cup {None}]

ASSUME ConstantsAssumption ==
  /\ Scanned \subseteq Paths /\ Movable \subseteq Paths /\ Far \subseteq Paths
  /\ Torn \notin Files \cup Links /\ Files \cap Links = {}
  /\ "admin" \notin Jobs \cup {None}
  /\ None \notin Paths \cup Things \cup Jobs \cup Ids \cup Threat \cup Item \cup Op \cup Ask
  /\ MaxIds \in Nat /\ MaxAsks \in Nat /\ MaxFalls \in Nat

VARIABLES
  at,      \* what is at each path
  items,   \* the store: a file, and the record of where it was and what it is
  made,    \* how many items were made; their ids are random
  white,   \* the whitelist: paths with the file that is fine there
  op,      \* the operation of the helper that has the lock
  threats, \* each job's threats
  worker,  \* each scan's worker
  adm,     \* the administrator's request
  asks,    \* bound: how many there were
  falls,   \* bound: how many stops there were
  owed,    \* history: the files that nobody has removed
  late,    \* history: the items whose file was written to after its sum was taken
  untold   \* history: the items put back or deleted without their scan being told

store == <<items, made, white>>
panel == <<threats, worker, adm, asks, falls, untold>>
tales == <<owed, late>>
vars  == <<at, store, op, panel, tales>>

NewId == made + 1

NoItem == [file |-> None, sum |-> None, path |-> None, job |-> None]

Init ==
  /\ at \in [Paths -> Files \cup {None}]
  /\ \A p, q \in Paths : at[p] = at[q] => at[p] = None \/ p = q
  /\ items = [i \in Ids |-> None] /\ made = 0 /\ white = {} /\ op = None
  /\ threats = [j \in Jobs |-> [p \in Paths |-> None]]
  /\ worker = [j \in Jobs |-> [step |-> "scan", todo |-> {}, got |-> [p \in Paths |-> None]]]
  /\ adm = None /\ asks = 0 /\ falls = 0
  /\ owed = {at[p] : p \in Paths} \ {None}
  /\ late = {} /\ untold = {}

-----------------------------------------------------------------------------
(* The customers.                                                           *)

Nowhere(f) ==
  /\ \A p \in Paths : at[p] # f
  /\ \A i \in Ids : items[i] # None => items[i].file # f

\* The file that the helper has opened is at p.
Held(p) == op # None /\ op.step \in {"move", "same", "unlink"} /\ op.lies = p

\* The helper is about to remove what is at p, or has copied it by now.
InTheWay(p) == op # None /\ op.step = "unlink" /\ op.path = p
Copied(p)   == Held(p) /\ op.step # "move"

Put(p, f) ==
  /\ Nowhere(f)
  /\ at' = [at EXCEPT ![p] = f]
  /\ op' = IF Held(p) THEN [op EXCEPT !.lies = None] ELSE op
  /\ owed' = (owed \ {at[p]}) \cup (IF InTheWay(p) THEN {} ELSE {f} \cap Files)
  /\ UNCHANGED <<store, panel, late>>

Remove(p) ==
  /\ at[p] # None
  /\ at' = [at EXCEPT ![p] = None]
  /\ op' = IF Held(p) THEN [op EXCEPT !.lies = None] ELSE op
  /\ owed' = owed \ {at[p]}
  /\ UNCHANGED <<store, panel, late>>

\* A rename stays on one file system.
Rename(p, q) ==
  /\ at[p] # None /\ p # q /\ (p \in Far <=> q \in Far)
  /\ at' = [at EXCEPT ![q] = at[p], ![p] = None]
  /\ op' = IF Held(p) THEN [op EXCEPT !.lies = q]
           ELSE IF Held(q) THEN [op EXCEPT !.lies = None] ELSE op
  /\ owed' = (owed \ {at[q]}) \ (IF InTheWay(q) THEN {at[p]} ELSE {})
  /\ UNCHANGED <<store, panel, late>>

\* The same file has another content now.
Write(p, f) ==
  /\ at[p] \notin Links \cup {None} /\ Nowhere(f)
  /\ at' = [at EXCEPT ![p] = f]
  /\ owed' = (owed \ {at[p]}) \cup (IF InTheWay(p) \/ Copied(p) THEN {} ELSE {f})
  /\ UNCHANGED <<store, op, panel, late>>

\* An item is listed if it has a record.
Listed(i) == items[i] # None /\ items[i].path # None

\* What was renamed into the store is still the customer's file, if they have it open.
Theirs(i) ==
  /\ items[i] # None /\ items[i].file \notin Links \cup {None}
  /\ \/ Listed(i) /\ items[i].path \notin Far
     \/ op # None /\ op.kind = "quarantine" /\ op.id = i /\ op.path \notin Far

WriteAside(i, f) ==
  /\ Theirs(i) /\ Nowhere(f)
  /\ items' = [items EXCEPT ![i].file = f]
  /\ owed' = (owed \ {items[i].file}) \cup {f}
  /\ late' = late \cup {i}
  /\ UNCHANGED <<at, made, white, op, panel>>

Customer ==
  \/ \E p \in Paths :
       \/ Remove(p)
       \/ \E f \in Files \cup Links : Put(p, f)
       \/ \E f \in Files : Write(p, f)
       \/ \E q \in Paths : Rename(p, q)
  \/ \E i \in Ids, f \in Files : WriteAside(i, f)

-----------------------------------------------------------------------------
(* The helper's operations, one at a time.                                  *)

At(kind, step) == op # None /\ op.kind = kind /\ op.step = step

Goto(step) == op' = [op EXCEPT !.step = step]

\* The answer goes to who asked, if it is still there.
Reply(state, id) ==
  /\ op' = None
  /\ LET out == [state |-> state, id |-> id] IN
     /\ worker' = IF op.by \in Jobs
                  THEN [worker EXCEPT ![op.by].got[op.path] = out,
                                      ![op.by].todo = @ \ {op.path}]
                  ELSE worker
     /\ adm' = IF op.by = "admin" THEN [adm EXCEPT !.step = "told", !.out = out] ELSE adm
  /\ UNCHANGED <<threats, asks, falls, untold>>

\* Nobody is answered, so the panel asks once more, by sudo.  A scan still has it to do.
Again ==
  /\ falls < MaxFalls /\ falls' = falls + 1
  /\ op' = None
  /\ adm' = IF op.by = "admin" THEN [adm EXCEPT !.step = "ask"] ELSE adm
  /\ UNCHANGED <<threats, worker, asks>>

\* The helper ends before the answer is read.
ReplyLost ==
  /\ Again
  /\ untold' = untold \cup (IF op.kind \in {"restore", "delete"} THEN {op.id} ELSE {})

Answer(state, id) == Reply(state, id) \/ ReplyLost

\* `give_up`: the item's folder goes with what is in it, if it can be removed.
GiveUp ==
  /\ items' = [items EXCEPT ![op.id] = None] \/ UNCHANGED items
  /\ Answer("failed", None)

\* `quarantine`: the file is opened and its content looked up.  Each look may fail.
Open ==
  /\ At("quarantine", "start")
  /\ LET f == at[op.path] IN
     \/ f = None /\ Answer("missing", None)
     \/ f # None /\ Answer("failed", None)
     \/ f \notin Links \cup {None} /\ <<op.path, f>> \in white /\ Answer("whitelisted", None)
     \/ /\ f \notin Links \cup {None} /\ <<op.path, f>> \notin white /\ op.path \notin Movable
        /\ Answer("left", None)
     \/ /\ f \notin Links \cup {None} /\ <<op.path, f>> \notin white /\ op.path \in Movable
        /\ op' = [op EXCEPT !.file = f, !.lies = op.path, !.step = "move"]
        /\ UNCHANGED panel
  /\ UNCHANGED <<at, store, tales>>

\* A folder for it, which may not be made (and is not past the bound), like what goes into it.
Folder == made < MaxIds /\ made' = NewId

NoFolder == Answer("failed", None) /\ UNCHANGED <<items, made>>

\* What was moved is the file that was opened, or the copy of it.
SameFile == op.path \in Far \/ op.lies = op.path

\* `renameat`, which takes what is there now.
Move ==
  /\ At("quarantine", "move") /\ op.path \notin Far
  /\ \/ /\ Folder /\ at[op.path] # None
        /\ items' = [items EXCEPT ![NewId] = [NoItem EXCEPT !.file = at[op.path]]]
        /\ at' = [at EXCEPT ![op.path] = None]
        /\ op' = [op EXCEPT !.id = NewId, !.step = "open"]
        /\ late' = IF SameFile /\ at[op.path] # op.file THEN late \cup {NewId} ELSE late
        /\ UNCHANGED panel
     \/ NoFolder /\ UNCHANGED <<at, late>>
  /\ UNCHANGED <<white, owed>>

\* What the file that was opened has by now; when it is gone, what it had then.
Content == IF op.lies = None THEN op.file ELSE at[op.lies]

\* EXDEV: `copy_into`.
Copy ==
  /\ At("quarantine", "move") /\ op.path \in Far
  /\ \/ /\ Folder
        /\ items' = [items EXCEPT ![NewId] = [NoItem EXCEPT !.file = Content]]
        /\ op' = [op EXCEPT !.id = NewId, !.step = "same"]
        /\ late' = IF Content # op.file THEN late \cup {NewId} ELSE late
        /\ UNCHANGED panel
     \/ NoFolder /\ UNCHANGED late
  /\ UNCHANGED <<at, white, owed>>

\* The original goes "if it is still the file that was copied".
Same ==
  /\ At("quarantine", "same")
  /\ \/ op.lies = op.path /\ Goto("unlink") /\ UNCHANGED <<items, panel>>
     \/ GiveUp
  /\ UNCHANGED <<at, made, white, tales>>

Unlink ==
  /\ At("quarantine", "unlink")
  /\ \/ /\ at[op.path] # None
        /\ at' = [at EXCEPT ![op.path] = None]
        /\ Goto("open")
        /\ UNCHANGED <<items, panel>>
     \/ GiveUp /\ UNCHANGED at
  /\ UNCHANGED <<made, white, tales>>

\* Slip: the record keeps the sum of what was read before the move.
SlipOpenMoved ==
  /\ At("quarantine", "open")
  /\ items[op.id].file \notin Links
  /\ Goto("record")
  /\ UNCHANGED <<at, store, panel, tales>>

\* What was moved is opened, hashed again if it is another file, and made root's.  When it
\* cannot be opened, what is given up is all there is of it.
OpenMoved ==
  /\ At("quarantine", "open")
  /\ \/ /\ items[op.id].file \notin Links
        /\ op' = [op EXCEPT !.step = "record",
                            !.file = IF SameFile THEN @ ELSE items[op.id].file]
        /\ late' = IF SameFile THEN late ELSE late \ {op.id}
        /\ UNCHANGED <<items, panel, owed>>
     \/ items[op.id].file \notin Links /\ Answer("failed", None) /\ UNCHANGED <<items, tales>>
     \/ /\ GiveUp
        /\ owed' = IF items' = items THEN owed ELSE owed \ {items[op.id].file}
        /\ UNCHANGED late
  /\ UNCHANGED <<at, made, white>>

\* `meta.json`.  The file stays where it is if that cannot be written.
Record ==
  /\ At("quarantine", "record")
  /\ \/ /\ items' = [items EXCEPT ![op.id] = [@ EXCEPT !.sum = op.file, !.path = op.path,
                                                       !.job = op.job]]
        /\ Answer("quarantined", op.id)
     \/ Answer("failed", None) /\ UNCHANGED items
  /\ UNCHANGED <<at, made, white, tales>>

\* `restore`: refused if it has no record, if something is there again, or if the folder it
\* was in is not there any more.
Restore ==
  /\ At("restore", "start")
  /\ \/ Listed(op.id) /\ at[items[op.id].path] = None /\ Goto("put") /\ UNCHANGED panel
     \/ Answer("failed", None)
  /\ UNCHANGED <<at, store, tales>>

\* Slip: `rename`, which replaces what is there.
SlipPutBack ==
  /\ At("restore", "put") /\ op.path \notin Far
  /\ items[op.id].file # None
  /\ at' = [at EXCEPT ![op.path] = items[op.id].file]
  /\ items' = [items EXCEPT ![op.id].file = None]
  /\ Goto("own")
  /\ UNCHANGED <<made, white, panel, tales>>

\* RENAME_NOREPLACE
PutBack ==
  /\ At("restore", "put") /\ op.path \notin Far
  /\ \/ /\ at[op.path] = None /\ items[op.id].file # None
        /\ at' = [at EXCEPT ![op.path] = items[op.id].file]
        /\ items' = [items EXCEPT ![op.id].file = None]
        /\ Goto("own") /\ UNCHANGED panel
     \/ Answer("failed", None) /\ UNCHANGED <<at, items>>
  /\ UNCHANGED <<made, white, tales>>

\* EXDEV: a copy that must be a new file, and may be cut short.
CopyBack ==
  /\ At("restore", "put") /\ op.path \in Far
  /\ \/ /\ at[op.path] = None /\ items[op.id].file # None
        /\ \/ at' = [at EXCEPT ![op.path] = items[op.id].file]
              /\ Goto("clear") /\ UNCHANGED panel
           \/ at' = [at EXCEPT ![op.path] = Torn]
              /\ Answer("failed", None)
     \/ Answer("failed", None) /\ UNCHANGED at
  /\ UNCHANGED <<store, tales>>

\* Whether the stored one can be removed is not asked.
Clear ==
  /\ At("restore", "clear")
  /\ items' = [items EXCEPT ![op.id].file = None] \/ UNCHANGED items
  /\ Goto("own")
  /\ UNCHANGED <<at, made, white, panel, tales>>

\* Whose it was, unless it is gone or a link by now, or cannot be given back.
Own ==
  /\ At("restore", "own")
  /\ \/ at[op.path] \notin Links \cup {None} /\ Goto("forget") /\ UNCHANGED panel
     \/ Answer("failed", None)
  /\ UNCHANGED <<at, store, tales>>

\* `delete`: the file, and then its record.
Delete ==
  /\ At("delete", "start")
  /\ \/ /\ Listed(op.id)
        /\ owed' = owed \ {items[op.id].file}
        /\ items' = [items EXCEPT ![op.id].file = None]
        /\ Goto("forget") /\ UNCHANGED panel
     \/ Answer("failed", None) /\ UNCHANGED <<items, owed>>
  /\ UNCHANGED <<at, made, white, late>>

\* An item without its record.
Unrecorded(it) == IF it.file = None THEN None ELSE [NoItem EXCEPT !.file = it.file]

\* The record may stay, which a deletion answers and a restore does not.
Forget ==
  /\ At("restore", "forget") \/ At("delete", "forget")
  /\ \/ /\ items' = [items EXCEPT ![op.id] = Unrecorded(@)]
        /\ Answer(IF op.kind = "restore" THEN "restored" ELSE "deleted", None)
     \/ /\ UNCHANGED items
        /\ Answer(IF op.kind = "restore" THEN "restored" ELSE "failed", None)
  /\ UNCHANGED <<at, made, white, tales>>

\* Slip: whatever is at the path is judged fine.
SlipWhiteAdd ==
  /\ At("add", "start")
  /\ white' = {e \in white : e[1] # op.path} \cup {<<op.path, at[op.path]>>}
  /\ Answer("whitelisted", None)
  /\ UNCHANGED <<at, items, made, tales>>

\* `whitelist_add` and `whitelist_remove`
WhiteAdd ==
  /\ At("add", "start")
  /\ \/ /\ at[op.path] \notin Links \cup {None}
        /\ white' = {e \in white : e[1] # op.path} \cup {<<op.path, at[op.path]>>}
        /\ Answer("whitelisted", None)
     \/ Answer("failed", None) /\ UNCHANGED white
  /\ UNCHANGED <<at, items, made, tales>>

WhiteDrop ==
  /\ At("drop", "start")
  /\ \/ white' = {e \in white : e[1] # op.path} /\ Answer("deleted", None)
     \/ Answer("failed", None) /\ UNCHANGED white
  /\ UNCHANGED <<at, items, made, tales>>

HelperStep ==
  \/ Open \/ Move \/ Copy \/ Same \/ Unlink \/ OpenMoved \/ Record
  \/ Restore \/ PutBack \/ CopyBack \/ Clear \/ Own \/ Delete \/ Forget
  \/ WhiteAdd \/ WhiteDrop

\* The panel asks the helper, and has the lock.
Call(by, kind, path, id, job) ==
  /\ op = None
  /\ op' = [by |-> by, kind |-> kind, path |-> path, id |-> id, job |-> job, file |-> None,
            lies |-> None, step |-> "start"]

-----------------------------------------------------------------------------
(* A scan's worker.                                                         *)

\* The scan is over and has found some of the files; its job is final.
Scan(j) ==
  /\ worker[j].step = "scan"
  /\ \E found \in SUBSET {p \in Scanned : at[p] \in Files} \ {{}} :
       /\ threats' = [threats EXCEPT ![j] =
            [p \in Paths |-> IF p \in found THEN [state |-> "found", id |-> None] ELSE None]]
       /\ worker' = [worker EXCEPT ![j].step = "isolate", ![j].todo = found]
  /\ UNCHANGED <<at, store, op, adm, asks, falls, tales, untold>>

\* `isolate_job` goes through the threats as they were when it began.
Isolate(j) ==
  /\ worker[j].step = "isolate"
  /\ \E p \in worker[j].todo : Call(j, "quarantine", p, None, j)
  /\ UNCHANGED <<at, store, panel, tales>>

\* `apply`: the id stays with what was put back or deleted.
Applied(t, out) ==
  [state |-> out.state,
   id |-> IF out.id = None /\ out.state \in {"restored", "deleted"} THEN t.id ELSE out.id]

Over == [step |-> "over", todo |-> {}, got |-> [p \in Paths |-> None]]

\* It writes them all at its end (`jobs::amend`).
Amend(j) ==
  /\ worker[j].step = "isolate" /\ worker[j].todo = {}
  /\ threats' = [threats EXCEPT ![j] =
       [p \in Paths |-> IF worker[j].got[p] = None THEN @[p]
                        ELSE Applied(@[p], worker[j].got[p])]]
  /\ worker' = [worker EXCEPT ![j] = Over]
  /\ UNCHANGED <<at, store, op, adm, asks, falls, tales, untold>>

-----------------------------------------------------------------------------
(* The administrators.                                                      *)

Request(kind, path, job, id) ==
  /\ adm = None
  /\ adm' = [kind |-> kind, path |-> path, job |-> job, id |-> id, step |-> "ask", out |-> None]
  /\ IF kind = "unwhitelist" THEN UNCHANGED asks ELSE asks < MaxAsks /\ asks' = asks + 1
  /\ UNCHANGED <<at, store, op, threats, worker, falls, tales, untold>>

\* What is done to an item, which must be listed (`item`).
AskItem ==
  \E i \in Ids, kind \in {"restore", "fine", "delete"} :
    Listed(i) /\ Request(kind, items[i].path, items[i].job, i)

\* What is done to a threat of a scan (`threat_of`).
AskThreat ==
  \E j \in Jobs, p \in Paths, kind \in {"quarantine", "whitelist"} :
    threats[j][p] # None /\ Request(kind, p, j, None)

AskUnwhite == \E e \in white : Request("unwhitelist", e[1], None, None)

AdmAt(step) == adm # None /\ adm.step = step

Verb == CASE adm.kind \in {"restore", "fine"}    -> "restore"
          [] adm.kind \in {"whitelist", "judge"} -> "add"
          [] adm.kind = "delete"                 -> "delete"
          [] adm.kind = "quarantine"             -> "quarantine"
          [] adm.kind = "unwhitelist"            -> "drop"

Send ==
  /\ AdmAt("ask")
  /\ Call("admin", Verb, adm.path, adm.id, adm.job)
  /\ adm' = [adm EXCEPT !.step = "wait"]
  /\ UNCHANGED <<at, store, threats, worker, asks, falls, tales, untold>>

Failed == adm.out.state = "failed"

\* What is put back is to be whitelisted next, where it is.
Judge ==
  /\ AdmAt("told") /\ adm.kind = "fine" /\ ~Failed
  /\ adm' = [adm EXCEPT !.kind = "judge", !.step = "ask"]
  /\ UNCHANGED <<at, store, op, threats, worker, asks, falls, tales, untold>>

Threatened == {p \in Paths : threats[adm.job][p] # None}

Mark(out, these) ==
  threats' = [threats EXCEPT ![adm.job] =
    [p \in Paths |-> IF p \in these THEN Applied(@[p], out) ELSE @[p]]]

WithTheId == {p \in Threatened : threats[adm.job][p].id = adm.id}
AtThePath == Threatened \cap {adm.path}

\* Slip: the whitelist's refusal is answered before the threat is marked.
SlipJudged ==
  IF Failed THEN UNCHANGED threats ELSE Mark(adm.out, WithTheId)

\* What could not be whitelisted was put back.
Judged == Mark(IF Failed THEN [adm.out EXCEPT !.state = "restored"] ELSE adm.out, WithTheId)

\* The scan will write over what is marked.
Early == {i \in {adm.id} \ {None} :
            \E p \in Paths : worker[adm.job].got[p] # None /\ worker[adm.job].got[p].id = i}

\* The outcome goes into the threat, and the administrator is answered.  A failure ends most
\* requests at once.
Told ==
  /\ AdmAt("told")
  /\ \/ adm.kind \in {"restore", "delete"} /\ ~Failed /\ Mark(adm.out, WithTheId)
     \/ adm.kind = "judge" /\ Judged
     \/ adm.kind = "quarantine" /\ Mark(adm.out, AtThePath)
     \/ adm.kind = "whitelist" /\ ~Failed /\ Mark(adm.out, AtThePath)
     \/ adm.kind \in {"restore", "delete", "fine", "whitelist"} /\ Failed /\ UNCHANGED threats
     \/ adm.kind = "unwhitelist" /\ UNCHANGED threats
  /\ adm' = None
  /\ untold' = untold \cup Early
  /\ UNCHANGED <<at, store, op, worker, asks, falls, tales>>

-----------------------------------------------------------------------------
(* Requests that are dropped, and stops.                                    *)

\* The item that an administrator had something done to.
Meant ==
  IF adm = None \/ (adm.step = "ask" /\ adm.kind # "judge") THEN {} ELSE {adm.id} \ {None}

\* Whoever asked does not wait any more; what the helper is at goes on.
Orphaned == IF op # None /\ op.by = "admin" THEN [op EXCEPT !.by = None] ELSE op

Dropped ==
  /\ adm # None
  /\ adm' = None /\ op' = Orphaned
  /\ untold' = untold \cup Meant
  /\ UNCHANGED <<at, store, threats, worker, asks, falls, tales>>

PanelStops ==
  /\ untold' = untold \cup Meant
  /\ worker' = [j \in Jobs |-> IF worker[j].step = "isolate" THEN Over ELSE worker[j]]
  /\ adm' = None
  /\ UNCHANGED <<at, store, threats, asks, tales>>

PanelDies ==
  /\ PanelStops
  /\ op' = IF op = None THEN None ELSE [op EXCEPT !.by = None]
  /\ UNCHANGED falls

ServerDies == PanelStops /\ op # None /\ op' = None /\ falls < MaxFalls /\ falls' = falls + 1

HelperDies ==
  /\ op # None /\ Again
  /\ UNCHANGED <<at, store, tales, untold>>

-----------------------------------------------------------------------------
Next ==
  \/ Customer
  \/ HelperStep
  \/ \E j \in Jobs : Scan(j) \/ Isolate(j) \/ Amend(j)
  \/ AskItem \/ AskThreat \/ AskUnwhite \/ Send \/ Judge \/ Told
  \/ Dropped \/ PanelDies \/ ServerDies \/ HelperDies

Spec == Init /\ [][Next]_vars

-----------------------------------------------------------------------------
(* Properties                                                               *)

\* Types of all variables.
TypeOK ==
  /\ at \in [Paths -> Things \cup {None}]
  /\ items \in [Ids -> Item \cup {None}]
  /\ made \in 0..MaxIds
  /\ white \subseteq Paths \X Things
  /\ op \in Op \cup {None}
  /\ threats \in [Jobs -> [Paths -> Threat \cup {None}]]
  /\ worker \in [Jobs -> Worker]
  /\ adm \in Ask \cup {None}
  /\ asks \in 0..MaxAsks /\ falls \in 0..MaxFalls
  /\ owed \subseteq Files /\ late \subseteq Ids /\ untold \subseteq Ids

\* No file is lost: one that nobody removed is at some path or in the store, whatever is
\* swapped, cut short, repeated or refused while it is moved (quarantine, restore).  Not owed
\* is what a customer puts or writes where the helper is about to remove, having looked, and
\* what is given up because it cannot be opened in the store (quarantine.rs:486-489).
NothingLost ==
  \A f \in owed :
    f \in {at[p] : p \in Paths} \cup {items[i].file : i \in {k \in Ids : items[k] # None}}

\* What the record of an item says of its content is true of the file that is stored, which
\* need not be the one that was looked at first (quarantine's second hash), unless a customer
\* wrote into that very file after its sum was taken.
RecordIsTheFile ==
  \A i \in Ids :
    Listed(i) /\ items[i].file # None /\ i \notin late => items[i].sum = items[i].file

\* What a scan shows as quarantined has its item in the store, for an administrator to act on
\* (isolate_job, mark), unless it was put back or deleted behind the scan's back: by a request
\* that was dropped, whose answer was lost, or that came before the scan wrote its results.
QuarantinedIsAside ==
  \A j \in Jobs, p \in Paths :
    LET t == threats[j][p] IN
    t # None /\ t.state = "quarantined" /\ t.id \notin untold =>
      t.id # None /\ (Listed(t.id) \/ (adm # None /\ adm.id = t.id))

=============================================================================
