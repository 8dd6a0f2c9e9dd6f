-------------------------- MODULE Quarantine_proofs --------------------------
(***************************************************************************)
(* No file is lost on its way into the store and back, whatever fails or   *)
(* stops; the records tell what is stored; and what a scan shows as set    *)
(* aside can be had back.  For any files, paths, scans and requests.       *)
(***************************************************************************)
EXTENDS Quarantine, TLAPS

\* An item that has no record yet.
Bare(i) == i \in Ids /\ items[i] # None /\ items[i].path = None

\* An id that was given out: no other item will have it.
Given(i) == i \in Ids /\ i <= made /\ (op # None /\ op.kind = "quarantine" => op.id # i)

Stored == \A i \in Ids : items[i] # None => i <= made /\ (Listed(i) => items[i].job \in Jobs)

\* What is set aside has an item of its own from the move on.
Asides == op # None /\ op.kind = "quarantine" =>
  /\ op.step \in {"start", "move", "same", "unlink", "open", "record"}
  /\ op.job \in Jobs
  /\ op.step \in {"start", "move"} => op.id = None
  /\ op.step \in {"same", "unlink", "open", "record"} => Bare(op.id)
  /\ op.step \in {"same", "unlink"} => op.path \in Far

\* What is put back or deleted is on record until that is forgotten.
Backs == op # None /\ op.kind \in {"restore", "delete"} =>
  /\ op.step \in {"start", "put", "clear", "own", "forget"}
  /\ op.id \in Ids
  /\ op.step # "start" => Listed(op.id)
  /\ Listed(op.id) => items[op.id].path = op.path
  /\ op.step = "clear" => op.path \in Far

\* Who waits for the helper is there, or nobody is told.
Callers ==
  /\ op # None =>
       /\ op.kind \in {"add", "drop"} => op.step = "start"
       /\ op.by = "admin" => adm # None /\ adm.step = "wait"
       /\ op.by \in Jobs => /\ worker[op.by].step = "isolate" /\ op.kind = "quarantine"
                            /\ op.path \in worker[op.by].todo
  /\ \A j \in Jobs, p \in Paths :
       worker[j].got[p] # None => worker[j].got[p].state \notin {"restored", "deleted"}

\* The administrator asks for what there is.
Asked == adm # None =>
  /\ adm.step = "told" => adm.out \in Threat
  /\ adm.kind \in {"restore", "fine", "judge", "delete"} <=> adm.id \in Ids
  /\ adm.kind # "unwhitelist" => adm.job \in Jobs
  /\ adm.id \in Ids => Given(adm.id) /\ (Listed(adm.id) => items[adm.id].path = adm.path)

\* What an id that was given out stands for is as it was, or is forgotten.
Settled == \A i \in Ids : Given(i) =>
  /\ Given(i)'
  /\ Listed(i)' => Listed(i) /\ items'[i].path = items[i].path /\ items'[i].job = items[i].job

IInv == TypeOK /\ Stored /\ Asides /\ Backs /\ Callers /\ Asked

-----------------------------------------------------------------------------
(* What the operators make of a record.                                     *)

OpSteps == {"start", "move", "same", "unlink", "open", "record", "put", "clear", "own", "forget"}
OpKinds == {"quarantine", "restore", "delete", "add", "drop"}

LEMMA ItemRecords ==
  ASSUME NEW f \in Things \cup {None}, NEW p \in Paths, NEW j \in Jobs \cup {None}
  PROVE  /\ [NoItem EXCEPT !.file = f] \in Item
         /\ [NoItem EXCEPT !.file = f].path = None /\ [NoItem EXCEPT !.file = f].file = f
         /\ \A it \in Item :
              /\ [it EXCEPT !.file = f] \in Item /\ [it EXCEPT !.file = f].file = f
              /\ [it EXCEPT !.file = f].path = it.path /\ [it EXCEPT !.file = f].job = it.job
              /\ [it EXCEPT !.file = f].sum = it.sum
              /\ [it EXCEPT !.sum = f, !.path = p, !.job = j] \in Item
  BY DEF Item, NoItem

LEMMA AskRecords ==
  ASSUME NEW a \in Ask
  PROVE  /\ \A t \in Threat : [a EXCEPT !.step = "told", !.out = t] \in Ask
         /\ \A s \in {"ask", "wait", "told"} :
              /\ [a EXCEPT !.step = s] \in Ask
              /\ [a EXCEPT !.kind = "judge", !.step = s] \in Ask
  BY DEF Ask, Kinds

LEMMA NoneIsNo ==
  /\ None \notin Op /\ None \notin Ask /\ None \notin Item /\ None \notin Threat
  /\ None \notin Things /\ None \notin Jobs /\ None \notin Ids /\ None \notin Paths
  /\ "admin" \notin Jobs /\ "admin" # None
  BY ConstantsAssumption

LEMMA OpFacts ==
  ASSUME TypeOK, op # None
  PROVE  /\ op \in Op /\ op.path \in Paths /\ op.job \in Jobs \cup {None} /\ op.step \in OpSteps
         /\ op.file \in Things \cup {None} /\ op.id \in Ids \cup {None}
         /\ op.lies \in Paths \cup {None} /\ op.by \in Jobs \cup {"admin", None}
         /\ op.kind \in OpKinds /\ at[op.path] \in Things \cup {None}
  BY DEF TypeOK, Op, OpSteps, OpKinds

LEMMA AskFacts ==
  ASSUME TypeOK, adm # None
  PROVE  /\ adm \in Ask /\ adm.path \in Paths /\ adm.job \in Jobs \cup {None}
         /\ adm.id \in Ids \cup {None} /\ adm.kind \in Kinds /\ adm.step \in {"ask", "wait", "told"}
  BY DEF TypeOK, Ask

-----------------------------------------------------------------------------
(* What answers do.                                                         *)

\* The panel asks once more, and everybody waits as before.
LEMMA AgainFacts ==
  ASSUME IInv, op # None, Again
  PROVE  /\ op' = None /\ UNCHANGED <<threats, worker, asks>>
         /\ falls' \in 0..MaxFalls /\ adm' \in Ask \cup {None}
         /\ op.by # "admin" => adm' = adm
         /\ op.by = "admin" =>
              /\ adm # None /\ adm' # None /\ adm'.step = "ask" /\ adm'.kind = adm.kind
              /\ adm'.id = adm.id /\ adm'.job = adm.job /\ adm'.path = adm.path
         /\ Callers'
  <1>1. /\ op' = None /\ UNCHANGED <<threats, worker, asks>>
        /\ falls < MaxFalls /\ falls' = falls + 1
        /\ adm' = IF op.by = "admin" THEN [adm EXCEPT !.step = "ask"] ELSE adm
    BY DEF Again
  <1>2. falls' \in 0..MaxFalls
    BY <1>1, ConstantsAssumption DEF IInv, TypeOK
  <1>3. Callers'
    BY <1>1 DEF IInv, Callers
  <1>4. CASE op.by = "admin"
    <2>1. adm # None /\ adm \in Ask
      BY <1>4, AskFacts DEF IInv, Callers
    <2>2. adm' = [adm EXCEPT !.step = "ask"] /\ adm' \in Ask
      BY <1>1, <1>4, <2>1, AskRecords
    <2> QED
      BY <1>1, <1>2, <1>3, <1>4, <2>1, <2>2, NoneIsNo DEF Ask
  <1>5. CASE op.by # "admin"
    BY <1>1, <1>2, <1>3, <1>5 DEF IInv, TypeOK
  <1> QED
    BY <1>4, <1>5

\* The answer goes to the scan or to the administrator, and to nobody else.
LEMMA ReplyFacts ==
  ASSUME IInv, op # None, NEW state \in States, NEW id \in Ids \cup {None}, Reply(state, id),
         op.by \in Jobs => state \notin {"restored", "deleted"}
  PROVE  /\ op' = None /\ UNCHANGED <<threats, asks, falls, untold>>
         /\ worker' \in [Jobs -> Worker] /\ adm' \in Ask \cup {None}
         /\ \A j \in Jobs :
              /\ worker'[j].step = worker[j].step
              /\ \A p \in Paths : \/ worker'[j].got[p] = worker[j].got[p]
                                  \/ /\ j = op.by
                                     /\ worker'[j].got[p] = [state |-> state, id |-> id]
         /\ op.by = "admin" =>
              /\ adm # None /\ adm' # None /\ adm'.step = "told"
              /\ adm'.out = [state |-> state, id |-> id] /\ adm'.kind = adm.kind
              /\ adm'.id = adm.id /\ adm'.job = adm.job /\ adm'.path = adm.path
         /\ op.by # "admin" => adm' = adm
         /\ Callers'
  <1> DEFINE out == [state |-> state, id |-> id]
  <1>1. out \in Threat /\ out.state = state
    BY DEF Threat
  <1>2. op \in Op /\ op.path \in Paths
    BY OpFacts DEF IInv
  <1>3. /\ op' = None /\ UNCHANGED <<threats, asks, falls, untold>>
        /\ worker' = IF op.by \in Jobs
                     THEN [worker EXCEPT ![op.by].got[op.path] = out,
                                         ![op.by].todo = @ \ {op.path}]
                     ELSE worker
        /\ adm' = IF op.by = "admin" THEN [adm EXCEPT !.step = "told", !.out = out] ELSE adm
    BY DEF Reply
  <1> HIDE DEF out
  <1>4. /\ worker' \in [Jobs -> Worker]
        /\ \A j \in Jobs :
             /\ worker'[j].step = worker[j].step
             /\ \A p \in Paths : \/ worker'[j].got[p] = worker[j].got[p]
                                 \/ j = op.by /\ worker'[j].got[p] = out
    <2>1. worker \in [Jobs -> Worker]
      BY DEF IInv, TypeOK
    <2>2. CASE op.by \notin Jobs
      BY <1>3, <2>1, <2>2
    <2>3. CASE op.by \in Jobs
      <3> DEFINE w == worker[op.by]
                 v == [w EXCEPT !.got[op.path] = out, !.todo = @ \ {op.path}]
      <3>1. w \in Worker
        BY <2>1, <2>3
      <3>2. /\ v \in Worker /\ v.step = w.step
            /\ \A p \in Paths : v.got[p] = w.got[p] \/ v.got[p] = out
        BY <1>1, <1>2, <3>1 DEF Worker
      <3>3. worker' = [worker EXCEPT ![op.by] = v]
        BY <1>3, <2>1, <2>3
      <3> QED
        BY <2>1, <2>3, <3>2, <3>3
    <2> QED
      BY <2>2, <2>3
  <1>5. /\ adm' \in Ask \cup {None}
        /\ op.by = "admin" =>
             /\ adm # None /\ adm' # None /\ adm'.step = "told" /\ adm'.out = out
             /\ adm'.kind = adm.kind /\ adm'.id = adm.id /\ adm'.job = adm.job
             /\ adm'.path = adm.path
        /\ op.by # "admin" => adm' = adm
    <2>1. adm \in Ask \cup {None} /\ (op.by = "admin" => adm # None)
      BY DEF IInv, TypeOK, Callers
    <2>2. CASE op.by = "admin"
      <3>1. adm \in Ask /\ adm' = [adm EXCEPT !.step = "told", !.out = out]
        BY <1>3, <2>1, <2>2
      <3>2. adm' \in Ask
        BY <1>1, <3>1, AskRecords
      <3> QED
        BY <2>2, <3>1, <3>2, NoneIsNo DEF Ask
    <2>3. CASE op.by # "admin"
      BY <1>3, <2>1, <2>3
    <2> QED
      BY <2>2, <2>3
  <1>6. Callers'
    BY <1>1, <1>3, <1>4 DEF IInv, Callers
  <1> QED
    BY <1>3, <1>4, <1>5, <1>6 DEF out

\* What an answer leaves, whether it is lost or not.
LEMMA AnswerFacts ==
  ASSUME IInv, op # None, NEW state \in States, NEW id \in Ids \cup {None}, Answer(state, id),
         op.by \in Jobs => state \notin {"restored", "deleted"}
  PROVE  /\ op' = None /\ UNCHANGED <<threats, asks>> /\ falls' \in 0..MaxFalls
         /\ worker' \in [Jobs -> Worker] /\ adm' \in Ask \cup {None}
         /\ untold \subseteq untold' /\ untold' \subseteq Ids
         /\ op.by # "admin" => adm' = adm
         /\ op.by = "admin" =>
              /\ adm # None /\ adm' # None /\ adm'.kind = adm.kind /\ adm'.id = adm.id
              /\ adm'.job = adm.job /\ adm'.path = adm.path
              /\ adm'.step = "told" => adm'.out \in Threat
         /\ Callers'
  <1>1. [state |-> state, id |-> id] \in Threat
    BY DEF Threat
  <1>2. CASE Reply(state, id)
    BY <1>1, <1>2, ReplyFacts DEF IInv, TypeOK
  <1>3. CASE ReplyLost
    <2>1. op.kind \in {"restore", "delete"} => op.id \in Ids
      BY DEF IInv, Backs
    <2>2. untold' = untold \cup (IF op.kind \in {"restore", "delete"} THEN {op.id} ELSE {}) /\ Again
      BY <1>3 DEF ReplyLost
    <2> QED
      BY <2>1, <2>2, AgainFacts DEF IInv, TypeOK
  <1> QED
    BY <1>2, <1>3 DEF Answer

-----------------------------------------------------------------------------
(* The store, and the steps of the helper.                                  *)

\* No other id is taken by what the helper is at.
SameId == op' # None /\ op'.kind = "quarantine" =>
  op'.id = None \/ (op # None /\ op.kind = "quarantine" /\ op'.id = op.id)

\* At most item i is another, and it goes on to be what it was or is a new one.
LEMMA ItemsSettle ==
  ASSUME IInv, SameId, NEW i, \A k \in Ids \ {i} : items'[k] = items[k], made' = made,
         i \in Ids /\ items'[i] # None => items[i] # None,
         i \in Ids /\ Listed(i)' =>
           /\ items'[i].job \in Jobs
           /\ \/ op # None /\ op.kind = "quarantine" /\ op.id = i
              \/ Listed(i) /\ items'[i].path = items[i].path /\ items'[i].job = items[i].job
  PROVE  Settled /\ Stored'
  <1>1. Stored'
    BY DEF IInv, Stored, Listed
  <1>2. ASSUME NEW k \in Ids, Given(k) PROVE Given(k)'
    BY <1>2, NoneIsNo DEF Given, SameId
  <1>3. ASSUME NEW k \in Ids, Given(k), Listed(k)'
        PROVE  Listed(k) /\ items'[k].path = items[k].path /\ items'[k].job = items[k].job
    BY <1>3 DEF Given, Listed
  <1> QED
    BY <1>1, <1>2, <1>3 DEF Settled

LEMMA StoreSettles ==
  ASSUME IInv, SameId, UNCHANGED <<items, made>>
  PROVE  Settled /\ Stored'
  <1>1. Stored'
    BY DEF IInv, Stored, Listed
  <1>2. \A k \in Ids : Given(k) => Given(k)'
    BY NoneIsNo DEF Given, SameId
  <1> QED
    BY <1>1, <1>2 DEF Settled, Listed

LEMMA AskedStays ==
  ASSUME IInv, Settled,
         \/ adm' = None
         \/ /\ adm # None /\ adm'.kind = adm.kind /\ adm'.id = adm.id /\ adm'.job = adm.job
            /\ adm'.path = adm.path /\ (adm'.step = "told" => adm'.out \in Threat)
  PROVE  Asked'
  BY DEF IInv, Asked, Settled

\* An operation that is over leaves no claims on the store.
LEMMA AnswerKeeps ==
  ASSUME IInv, op # None, NEW state \in States, NEW id \in Ids \cup {None}, Answer(state, id),
         op.by \in Jobs => state \notin {"restored", "deleted"},
         at' \in [Paths -> Things \cup {None}], items' \in [Ids -> Item \cup {None}],
         made' \in 0..MaxIds, white' \subseteq Paths \X Things, owed' \subseteq Files,
         late' \subseteq Ids, Stored', Settled
  PROVE  IInv' /\ Settled
  <1>1. /\ op' = None /\ UNCHANGED <<threats, asks>> /\ falls' \in 0..MaxFalls
        /\ worker' \in [Jobs -> Worker] /\ adm' \in Ask \cup {None} /\ untold' \subseteq Ids
        /\ op.by # "admin" => adm' = adm
        /\ op.by = "admin" =>
              /\ adm # None /\ adm' # None /\ adm'.kind = adm.kind /\ adm'.id = adm.id
              /\ adm'.job = adm.job /\ adm'.path = adm.path
              /\ adm'.step = "told" => adm'.out \in Threat
        /\ Callers'
    BY AnswerFacts
  <1>2. TypeOK'
    BY <1>1 DEF IInv, TypeOK
  <1>3. Asked'
    <2>1. adm # None /\ adm.step = "told" => adm.out \in Threat
      BY DEF IInv, Asked
    <2> QED
      BY <1>1, <2>1, AskedStays
  <1>4. Asides' /\ Backs'
    BY <1>1 DEF Asides, Backs
  <1> QED
    BY <1>1, <1>2, <1>3, <1>4 DEF IInv

\* Who goes on with the same operation leaves its caller waiting.
LEMMA OnwardKeeps ==
  ASSUME IInv, op # None, op' \in Op, op'.by = op.by, op'.kind = op.kind, op'.path = op.path,
         op'.job = op.job, op.kind \notin {"add", "drop"}, UNCHANGED panel,
         at' \in [Paths -> Things \cup {None}], items' \in [Ids -> Item \cup {None}],
         made' \in 0..MaxIds, white' \subseteq Paths \X Things, owed' \subseteq Files,
         late' \subseteq Ids, Stored', Settled, Asides', Backs'
  PROVE  IInv' /\ Settled
  <1>1. TypeOK'
    BY DEF IInv, TypeOK, panel
  <1>2. Callers'
    BY DEF IInv, Callers, panel
  <1>3. Asked'
    <2>1. adm' = adm /\ (adm # None /\ adm.step = "told" => adm.out \in Threat)
      BY DEF IInv, Asked, panel
    <2> QED
      BY <2>1, AskedStays
  <1> QED
    BY <1>1, <1>2, <1>3 DEF IInv

LEMMA GotoFacts ==
  ASSUME TypeOK, op # None, NEW s \in OpSteps, Goto(s)
  PROVE  /\ op' \in Op /\ op' # None /\ op'.step = s /\ op'.id = op.id /\ op'.file = op.file
         /\ op'.path = op.path /\ op'.kind = op.kind /\ op'.by = op.by /\ op'.job = op.job
         /\ op'.lies = op.lies
  <1>1. op \in Op /\ op' = [op EXCEPT !.step = s]
    BY OpFacts DEF Goto
  <1>2. op' \in Op
    BY <1>1 DEF Op, OpSteps
  <1> QED
    BY <1>1, <1>2, NoneIsNo DEF Op

\* An answer that leaves the store as it is.
LEMMA JustAnswer ==
  ASSUME IInv, op # None, NEW state \in States, NEW id \in Ids \cup {None}, Answer(state, id),
         op.by \in Jobs => state \notin {"restored", "deleted"},
         at' \in [Paths -> Things \cup {None}], UNCHANGED <<items, made>>,
         white' \subseteq Paths \X Things, owed' \subseteq Files, late' \subseteq Ids
  PROVE  IInv' /\ Settled
  <1>1. op' = None
    BY AnswerFacts
  <1>2. Settled /\ Stored'
    BY <1>1, StoreSettles DEF SameId
  <1> QED
    BY <1>2, AnswerKeeps DEF IInv, TypeOK

LEMMA GiveUpKeeps ==
  ASSUME IInv, op # None, op.kind = "quarantine", op.id \in Ids, GiveUp,
         UNCHANGED <<at, made, white, late>>, owed' \subseteq Files
  PROVE  IInv' /\ Settled
  <1>1. Answer("failed", None) /\ "failed" \in States
    BY DEF GiveUp, States
  <1>2. op' = None
    BY <1>1, AnswerFacts
  <1>3. /\ items' \in [Ids -> Item \cup {None}] /\ \A k \in Ids \ {op.id} : items'[k] = items[k]
        /\ items'[op.id] # None => items[op.id] # None /\ items'[op.id] = items[op.id]
    BY DEF GiveUp, IInv, TypeOK
  <1>4. PICK i : i = op.id
    OBVIOUS
  <1>5. i \in Ids /\ Listed(i)' => Listed(i) /\ items'[i] = items[i] /\ items[i].job \in Jobs
    BY <1>3, <1>4 DEF Listed, IInv, Stored
  <1>6. Settled /\ Stored'
    BY <1>2, <1>3, <1>4, <1>5, ItemsSettle DEF SameId
  <1> QED
    BY <1>1, <1>3, <1>6, AnswerKeeps DEF IInv, TypeOK

LEMMA OpenKeeps == IInv /\ Open => IInv' /\ Settled
  <1> SUFFICES ASSUME IInv, Open PROVE IInv' /\ Settled
    OBVIOUS
  <1>1. op # None /\ op.kind = "quarantine" /\ op.step = "start" /\ UNCHANGED <<at, store, tales>>
    BY DEF Open, At
  <1>2. UNCHANGED <<items, made, white, owed, late>> /\ TypeOK
    BY <1>1 DEF IInv, store, tales
  <1>3. CASE \E s \in {"missing", "failed", "whitelisted", "left"} : Answer(s, None)
    BY <1>1, <1>2, <1>3, JustAnswer DEF TypeOK, States
  <1>4. CASE /\ op' = [op EXCEPT !.file = at[op.path], !.lies = op.path, !.step = "move"]
             /\ UNCHANGED panel
    <2>1. op \in Op /\ op.path \in Paths /\ at[op.path] \in Things \cup {None}
      BY <1>1, <1>2, OpFacts
    <2>2. op' \in Op
      BY <1>4, <2>1 DEF Op
    <2>3. op'.step = "move" /\ op'.path = op.path /\ op'.kind = op.kind
          /\ op'.by = op.by /\ op'.job = op.job /\ op'.id = op.id
      BY <1>4, <2>1 DEF Op
    <2>4. op.id = None /\ op.job \in Jobs
      BY <1>1 DEF IInv, Asides
    <2>5. Settled /\ Stored'
      BY <1>2, <2>3, <2>4, StoreSettles DEF SameId
    <2>6. Asides' /\ Backs'
      BY <1>1, <2>3, <2>4 DEF Asides, Backs
    <2> QED
      BY <1>1, <1>2, <1>4, <2>2, <2>3, <2>5, <2>6, OnwardKeeps DEF TypeOK
  <1> QED
    BY <1>3, <1>4 DEF Open

LEMMA NewItem ==
  ASSUME IInv, Folder
  PROVE  /\ NewId \in Ids /\ made' = NewId /\ made' \in 0..MaxIds /\ made \in Nat
         /\ NewId = made + 1 /\ items[NewId] = None
  <1>1. made \in 0..MaxIds /\ made < MaxIds /\ made' = made + 1 /\ MaxIds \in Nat
    BY ConstantsAssumption DEF IInv, TypeOK, Folder, NewId
  <1> QED
    BY <1>1 DEF IInv, Stored, NewId, Ids

\* A file moves, or is copied, into a new item.
LEMMA IntoStore ==
  ASSUME IInv, op # None, op.kind = "quarantine", op.step = "move", Folder,
         NEW f \in Things \cup {None}, NEW s \in {"open", "same"}, s = "same" => op.path \in Far,
         items' = [items EXCEPT ![NewId] = [NoItem EXCEPT !.file = f]],
         op' = [op EXCEPT !.id = NewId, !.step = s],
         at' \in [Paths -> Things \cup {None}],
         late' \subseteq late \cup {NewId},
         UNCHANGED panel, UNCHANGED <<white, owed>>
  PROVE  IInv' /\ Settled
  <1>1. /\ NewId \in Ids /\ made' = NewId /\ made' \in 0..MaxIds /\ made \in Nat
        /\ NewId = made + 1 /\ items[NewId] = None
    BY NewItem
  <1> DEFINE new == [NoItem EXCEPT !.file = f]
  <1>2. new \in Item /\ new.path = None /\ new.file = f /\ new # None
    BY ItemRecords, OpFacts, NoneIsNo DEF IInv
  <1> HIDE DEF new
  <1>3. items' \in [Ids -> Item \cup {None}]
        /\ \A i \in Ids : items'[i] = IF i = NewId THEN new ELSE items[i]
    BY <1>1, <1>2 DEF IInv, TypeOK, new
  <1>4. \A i \in Ids : i \in Nat
    BY DEF Ids
  <1>5. Stored'
    <2>1. ASSUME NEW i \in Ids, items'[i] # None
          PROVE  i <= made' /\ (items'[i].path # None => items'[i].job \in Jobs)
      <3>1. CASE i = NewId
        <4>1. items'[i] = new
          BY <1>3, <3>1
        <4>2. i <= made'
          BY <1>1, <1>4, <3>1
        <4> QED
          BY <1>2, <4>1, <4>2
      <3>2. CASE i # NewId
        BY <1>1, <1>3, <1>4, <2>1, <3>2 DEF IInv, Stored, Listed
      <3> QED
        BY <3>1, <3>2
    <2> QED
      BY <2>1 DEF Stored, Listed
  <1>6. /\ op' \in Op /\ op' # None /\ op'.step = s /\ op'.id = NewId
        /\ op'.path = op.path /\ op'.kind = op.kind /\ op'.by = op.by /\ op'.job = op.job
    <2>1. op \in Op
      BY OpFacts DEF IInv
    <2>2. op' \in Op
      BY <1>1, <2>1 DEF Op
    <2> QED
      BY <2>1, <2>2, NoneIsNo DEF Op
  <1>7. \A i \in Ids : i <= made => i # NewId /\ i <= made'
    BY <1>1, <1>4
  <1>8. Settled
    <2>1. \A i \in Ids : Given(i) => Given(i)'
      BY <1>6, <1>7 DEF Given
    <2> QED
      BY <1>3, <1>7, <2>1 DEF Settled, Given, Listed
  <1>9. op.job \in Jobs
    BY DEF IInv, Asides
  <1>10. Asides' /\ Backs'
    <2>1. Bare(op.id)'
      BY <1>1, <1>2, <1>3, <1>6 DEF Bare
    <2> QED
      BY <1>6, <1>9, <2>1 DEF Asides, Backs
  <1>11. late' \subseteq Ids
    BY <1>1 DEF IInv, TypeOK
  <1> QED
    BY <1>1, <1>3, <1>5, <1>6, <1>8, <1>10, <1>11, OnwardKeeps DEF IInv, TypeOK

LEMMA MoveKeeps == IInv /\ (Move \/ Copy) => IInv' /\ Settled
  <1> SUFFICES ASSUME IInv, Move \/ Copy PROVE IInv' /\ Settled
    OBVIOUS
  <1>1. op # None /\ op.kind = "quarantine" /\ op.step = "move" /\ UNCHANGED <<white, owed>>
    BY DEF Move, Copy, At
  <1>2. CASE NoFolder /\ UNCHANGED <<at, late>>
    BY <1>1, <1>2, JustAnswer DEF NoFolder, States, IInv, TypeOK
  <1>3. CASE /\ op.path \notin Far /\ Folder
             /\ items' = [items EXCEPT ![NewId] = [NoItem EXCEPT !.file = at[op.path]]]
             /\ at' = [at EXCEPT ![op.path] = None]
             /\ op' = [op EXCEPT !.id = NewId, !.step = "open"]
             /\ late' \subseteq late \cup {NewId} /\ UNCHANGED panel
    <2>1. at' \in [Paths -> Things \cup {None}] /\ at[op.path] \in Things \cup {None}
      BY <1>1, <1>3, OpFacts DEF IInv, TypeOK
    <2> QED
      BY <1>1, <1>3, <2>1, IntoStore
  <1>4. CASE /\ op.path \in Far /\ Folder
             /\ items' = [items EXCEPT ![NewId] = [NoItem EXCEPT !.file = Content]]
             /\ at' = at /\ op' = [op EXCEPT !.id = NewId, !.step = "same"]
             /\ late' \subseteq late \cup {NewId} /\ UNCHANGED panel
    <2>1. Content \in Things \cup {None}
      BY <1>1, OpFacts DEF Content, IInv, TypeOK
    <2> QED
      BY <1>1, <1>4, <2>1, IntoStore DEF IInv, TypeOK
  <1> QED
    BY <1>2, <1>3, <1>4 DEF Move, Copy

\* The quarantine goes on with its item.
LEMMA AsideOnward ==
  ASSUME IInv, op # None, op.kind = "quarantine", Bare(op.id), op' \in Op, op'.by = op.by,
         op'.kind = op.kind, op'.path = op.path, op'.job = op.job, op'.id = op.id,
         op'.step \in {"same", "unlink", "open", "record"},
         op'.step \in {"same", "unlink"} => op.path \in Far,
         UNCHANGED <<items, made, white, owed>>, UNCHANGED panel, late' \subseteq late,
         at' \in [Paths -> Things \cup {None}]
  PROVE  IInv' /\ Settled
  <1>1. op' # None /\ op.job \in Jobs
    BY NoneIsNo DEF IInv, Asides
  <1>2. Settled /\ Stored'
    BY StoreSettles DEF SameId
  <1>3. Asides' /\ Backs'
    BY <1>1 DEF Asides, Backs, Bare
  <1> QED
    BY <1>1, <1>2, <1>3, OnwardKeeps DEF IInv, TypeOK

LEMMA SameKeeps == IInv /\ (Same \/ Unlink) => IInv' /\ Settled
  <1> SUFFICES ASSUME IInv, Same \/ Unlink PROVE IInv' /\ Settled
    OBVIOUS
  <1>1. /\ op # None /\ op.kind = "quarantine" /\ op.step \in {"same", "unlink"}
        /\ UNCHANGED <<made, white, owed, late>>
    BY DEF Same, Unlink, At, tales
  <1>2. Bare(op.id) /\ op.id \in Ids /\ op.path \in Far
    BY <1>1 DEF IInv, Asides, Bare
  <1>3. CASE GiveUp /\ UNCHANGED at
    BY <1>1, <1>2, <1>3, GiveUpKeeps DEF IInv, TypeOK
  <1>4. CASE /\ \E s \in {"unlink", "open"} : Goto(s)
             /\ UNCHANGED <<items, panel>> /\ at' \in [Paths -> Things \cup {None}]
    <2>1. PICK s \in {"unlink", "open"} : Goto(s)
      BY <1>4
    <2>2. s \in OpSteps
      BY DEF OpSteps
    <2>3. /\ op' \in Op /\ op'.step = s /\ op'.id = op.id /\ op'.path = op.path
          /\ op'.kind = op.kind /\ op'.by = op.by /\ op'.job = op.job
      BY <1>1, <2>1, <2>2, GotoFacts DEF IInv
    <2> QED
      BY <1>1, <1>2, <1>4, <2>3, AsideOnward
  <1> QED
    BY <1>3, <1>4 DEF Same, Unlink, IInv, TypeOK

LEMMA OpenMovedKeeps == IInv /\ OpenMoved => IInv' /\ Settled
  <1> SUFFICES ASSUME IInv, OpenMoved PROVE IInv' /\ Settled
    OBVIOUS
  <1>1. /\ op # None /\ op.kind = "quarantine" /\ op.step = "open" /\ UNCHANGED <<at, made, white>>
    BY DEF OpenMoved, At
  <1>2. Bare(op.id) /\ op.id \in Ids /\ items[op.id] \in Item
    BY <1>1 DEF IInv, TypeOK, Asides, Bare
  <1>3. CASE GiveUp /\ late' = late /\ owed' \subseteq owed
    BY <1>1, <1>2, <1>3, GiveUpKeeps DEF IInv, TypeOK
  <1>4. CASE Answer("failed", None) /\ UNCHANGED <<items, tales>>
    BY <1>1, <1>4, JustAnswer DEF IInv, TypeOK, States, tales
  <1>5. CASE /\ op' = [op EXCEPT !.step = "record", !.file = IF SameFile THEN @ ELSE items[op.id].file]
             /\ UNCHANGED <<items, panel, owed>> /\ late' \subseteq late
    <2>1. op \in Op /\ items[op.id].file \in Things \cup {None}
      BY <1>1, <1>2, OpFacts DEF Item, IInv
    <2>2. op' \in Op
      BY <1>5, <2>1 DEF Op
    <2>3. /\ op'.step = "record" /\ op'.id = op.id /\ op'.path = op.path
          /\ op'.kind = op.kind /\ op'.by = op.by /\ op'.job = op.job
      BY <1>5, <2>1 DEF Op
    <2> QED
      BY <1>1, <1>2, <1>5, <2>2, <2>3, AsideOnward DEF IInv, TypeOK
  <1> QED
    BY <1>3, <1>4, <1>5 DEF OpenMoved

LEMMA RecordKeeps == IInv /\ Record => IInv' /\ Settled
  <1> SUFFICES ASSUME IInv, Record PROVE IInv' /\ Settled
    OBVIOUS
  <1>1. /\ op # None /\ op.kind = "quarantine" /\ op.step = "record"
        /\ UNCHANGED <<at, made, white, owed, late>>
    BY DEF Record, At, tales
  <1>2. CASE Answer("failed", None) /\ UNCHANGED items
    BY <1>1, <1>2, JustAnswer DEF IInv, TypeOK, States
  <1>3. CASE /\ items' = [items EXCEPT ![op.id] = [@ EXCEPT !.sum = op.file, !.path = op.path,
                                                            !.job = op.job]]
             /\ Answer("quarantined", op.id)
    <2>1. Bare(op.id) /\ op.id \in Ids /\ items[op.id] \in Item /\ op.job \in Jobs
      BY <1>1 DEF IInv, TypeOK, Asides, Bare
    <2>2. op.file \in Things \cup {None} /\ op.path \in Paths
      BY <1>1, OpFacts DEF IInv
    <2> DEFINE it == [items[op.id] EXCEPT !.sum = op.file, !.path = op.path, !.job = op.job]
    <2>3. it \in Item /\ it.job = op.job
      BY <2>1, <2>2, ItemRecords DEF Item
    <2> HIDE DEF it
    <2>4. items' = [items EXCEPT ![op.id] = it]
      BY <1>3 DEF it
    <2>5. op' = None
      BY <1>1, <1>3, <2>1, AnswerFacts DEF States
    <2>6. PICK i : i = op.id
      OBVIOUS
    <2>7. /\ items' \in [Ids -> Item \cup {None}]
          /\ \A k \in Ids \ {i} : items'[k] = items[k]
          /\ items[i] # None /\ items'[i] = it
      BY <2>1, <2>3, <2>4, <2>6 DEF IInv, TypeOK, Bare
    <2>8. Settled /\ Stored'
      BY <1>1, <2>1, <2>3, <2>5, <2>6, <2>7, ItemsSettle DEF SameId
    <2> QED
      BY <1>1, <1>3, <2>1, <2>7, <2>8, AnswerKeeps DEF IInv, TypeOK, States
  <1> QED
    BY <1>2, <1>3 DEF Record

LEMMA BackFacts ==
  ASSUME IInv, op # None, op.kind \in {"restore", "delete"}
  PROVE  /\ op.id \in Ids /\ op.by \notin Jobs /\ op.path \in Paths /\ at[op.path] \in Things \cup {None}
         /\ op.step # "start" =>
              /\ Listed(op.id) /\ items[op.id] \in Item /\ items[op.id].job \in Jobs
              /\ items[op.id].file \in Things \cup {None} /\ items[op.id].path = op.path
  BY OpFacts DEF IInv, TypeOK, Backs, Callers, Listed, Stored, Item

\* Another file, or none, in item i.
LEMMA FileChange ==
  ASSUME IInv, NEW i \in Ids, items[i] # None, NEW f \in Things \cup {None},
         items' = [items EXCEPT ![i].file = f]
  PROVE  /\ items' \in [Ids -> Item \cup {None}]
         /\ \A k \in Ids \ {i} : items'[k] = items[k]
         /\ items'[i] \in Item /\ items'[i] # None /\ items'[i].file = f
         /\ items'[i].path = items[i].path /\ items'[i].job = items[i].job
         /\ items'[i].sum = items[i].sum
  <1>1. items \in [Ids -> Item \cup {None}] /\ items[i] \in Item
    BY DEF IInv, TypeOK
  <1> DEFINE it == [items[i] EXCEPT !.file = f]
  <1>2. /\ it \in Item /\ it.file = f /\ it.path = items[i].path /\ it.job = items[i].job
        /\ it.sum = items[i].sum
    BY <1>1 DEF Item
  <1>3. items' = [items EXCEPT ![i] = it]
    BY <1>1
  <1> HIDE DEF it
  <1> QED
    BY <1>1, <1>2, <1>3, NoneIsNo

\* A file goes in or out, and the records stay.
LEMMA FileSettles ==
  ASSUME IInv, SameId, NEW i \in Ids, items[i] # None, NEW f \in Things \cup {None},
         items' = [items EXCEPT ![i].file = f], made' = made
  PROVE  Settled /\ Stored'
  <1>1. /\ \A k \in Ids \ {i} : items'[k] = items[k]
        /\ items'[i] # None /\ items'[i].path = items[i].path /\ items'[i].job = items[i].job
    BY FileChange
  <1>2. Listed(i)' => Listed(i) /\ items[i].job \in Jobs
    BY <1>1 DEF Listed, IInv, Stored
  <1> QED
    BY <1>1, <1>2, ItemsSettle

\* A restore or a deletion goes on, its item being on record.
LEMMA BackOnward ==
  ASSUME IInv, op # None, op.kind \in {"restore", "delete"}, Listed(op.id),
         NEW s \in {"put", "clear", "own", "forget"}, Goto(s), s = "clear" => op.path \in Far,
         \/ UNCHANGED items
         \/ \E f \in Things \cup {None} : items' = [items EXCEPT ![op.id].file = f],
         at' \in [Paths -> Things \cup {None}], owed' \subseteq Files,
         UNCHANGED <<made, white, late>>, UNCHANGED panel
  PROVE  IInv' /\ Settled
  <1>1. s \in OpSteps /\ op.id \in Ids
    BY BackFacts DEF OpSteps
  <1>2. /\ op' \in Op /\ op' # None /\ op'.step = s /\ op'.id = op.id /\ op'.path = op.path
        /\ op'.kind = op.kind /\ op'.by = op.by /\ op'.job = op.job
    BY <1>1, GotoFacts DEF IInv
  <1>3. SameId
    BY <1>2 DEF SameId
  <1>4. PICK i : i = op.id
    OBVIOUS
  <1>5. /\ Settled /\ Stored' /\ items' \in [Ids -> Item \cup {None}]
        /\ Listed(i)' /\ items'[i].path = items[i].path
    <2>1. CASE UNCHANGED items
      BY <1>3, <1>4, <2>1, StoreSettles DEF IInv, TypeOK, Listed
    <2>2. CASE \E f \in Things \cup {None} : items' = [items EXCEPT ![op.id].file = f]
      <3>1. PICK f \in Things \cup {None} : items' = [items EXCEPT ![op.id].file = f]
        BY <2>2
      <3>2. items' = [items EXCEPT ![i].file = f] /\ i \in Ids /\ Listed(i) /\ items[i] # None
        BY <1>1, <1>4, <3>1 DEF Listed
      <3>3. Settled /\ Stored'
        BY <1>3, <3>2, FileSettles
      <3>4. /\ items' \in [Ids -> Item \cup {None}] /\ items'[i] # None
            /\ items'[i].path = items[i].path
        BY <3>2, FileChange
      <3> QED
        BY <3>2, <3>3, <3>4 DEF Listed
    <2> QED
      BY <2>1, <2>2
  <1>6. items[op.id].path = op.path
    BY DEF IInv, Backs
  <1>7. Asides' /\ Backs'
    BY <1>1, <1>2, <1>4, <1>5, <1>6 DEF Asides, Backs
  <1> QED
    BY <1>2, <1>5, <1>7, OnwardKeeps DEF IInv, TypeOK

LEMMA RestoreKeeps == IInv /\ Restore => IInv' /\ Settled
  <1> SUFFICES ASSUME IInv, Restore PROVE IInv' /\ Settled
    OBVIOUS
  <1>1. /\ op # None /\ op.kind = "restore"
        /\ UNCHANGED <<at, items, made, white, owed, late>>
    BY DEF Restore, At, store, tales
  <1>2. CASE Answer("failed", None)
    BY <1>1, <1>2, JustAnswer DEF IInv, TypeOK, States
  <1>3. CASE Listed(op.id) /\ Goto("put") /\ UNCHANGED panel
    BY <1>1, <1>3, BackOnward DEF IInv, TypeOK
  <1> QED
    BY <1>2, <1>3 DEF Restore

LEMMA PutBackKeeps == IInv /\ (PutBack \/ CopyBack) => IInv' /\ Settled
  <1> SUFFICES ASSUME IInv, PutBack \/ CopyBack PROVE IInv' /\ Settled
    OBVIOUS
  <1>1. /\ op # None /\ op.kind = "restore" /\ op.step = "put"
        /\ UNCHANGED <<made, white, owed, late>>
    BY DEF PutBack, CopyBack, At, store, tales
  <1>2. /\ Listed(op.id) /\ items[op.id].file \in Things \cup {None} /\ op.path \in Paths
        /\ at \in [Paths -> Things \cup {None}]
    BY <1>1, BackFacts DEF IInv, TypeOK
  <1>3. CASE Answer("failed", None) /\ UNCHANGED items /\ (at' = at \/ at' = [at EXCEPT ![op.path] = Torn])
    <2>1. Torn \in Things \cup {None}
      BY DEF Things
    <2>2. at' \in [Paths -> Things \cup {None}]
      BY <1>2, <1>3, <2>1
    <2> QED
      BY <1>1, <1>2, <1>3, <2>2, BackFacts, JustAnswer DEF IInv, TypeOK, States
  <1>4. CASE /\ \/ Goto("own") /\ items' = [items EXCEPT ![op.id].file = None]
                \/ Goto("clear") /\ UNCHANGED items /\ op.path \in Far
             /\ at' = [at EXCEPT ![op.path] = items[op.id].file] /\ UNCHANGED panel
    <2>1. at' \in [Paths -> Things \cup {None}] /\ owed' \subseteq Files /\ None \in Things \cup {None}
      BY <1>1, <1>2, <1>4 DEF IInv, TypeOK
    <2>2. CASE Goto("own") /\ items' = [items EXCEPT ![op.id].file = None]
      BY <1>1, <1>2, <1>4, <2>1, <2>2, BackOnward
    <2>3. CASE Goto("clear") /\ UNCHANGED items /\ op.path \in Far
      BY <1>1, <1>2, <1>4, <2>1, <2>3, BackOnward
    <2> QED
      BY <1>4, <2>2, <2>3
  <1> QED
    BY <1>3, <1>4 DEF PutBack, CopyBack, store

LEMMA ClearKeeps == IInv /\ Clear => IInv' /\ Settled
  <1> SUFFICES ASSUME IInv, Clear PROVE IInv' /\ Settled
    OBVIOUS
  <1>1. /\ op # None /\ op.kind = "restore" /\ op.step = "clear"
        /\ UNCHANGED <<at, made, white, owed, late>> /\ UNCHANGED panel /\ Goto("own")
        /\ items' = [items EXCEPT ![op.id].file = None] \/ UNCHANGED items
    BY DEF Clear, At, tales
  <1>2. Listed(op.id)
    BY <1>1, BackFacts
  <1> QED
    BY <1>1, <1>2, BackOnward DEF IInv, TypeOK

LEMMA OwnKeeps == IInv /\ Own => IInv' /\ Settled
  <1> SUFFICES ASSUME IInv, Own PROVE IInv' /\ Settled
    OBVIOUS
  <1>1. /\ op # None /\ op.kind = "restore" /\ op.step = "own"
        /\ UNCHANGED <<at, items, made, white, owed, late>>
    BY DEF Own, At, store, tales
  <1>2. CASE Answer("failed", None)
    BY <1>1, <1>2, JustAnswer DEF IInv, TypeOK, States
  <1>3. CASE Goto("forget") /\ UNCHANGED panel
    <2>1. Listed(op.id)
      BY <1>1, BackFacts
    <2> QED
      BY <1>1, <1>3, <2>1, BackOnward DEF IInv, TypeOK
  <1> QED
    BY <1>2, <1>3 DEF Own

LEMMA DeleteKeeps == IInv /\ Delete => IInv' /\ Settled
  <1> SUFFICES ASSUME IInv, Delete PROVE IInv' /\ Settled
    OBVIOUS
  <1>1. /\ op # None /\ op.kind = "delete" /\ UNCHANGED <<at, made, white, late>>
        /\ owed' \subseteq Files
    BY DEF Delete, At, IInv, TypeOK
  <1>2. CASE Answer("failed", None) /\ UNCHANGED items
    BY <1>1, <1>2, JustAnswer DEF IInv, TypeOK, States
  <1>3. CASE Listed(op.id) /\ items' = [items EXCEPT ![op.id].file = None] /\ Goto("forget") /\ UNCHANGED panel
    <2>1. None \in Things \cup {None}
      OBVIOUS
    <2> QED
      BY <1>1, <1>3, <2>1, BackOnward DEF IInv, TypeOK
  <1> QED
    BY <1>2, <1>3 DEF Delete

LEMMA UnrecordedFacts ==
  ASSUME NEW it \in Item
  PROVE  /\ Unrecorded(it) \in Item \cup {None}
         /\ Unrecorded(it) # None => Unrecorded(it).path = None /\ Unrecorded(it).file = it.file
         /\ it.file # None => Unrecorded(it) # None
  <1>1. it.file \in Things \cup {None}
    BY DEF Item
  <1>2. [NoItem EXCEPT !.file = it.file] \in Item /\ [NoItem EXCEPT !.file = it.file].path = None
        /\ [NoItem EXCEPT !.file = it.file].file = it.file
    BY <1>1 DEF Item, NoItem
  <1> QED
    BY <1>2, NoneIsNo DEF Unrecorded

\* What Forget makes of the store.
LEMMA Forgotten ==
  ASSUME IInv, Forget
  PROVE  /\ op # None /\ op.kind \in {"restore", "delete"} /\ op.step = "forget" /\ op.id \in Ids
         /\ UNCHANGED <<at, made, white, owed, late>>
         /\ \A k \in Ids \ {op.id} : items'[k] = items[k]
         /\ items' \in [Ids -> Item \cup {None}]
         /\ \/ UNCHANGED items
            \/ /\ items'[op.id] # None =>
                    items'[op.id].path = None /\ items'[op.id].file = items[op.id].file
               /\ items[op.id].file # None => items'[op.id] # None
         /\ \E s \in {"restored", "deleted", "failed"} :
              /\ Answer(s, None)
              /\ s = "failed" => UNCHANGED items
              /\ op.kind = "restore" => s = "restored"
              /\ op.kind = "delete" => s \in {"deleted", "failed"}
  <1>1. /\ op # None /\ op.kind \in {"restore", "delete"} /\ op.step = "forget"
        /\ UNCHANGED <<at, made, white, owed, late>>
    BY DEF Forget, At, tales
  <1>2. op.id \in Ids /\ Listed(op.id) /\ items[op.id] \in Item
    BY <1>1, BackFacts
  <1>3. items \in [Ids -> Item \cup {None}]
    BY DEF IInv, TypeOK
  <1>4. PICK it : it = Unrecorded(items[op.id])
    OBVIOUS
  <1>5. CASE UNCHANGED items /\ Answer(IF op.kind = "restore" THEN "restored" ELSE "failed", None)
    BY <1>1, <1>2, <1>3, <1>5
  <1>6. CASE /\ items' = [items EXCEPT ![op.id] = Unrecorded(@)]
             /\ Answer(IF op.kind = "restore" THEN "restored" ELSE "deleted", None)
    <2>1. items' = [items EXCEPT ![op.id] = it]
      BY <1>3, <1>4, <1>6
    <2>2. /\ it \in Item \cup {None} /\ (it # None => it.path = None /\ it.file = items[op.id].file)
          /\ items[op.id].file # None => it # None
      BY <1>2, <1>4, UnrecordedFacts
    <2> QED
      BY <1>1, <1>2, <1>3, <1>6, <2>1, <2>2
  <1> QED
    BY <1>5, <1>6 DEF Forget

LEMMA ForgetKeeps == IInv /\ Forget => IInv' /\ Settled
  <1> SUFFICES ASSUME IInv, Forget PROVE IInv' /\ Settled
    OBVIOUS
  <1>1. /\ op # None /\ op.id \in Ids /\ op.kind \in {"restore", "delete"} /\ op.step = "forget"
        /\ UNCHANGED <<at, made, white, owed, late>>
        /\ \A k \in Ids \ {op.id} : items'[k] = items[k]
        /\ items' \in [Ids -> Item \cup {None}]
        /\ UNCHANGED items \/ (items'[op.id] # None => items'[op.id].path = None)
    BY Forgotten
  <1>2. PICK s \in {"restored", "deleted", "failed"} : Answer(s, None)
    BY Forgotten
  <1>3. op.by \notin Jobs /\ Listed(op.id)
    BY <1>1, BackFacts
  <1>4. op' = None /\ s \in States
    BY <1>1, <1>2, <1>3, AnswerFacts DEF States
  <1>5. PICK i : i = op.id
    OBVIOUS
  <1>6. /\ \A k \in Ids \ {i} : items'[k] = items[k]
        /\ i \in Ids /\ items[i] # None
        /\ Listed(i)' => items'[i] = items[i] /\ Listed(i) /\ items[i].job \in Jobs
    BY <1>1, <1>3, <1>5 DEF Listed, IInv, Stored
  <1>7. Settled /\ Stored'
    BY <1>1, <1>4, <1>6, ItemsSettle DEF SameId
  <1> QED
    BY <1>1, <1>2, <1>3, <1>4, <1>7, AnswerKeeps DEF IInv, TypeOK

LEMMA WhiteKeeps == IInv /\ (WhiteAdd \/ WhiteDrop) => IInv' /\ Settled
  <1> SUFFICES ASSUME IInv, WhiteAdd \/ WhiteDrop PROVE IInv' /\ Settled
    OBVIOUS
  <1>1. /\ op # None /\ op.kind \in {"add", "drop"} /\ UNCHANGED <<at, items, made, owed, late>>
    BY DEF WhiteAdd, WhiteDrop, At, tales
  <1>2. op.by \notin Jobs /\ op.path \in Paths /\ at[op.path] \in Things \cup {None}
    BY <1>1, OpFacts DEF IInv, Callers
  <1>3. white' \subseteq Paths \X Things
    BY <1>2 DEF WhiteAdd, WhiteDrop, IInv, TypeOK
  <1>4. PICK s \in {"whitelisted", "failed", "deleted"} : Answer(s, None)
    BY DEF WhiteAdd, WhiteDrop
  <1>5. s \in States
    BY DEF States
  <1> QED
    BY <1>1, <1>2, <1>3, <1>4, <1>5, JustAnswer DEF IInv, TypeOK

-----------------------------------------------------------------------------
(* The customers.                                                           *)

\* Where the file lies that the helper has opened is all that customers change of what it is at.
LEMMA LiesElsewhere ==
  ASSUME TypeOK, op # None, NEW x \in Paths \cup {None}, op' = [op EXCEPT !.lies = x]
  PROVE  /\ op' \in Op /\ op' # None /\ op'.lies = x /\ op'.step = op.step /\ op'.id = op.id
         /\ op'.file = op.file /\ op'.path = op.path /\ op'.kind = op.kind /\ op'.by = op.by
         /\ op'.job = op.job
  <1>1. op \in Op
    BY OpFacts
  <1>2. op' \in Op
    BY <1>1 DEF Op
  <1> QED
    BY <1>1, <1>2, NoneIsNo DEF Op

LEMMA OutsideKeeps ==
  ASSUME IInv, UNCHANGED <<store, late>>, UNCHANGED panel,
         at' \in [Paths -> Things \cup {None}], owed' \subseteq Files,
         op' = op \/ (op # None /\ \E x \in Paths \cup {None} : op' = [op EXCEPT !.lies = x])
  PROVE  IInv' /\ Settled
  <1>1. /\ op' \in Op \cup {None} /\ (op' = None <=> op = None)
        /\ op # None =>
             /\ op'.step = op.step /\ op'.id = op.id /\ op'.path = op.path /\ op'.kind = op.kind
             /\ op'.by = op.by /\ op'.job = op.job
    BY LiesElsewhere DEF IInv, TypeOK
  <1>2. UNCHANGED <<items, made, white, threats, worker, adm, asks, falls, untold>>
    BY DEF store, panel
  <1>3. TypeOK'
    BY <1>1, <1>2 DEF IInv, TypeOK
  <1>4. Settled /\ Stored'
    BY <1>1, <1>2, StoreSettles DEF SameId
  <1>5. Asides' /\ Backs'
    BY <1>1, <1>2 DEF IInv, Asides, Backs, Bare, Listed
  <1>6. Callers'
    BY <1>1, <1>2 DEF IInv, Callers
  <1>7. Asked'
    <2>1. adm' = adm /\ (adm # None /\ adm.step = "told" => adm.out \in Threat)
      BY <1>2 DEF IInv, Asked
    <2> QED
      BY <1>4, <2>1, AskedStays
  <1> QED
    BY <1>3, <1>4, <1>5, <1>6, <1>7 DEF IInv

LEMMA CustomerKeeps == IInv /\ Customer => IInv' /\ Settled
  <1> SUFFICES ASSUME IInv, Customer PROVE IInv' /\ Settled
    OBVIOUS
  <1>1. /\ at \in [Paths -> Things \cup {None}] /\ owed \subseteq Files
        /\ Files \subseteq Things /\ Links \subseteq Things
    BY DEF IInv, TypeOK, Things
  <1>2. ASSUME NEW p \in Paths, Remove(p) \/ \E f \in Files \cup Links : Put(p, f) PROVE IInv' /\ Settled
    <2>1. UNCHANGED <<store, late>> /\ UNCHANGED panel
      BY <1>2 DEF Remove, Put, store, panel
    <2>2. at' \in [Paths -> Things \cup {None}] /\ owed' \subseteq Files
      BY <1>1, <1>2 DEF Remove, Put
    <2>3. op' = op \/ (op # None /\ op' = [op EXCEPT !.lies = None])
      BY <1>2 DEF Remove, Put, Held
    <2> QED
      BY <2>1, <2>2, <2>3, OutsideKeeps
  <1>3. ASSUME NEW p \in Paths, NEW q \in Paths, Rename(p, q) PROVE IInv' /\ Settled
    <2>1. UNCHANGED <<store, late>> /\ UNCHANGED panel
      BY <1>3 DEF Rename, store, panel
    <2>2. at' \in [Paths -> Things \cup {None}] /\ owed' \subseteq Files
      BY <1>1, <1>3 DEF Rename
    <2>3. op' = op \/ (op # None /\ \E x \in {None, q} : op' = [op EXCEPT !.lies = x])
      BY <1>3 DEF Rename, Held
    <2> QED
      BY <2>1, <2>2, <2>3, OutsideKeeps
  <1>4. ASSUME NEW p \in Paths, NEW f \in Files, Write(p, f) PROVE IInv' /\ Settled
    <2>1. UNCHANGED <<store, late>> /\ UNCHANGED panel /\ op' = op
      BY <1>4 DEF Write, store, panel
    <2>2. at' \in [Paths -> Things \cup {None}] /\ owed' \subseteq Files
      BY <1>1, <1>4 DEF Write
    <2> QED
      BY <2>1, <2>2, OutsideKeeps
  <1>5. ASSUME NEW i \in Ids, NEW f \in Files, WriteAside(i, f) PROVE IInv' /\ Settled
    <2>1. /\ items[i] # None /\ items' = [items EXCEPT ![i].file = f] /\ f \in Things \cup {None}
          /\ UNCHANGED <<at, made, white, op>> /\ UNCHANGED panel
      BY <1>1, <1>5 DEF WriteAside, Theirs
    <2>2. owed' \subseteq Files /\ late' \subseteq Ids
      BY <1>1, <1>5 DEF WriteAside, IInv, TypeOK
    <2>3. UNCHANGED <<threats, worker, adm, asks, falls, untold>>
      BY <2>1 DEF panel
    <2>4. SameId
      BY <2>1 DEF SameId
    <2>5. Settled /\ Stored'
      BY <2>1, <2>4, FileSettles
    <2>6. /\ items' \in [Ids -> Item \cup {None}] /\ \A k \in Ids \ {i} : items'[k] = items[k]
          /\ items'[i] # None /\ items'[i].path = items[i].path
      BY <2>1, FileChange
    <2>7. TypeOK'
      BY <2>1, <2>2, <2>3, <2>6 DEF IInv, TypeOK
    <2>8. \A k \in Ids : (Listed(k)' <=> Listed(k)) /\ (Bare(k) => Bare(k)')
                         /\ (Listed(k) => items'[k].path = items[k].path)
      BY <2>1, <2>6 DEF Listed, Bare
    <2>9. Asides' /\ Backs'
      <3>1. op # None => op.id \in Ids \cup {None}
        BY OpFacts DEF IInv
      <3>2. Asides'
        BY <2>1, <2>8 DEF IInv, Asides, Bare
      <3>3. Backs'
        BY <2>1, <2>8 DEF IInv, Backs
      <3> QED
        BY <3>2, <3>3
    <2>10. Callers'
      BY <2>1, <2>3 DEF IInv, Callers
    <2>11. Asked'
      <3>1. adm' = adm /\ (adm # None /\ adm.step = "told" => adm.out \in Threat)
        BY <2>3 DEF IInv, Asked
      <3> QED
        BY <2>5, <3>1, AskedStays
    <2> QED
      BY <2>5, <2>7, <2>9, <2>10, <2>11 DEF IInv
  <1> QED
    BY <1>2, <1>3, <1>4, <1>5 DEF Customer

-----------------------------------------------------------------------------
(* The scans, the administrators and the stops.                             *)

LEMMA AppliedIsThreat ==
  ASSUME NEW t \in Threat, NEW out \in Threat
  PROVE  /\ Applied(t, out) \in Threat /\ Applied(t, out).state = out.state
         /\ out.state \notin {"restored", "deleted"} => Applied(t, out).id = out.id
  BY DEF Applied, Threat

\* The store and the helper's operation stay as they are.
LEMMA AtRest ==
  ASSUME IInv, UNCHANGED <<at, store, op, tales>>, TypeOK', Callers', Asked'
  PROVE  IInv' /\ Settled
  <1>1. Settled /\ Stored'
    BY StoreSettles DEF SameId, store
  <1> QED
    BY <1>1 DEF IInv, Listed, Asides, Backs, Bare, store

LEMMA ScanKeeps == ASSUME IInv, NEW j \in Jobs, Scan(j) PROVE IInv' /\ Settled
  <1>1. PICK found \in SUBSET Paths :
          /\ threats' = [threats EXCEPT ![j] =
               [p \in Paths |-> IF p \in found THEN [state |-> "found", id |-> None] ELSE None]]
          /\ worker' = [worker EXCEPT ![j].step = "isolate", ![j].todo = found]
    BY ConstantsAssumption DEF Scan
  <1>2. UNCHANGED <<at, store, op, adm, asks, falls, tales, untold>> /\ worker[j].step = "scan"
    BY DEF Scan
  <1>3. worker \in [Jobs -> Worker]
    BY DEF IInv, TypeOK
  <1> DEFINE w == [worker[j] EXCEPT !.step = "isolate", !.todo = found]
  <1>4. w \in Worker /\ w.got = worker[j].got
    BY <1>3 DEF Worker
  <1>5. worker' = [worker EXCEPT ![j] = w]
    BY <1>1, <1>3
  <1> HIDE DEF w
  <1>6. worker' \in [Jobs -> Worker] /\ \A k \in Jobs : worker'[k].got = worker[k].got
    BY <1>3, <1>4, <1>5
  <1>7. [state |-> "found", id |-> None] \in Threat
    BY DEF Threat, States
  <1>8. threats' \in [Jobs -> [Paths -> Threat \cup {None}]]
    BY <1>1, <1>7 DEF IInv, TypeOK
  <1>9. \A k \in Jobs : worker[k].step = "isolate" => worker'[k] = worker[k]
    BY <1>2, <1>3, <1>5
  <1>10. TypeOK'
    BY <1>2, <1>6, <1>8 DEF IInv, TypeOK, store, tales
  <1>11. Callers'
    BY <1>2, <1>6, <1>9 DEF IInv, Callers
  <1>12. Asked'
    BY <1>2 DEF IInv, Asked, Given, Listed, store
  <1> QED
    BY <1>2, <1>10, <1>11, <1>12, AtRest

LEMMA CallFacts ==
  ASSUME NEW by \in Jobs \cup {"admin"}, NEW path \in Paths, NEW id \in Ids \cup {None},
         NEW kind \in OpKinds, NEW job \in Jobs \cup {None}, Call(by, kind, path, id, job)
  PROVE  /\ op = None /\ op' \in Op /\ op' # None /\ op'.by = by /\ op'.kind = kind
         /\ op'.path = path /\ op'.id = id /\ op'.job = job /\ op'.step = "start"
  <1>1. op' \in Op
    BY DEF Call, Op, OpKinds
  <1> QED
    BY <1>1, NoneIsNo DEF Call

\* The helper starts on what it is asked for.
LEMMA CallKeeps ==
  ASSUME IInv, op = None, op' \in Op, op' # None, op'.step = "start",
         UNCHANGED <<at, items, made, white, owed, late>>, TypeOK', Callers',
         op'.kind = "quarantine" => op'.id = None /\ op'.job \in Jobs,
         op'.kind \in {"restore", "delete"} =>
           op'.id \in Ids /\ (Listed(op'.id) => items[op'.id].path = op'.path),
         \/ adm' = adm
         \/ /\ adm # None /\ adm'.kind = adm.kind /\ adm'.id = adm.id /\ adm'.job = adm.job
            /\ adm'.path = adm.path /\ adm'.step # "told"
  PROVE  IInv' /\ Settled
  <1>1. Settled /\ Stored'
    BY StoreSettles DEF SameId
  <1>2. Asides' /\ Backs'
    BY DEF Asides, Backs, Listed
  <1>3. Asked'
    BY <1>1, AskedStays DEF IInv, Asked
  <1> QED
    BY <1>1, <1>2, <1>3 DEF IInv

LEMMA IsolateKeeps == ASSUME IInv, NEW j \in Jobs, Isolate(j) PROVE IInv' /\ Settled
  <1>1. UNCHANGED <<at, store, panel, tales>> /\ worker[j].step = "isolate"
    BY DEF Isolate
  <1>2. PICK p \in worker[j].todo : Call(j, "quarantine", p, None, j)
    BY DEF Isolate
  <1>3. p \in Paths
    BY DEF IInv, TypeOK, Worker
  <1>4. /\ op = None /\ op' \in Op /\ op' # None /\ op'.by = j /\ op'.kind = "quarantine"
        /\ op'.job = j /\ op'.step = "start" /\ op'.path = p /\ op'.id = None
    BY <1>2, <1>3, CallFacts DEF OpKinds
  <1>5. TypeOK'
    BY <1>1, <1>4 DEF IInv, TypeOK, store, panel, tales
  <1>6. Callers'
    BY <1>1, <1>2, <1>4, NoneIsNo DEF IInv, Callers, panel
  <1> QED
    BY <1>1, <1>4, <1>5, <1>6, CallKeeps DEF store, panel, tales

LEMMA AmendKeeps == ASSUME IInv, NEW j \in Jobs, Amend(j) PROVE IInv' /\ Settled
  <1>1. UNCHANGED <<at, store, op, adm, asks, falls, tales, untold>>
    BY DEF Amend
  <1>2. /\ threats \in [Jobs -> [Paths -> Threat \cup {None}]] /\ worker \in [Jobs -> Worker]
        /\ worker[j].got \in [Paths -> Threat \cup {None}]
    BY DEF IInv, TypeOK, Worker
  <1> DEFINE new == [p \in Paths |-> IF worker[j].got[p] = None THEN threats[j][p]
                                     ELSE Applied(threats[j][p], worker[j].got[p])]
  <1>3. ASSUME NEW p \in Paths, worker[j].got[p] # None
        PROVE  Applied(threats[j][p], worker[j].got[p]) \in Threat
    <2>1. worker[j].got[p] \in Threat /\ worker[j].got[p].state \notin {"restored", "deleted"}
      BY <1>2, <1>3 DEF IInv, Callers
    <2> QED
      BY <2>1 DEF Applied, Threat
  <1>4. new \in [Paths -> Threat \cup {None}]
    BY <1>2, <1>3
  <1>5. threats' = [threats EXCEPT ![j] = new]
    BY <1>2 DEF Amend
  <1> HIDE DEF new
  <1>6. threats' \in [Jobs -> [Paths -> Threat \cup {None}]]
    BY <1>2, <1>4, <1>5
  <1>7. /\ Over \in Worker /\ Over.step = "over" /\ \A p \in Paths : Over.got[p] = None
        /\ worker' = [worker EXCEPT ![j] = Over]
    BY DEF Over, Worker, Amend
  <1>8. TypeOK'
    BY <1>1, <1>2, <1>6, <1>7 DEF IInv, TypeOK, store, tales
  <1>9. op # None => op.by # j
    BY DEF Amend, IInv, Callers
  <1>10. \A k \in Jobs \ {j} : worker'[k] = worker[k]
    BY <1>2, <1>7
  <1>11. worker'[j] = Over
    BY <1>2, <1>7
  <1>12. Callers'
    BY <1>1, <1>7, <1>9, <1>10, <1>11 DEF IInv, Callers
  <1>13. Asked'
    BY <1>1 DEF IInv, Asked, Given, Listed, store
  <1> QED
    BY <1>1, <1>8, <1>12, <1>13, AtRest

LEMMA RequestKeeps ==
  ASSUME IInv, NEW kind \in Kinds, kind # "judge", NEW path \in Paths, NEW job \in Jobs \cup {None},
         NEW id \in Ids \cup {None}, Request(kind, path, job, id),
         kind \in {"restore", "fine", "delete"} <=> id \in Ids,
         kind # "unwhitelist" => job \in Jobs,
         id \in Ids => Given(id) /\ (Listed(id) => items[id].path = path)
  PROVE  IInv' /\ Settled
  <1>1. /\ adm = None /\ (asks' = asks \/ (asks < MaxAsks /\ asks' = asks + 1))
        /\ UNCHANGED <<at, store, op, threats, worker, falls, tales, untold>>
        /\ adm' = [kind |-> kind, path |-> path, job |-> job, id |-> id, step |-> "ask",
                    out |-> None]
    BY DEF Request
  <1>2. adm' \in Ask /\ adm' # None
    BY <1>1, NoneIsNo DEF Ask
  <1>3. asks' \in 0..MaxAsks
    BY <1>1, ConstantsAssumption DEF IInv, TypeOK
  <1>4. TypeOK'
    BY <1>1, <1>2, <1>3 DEF IInv, TypeOK, store, tales
  <1>5. Callers'
    BY <1>1, <1>2 DEF IInv, Callers
  <1>6. Asked'
    <2>1. adm'.kind = kind /\ adm'.id = id /\ adm'.job = job /\ adm'.path = path /\ adm'.step = "ask"
      BY <1>1
    <2>2. \A i \in Ids : (Given(i) => Given(i)') /\ (Listed(i)' <=> Listed(i)) /\ items'[i] = items[i]
      BY <1>1 DEF Given, Listed, store
    <2> QED
      BY <2>1, <2>2 DEF Asked
  <1> QED
    BY <1>1, <1>4, <1>5, <1>6, AtRest

LEMMA AsksKeep == IInv /\ (AskItem \/ AskThreat \/ AskUnwhite) => IInv' /\ Settled
  <1> SUFFICES ASSUME IInv, AskItem \/ AskThreat \/ AskUnwhite PROVE IInv' /\ Settled
    OBVIOUS
  <1>1. CASE AskItem
    <2>1. PICK i \in Ids, kind \in {"restore", "fine", "delete"} :
            Listed(i) /\ Request(kind, items[i].path, items[i].job, i)
      BY <1>1 DEF AskItem
    <2>2. items[i].path \in Paths /\ items[i].job \in Jobs
      BY <2>1 DEF IInv, TypeOK, Stored, Listed, Item
    <2>3. Given(i)
      BY <2>1, NoneIsNo DEF Given, Listed, Bare, IInv, Stored, Asides
    <2> QED
      BY <2>1, <2>2, <2>3, RequestKeeps DEF Kinds
  <1>2. CASE AskThreat
    BY <1>2, NoneIsNo, RequestKeeps DEF AskThreat, Kinds
  <1>3. CASE AskUnwhite
    <2>1. PICK e \in white : Request("unwhitelist", e[1], None, None)
      BY <1>3 DEF AskUnwhite
    <2>2. e[1] \in Paths
      BY DEF IInv, TypeOK
    <2> QED
      BY <2>1, <2>2, NoneIsNo, RequestKeeps DEF Kinds
  <1> QED
    BY <1>1, <1>2, <1>3

LEMMA VerbFacts ==
  ASSUME IInv, adm # None
  PROVE  /\ Verb \in OpKinds
         /\ Verb = "restore"    <=> adm.kind \in {"restore", "fine"}
         /\ Verb = "delete"     <=> adm.kind = "delete"
         /\ Verb = "add"        <=> adm.kind \in {"judge", "whitelist"}
         /\ Verb = "drop"       <=> adm.kind = "unwhitelist"
         /\ Verb = "quarantine" <=> adm.kind = "quarantine"
  BY AskFacts DEF IInv, Verb, Kinds, OpKinds

LEMMA SendKeeps == IInv /\ Send => IInv' /\ Settled
  <1> SUFFICES ASSUME IInv, Send PROVE IInv' /\ Settled
    OBVIOUS
  <1>1. /\ adm # None /\ UNCHANGED <<at, items, made, white, threats, worker, asks, falls, owed,
                                     late, untold>>
        /\ adm' = [adm EXCEPT !.step = "wait"] /\ Call("admin", Verb, adm.path, adm.id, adm.job)
    BY DEF Send, AdmAt, store, tales
  <1>2. /\ adm \in Ask /\ adm.path \in Paths /\ adm.id \in Ids \cup {None} /\ adm.kind \in Kinds
        /\ adm.job \in Jobs \cup {None}
    BY <1>1, AskFacts DEF IInv
  <1>3. /\ adm' \in Ask /\ adm' # None /\ adm'.step = "wait" /\ adm'.kind = adm.kind
        /\ adm'.id = adm.id /\ adm'.job = adm.job /\ adm'.path = adm.path
    <2>1. adm' \in Ask
      BY <1>1, <1>2, AskRecords
    <2> QED
      BY <1>1, <1>2, <2>1, NoneIsNo DEF Ask
  <1>4. PICK v, p, i, j : v = Verb /\ p = adm.path /\ i = adm.id /\ j = adm.job
    OBVIOUS
  <1>5. /\ op = None /\ op' \in Op /\ op' # None /\ op'.by = "admin" /\ op'.kind = v
        /\ op'.path = p /\ op'.id = i /\ op'.job = j /\ op'.step = "start"
    <2>1. PICK by \in Jobs \cup {"admin"} : by = "admin"
      OBVIOUS
    <2>2. Call(by, v, p, i, j)
      BY <1>1, <1>4, <2>1
    <2>3. v \in OpKinds /\ p \in Paths /\ i \in Ids \cup {None} /\ j \in Jobs \cup {None}
      BY <1>1, <1>2, <1>4, VerbFacts
    <2> QED
      BY <2>1, <2>2, <2>3, CallFacts
  <1>6. TypeOK'
    BY <1>1, <1>3, <1>5 DEF IInv, TypeOK
  <1>7. Callers'
    BY <1>1, <1>3, <1>5, NoneIsNo DEF IInv, Callers
  <1>8. v = "quarantine" => i = None /\ j \in Jobs
    BY <1>1, <1>2, <1>4, VerbFacts DEF IInv, Asked
  <1>9. v \in {"restore", "delete"} => i \in Ids /\ (Listed(i) => items[i].path = p)
    BY <1>1, <1>4, VerbFacts DEF IInv, Asked
  <1>10. (op'.kind = "quarantine" => op'.id = None /\ op'.job \in Jobs)
    BY <1>5, <1>8
  <1>11. op'.kind \in {"restore", "delete"} =>
           op'.id \in Ids /\ (Listed(op'.id) => items[op'.id].path = op'.path)
    BY <1>5, <1>9
  <1> QED
    BY <1>1, <1>3, <1>5, <1>6, <1>7, <1>10, <1>11, CallKeeps

LEMMA JudgeKeeps == IInv /\ Judge => IInv' /\ Settled
  <1> SUFFICES ASSUME IInv, Judge PROVE IInv' /\ Settled
    OBVIOUS
  <1>1. /\ adm # None /\ adm.step = "told" /\ adm.kind = "fine"
        /\ UNCHANGED <<at, store, op, threats, worker, asks, falls, tales, untold>>
        /\ adm' = [adm EXCEPT !.kind = "judge", !.step = "ask"]
    BY DEF Judge, AdmAt
  <1>2. /\ adm' \in Ask /\ adm' # None /\ adm'.step = "ask" /\ adm'.kind = "judge"
        /\ adm'.id = adm.id /\ adm'.job = adm.job /\ adm'.path = adm.path
    <2>1. adm \in Ask
      BY <1>1, AskFacts DEF IInv
    <2>2. adm' \in Ask
      BY <1>1, <2>1, AskRecords
    <2> QED
      BY <1>1, <2>1, <2>2, NoneIsNo DEF Ask
  <1>3. TypeOK'
    BY <1>1, <1>2 DEF IInv, TypeOK, store, tales
  <1>4. Callers'
    BY <1>1 DEF IInv, Callers
  <1>5. Asked'
    <2>1. \A i \in Ids : (Given(i) => Given(i)') /\ (Listed(i)' <=> Listed(i)) /\ items'[i] = items[i]
      BY <1>1 DEF Given, Listed, store
    <2> QED
      BY <1>1, <1>2, <2>1 DEF IInv, Asked
  <1> QED
    BY <1>1, <1>3, <1>4, <1>5, AtRest

LEMMA ToldKeeps == IInv /\ Told => IInv' /\ Settled
  <1> SUFFICES ASSUME IInv, Told PROVE IInv' /\ Settled
    OBVIOUS
  <1>1. /\ adm # None /\ adm.step = "told" /\ adm' = None /\ untold' = untold \cup Early
        /\ UNCHANGED <<at, store, op, worker, asks, falls, tales>>
    BY DEF Told, AdmAt
  <1>2. adm.out \in Threat /\ (adm.kind # "unwhitelist" => adm.job \in Jobs)
    BY <1>1 DEF IInv, Asked
  <1>3. threats \in [Jobs -> [Paths -> Threat \cup {None}]]
    BY DEF IInv, TypeOK
  <1>4. ASSUME NEW out \in Threat, NEW these, these \subseteq Threatened, adm.job \in Jobs,
               Mark(out, these)
        PROVE  threats' \in [Jobs -> [Paths -> Threat \cup {None}]]
    <2> DEFINE new == [p \in Paths |-> IF p \in these THEN Applied(threats[adm.job][p], out)
                                       ELSE threats[adm.job][p]]
    <2>1. ASSUME NEW p \in these PROVE p \in Paths /\ threats[adm.job][p] \in Threat
      BY <1>3, <1>4, <2>1 DEF Threatened
    <2>2. new \in [Paths -> Threat \cup {None}]
      BY <1>3, <1>4, <2>1, AppliedIsThreat
    <2>3. threats' = [threats EXCEPT ![adm.job] = new]
      BY <1>3, <1>4 DEF Mark
    <2> QED
      BY <1>3, <2>2, <2>3
  <1>5. WithTheId \subseteq Threatened /\ AtThePath \subseteq Threatened
    BY DEF WithTheId, AtThePath
  <1>6. [adm.out EXCEPT !.state = "restored"] \in Threat
    BY <1>2 DEF Threat, States
  <1>7. threats' \in [Jobs -> [Paths -> Threat \cup {None}]]
    <2>1. \/ threats' = threats
          \/ adm.job \in Jobs /\ \E out \in Threat, these \in SUBSET Threatened : Mark(out, these)
      BY <1>2, <1>5, <1>6 DEF Told, Judged
    <2> QED
      BY <1>3, <1>4, <2>1
  <1>8. untold' \subseteq Ids
    BY <1>1, AskFacts DEF Early, IInv, TypeOK
  <1>9. TypeOK'
    BY <1>1, <1>7, <1>8 DEF IInv, TypeOK, store, tales
  <1>10. op # None => op.by # "admin"
    BY <1>1 DEF IInv, Callers
  <1>11. Callers'
    BY <1>1, <1>10 DEF IInv, Callers
  <1>12. Asked'
    BY <1>1 DEF Asked
  <1> QED
    BY <1>1, <1>9, <1>11, <1>12, AtRest

LEMMA MeantFacts == IInv => Meant \subseteq Ids
  BY AskFacts DEF Meant, IInv

\* Nobody waits any more, and what the helper is at goes on or is gone.
LEMMA StopsKeep == IInv /\ (Dropped \/ PanelDies \/ ServerDies) => IInv' /\ Settled
  <1> SUFFICES ASSUME IInv, Dropped \/ PanelDies \/ ServerDies PROVE IInv' /\ Settled
    OBVIOUS
  <1>1. /\ adm' = None /\ UNCHANGED <<at, store, threats, asks, tales>>
        /\ untold' = untold \cup Meant
        /\ falls' = falls \/ (falls < MaxFalls /\ falls' = falls + 1)
    BY DEF Dropped, PanelDies, ServerDies, PanelStops
  <1>2. \/ op' = None
        \/ /\ op # None /\ op' = [op EXCEPT !.by = None]
        \/ /\ op # None /\ op.by # "admin" /\ op' = op
           /\ worker' = worker
    BY DEF Dropped, PanelDies, ServerDies, PanelStops, Orphaned
  <1>3. \/ worker' = worker
        \/ worker' = [j \in Jobs |-> IF worker[j].step = "isolate" THEN Over ELSE worker[j]]
    BY DEF Dropped, PanelDies, ServerDies, PanelStops
  <1>4. worker \in [Jobs -> Worker]
    BY DEF IInv, TypeOK
  <1>5. /\ Over \in Worker /\ Over.step = "over" /\ \A p \in Paths : Over.got[p] = None
    BY DEF Over, Worker
  <1>6. /\ worker' \in [Jobs -> Worker]
        /\ \A j \in Jobs, p \in Paths :
             worker'[j].got[p] # None => worker'[j].got[p] = worker[j].got[p]
    BY <1>3, <1>4, <1>5
  <1>7. falls' \in 0..MaxFalls /\ untold' \subseteq Ids
    BY <1>1, MeantFacts, ConstantsAssumption DEF IInv, TypeOK
  <1>8. /\ op' \in Op \cup {None}
        /\ op' # None =>
             /\ op # None /\ op'.kind = op.kind /\ op'.id = op.id /\ op'.step = op.step
             /\ op'.path = op.path /\ op'.job = op.job
             /\ op'.by = None \/ (op' = op /\ op.by # "admin" /\ worker' = worker)
    <2>1. CASE op # None /\ op' = [op EXCEPT !.by = None]
      <3>1. op \in Op
        BY <2>1, OpFacts DEF IInv
      <3>2. op' \in Op
        BY <2>1, <3>1 DEF Op
      <3> QED
        BY <2>1, <3>1, <3>2 DEF Op
    <2> QED
      BY <1>2, <2>1, OpFacts DEF IInv
  <1>9. TypeOK'
    BY <1>1, <1>6, <1>7, <1>8 DEF IInv, TypeOK, store, tales
  <1>10. Settled /\ Stored'
    BY <1>1, <1>8, StoreSettles DEF SameId, store
  <1>11. Asides' /\ Backs'
    BY <1>1, <1>8 DEF IInv, Asides, Backs, Bare, Listed, store
  <1>12. Callers'
    BY <1>1, <1>6, <1>8, NoneIsNo DEF IInv, Callers
  <1>13. Asked'
    BY <1>1 DEF Asked
  <1> QED
    BY <1>9, <1>10, <1>11, <1>12, <1>13 DEF IInv

LEMMA HelperDiesKeeps == IInv /\ HelperDies => IInv' /\ Settled
  <1> SUFFICES ASSUME IInv, HelperDies PROVE IInv' /\ Settled
    OBVIOUS
  <1>1. op # None /\ Again /\ UNCHANGED <<at, items, made, white, owed, late, untold>>
    BY DEF HelperDies, store, tales
  <1>2. /\ op' = None /\ UNCHANGED <<threats, worker, asks>>
        /\ falls' \in 0..MaxFalls /\ adm' \in Ask \cup {None}
        /\ op.by # "admin" => adm' = adm
        /\ op.by = "admin" =>
              /\ adm # None /\ adm' # None /\ adm'.step = "ask" /\ adm'.kind = adm.kind
              /\ adm'.id = adm.id /\ adm'.job = adm.job /\ adm'.path = adm.path
        /\ Callers'
    BY <1>1, AgainFacts
  <1>3. TypeOK'
    BY <1>1, <1>2 DEF IInv, TypeOK
  <1>4. Settled /\ Stored'
    BY <1>1, <1>2, StoreSettles DEF SameId
  <1>5. Asked'
    <2>1. adm # None /\ adm.step = "told" => adm.out \in Threat
      BY DEF IInv, Asked
    <2> QED
      BY <1>2, <1>4, <2>1, AskedStays
  <1>6. Asides' /\ Backs'
    BY <1>2 DEF Asides, Backs
  <1> QED
    BY <1>2, <1>3, <1>4, <1>5, <1>6 DEF IInv

LEMMA InitInv == Init => IInv
  <1> SUFFICES ASSUME Init PROVE IInv
    OBVIOUS
  <1>1. at \in [Paths -> Things \cup {None}] /\ owed \subseteq Files
    BY DEF Init, Things
  <1>2. items \in [Ids -> Item \cup {None}] /\ worker \in [Jobs -> Worker]
    BY DEF Init, Worker
  <1>3. threats \in [Jobs -> [Paths -> Threat \cup {None}]]
    BY DEF Init
  <1>4. made \in 0..MaxIds /\ asks \in 0..MaxAsks /\ falls \in 0..MaxFalls
    BY ConstantsAssumption DEF Init
  <1>5. TypeOK
    BY <1>1, <1>2, <1>3, <1>4 DEF Init, TypeOK
  <1> QED
    BY <1>5 DEF IInv, Init, Stored, Asides, Backs, Callers, Asked

LEMMA StepInv == IInv /\ [Next]_vars => IInv' /\ Settled
  <1> SUFFICES ASSUME IInv, [Next]_vars PROVE IInv' /\ Settled
    OBVIOUS
  <1>1. CASE UNCHANGED vars
    <2>1. UNCHANGED <<at, store, op, tales>> /\ UNCHANGED panel
      BY <1>1 DEF vars
    <2>2. TypeOK' /\ Callers' /\ Asked'
      BY <2>1 DEF IInv, TypeOK, Callers, Asked, Given, Listed, store, panel, tales
    <2> QED
      BY <2>1, <2>2, AtRest
  <1>2. CASE HelperStep
    BY <1>2, OpenKeeps, MoveKeeps, SameKeeps, OpenMovedKeeps, RecordKeeps, RestoreKeeps,
       PutBackKeeps, ClearKeeps, OwnKeeps, DeleteKeeps, ForgetKeeps, WhiteKeeps DEF HelperStep
  <1>3. CASE \E j \in Jobs : Scan(j) \/ Isolate(j) \/ Amend(j)
    BY <1>3, ScanKeeps, IsolateKeeps, AmendKeeps
  <1>4. CASE AskItem \/ AskThreat \/ AskUnwhite \/ Send \/ Judge \/ Told
    BY <1>4, AsksKeep, SendKeeps, JudgeKeeps, ToldKeeps
  <1>5. CASE Customer \/ Dropped \/ PanelDies \/ ServerDies \/ HelperDies
    BY <1>5, CustomerKeeps, StopsKeep, HelperDiesKeeps
  <1> QED
    BY <1>1, <1>2, <1>3, <1>4, <1>5 DEF Next

LEMMA Inductive == Spec => []IInv
  BY InitInv, StepInv, PTL DEF Spec

\* The variables have their types.
THEOREM Types == Spec => []TypeOK
  <1>1. IInv => TypeOK
    BY DEF IInv
  <1> QED
    BY <1>1, Inductive, PTL

-----------------------------------------------------------------------------
(* No file is lost.                                                         *)

Somewhere(f) ==
  \/ \E p \in Paths : at[p] = f
  \/ \E k \in Ids : items[k] # None /\ items[k].file = f

\* Somewhere else than in item i.
Elsewhere(f, i) ==
  \/ \E p \in Paths : at[p] = f
  \/ \E k \in Ids \ {i} : items[k] # None /\ items[k].file = f

\* What the helper is about to remove is there twice.
Twice == op # None /\ op.step \in {"same", "unlink", "clear"} =>
  /\ items[op.id].file \in owed => Elsewhere(items[op.id].file, op.id)
  /\ op.step = "same" /\ op.lies # None /\ at[op.lies] \in owed =>
       at[op.lies] = items[op.id].file
  /\ op.step = "unlink" /\ at[op.path] \in owed => at[op.path] = items[op.id].file

LossInv == NothingLost /\ Twice

LEMMA LostIsNowhere == NothingLost <=> \A f \in owed : Somewhere(f)
  BY DEF NothingLost, Somewhere

LEMMA NoneIsOwed == IInv => None \notin owed
  BY NoneIsNo DEF IInv, TypeOK, Things

\* What is there twice is a copy across file systems, that no customer has open.
LEMMA TwiceFacts ==
  ASSUME IInv, op # None, op.step \in {"same", "unlink", "clear"}
  PROVE  /\ op.id \in Ids /\ items[op.id] # None /\ op.path \in Far /\ op.path \in Paths
         /\ ~Theirs(op.id)
  <1>1. op.kind \in OpKinds /\ op.path \in Paths
    BY OpFacts DEF IInv
  <1>2. CASE op.kind = "quarantine"
    <2>1. Bare(op.id) /\ op.path \in Far
      BY <1>2 DEF IInv, Asides
    <2> QED
      BY <1>1, <1>2, <2>1 DEF Bare, Theirs, Listed
  <1>3. CASE op.kind \in {"restore", "delete"}
    <2>1. op.id \in Ids /\ Listed(op.id) /\ items[op.id].path = op.path /\ op.path \in Far
      BY <1>3 DEF IInv, Backs
    <2> QED
      BY <1>1, <1>3, <2>1 DEF Theirs, Listed
  <1>4. CASE op.kind \in {"add", "drop"}
    BY <1>4 DEF IInv, Callers
  <1> QED
    BY <1>1, <1>2, <1>3, <1>4 DEF OpKinds

\* The helper is at nothing that is there twice.
LEMMA OnceKeeps ==
  ASSUME op' # None => op'.step \notin {"same", "unlink", "clear"}, \A f \in owed' : Somewhere(f)'
  PROVE  LossInv'
  BY LostIsNowhere DEF LossInv, NothingLost, Somewhere, Twice

\* The helper does not touch what is stored or outside.
LEMMA StillKeeps ==
  ASSUME LossInv, UNCHANGED <<at, items, owed>>,
         op' = None \/ op' = op \/ op'.step \in {"start", "move", "record", "put", "own", "forget"}
  PROVE  LossInv'
  BY DEF LossInv, NothingLost, Twice, Elsewhere

\* The store stays, and what a customer does outside is not to what the helper counts on.
LEMMA OutsideLoses ==
  ASSUME IInv, LossInv, UNCHANGED items,
         op' = op \/ (op # None /\ \E x \in Paths \cup {None} : op' = [op EXCEPT !.lies = x]),
         \A f \in owed' : \/ /\ f \in owed
                             /\ \A p \in Paths : at[p] = f => \E q \in Paths : at'[q] = f
                          \/ Nowhere(f) /\ \E q \in Paths : at'[q] = f,
         op # None /\ op.step = "same" /\ op'.lies # None /\ at'[op'.lies] \in owed' =>
           op.lies # None /\ at[op.lies] = at'[op'.lies] /\ at[op.lies] \in owed,
         op # None /\ op.step = "unlink" /\ at'[op.path] \in owed' =>
           at'[op.path] = at[op.path] /\ at[op.path] \in owed
  PROVE  LossInv'
  <1>1. \A f \in owed' : Somewhere(f)'
    BY LostIsNowhere DEF LossInv, Somewhere
  <1>2. /\ op' # None <=> op # None
        /\ op # None => op'.step = op.step /\ op'.id = op.id /\ op'.path = op.path
    BY LiesElsewhere DEF IInv
  <1>3. CASE op # None /\ op.step \in {"same", "unlink", "clear"}
    <2>1. PICK i \in Ids : i = op.id /\ items[i] # None /\ items[i] = items'[i]
      BY <1>3, TwiceFacts
    <2>2. items[i].file \in owed' => Elsewhere(items[i].file, i)'
      BY <1>3, <2>1 DEF LossInv, Twice, Elsewhere, Nowhere
    <2>3. op'.step = "same" /\ op'.lies # None /\ at'[op'.lies] \in owed' =>
            at'[op'.lies] = items'[i].file
      BY <1>2, <1>3, <2>1 DEF LossInv, Twice
    <2>4. op'.step = "unlink" /\ at'[op'.path] \in owed' => at'[op'.path] = items'[i].file
      BY <1>2, <1>3, <2>1 DEF LossInv, Twice
    <2>5. Twice'
      BY <1>2, <2>1, <2>2, <2>3, <2>4 DEF Twice
    <2> QED
      BY <1>1, <2>5, LostIsNowhere DEF LossInv, NothingLost, Somewhere
  <1>4. CASE ~(op # None /\ op.step \in {"same", "unlink", "clear"})
    BY <1>1, <1>2, <1>4, OnceKeeps
  <1> QED
    BY <1>3, <1>4

LEMMA CustomerLoses == IInv /\ LossInv /\ Customer => LossInv'
  <1> SUFFICES ASSUME IInv, LossInv, Customer PROVE LossInv'
    OBVIOUS
  <1>1. /\ at \in [Paths -> Things \cup {None}] /\ owed \subseteq Files /\ None \notin owed
        /\ \A f \in owed : ~Nowhere(f)
    BY NoneIsOwed, LostIsNowhere DEF IInv, TypeOK, LossInv, Nowhere, Somewhere
  <1>2. op # None => op.path \in Paths /\ op.lies \in Paths \cup {None}
    BY OpFacts DEF IInv
  <1>3. ASSUME NEW p \in Paths, NEW x \in Files \cup Links \cup {None}, x # None => Nowhere(x),
               at' = [at EXCEPT ![p] = x], UNCHANGED items,
               op' = IF Held(p) THEN [op EXCEPT !.lies = None] ELSE op,
               owed' = (owed \ {at[p]}) \cup (IF InTheWay(p) THEN {} ELSE {x} \cap Files)
        PROVE  LossInv'
    <2>1. op' = op \/ (op # None /\ op' = [op EXCEPT !.lies = None])
      BY <1>3 DEF Held
    <2>2. at'[p] = x /\ \A q \in Paths : q # p => at'[q] = at[q]
      BY <1>1, <1>3
    <2>3. x \notin owed
      BY <1>1, <1>3
    <2>4. \A f \in owed' : \/ f \in owed /\ \A q \in Paths : at[q] = f => at'[q] = f
                           \/ Nowhere(f) /\ at'[p] = f
      BY <1>3, <2>2, NoneIsNo DEF Things
    <2>5. op # None /\ op.step = "same" /\ op'.lies # None /\ at'[op'.lies] \in owed' =>
            op.lies # None /\ at[op.lies] = at'[op'.lies] /\ at[op.lies] \in owed
      <3> SUFFICES ASSUME op # None, op.step = "same", op'.lies # None, at'[op'.lies] \in owed'
                   PROVE  op.lies # None /\ at[op.lies] = at'[op'.lies] /\ at[op.lies] \in owed
        OBVIOUS
      <3>1. ~Held(p)
        BY <1>2, <1>3, LiesElsewhere DEF IInv
      <3>2. op' = op /\ op.lies \in Paths /\ op.lies # p
        BY <1>2, <1>3, <3>1 DEF Held
      <3>3. at'[op.lies] = at[op.lies] /\ (x # None => at[op.lies] # x)
        BY <1>3, <2>2, <3>2 DEF Nowhere
      <3>4. at[op.lies] \in owed \/ (at[op.lies] = x /\ x \in Files)
        BY <1>3, <3>2, <3>3
      <3> QED
        BY <3>2, <3>3, <3>4, NoneIsNo DEF Things
    <2>6. op # None /\ op.step = "unlink" /\ at'[op.path] \in owed' =>
            at'[op.path] = at[op.path] /\ at[op.path] \in owed
      <3> SUFFICES ASSUME op # None, op.step = "unlink", at'[op.path] \in owed'
                   PROVE  at'[op.path] = at[op.path] /\ at[op.path] \in owed
        OBVIOUS
      <3>1. CASE op.path = p
        BY <1>3, <2>2, <2>3, <3>1 DEF InTheWay
      <3>2. CASE op.path # p
        <4>1. at'[op.path] = at[op.path]
          BY <1>2, <2>2, <3>2
        <4>2. x # None => at[op.path] # x
          BY <1>2, <1>3 DEF Nowhere
        <4> QED
          BY <1>3, <4>1, <4>2, NoneIsNo DEF Things
      <3> QED
        BY <3>1, <3>2
    <2> QED
      BY <1>3, <2>1, <2>4, <2>5, <2>6, OutsideLoses
  <1>4. ASSUME NEW p \in Paths, Remove(p) PROVE LossInv'
    <2>1. PICK x : x = None
      OBVIOUS
    <2>2. /\ at' = [at EXCEPT ![p] = x] /\ UNCHANGED items
          /\ op' = IF Held(p) THEN [op EXCEPT !.lies = None] ELSE op
          /\ owed' = (owed \ {at[p]}) \cup (IF InTheWay(p) THEN {} ELSE {x} \cap Files)
      BY <1>4, <2>1, NoneIsNo DEF Remove, store, Things
    <2> QED
      BY <1>3, <2>1, <2>2
  <1>5. ASSUME NEW p \in Paths, NEW f \in Files \cup Links, Put(p, f) PROVE LossInv'
    BY <1>3, <1>5 DEF Put, store
  <1>6. ASSUME NEW p \in Paths, NEW q \in Paths, Rename(p, q) PROVE LossInv'
    <2>1. /\ at[p] # None /\ p # q /\ at' = [at EXCEPT ![q] = at[p], ![p] = None]
          /\ op' = IF Held(p) THEN [op EXCEPT !.lies = q]
                   ELSE IF Held(q) THEN [op EXCEPT !.lies = None] ELSE op
          /\ owed' = (owed \ {at[q]}) \ (IF InTheWay(q) THEN {at[p]} ELSE {})
          /\ UNCHANGED items
      BY <1>6 DEF Rename, store
    <2>2. /\ at'[q] = at[p] /\ at'[p] = None
          /\ \A r \in Paths : r # p /\ r # q => at'[r] = at[r]
      BY <1>1, <2>1
    <2>3. op' = op \/ (op # None /\ \E x \in Paths \cup {None} : op' = [op EXCEPT !.lies = x])
      BY <2>1 DEF Held
    <2>4. \A f \in owed' : f \in owed /\ \A r \in Paths : at[r] = f => \E s \in Paths : at'[s] = f
      BY <2>1, <2>2
    <2>5. op # None /\ op.step = "same" /\ op'.lies # None /\ at'[op'.lies] \in owed' =>
            op.lies # None /\ at[op.lies] = at'[op'.lies] /\ at[op.lies] \in owed
      <3> SUFFICES ASSUME op # None, op.step = "same", op'.lies # None, at'[op'.lies] \in owed'
                   PROVE  op.lies # None /\ at[op.lies] = at'[op'.lies] /\ at[op.lies] \in owed
        OBVIOUS
      <3>1. at'[op'.lies] \in owed
        BY <2>1
      <3>2. CASE Held(p)
        <4>1. op'.lies = q /\ op.lies = p
          BY <2>1, <3>2, LiesElsewhere DEF Held, IInv
        <4> QED
          BY <2>2, <3>1, <4>1, <1>1, NoneIsNo
      <3>3. CASE ~Held(p) /\ Held(q)
        <4>1. op'.lies = None
          BY <2>1, <3>3, LiesElsewhere DEF IInv
        <4> QED
          BY <4>1
      <3>4. CASE ~Held(p) /\ ~Held(q)
        <4>1. op' = op /\ op.lies \in Paths /\ op.lies # p /\ op.lies # q
          BY <1>2, <2>1, <3>4 DEF Held
        <4> QED
          BY <2>2, <3>1, <4>1
      <3> QED
        BY <3>2, <3>3, <3>4
    <2>6. op # None /\ op.step = "unlink" /\ at'[op.path] \in owed' =>
            at'[op.path] = at[op.path] /\ at[op.path] \in owed
      <3> SUFFICES ASSUME op # None, op.step = "unlink", at'[op.path] \in owed'
                   PROVE  at'[op.path] = at[op.path] /\ at[op.path] \in owed
        OBVIOUS
      <3>1. op.path # q
        BY <2>1, <2>2 DEF InTheWay
      <3>2. op.path # p
        BY <1>1, <2>1, <2>2
      <3>3. at'[op.path] = at[op.path]
        BY <1>2, <2>2, <3>1, <3>2
      <3> QED
        BY <2>1, <3>3
    <2> QED
      BY <2>1, <2>3, <2>4, <2>5, <2>6, OutsideLoses
  <1>7. ASSUME NEW p \in Paths, NEW f \in Files, Write(p, f) PROVE LossInv'
    <2>1. /\ Nowhere(f) /\ at' = [at EXCEPT ![p] = f] /\ UNCHANGED <<items, op>>
          /\ owed' = (owed \ {at[p]}) \cup (IF InTheWay(p) \/ Copied(p) THEN {} ELSE {f})
      BY <1>7 DEF Write, store
    <2>2. at'[p] = f /\ (\A r \in Paths : r # p => at'[r] = at[r]) /\ f \notin owed
      BY <1>1, <2>1
    <2>3. \A g \in owed' : \/ g \in owed /\ \A r \in Paths : at[r] = g => at'[r] = g
                           \/ Nowhere(g) /\ at'[p] = g
      BY <2>1, <2>2
    <2>4. \A r \in Paths : r # p /\ at'[r] \in owed' => at'[r] = at[r] /\ at[r] \in owed
      BY <2>1, <2>2 DEF Nowhere
    <2>5. op # None /\ op.step = "same" /\ op'.lies # None /\ at'[op'.lies] \in owed' =>
            op.lies # None /\ at[op.lies] = at'[op'.lies] /\ at[op.lies] \in owed
      <3>1. op # None /\ op.step = "same" /\ op.lies = p => Copied(p)
        BY DEF Copied, Held
      <3> QED
        BY <1>2, <2>1, <2>2, <2>4, <3>1
    <2>6. op # None /\ op.step = "unlink" /\ at'[op.path] \in owed' =>
            at'[op.path] = at[op.path] /\ at[op.path] \in owed
      <3>1. op # None /\ op.step = "unlink" /\ op.path = p => InTheWay(p)
        BY DEF InTheWay
      <3> QED
        BY <1>2, <2>1, <2>2, <2>4, <3>1
    <2> QED
      BY <2>1, <2>3, <2>5, <2>6, OutsideLoses
  <1>8. ASSUME NEW i \in Ids, NEW f \in Files, WriteAside(i, f) PROVE LossInv'
    <2>1. /\ items[i] # None /\ Theirs(i) /\ Nowhere(f) /\ items' = [items EXCEPT ![i].file = f]
          /\ owed' = (owed \ {items[i].file}) \cup {f} /\ UNCHANGED <<at, op>>
          /\ f \in Things \cup {None}
      BY <1>8 DEF WriteAside, Theirs, Things
    <2>2. items'[i] # None /\ items'[i].file = f /\ \A k \in Ids \ {i} : items'[k] = items[k]
      BY <2>1, FileChange
    <2>3. \A g \in owed' : Somewhere(g)'
      <3> SUFFICES ASSUME NEW g \in owed' PROVE Somewhere(g)'
        OBVIOUS
      <3>1. CASE g = f
        BY <2>2, <3>1 DEF Somewhere
      <3>2. CASE g # f
        <4>1. g \in owed /\ g # items[i].file /\ Somewhere(g)
          BY <2>1, <3>2, LostIsNowhere DEF LossInv
        <4> QED
          BY <2>1, <2>2, <4>1 DEF Somewhere
      <3> QED
        BY <3>1, <3>2
    <2>4. CASE op # None /\ op.step \in {"same", "unlink", "clear"}
      <3>1. PICK k \in Ids : k = op.id /\ k # i /\ items[k] # None /\ items'[k] = items[k]
        BY <2>1, <2>2, <2>4, TwiceFacts
      <3>2. items[k].file # f /\ \A p \in Paths : at[p] # f
        BY <2>1, <3>1 DEF Nowhere
      <3>3. items[k].file \in owed' => Elsewhere(items[k].file, k)'
        <4> SUFFICES ASSUME items[k].file \in owed' PROVE Elsewhere(items[k].file, k)'
          OBVIOUS
        <4>1. items[k].file \in owed /\ items[k].file # items[i].file
          BY <2>1, <3>2
        <4>2. Elsewhere(items[k].file, k)
          BY <2>4, <3>1, <4>1 DEF LossInv, Twice
        <4> QED
          BY <2>1, <2>2, <4>1, <4>2 DEF Elsewhere
      <3>4. op.step = "same" /\ op.lies # None /\ at[op.lies] \in owed' => at[op.lies] \in owed
        BY <1>2, <2>1, <2>4, <3>2
      <3>5. op.step = "unlink" /\ at[op.path] \in owed' => at[op.path] \in owed
        BY <1>2, <2>1, <2>4, <3>2
      <3>6. Twice'
        BY <2>1, <2>4, <3>1, <3>3, <3>4, <3>5 DEF LossInv, Twice
      <3> QED
        BY <2>3, <3>6, LostIsNowhere DEF LossInv, NothingLost, Somewhere
    <2>5. CASE ~(op # None /\ op.step \in {"same", "unlink", "clear"})
      BY <2>1, <2>3, <2>5, OnceKeeps
    <2> QED
      BY <2>4, <2>5
  <1> QED
    BY <1>4, <1>5, <1>6, <1>7, <1>8 DEF Customer

\* An item of the helper's own goes, and what was in it is elsewhere or nobody's.
LEMMA GoneLoses ==
  ASSUME IInv, LossInv, NEW i \in Ids, \A k \in Ids \ {i} : items'[k] = items[k],
         \A p \in Paths : at[p] # None => at'[p] = at[p],
         \A f \in owed' : /\ f \in owed
                          /\ \/ f # items[i].file
                             \/ Elsewhere(f, i)
                             \/ items'[i] # None /\ items'[i].file = f
                             \/ \E p \in Paths : at'[p] = f,
         op' # None => op'.step \notin {"same", "unlink", "clear"}
  PROVE  LossInv'
  <1> SUFFICES ASSUME NEW f \in owed' PROVE Somewhere(f)'
    BY OnceKeeps
  <1>1. Somewhere(f) /\ f # None
    BY LostIsNowhere, NoneIsOwed DEF LossInv
  <1>2. CASE f # items[i].file \/ Elsewhere(f, i)
    BY <1>1, <1>2 DEF Somewhere, Elsewhere
  <1>3. CASE (items'[i] # None /\ items'[i].file = f) \/ \E p \in Paths : at'[p] = f
    BY <1>3 DEF Somewhere
  <1> QED
    BY <1>2, <1>3

LEMMA AnswerEnds ==
  ASSUME IInv, op # None, NEW state \in States, NEW id \in Ids \cup {None}, Answer(state, id)
  PROVE  op' = None
  BY AgainFacts DEF Answer, Reply, ReplyLost

LEMMA GiveUpFacts ==
  ASSUME IInv, op # None, op.id \in Ids, GiveUp
  PROVE  /\ op' = None /\ \A k \in Ids \ {op.id} : items'[k] = items[k]
         /\ UNCHANGED items \/ items'[op.id] = None
  <1>1. op' = None
    BY AnswerEnds DEF GiveUp, States
  <1> QED
    BY <1>1 DEF GiveUp, IInv, TypeOK

LEMMA MoveLoses == IInv /\ LossInv /\ (Move \/ Copy) => LossInv'
  <1> SUFFICES ASSUME IInv, LossInv, Move \/ Copy PROVE LossInv'
    OBVIOUS
  <1>1. op # None /\ op.kind = "quarantine" /\ op.step = "move" /\ UNCHANGED owed
    BY DEF Move, Copy, At
  <1>2. CASE NoFolder /\ UNCHANGED at
    <2>1. op' = None
      BY <1>1, <1>2, AnswerEnds DEF NoFolder, States
    <2> QED
      BY <1>1, <1>2, <2>1, StillKeeps DEF NoFolder
  <1>3. ASSUME Folder, NEW f \in Things \cup {None}, NEW s \in {"open", "same"},
               items' = [items EXCEPT ![NewId] = [NoItem EXCEPT !.file = f]],
               op' = [op EXCEPT !.id = NewId, !.step = s]
        PROVE  /\ NewId \in Ids /\ items[NewId] = None /\ items'[NewId] # None
               /\ items'[NewId].file = f /\ \A k \in Ids \ {NewId} : items'[k] = items[k]
               /\ op'.step = s /\ op'.id = NewId /\ op'.lies = op.lies /\ op'.path = op.path
    <2>1. NewId \in Ids /\ items[NewId] = None
      BY <1>3, NewItem
    <2> DEFINE new == [NoItem EXCEPT !.file = f]
    <2>2. new # None /\ new.file = f
      BY <1>1, <1>3, ItemRecords, OpFacts, NoneIsNo DEF IInv
    <2> HIDE DEF new
    <2>3. items' = [items EXCEPT ![NewId] = new] /\ items \in [Ids -> Item \cup {None}]
      BY <1>3 DEF new, IInv, TypeOK
    <2>4. op \in Op
      BY <1>1, OpFacts DEF IInv
    <2> QED
      BY <1>3, <2>1, <2>2, <2>3, <2>4 DEF Op
  <1>4. PICK n : n = NewId
    OBVIOUS
  <1>5. CASE /\ op.path \notin Far /\ Folder
             /\ items' = [items EXCEPT ![NewId] = [NoItem EXCEPT !.file = at[op.path]]]
             /\ at' = [at EXCEPT ![op.path] = None]
             /\ op' = [op EXCEPT !.id = NewId, !.step = "open"]
    <2>1. at[op.path] \in Things \cup {None} /\ op.path \in Paths
      BY <1>1, OpFacts DEF IInv
    <2>2. /\ n \in Ids /\ items[n] = None /\ items'[n] # None /\ items'[n].file = at[op.path]
          /\ \A k \in Ids \ {n} : items'[k] = items[k]
          /\ op'.step = "open"
      BY <1>3, <1>4, <1>5, <2>1
    <2>3. \A p \in Paths : p # op.path => at'[p] = at[p]
      BY <1>5 DEF IInv, TypeOK
    <2>4. ASSUME NEW f \in owed PROVE Somewhere(f)'
      <3>1. Somewhere(f)
        BY LostIsNowhere DEF LossInv
      <3> QED
        BY <2>1, <2>2, <2>3, <3>1 DEF Somewhere
    <2> QED
      BY <1>1, <2>2, <2>4, OnceKeeps
  <1>6. CASE /\ op.path \in Far /\ Folder
             /\ items' = [items EXCEPT ![NewId] = [NoItem EXCEPT !.file = Content]]
             /\ at' = at /\ op' = [op EXCEPT !.id = NewId, !.step = "same"]
    <2>1. Content \in Things \cup {None}
      BY <1>1, OpFacts DEF Content, IInv, TypeOK
    <2>2. /\ n \in Ids /\ items[n] = None /\ items'[n] # None /\ items'[n].file = Content
          /\ \A k \in Ids \ {n} : items'[k] = items[k]
          /\ op'.step = "same" /\ op'.id = n /\ op'.lies = op.lies
      BY <1>3, <1>4, <1>6, <2>1
    <2>3. \A f \in owed : Somewhere(f)
      BY LostIsNowhere DEF LossInv
    <2>4. \A f \in owed : Somewhere(f)'
      BY <1>6, <2>2, <2>3 DEF Somewhere
    <2>5. \A f \in owed : Elsewhere(f, n)'
      BY <1>6, <2>2, <2>3 DEF Somewhere, Elsewhere
    <2>6. op.lies # None => Content = at[op.lies]
      BY DEF Content
    <2>7. Twice'
      BY <1>1, <1>6, <2>2, <2>5, <2>6 DEF Twice
    <2> QED
      BY <1>1, <2>4, <2>7, LostIsNowhere DEF LossInv, NothingLost, Somewhere
  <1> QED
    BY <1>2, <1>5, <1>6 DEF Move, Copy

LEMMA SameLoses == IInv /\ LossInv /\ (Same \/ Unlink) => LossInv'
  <1> SUFFICES ASSUME IInv, LossInv, Same \/ Unlink PROVE LossInv'
    OBVIOUS
  <1>1. /\ op # None /\ op.step \in {"same", "unlink"} /\ UNCHANGED owed
    BY DEF Same, Unlink, At, tales
  <1>2. op.id \in Ids /\ items[op.id] # None /\ op.path \in Paths
    BY <1>1, TwiceFacts
  <1>3. CASE GiveUp /\ UNCHANGED at
    <2>1. \A f \in owed : f # items[op.id].file \/ Elsewhere(f, op.id)
      BY <1>1 DEF LossInv, Twice
    <2> QED
      BY <1>1, <1>2, <1>3, <2>1, GiveUpFacts, GoneLoses
  <1>4. CASE Same /\ op.lies = op.path /\ Goto("unlink") /\ UNCHANGED items
    <2>1. op.step = "same" /\ UNCHANGED at
      BY <1>4 DEF Same, At
    <2>2. op' # None /\ op'.step = "unlink" /\ op'.id = op.id /\ op'.path = op.path
      BY <1>1, <1>4, GotoFacts DEF IInv, OpSteps
    <2>3. op.lies # None
      BY <1>2, <1>4, NoneIsNo
    <2>4. PICK i : i = op.id
      OBVIOUS
    <2>5. /\ items[i].file \in owed => Elsewhere(items[i].file, i)
          /\ at[op.path] \in owed => at[op.path] = items[i].file
      BY <1>1, <1>4, <2>1, <2>3, <2>4 DEF LossInv, Twice
    <2>6. Twice'
      BY <1>1, <1>4, <2>1, <2>2, <2>4, <2>5 DEF Twice, Elsewhere
    <2> QED
      BY <1>1, <1>4, <2>1, <2>6 DEF LossInv, NothingLost
  <1>5. CASE /\ Unlink /\ at' = [at EXCEPT ![op.path] = None] /\ Goto("open") /\ UNCHANGED items
    <2>1. op.step = "unlink"
      BY <1>5 DEF Unlink, At
    <2>2. op'.step = "open"
      BY <1>1, <1>5, GotoFacts DEF IInv, OpSteps
    <2>3. at[op.path] \in owed => at[op.path] = items[op.id].file
      BY <1>1, <2>1 DEF LossInv, Twice
    <2>4. \A p \in Paths : p # op.path => at'[p] = at[p]
      BY <1>5 DEF IInv, TypeOK
    <2>5. ASSUME NEW f \in owed PROVE Somewhere(f)'
      <3>1. Somewhere(f)
        BY LostIsNowhere DEF LossInv
      <3> QED
        BY <1>2, <1>5, <2>3, <2>4, <3>1 DEF Somewhere
    <2> QED
      BY <1>1, <2>2, <2>5, OnceKeeps
  <1> QED
    BY <1>3, <1>4, <1>5 DEF Same, Unlink

LEMMA OpenMovedLoses == IInv /\ LossInv /\ OpenMoved => LossInv'
  <1> SUFFICES ASSUME IInv, LossInv, OpenMoved PROVE LossInv'
    OBVIOUS
  <1>1. /\ op # None /\ op.kind = "quarantine" /\ op.step = "open" /\ UNCHANGED at
    BY DEF OpenMoved, At
  <1>2. op.id \in Ids /\ op \in Op
    BY <1>1, OpFacts DEF IInv, Asides, Bare
  <1>3. CASE GiveUp /\ owed' = IF items' = items THEN owed ELSE owed \ {items[op.id].file}
    <2>1. CASE items' = items
      <3>1. op' = None
        BY <1>1, <1>2, <1>3, GiveUpFacts
      <3> QED
        BY <1>1, <1>3, <2>1, <3>1, StillKeeps
    <2>2. CASE items' # items
      <3>1. \A f \in owed' : f \in owed /\ f # items[op.id].file
        BY <1>3, <2>2
      <3> QED
        BY <1>1, <1>2, <1>3, <3>1, GiveUpFacts, GoneLoses
    <2> QED
      BY <2>1, <2>2
  <1>4. CASE Answer("failed", None) /\ UNCHANGED <<items, tales>>
    <2>1. op' = None
      BY <1>1, <1>4, AnswerEnds DEF States
    <2> QED
      BY <1>1, <1>4, <2>1, StillKeeps DEF tales
  <1>5. CASE /\ op' = [op EXCEPT !.step = "record", !.file = IF SameFile THEN @ ELSE items[op.id].file]
             /\ UNCHANGED <<items, owed>>
    <2>1. op'.step = "record"
      BY <1>2, <1>5 DEF Op
    <2> QED
      BY <1>1, <1>5, <2>1, StillKeeps
  <1> QED
    BY <1>3, <1>4, <1>5 DEF OpenMoved

LEMMA RecordLoses == IInv /\ LossInv /\ Record => LossInv'
  <1> SUFFICES ASSUME IInv, LossInv, Record PROVE LossInv'
    OBVIOUS
  <1>1. /\ op # None /\ op.kind = "quarantine" /\ op.step = "record" /\ UNCHANGED <<at, owed>>
    BY DEF Record, At, tales
  <1>2. /\ op.id \in Ids /\ items[op.id] \in Item /\ op.path \in Paths
        /\ op.file \in Things \cup {None} /\ items \in [Ids -> Item \cup {None}]
    BY <1>1, OpFacts DEF IInv, TypeOK, Asides, Bare
  <1>3. op' = None
    BY <1>1, <1>2, AnswerEnds DEF Record, States
  <1> DEFINE it == [items[op.id] EXCEPT !.sum = op.file, !.path = op.path, !.job = op.job]
  <1>4. it.file = items[op.id].file /\ it \in Item
    <2>1. op.job \in Jobs \cup {None}
      BY <1>1, OpFacts DEF IInv
    <2> QED
      BY <1>2, <2>1 DEF Item
  <1>5. UNCHANGED items \/ items' = [items EXCEPT ![op.id] = it]
    BY <1>2 DEF Record
  <1> HIDE DEF it
  <1>6. CASE UNCHANGED items
    BY <1>1, <1>3, <1>6, StillKeeps
  <1>7. CASE items' = [items EXCEPT ![op.id] = it]
    <2>1. /\ \A k \in Ids \ {op.id} : items'[k] = items[k]
          /\ items'[op.id] # None /\ items'[op.id].file = items[op.id].file
      BY <1>2, <1>4, <1>7, NoneIsNo
    <2> QED
      BY <1>1, <1>2, <1>3, <2>1, GoneLoses
  <1> QED
    BY <1>5, <1>6, <1>7

LEMMA PutBackLoses == IInv /\ LossInv /\ (PutBack \/ CopyBack) => LossInv'
  <1> SUFFICES ASSUME IInv, LossInv, PutBack \/ CopyBack PROVE LossInv'
    OBVIOUS
  <1>1. /\ op # None /\ op.kind = "restore" /\ op.step = "put" /\ UNCHANGED owed
    BY DEF PutBack, CopyBack, At, store, tales
  <1>2. /\ Listed(op.id) /\ items[op.id].file \in Things \cup {None} /\ op.path \in Paths
        /\ op.id \in Ids /\ at \in [Paths -> Things \cup {None}]
        /\ items \in [Ids -> Item \cup {None}]
    BY <1>1, BackFacts DEF IInv, TypeOK
  <1>3. CASE Answer("failed", None) /\ UNCHANGED <<at, items>>
    <2>1. op' = None
      BY <1>1, <1>3, AnswerEnds DEF States
    <2> QED
      BY <1>1, <1>3, <2>1, StillKeeps
  <1>4. CASE /\ Answer("failed", None) /\ UNCHANGED items
             /\ at[op.path] = None /\ at' = [at EXCEPT ![op.path] = Torn]
    <2>1. op' = None
      BY <1>1, <1>4, AnswerEnds DEF States
    <2>2. \A p \in Paths : at[p] # None => at'[p] = at[p]
      BY <1>2, <1>4
    <2>3. \A f \in owed : items[op.id].file = f => items'[op.id] # None /\ items'[op.id].file = f
      BY <1>2, <1>4 DEF Listed
    <2> QED
      BY <1>1, <1>2, <1>4, <2>1, <2>2, <2>3, GoneLoses
  <1>5. CASE /\ at[op.path] = None /\ at' = [at EXCEPT ![op.path] = items[op.id].file]
             /\ items' = [items EXCEPT ![op.id].file = None] /\ Goto("own")
    <2>1. op'.step = "own"
      BY <1>1, <1>5, GotoFacts DEF IInv, OpSteps
    <2>2. /\ \A p \in Paths : at[p] # None => at'[p] = at[p]
          /\ at'[op.path] = items[op.id].file
          /\ \A k \in Ids \ {op.id} : items'[k] = items[k]
      BY <1>2, <1>5
    <2>3. \A f \in owed : f # items[op.id].file \/ \E p \in Paths : at'[p] = f
      BY <1>2, <2>2
    <2> QED
      BY <1>1, <1>2, <2>1, <2>2, <2>3, GoneLoses
  <1>6. CASE /\ at[op.path] = None /\ at' = [at EXCEPT ![op.path] = items[op.id].file]
             /\ UNCHANGED items /\ Goto("clear")
    <2>1. op' # None /\ op'.step = "clear" /\ op'.id = op.id
      BY <1>1, <1>6, GotoFacts DEF IInv, OpSteps
    <2>2. /\ \A p \in Paths : at[p] # None => at'[p] = at[p]
          /\ at'[op.path] = items[op.id].file
      BY <1>2, <1>6
    <2>3. PICK i : i = op.id
      OBVIOUS
    <2>4. Elsewhere(items[i].file, i)'
      BY <1>2, <1>6, <2>2, <2>3 DEF Elsewhere
    <2>5. Twice'
      BY <1>1, <1>6, <2>1, <2>3, <2>4 DEF Twice
    <2>6. \A f \in owed : Somewhere(f)'
      <3>1. \A f \in owed : Somewhere(f) /\ f # None
        BY LostIsNowhere, NoneIsOwed DEF LossInv
      <3> QED
        BY <1>6, <2>2, <3>1 DEF Somewhere
    <2> QED
      BY <1>1, <2>5, <2>6, LostIsNowhere DEF LossInv, NothingLost, Somewhere
  <1> QED
    BY <1>3, <1>4, <1>5, <1>6 DEF PutBack, CopyBack, store

LEMMA BacksLose == IInv /\ LossInv /\ (Clear \/ Delete \/ Forget) => LossInv'
  <1> SUFFICES ASSUME IInv, LossInv, Clear \/ Delete \/ Forget PROVE LossInv'
    OBVIOUS
  <1>1. op # None /\ op.kind \in {"restore", "delete"} /\ op.step \in {"start", "clear", "forget"}
        /\ UNCHANGED at
    BY DEF Clear, Delete, Forget, At
  <1>2. op.id \in Ids /\ items \in [Ids -> Item \cup {None}]
    BY <1>1 DEF IInv, TypeOK, Backs
  <1>3. CASE Clear
    <2>1. /\ Goto("own") /\ op.step = "clear" /\ UNCHANGED owed
          /\ items' = [items EXCEPT ![op.id].file = None] \/ UNCHANGED items
      BY <1>3 DEF Clear, At, tales
    <2>2. op'.step = "own"
      BY <1>1, <2>1, GotoFacts DEF IInv, OpSteps
    <2>3. \A f \in owed : f # items[op.id].file \/ Elsewhere(f, op.id)
      BY <1>1, <2>1 DEF LossInv, Twice
    <2>4. \A k \in Ids \ {op.id} : items'[k] = items[k]
      BY <1>2, <2>1
    <2> QED
      BY <1>1, <1>2, <2>1, <2>2, <2>3, <2>4, GoneLoses
  <1>4. CASE Delete /\ Answer("failed", None) /\ UNCHANGED <<items, owed>>
    <2>1. op' = None
      BY <1>1, <1>4, AnswerEnds DEF States
    <2> QED
      BY <1>1, <1>4, <2>1, StillKeeps
  <1>5. CASE /\ owed' = owed \ {items[op.id].file} /\ Goto("forget")
             /\ items' = [items EXCEPT ![op.id].file = None]
    <2>1. op'.step = "forget"
      BY <1>1, <1>5, GotoFacts DEF IInv, OpSteps
    <2>2. \A k \in Ids \ {op.id} : items'[k] = items[k]
      BY <1>2, <1>5
    <2> QED
      BY <1>1, <1>2, <1>5, <2>1, <2>2, GoneLoses
  <1>6. CASE Forget
    <2>1. /\ UNCHANGED owed /\ \A k \in Ids \ {op.id} : items'[k] = items[k]
          /\ \/ UNCHANGED items
             \/ /\ items'[op.id] # None => items'[op.id].file = items[op.id].file
                /\ items[op.id].file # None => items'[op.id] # None
      BY <1>6, Forgotten
    <2>2. op' = None
      <3>1. \E s \in {"restored", "deleted", "failed"} : Answer(s, None)
        BY <1>6, Forgotten
      <3> QED
        BY <1>1, <3>1, AnswerEnds DEF States
    <2>3. CASE UNCHANGED items
      BY <1>1, <2>1, <2>2, <2>3, StillKeeps
    <2>4. CASE /\ items'[op.id] # None => items'[op.id].file = items[op.id].file
               /\ items[op.id].file # None => items'[op.id] # None
      <3>1. \A f \in owed : f = items[op.id].file => items'[op.id] # None /\ items'[op.id].file = f
        BY <2>4, NoneIsOwed
      <3> QED
        BY <1>1, <1>2, <2>1, <2>2, <3>1, GoneLoses
    <2> QED
      BY <2>1, <2>3, <2>4
  <1> QED
    BY <1>3, <1>4, <1>5, <1>6 DEF Delete

LEMMA LossStep == IInv /\ LossInv /\ [Next]_vars => LossInv'
  <1> SUFFICES ASSUME IInv, LossInv, [Next]_vars PROVE LossInv'
    OBVIOUS
  <1>1. CASE Customer
    BY <1>1, CustomerLoses
  <1>2. CASE Move \/ Copy \/ Same \/ Unlink \/ OpenMoved \/ Record \/ PutBack \/ CopyBack \/ Clear
             \/ Delete \/ Forget
    BY <1>2, MoveLoses, SameLoses, OpenMovedLoses, RecordLoses, PutBackLoses, BacksLose
  <1>3. CASE Open \/ Restore \/ Own \/ WhiteAdd \/ WhiteDrop
    <2>1. op # None /\ op \in Op /\ UNCHANGED <<at, items, owed>>
      BY <1>3, OpFacts DEF Open, Restore, Own, WhiteAdd, WhiteDrop, At, IInv, store, tales
    <2>2. CASE \E s \in States : Answer(s, None)
      BY <2>1, <2>2, AnswerEnds, StillKeeps
    <2>3. CASE op' = [op EXCEPT !.file = at[op.path], !.lies = op.path, !.step = "move"]
      <3>1. op'.step = "move"
        BY <2>1, <2>3 DEF Op
      <3> QED
        BY <2>1, <3>1, StillKeeps
    <2>4. CASE \E s \in {"put", "forget"} : Goto(s)
      <3>1. op'.step \in {"put", "forget"}
        BY <2>1, <2>4, GotoFacts DEF IInv, OpSteps
      <3> QED
        BY <2>1, <3>1, StillKeeps
    <2> QED
      BY <1>3, <2>2, <2>3, <2>4 DEF Open, Restore, Own, WhiteAdd, WhiteDrop, States
  <1>4. CASE (\E j \in Jobs : Isolate(j)) \/ Send
    <2>1. UNCHANGED <<at, items, owed>> /\ op'.step = "start"
      BY <1>4 DEF Isolate, Send, Call, store, tales
    <2> QED
      BY <2>1, StillKeeps
  <1>5. CASE \/ \E j \in Jobs : Scan(j) \/ Amend(j)
             \/ AskItem \/ AskThreat \/ AskUnwhite \/ Judge \/ Told
             \/ UNCHANGED vars
    <2>1. UNCHANGED <<at, items, owed, op>>
      BY <1>5 DEF Scan, Amend, AskItem, AskThreat, AskUnwhite, Request, Judge, Told, vars, store,
         tales
    <2> QED
      BY <2>1, StillKeeps
  <1>6. CASE Dropped \/ PanelDies \/ ServerDies \/ HelperDies
    <2>1. UNCHANGED <<at, items, owed>>
      BY <1>6 DEF Dropped, PanelDies, ServerDies, HelperDies, PanelStops, store, tales
    <2>2. CASE op' = None \/ op' = op
      BY <2>1, <2>2, StillKeeps
    <2>3. CASE op # None /\ op' = [op EXCEPT !.by = None]
      <3>1. op \in Op
        BY <2>3, OpFacts DEF IInv
      <3>2. op' # None /\ op'.step = op.step /\ op'.id = op.id /\ op'.path = op.path
            /\ op'.lies = op.lies
        <4>1. op' \in Op
          BY <2>3, <3>1 DEF Op
        <4> QED
          BY <2>3, <3>1, <4>1, NoneIsNo DEF Op
      <3>3. PICK i : i = op.id
        OBVIOUS
      <3>4. Twice'
        BY <2>1, <2>3, <3>2, <3>3 DEF LossInv, Twice, Elsewhere
      <3> QED
        BY <2>1, <3>4 DEF LossInv, NothingLost
    <2> QED
      BY <1>6, <2>2, <2>3 DEF Dropped, PanelDies, ServerDies, HelperDies, Again, Orphaned
  <1> QED
    BY <1>1, <1>2, <1>3, <1>4, <1>5, <1>6 DEF Next, HelperStep

\* No file is lost: what the helper is about to remove is there twice, and no customer has the
\* copy open.
THEOREM Safe == Spec => []NothingLost
  <1>1. Init => LossInv
    BY DEF Init, LossInv, NothingLost, Twice
  <1>2. IInv /\ LossInv /\ [Next]_vars => LossInv'
    BY LossStep
  <1>3. LossInv => NothingLost
    BY DEF LossInv
  <1> QED
    BY <1>1, <1>2, <1>3, Inductive, PTL DEF Spec

-----------------------------------------------------------------------------
(* The records.                                                             *)

\* The sum that will be recorded is that of the file in the item.
Summed == op # None /\ op.kind = "quarantine" /\ op.id \notin late =>
  /\ op.step \in {"same", "unlink", "record"} => items[op.id].file = op.file
  /\ op.step = "open" /\ SameFile => items[op.id].file = op.file

SumInv == RecordIsTheFile /\ Summed

\* Nothing is set aside any more, or nothing yet.
Unsummed == op # None /\ op.kind = "quarantine" => op.step \in {"start", "move"}

LEMMA UnsummedIsSummed == Unsummed => Summed
  BY DEF Unsummed, Summed

\* Records do not change but where they are true.
LEMMA RecordsKeep ==
  ASSUME SumInv, Summed',
         \A i \in Ids : Listed(i)' /\ items'[i].file # None /\ i \notin late' =>
           \/ Listed(i) /\ items'[i] = items[i] /\ i \notin late
           \/ items'[i].sum = items'[i].file
  PROVE  SumInv'
  BY DEF SumInv, RecordIsTheFile, Listed

LEMMA ItemsStay ==
  ASSUME SumInv, UNCHANGED <<items, late>>, Summed'
  PROVE  SumInv'
  BY DEF SumInv, RecordIsTheFile, Listed

\* Nothing is set aside, and one item loses its file or its record.
LEMMA ItemGoes ==
  ASSUME IInv, SumInv, UNCHANGED late, Unsummed', NEW i \in Ids,
         \A k \in Ids \ {i} : items'[k] = items[k],
         \/ items'[i] = items[i] \/ items'[i] = None
         \/ items'[i].file = None \/ items'[i].path = None
  PROVE  SumInv'
  BY UnsummedIsSummed, RecordsKeep DEF Listed, Summed, Unsummed

\* The operation is the same but for where the file lies and who waits.
LEMMA SummedStays ==
  ASSUME IInv, SumInv, UNCHANGED items, UNCHANGED late, op # None,
         op'.kind = op.kind, op'.id = op.id, op'.step = op.step, op'.file = op.file,
         op'.path = op.path, op.step = "open" => op'.lies = op.lies
  PROVE  SumInv'
  <1>1. PICK i : i = op.id
    OBVIOUS
  <1>2. CASE op.kind = "quarantine" /\ i \notin late
    <2>1. CASE op.step = "open"
      <3>1. SameFile' => SameFile
        BY <2>1 DEF SameFile
      <3> QED
        BY <1>1, <1>2, <2>1, <3>1, ItemsStay DEF SumInv, Summed
    <2>2. CASE op.step # "open"
      BY <1>1, <1>2, <2>2, ItemsStay DEF SumInv, Summed
    <2> QED
      BY <2>1, <2>2
  <1>3. CASE ~(op.kind = "quarantine" /\ i \notin late)
    BY <1>1, <1>3, ItemsStay DEF Summed
  <1> QED
    BY <1>2, <1>3

LEMMA CustomerSums == IInv /\ SumInv /\ Customer => SumInv'
  <1> SUFFICES ASSUME IInv, SumInv, Customer PROVE SumInv'
    OBVIOUS
  <1>1. ASSUME UNCHANGED <<items, late>>,
               \/ op' = op
               \/ /\ op # None /\ op.step \in {"move", "same", "unlink"}
                  /\ \E x \in Paths \cup {None} : op' = [op EXCEPT !.lies = x]
        PROVE  SumInv'
    <2>1. CASE op' = op
      <3>1. Summed'
        BY <1>1, <2>1 DEF SumInv, Summed, SameFile
      <3> QED
        BY <1>1, <3>1, ItemsStay
    <2>2. CASE /\ op # None /\ op.step \in {"move", "same", "unlink"}
               /\ \E x \in Paths \cup {None} : op' = [op EXCEPT !.lies = x]
      BY <1>1, <2>2, LiesElsewhere, SummedStays DEF IInv
    <2> QED
      BY <1>1, <2>1, <2>2
  <1>2. ASSUME NEW p \in Paths, \/ Remove(p) \/ \E f \in Files \cup Links : Put(p, f)
                                \/ \E f \in Files : Write(p, f)
        PROVE  SumInv'
    <2>1. UNCHANGED <<items, late>> /\ (op' = op \/ (Held(p) /\ op' = [op EXCEPT !.lies = None]))
      BY <1>2 DEF Remove, Put, Write, store
    <2> QED
      BY <1>1, <2>1 DEF Held
  <1>3. ASSUME NEW p \in Paths, NEW q \in Paths, Rename(p, q) PROVE SumInv'
    <2>1. /\ UNCHANGED <<items, late>>
          /\ \/ op' = op
             \/ (Held(p) \/ Held(q)) /\ \E x \in {None, q} : op' = [op EXCEPT !.lies = x]
      BY <1>3 DEF Rename, store
    <2> QED
      BY <1>1, <2>1 DEF Held
  <1>4. ASSUME NEW i \in Ids, NEW f \in Files, WriteAside(i, f) PROVE SumInv'
    <2>1. items' = [items EXCEPT ![i].file = f] /\ late' = late \cup {i} /\ UNCHANGED op
      BY <1>4 DEF WriteAside
    <2>2. \A k \in Ids \ {i} : items'[k] = items[k]
      BY <2>1 DEF IInv, TypeOK
    <2>3. Summed'
      <3>1. op # None /\ op.kind = "quarantine" /\ op.step \in {"same", "unlink", "open", "record"}
              => op.id \in Ids
        BY DEF IInv, Asides, Bare
      <3>2. PICK k : k = op.id
        OBVIOUS
      <3>3. CASE k = i
        BY <2>1, <3>2, <3>3 DEF Summed
      <3>4. CASE k # i
        BY <2>1, <2>2, <3>1, <3>2, <3>4 DEF SumInv, Summed, SameFile
      <3> QED
        BY <3>3, <3>4
    <2> QED
      BY <2>1, <2>2, <2>3, RecordsKeep DEF Listed
  <1> QED
    BY <1>2, <1>3, <1>4 DEF Customer

LEMMA MoveSums == IInv /\ SumInv /\ (Move \/ Copy) => SumInv'
  <1> SUFFICES ASSUME IInv, SumInv, Move \/ Copy PROVE SumInv'
    OBVIOUS
  <1>1. op # None /\ op \in Op /\ op.kind = "quarantine" /\ op.step = "move"
    BY OpFacts DEF Move, Copy, At, IInv
  <1>2. CASE NoFolder /\ UNCHANGED late
    <2>1. op' = None
      BY <1>1, <1>2, AnswerEnds DEF NoFolder, States
    <2>2. Summed'
      BY <2>1 DEF Summed
    <2> QED
      BY <1>2, <2>2, ItemsStay DEF NoFolder
  <1>3. PICK n : n = NewId
    OBVIOUS
  <1>4. ASSUME Folder, NEW f \in Things \cup {None}, NEW s \in {"open", "same"},
               items' = [items EXCEPT ![NewId] = [NoItem EXCEPT !.file = f]],
               op' = [op EXCEPT !.id = NewId, !.step = s],
               late \subseteq late', late' \subseteq late \cup {NewId},
               n \notin late' /\ (s = "open" => SameFile) => f = op.file
        PROVE  SumInv'
    <2>1. n \in Ids
      BY <1>3, <1>4, NewItem
    <2> DEFINE new == [NoItem EXCEPT !.file = f]
    <2>2. new.path = None /\ new.file = f
      BY <1>1, <1>4, ItemRecords, OpFacts DEF IInv
    <2> HIDE DEF new
    <2>3. items' = [items EXCEPT ![n] = new] /\ items \in [Ids -> Item \cup {None}]
      BY <1>3, <1>4 DEF new, IInv, TypeOK
    <2>4. items'[n] = new /\ \A k \in Ids \ {n} : items'[k] = items[k]
      BY <2>1, <2>3
    <2>5. /\ op'.step = s /\ op'.id = n /\ op'.lies = op.lies /\ op'.path = op.path
          /\ op'.file = op.file
      BY <1>1, <1>3, <1>4 DEF Op
    <2>6. SameFile' => SameFile
      BY <2>5 DEF SameFile
    <2>7. Summed'
      BY <1>4, <2>2, <2>4, <2>5, <2>6 DEF Summed
    <2> QED
      BY <1>3, <1>4, <2>2, <2>4, <2>7, RecordsKeep DEF Listed
  <1>5. CASE /\ Folder /\ items' = [items EXCEPT ![NewId] = [NoItem EXCEPT !.file = at[op.path]]]
             /\ op' = [op EXCEPT !.id = NewId, !.step = "open"]
             /\ late' = IF SameFile /\ at[op.path] # op.file THEN late \cup {NewId} ELSE late
    <2>1. at[op.path] \in Things \cup {None}
      BY <1>1, OpFacts DEF IInv
    <2>2. n \notin late' /\ SameFile => at[op.path] = op.file
      BY <1>3, <1>5
    <2>3. late \subseteq late' /\ late' \subseteq late \cup {NewId}
      BY <1>5
    <2> QED
      BY <1>4, <1>5, <2>1, <2>2, <2>3
  <1>6. CASE /\ Folder /\ items' = [items EXCEPT ![NewId] = [NoItem EXCEPT !.file = Content]]
             /\ op' = [op EXCEPT !.id = NewId, !.step = "same"]
             /\ late' = IF Content # op.file THEN late \cup {NewId} ELSE late
    <2>1. Content \in Things \cup {None}
      BY <1>1, OpFacts DEF Content, IInv, TypeOK
    <2>2. n \notin late' => Content = op.file
      BY <1>3, <1>6
    <2>3. late \subseteq late' /\ late' \subseteq late \cup {NewId}
      BY <1>6
    <2> QED
      BY <1>4, <1>6, <2>1, <2>2, <2>3
  <1> QED
    BY <1>2, <1>5, <1>6 DEF Move, Copy

LEMMA AsideSums == IInv /\ SumInv /\ (Same \/ Unlink \/ OpenMoved \/ Record) => SumInv'
  <1> SUFFICES ASSUME IInv, SumInv, Same \/ Unlink \/ OpenMoved \/ Record PROVE SumInv'
    OBVIOUS
  <1>1. /\ op # None /\ op \in Op /\ op.kind = "quarantine" /\ Bare(op.id) /\ op.id \in Ids
        /\ items[op.id] \in Item /\ items \in [Ids -> Item \cup {None}]
    BY OpFacts DEF Same, Unlink, OpenMoved, Record, At, IInv, TypeOK, Asides, Bare
  <1>2. PICK i \in Ids : i = op.id
    BY <1>1
  <1>3. CASE GiveUp /\ UNCHANGED late
    <2>1. /\ op' = None /\ \A k \in Ids \ {i} : items'[k] = items[k]
          /\ UNCHANGED items \/ items'[i] = None
      BY <1>1, <1>2, <1>3, GiveUpFacts
    <2>2. Unsummed'
      BY <2>1 DEF Unsummed
    <2> QED
      BY <1>3, <2>1, <2>2, ItemGoes
  <1>4. CASE Same /\ Goto("unlink") /\ UNCHANGED <<items, late>>
    <2>1. op.step = "same"
      BY <1>4 DEF Same, At
    <2>2. /\ op' # None /\ op'.step = "unlink" /\ op'.id = op.id /\ op'.file = op.file
          /\ op'.path = op.path /\ op'.kind = op.kind
      BY <1>1, <1>4, GotoFacts DEF IInv, OpSteps
    <2>3. Summed'
      BY <1>1, <1>2, <1>4, <2>1, <2>2 DEF SumInv, Summed
    <2> QED
      BY <1>4, <2>3, ItemsStay
  <1>5. CASE Unlink /\ Goto("open") /\ UNCHANGED <<items, late>>
    <2>1. op.step = "unlink"
      BY <1>5 DEF Unlink, At
    <2>2. /\ op' # None /\ op'.step = "open" /\ op'.id = op.id /\ op'.file = op.file
          /\ op'.path = op.path /\ op'.kind = op.kind
      BY <1>1, <1>5, GotoFacts DEF IInv, OpSteps
    <2>3. Summed'
      BY <1>1, <1>2, <1>5, <2>1, <2>2 DEF SumInv, Summed
    <2> QED
      BY <1>5, <2>3, ItemsStay
  <1>6. CASE /\ OpenMoved /\ UNCHANGED items
             /\ op' = [op EXCEPT !.step = "record",
                                 !.file = IF SameFile THEN @ ELSE items[op.id].file]
             /\ late' = IF SameFile THEN late ELSE late \ {op.id}
    <2>1. op.step = "open"
      BY <1>6 DEF OpenMoved, At
    <2>2. /\ op'.step = "record" /\ op'.id = op.id
          /\ op'.file = IF SameFile THEN op.file ELSE items[op.id].file
      BY <1>1, <1>6 DEF Op
    <2>3. Summed'
      <3>1. CASE SameFile
        BY <1>1, <1>2, <1>6, <2>1, <2>2, <3>1 DEF SumInv, Summed
      <3>2. CASE ~SameFile
        BY <1>1, <1>2, <1>6, <2>2, <3>2 DEF Summed
      <3> QED
        BY <3>1, <3>2
    <2>4. \A k \in Ids : Listed(k)' => Listed(k) /\ k # i
      BY <1>1, <1>2, <1>6 DEF Listed, Bare
    <2>5. \A k \in Ids : k # i /\ k \notin late' => k \notin late
      BY <1>2, <1>6
    <2> QED
      BY <1>6, <2>3, <2>4, <2>5, RecordsKeep
  <1>7. CASE Answer("failed", None) /\ UNCHANGED <<items, late>>
    <2>1. op' = None
      BY <1>1, <1>7, AnswerEnds DEF States
    <2>2. Summed'
      BY <2>1 DEF Summed
    <2> QED
      BY <1>7, <2>2, ItemsStay
  <1>8. CASE /\ Record /\ UNCHANGED late /\ Answer("quarantined", op.id)
             /\ items' = [items EXCEPT ![op.id] = [@ EXCEPT !.sum = op.file, !.path = op.path,
                                                            !.job = op.job]]
    <2>1. op.step = "record"
      BY <1>8 DEF Record, At
    <2> DEFINE it == [items[op.id] EXCEPT !.sum = op.file, !.path = op.path, !.job = op.job]
    <2>2. it.sum = op.file /\ it.file = items[op.id].file
      BY <1>1 DEF Item
    <2>3. items' = [items EXCEPT ![i] = it]
      BY <1>1, <1>2, <1>8
    <2> HIDE DEF it
    <2>4. items'[i] = it /\ \A k \in Ids \ {i} : items'[k] = items[k]
      BY <1>1, <1>2, <2>3
    <2>5. i \notin late => items[i].file = op.file
      BY <1>1, <1>2, <2>1 DEF SumInv, Summed
    <2>6. Summed'
      <3>1. op' = None
        BY <1>1, <1>8, AnswerEnds DEF States
      <3> QED
        BY <3>1 DEF Summed
    <2> QED
      BY <1>2, <1>8, <2>2, <2>4, <2>5, <2>6, RecordsKeep DEF Listed
  <1> QED
    BY <1>3, <1>4, <1>5, <1>6, <1>7, <1>8 DEF Same, Unlink, OpenMoved, Record, tales

LEMMA BackSums ==
  ASSUME IInv, SumInv, PutBack \/ CopyBack \/ Clear \/ Delete \/ Forget
  PROVE  SumInv'
  <1>1. /\ op # None /\ op \in Op /\ op.kind \in {"restore", "delete"} /\ op.id \in Ids
        /\ items \in [Ids -> Item \cup {None}] /\ UNCHANGED late
    BY OpFacts DEF PutBack, CopyBack, Clear, Delete, Forget, At, IInv, TypeOK, Backs, tales
  <1>2. Unsummed'
    <2>1. CASE \E s \in OpSteps : Goto(s)
      <3>1. op'.kind = op.kind
        BY <1>1, <2>1, GotoFacts DEF IInv
      <3> QED
        BY <1>1, <3>1 DEF Unsummed
    <2>2. CASE \E s \in States : Answer(s, None)
      <3>1. op' = None
        BY <1>1, <2>2, AnswerEnds
      <3> QED
        BY <3>1 DEF Unsummed
    <2> QED
      BY <1>1, <2>1, <2>2 DEF PutBack, CopyBack, Clear, Delete, Forget, OpSteps, States
  <1>3. CASE UNCHANGED items
    BY <1>1, <1>2, <1>3, UnsummedIsSummed, ItemsStay DEF Unsummed, Summed
  <1>4. CASE items' = [items EXCEPT ![op.id].file = None] /\ items[op.id] # None
    <2>1. None \in Things \cup {None}
      OBVIOUS
    <2>2. items'[op.id].file = None /\ \A k \in Ids \ {op.id} : items'[k] = items[k]
      BY <1>1, <1>4, <2>1, FileChange
    <2> QED
      BY <1>1, <1>2, <2>2, ItemGoes
  <1>5. CASE Forget
    BY <1>1, <1>2, <1>3, <1>5, Forgotten, ItemGoes
  <1>6. op.step # "start" => items[op.id] # None
    BY <1>1 DEF IInv, Backs, Listed
  <1> QED
    BY <1>3, <1>4, <1>5, <1>6 DEF PutBack, CopyBack, Clear, Delete, Listed, At, store

LEMMA SumStep == IInv /\ SumInv /\ [Next]_vars => SumInv'
  <1> SUFFICES ASSUME IInv, SumInv, [Next]_vars PROVE SumInv'
    OBVIOUS
  <1>1. CASE Customer
    BY <1>1, CustomerSums
  <1>2. CASE Move \/ Copy \/ Same \/ Unlink \/ OpenMoved \/ Record \/ PutBack \/ CopyBack \/ Clear
             \/ Delete \/ Forget
    BY <1>2, MoveSums, AsideSums, BackSums
  <1>3. CASE Open \/ Restore \/ Own \/ WhiteAdd \/ WhiteDrop
    <2>1. /\ op # None /\ op \in Op /\ UNCHANGED items /\ UNCHANGED late
          /\ Open \/ op.kind # "quarantine"
      BY <1>3, OpFacts DEF Open, Restore, Own, WhiteAdd, WhiteDrop, At, IInv, store, tales
    <2>2. Summed'
      <3>1. CASE \E s \in States : Answer(s, None)
        <4>1. op' = None
          BY <2>1, <3>1, AnswerEnds
        <4> QED
          BY <4>1 DEF Summed
      <3>2. CASE op' = [op EXCEPT !.file = at[op.path], !.lies = op.path, !.step = "move"]
        <4>1. op'.step = "move"
          BY <2>1, <3>2 DEF Op
        <4> QED
          BY <4>1 DEF Summed
      <3>3. CASE (\E s \in OpSteps : Goto(s)) /\ op.kind # "quarantine"
        <4>1. op'.kind # "quarantine"
          BY <2>1, <3>3, GotoFacts DEF IInv
        <4> QED
          BY <4>1 DEF Summed
      <3> QED
        BY <1>3, <2>1, <3>1, <3>2, <3>3
        DEF Open, Restore, Own, WhiteAdd, WhiteDrop, At, States, OpSteps
    <2> QED
      BY <2>1, <2>2, ItemsStay
  <1>4. CASE (\E j \in Jobs : Isolate(j)) \/ Send
    <2>1. UNCHANGED <<items, late>> /\ op'.step = "start"
      BY <1>4 DEF Isolate, Send, Call, store, tales
    <2> QED
      BY <2>1, ItemsStay DEF Summed
  <1>5. CASE \/ \E j \in Jobs : Scan(j) \/ Amend(j)
             \/ AskItem \/ AskThreat \/ AskUnwhite \/ Judge \/ Told
             \/ UNCHANGED vars
    <2>1. UNCHANGED <<items, late, op>>
      BY <1>5 DEF Scan, Amend, AskItem, AskThreat, AskUnwhite, Request, Judge, Told, vars, store,
         tales
    <2> QED
      BY <2>1, ItemsStay DEF SumInv, Summed, SameFile
  <1>6. CASE Dropped \/ PanelDies \/ ServerDies \/ HelperDies
    <2>1. UNCHANGED items /\ UNCHANGED late
      BY <1>6 DEF Dropped, PanelDies, ServerDies, HelperDies, PanelStops, store, tales
    <2>2. CASE op' = None \/ op' = op
      BY <2>1, <2>2, ItemsStay DEF SumInv, Summed, SameFile
    <2>3. CASE op # None /\ op' = [op EXCEPT !.by = None]
      <3>1. op \in Op
        BY <2>3, OpFacts DEF IInv
      <3>2. /\ op'.step = op.step /\ op'.id = op.id /\ op'.path = op.path /\ op'.lies = op.lies
            /\ op'.kind = op.kind /\ op'.file = op.file
        BY <2>3, <3>1 DEF Op
      <3> QED
        BY <2>1, <2>3, <3>2, SummedStays
    <2> QED
      BY <1>6, <2>2, <2>3 DEF Dropped, PanelDies, ServerDies, HelperDies, Again, Orphaned
  <1> QED
    BY <1>1, <1>2, <1>3, <1>4, <1>5, <1>6 DEF Next, HelperStep

\* What the record of an item says of its content is true of the file that is stored: it is of
\* what the helper had opened, or of what was moved instead of that, unless somebody wrote to it.
THEOREM TrueRecords == Spec => []RecordIsTheFile
  <1>1. Init => SumInv
    BY DEF Init, SumInv, RecordIsTheFile, Listed, Summed
  <1>2. IInv /\ SumInv /\ [Next]_vars => SumInv'
    BY SumStep
  <1>3. SumInv => RecordIsTheFile
    BY DEF SumInv
  <1> QED
    BY <1>1, <1>2, <1>3, Inductive, PTL DEF Spec

-----------------------------------------------------------------------------
(* What is shown as set aside is there.                                     *)

\* The administrator's request has had its item put back or deleted.
Done == adm # None /\ adm.id \in Ids
        /\ (adm.kind = "judge" \/ (adm.step = "told" /\ ~Failed))

Kept(i) == Listed(i) \/ i \in untold \/ (Done /\ adm.id = i)

\* Item i was made for job j, and is there, or what is not told of it will be.
Fine(j, i) ==
  /\ Given(i) /\ Kept(i)
  /\ Listed(i) => items[i].job = j
  /\ adm # None /\ adm.id = i => adm.job = j

\* What job j is told of a file that is set aside.
Sound(j, t) == t # None /\ t.state = "quarantined" =>
  t.id \in Ids /\ \A i \in Ids : t.id = i => Fine(j, i)

Told1 == \A j \in Jobs, p \in Paths : Sound(j, threats[j][p]) /\ Sound(j, worker[j].got[p])

\* What an administrator is told.
Outs == adm # None /\ adm.step = "told" =>
  /\ adm.kind \in {"restore", "fine"}    => adm.out.state \in {"restored", "failed"}
  /\ adm.kind = "delete"                 => adm.out.state \in {"deleted", "failed"}
  /\ adm.kind \in {"judge", "whitelist"} => adm.out.state \in {"whitelisted", "failed"}
  /\ adm.kind = "quarantine" => /\ adm.out.state \notin {"restored", "deleted"}
                                /\ Sound(adm.job, adm.out)

\* For whom the helper is at it; when for nobody any more, nobody is told of the item.
OnBehalf == op # None =>
  /\ op.by = "admin" =>
       /\ op.kind = "restore"    => adm.kind \in {"restore", "fine"}
       /\ op.kind = "delete"     => adm.kind = "delete"
       /\ op.kind = "add"        => adm.kind \in {"judge", "whitelist"}
       /\ op.kind = "drop"       => adm.kind = "unwhitelist"
       /\ op.kind = "quarantine" => adm.kind = "quarantine"
       /\ op.kind \in {"restore", "delete"} => op.id = adm.id
       /\ op.kind = "quarantine" => op.job = adm.job
  /\ op.by \in Jobs => op.job = op.by
  /\ op.by = None /\ op.kind \in {"restore", "delete"} => op.id \in untold

AsideInv == Told1 /\ Outs /\ OnBehalf

\* How an operation of a kind may end, but for what is set aside and on record.
Ends(kind) ==
  CASE kind = "quarantine" -> {"missing", "failed", "whitelisted", "left"}
    [] kind = "restore"    -> {"restored", "failed"}
    [] kind = "delete"     -> {"deleted", "failed"}
    [] kind = "add"        -> {"whitelisted", "failed"}
    [] kind = "drop"       -> {"deleted", "failed"}

\* An item that is fine stays fine unless it is forgotten behind everybody's back.
LEMMA FineStays ==
  ASSUME IInv, Settled, NEW j \in Jobs, NEW i \in Ids, Fine(j, i), Kept(i)',
         adm' # None /\ adm'.id = i =>
           \/ adm # None /\ adm'.id = adm.id /\ adm'.job = adm.job
           \/ Listed(i) /\ adm'.job = items[i].job
  PROVE  Fine(j, i)'
  <1>1. Given(i)' /\ (Listed(i)' => items'[i].job = j)
    BY DEF Settled, Fine
  <1>2. adm' # None /\ adm'.id = i => adm'.job = j
    BY DEF Fine
  <1> QED
    BY <1>1, <1>2 DEF Fine

\* No item goes out of the record but by the last step of what puts it back or deletes it.
LEMMA ListedStays ==
  ASSUME IInv, [Next]_vars, ~Forget
  PROVE  \A i \in Ids : Listed(i) => Listed(i)'
  <1>0. items \in [Ids -> Item \cup {None}]
    BY DEF IInv, TypeOK
  <1>1. CASE UNCHANGED items
    BY <1>1 DEF Listed
  <1>2. ASSUME NEW n \in Ids, ~Listed(n), \A k \in Ids \ {n} : items'[k] = items[k]
        PROVE  \A i \in Ids : Listed(i) => Listed(i)'
    BY <1>2 DEF Listed
  <1>3. ASSUME NEW n \in Ids, items[n] # None, NEW f \in Things \cup {None},
               items' = [items EXCEPT ![n].file = f]
        PROVE  \A i \in Ids : Listed(i) => Listed(i)'
    BY <1>3, FileChange DEF Listed
  <1>4. CASE Move \/ Copy
    <2>1. UNCHANGED items \/ (Folder /\ \E new : items' = [items EXCEPT ![NewId] = new])
      BY <1>4 DEF Move, Copy, NoFolder
    <2>2. CASE Folder /\ \E new : items' = [items EXCEPT ![NewId] = new]
      <3>1. PICK n \in Ids : n = NewId /\ items[n] = None
        BY <2>2, NewItem
      <3>2. \A k \in Ids \ {n} : items'[k] = items[k]
        BY <1>0, <2>2, <3>1
      <3> QED
        BY <1>2, <3>1, <3>2 DEF Listed
    <2> QED
      BY <1>1, <2>1, <2>2
  <1>5. CASE Same \/ Unlink \/ OpenMoved \/ Record
    <2>1. op # None /\ Bare(op.id)
      BY <1>5 DEF Same, Unlink, OpenMoved, Record, At, IInv, Asides
    <2>2. UNCHANGED items \/ \E new : items' = [items EXCEPT ![op.id] = new]
      BY <1>5 DEF Same, Unlink, OpenMoved, Record, GiveUp
    <2>3. PICK n \in Ids : n = op.id /\ ~Listed(n)
      BY <2>1 DEF Bare, Listed
    <2> QED
      BY <1>0, <1>1, <1>2, <2>2, <2>3
  <1>6. CASE PutBack \/ CopyBack \/ Clear \/ Delete
    <2>1. None \in Things \cup {None}
      OBVIOUS
    <2>2. op # None /\ op.id \in Ids /\ (op.step # "start" => items[op.id] # None)
      BY <1>6 DEF PutBack, CopyBack, Clear, Delete, At, IInv, Backs, Listed
    <2>3. UNCHANGED items \/ (items[op.id] # None /\ items' = [items EXCEPT ![op.id].file = None])
      BY <1>6, <2>2 DEF PutBack, CopyBack, Clear, Delete, At, Listed, store
    <2> QED
      BY <1>1, <1>3, <2>1, <2>2, <2>3
  <1>7. CASE Open \/ Restore \/ Own \/ WhiteAdd \/ WhiteDrop
    BY <1>1, <1>7 DEF Open, Restore, Own, WhiteAdd, WhiteDrop, store
  <1>8. CASE Customer
    <2>1. UNCHANGED items \/ \E i \in Ids, f \in Files :
            items[i] # None /\ items' = [items EXCEPT ![i].file = f]
      BY <1>8 DEF Customer, Remove, Put, Write, Rename, WriteAside, Theirs, store
    <2> QED
      BY <1>1, <1>3, <2>1 DEF Things
  <1>9. CASE \/ \E j \in Jobs : Scan(j) \/ Isolate(j) \/ Amend(j)
             \/ AskItem \/ AskThreat \/ AskUnwhite \/ Send \/ Judge \/ Told
             \/ Dropped \/ PanelDies \/ ServerDies \/ HelperDies \/ UNCHANGED vars
    BY <1>1, <1>9 DEF Scan, Isolate, Amend, AskItem, AskThreat, AskUnwhite, Request, Send, Judge,
       Told, Dropped, PanelDies, ServerDies, HelperDies, PanelStops, vars, store
  <1> QED
    BY <1>4, <1>5, <1>6, <1>7, <1>8, <1>9 DEF Next, HelperStep

\* The administrator and the scans are told nothing, and what the helper is at goes on.
LEMMA QuietAsides ==
  ASSUME IInv, IInv', AsideInv, Settled, \A i \in Ids : Listed(i) => Listed(i)',
         UNCHANGED threats, untold \subseteq untold', Done => adm' = adm \/ adm.id \in untold',
         adm' = adm \/ adm' = None,
         \A j \in Jobs, p \in Paths :
           worker'[j].got[p] = worker[j].got[p] \/ worker'[j].got[p] = None,
         op' # None =>
           /\ op # None /\ op'.kind = op.kind /\ op'.job = op.job
           /\ op.kind \in {"restore", "delete"} => op'.id = op.id
           /\ \/ op'.by = op.by /\ (op.by = "admin" => adm' = adm)
              \/ op'.by = None /\ (op.by = "admin" => Meant \subseteq untold')
  PROVE  AsideInv'
  <1>1. ASSUME NEW j \in Jobs, NEW i \in Ids, Fine(j, i) PROVE Fine(j, i)'
    <2>1. Kept(i)
      BY <1>1 DEF Fine
    <2>2. CASE Listed(i) \/ i \in untold
      <3>1. Kept(i)'
        BY <2>2 DEF Kept
      <3> QED
        BY <1>1, <3>1, FineStays
    <2>3. CASE Done /\ adm.id = i
      <3>1. Kept(i)'
        BY <2>3 DEF Kept, Done, Failed
      <3> QED
        BY <1>1, <3>1, FineStays
    <2> QED
      BY <2>1, <2>2, <2>3 DEF Kept
  <1>2. Told1'
    BY <1>1 DEF AsideInv, Told1, Sound
  <1>3. Outs'
    <2>1. CASE adm' = None
      BY <2>1 DEF Outs
    <2>2. CASE adm' = adm /\ adm # None /\ adm.step = "told"
      <3>1. adm.kind = "quarantine" => adm.job \in Jobs
        BY <2>2 DEF IInv, Asked
      <3> QED
        BY <1>1, <2>2, <3>1 DEF AsideInv, Outs, Sound
    <2>3. CASE adm' = adm /\ ~(adm # None /\ adm.step = "told")
      BY <2>3 DEF Outs
    <2> QED
      BY <2>1, <2>2, <2>3
  <1>4. OnBehalf'
    <2> SUFFICES ASSUME op' # None PROVE OnBehalf'
      BY DEF OnBehalf
    <2>1. CASE op'.by = op.by /\ (op.by = "admin" => adm' = adm)
      BY <2>1 DEF AsideInv, OnBehalf
    <2>2. CASE op'.by = None /\ (op.by = "admin" => Meant \subseteq untold')
      <3>1. op.by \in Jobs \cup {"admin", None} /\ op.id \in Ids \cup {None}
        BY OpFacts DEF IInv
      <3>2. op.by = "admin" /\ op.kind \in {"restore", "delete"} => op.id \in untold'
        <4> SUFFICES ASSUME op.by = "admin", op.kind \in {"restore", "delete"}
                     PROVE  op.id \in untold'
          OBVIOUS
        <4>1. adm # None /\ adm.step = "wait" /\ op.id = adm.id /\ op.id \in Ids
          BY DEF IInv, Callers, Backs, AsideInv, OnBehalf
        <4>2. adm.id \in Meant
          BY <4>1, NoneIsNo DEF Meant
        <4> QED
          BY <2>2, <4>1, <4>2
      <3>3. op.by \in Jobs => op.kind = "quarantine"
        BY DEF IInv, Callers
      <3>4. op.by = None /\ op.kind \in {"restore", "delete"} => op.id \in untold'
        BY DEF AsideInv, OnBehalf
      <3>5. op'.kind \in {"restore", "delete"} => op'.id \in untold'
        BY <3>1, <3>2, <3>3, <3>4
      <3> QED
        BY <2>2, <3>5, NoneIsNo DEF OnBehalf
    <2> QED
      BY <2>1, <2>2
  <1> QED
    BY <1>2, <1>3, <1>4 DEF AsideInv

LEMMA AnswerDone ==
  ASSUME IInv, op # None, NEW state \in States, NEW id \in Ids \cup {None}, Answer(state, id),
         op.by \in Jobs => state \notin {"restored", "deleted"}, Done
  PROVE  Done' /\ adm'.id = adm.id
  <1>1. CASE op.by # "admin"
    <2>1. adm' = adm
      BY <1>1, AnswerFacts
    <2> QED
      BY <2>1 DEF Done, Failed
  <1>2. CASE op.by = "admin"
    <2>1. adm.step = "wait"
      BY <1>2 DEF IInv, Callers
    <2>2. adm.kind = "judge" /\ adm.id \in Ids
      BY <2>1 DEF Done
    <2>3. adm' # None /\ adm'.kind = adm.kind /\ adm'.id = adm.id
      BY <1>2, AnswerFacts
    <2> QED
      BY <2>2, <2>3 DEF Done
  <1> QED
    BY <1>1, <1>2

\* An answer tells what became of the item.
LEMMA AnswerAsides ==
  ASSUME IInv, AsideInv, Settled, op # None, NEW state \in States, NEW id \in Ids \cup {None},
         Answer(state, id), op.by \in Jobs => state \notin {"restored", "deleted"},
         \A i \in Ids : Listed(i) => Kept(i)',
         \/ state \in Ends(op.kind) /\ state # "quarantined"
         \/ /\ op.kind = "quarantine" /\ state = "quarantined" /\ id \in Ids
            /\ Given(id)' /\ Listed(id)' /\ items'[id].job = op.job /\ ~Given(id)
  PROVE  AsideInv'
  <1>1. /\ op' = None /\ UNCHANGED threats /\ untold \subseteq untold'
        /\ op.by # "admin" => adm' = adm
        /\ op.by = "admin" =>
             /\ adm # None /\ adm' # None /\ adm'.kind = adm.kind /\ adm'.id = adm.id
             /\ adm'.job = adm.job
    BY AnswerFacts
  <1>2. ASSUME NEW j \in Jobs, NEW i \in Ids, Fine(j, i) PROVE Fine(j, i)'
    <2>1. Kept(i)
      BY <1>2 DEF Fine
    <2>2. Kept(i)'
      BY <1>1, <2>1, AnswerDone DEF Kept
    <2>3. adm' # None /\ adm'.id = i => adm # None /\ adm'.id = adm.id /\ adm'.job = adm.job
      BY <1>1
    <2> QED
      BY <1>2, <2>2, <2>3, FineStays
  <1> DEFINE out == [state |-> state, id |-> id]
  <1>3. out.state = state /\ out.id = id
    OBVIOUS
  <1> HIDE DEF out
  <1>4. ASSUME NEW j \in Jobs, op.job = j, state = "quarantined" PROVE Fine(j, id)'
    <2>1. id \in Ids /\ Given(id)' /\ Listed(id)' /\ items'[id].job = j /\ ~Given(id)
      BY <1>4 DEF Ends
    <2>2. adm # None => adm.id # id
      BY <2>1 DEF IInv, Asked
    <2>3. adm' # None => adm'.id # id
      BY <1>1, <2>2
    <2> QED
      BY <2>1, <2>3 DEF Fine, Kept
  <1>5. CASE Reply(state, id)
    <2>1. /\ \A j \in Jobs, p \in Paths :
               worker'[j].got[p] = worker[j].got[p] \/ (j = op.by /\ worker'[j].got[p] = out)
          /\ op.by = "admin" => adm'.step = "told" /\ adm'.out = out
      BY <1>5, ReplyFacts DEF out
    <2>2. op.by \in Jobs => op.job = op.by
      BY DEF AsideInv, OnBehalf
    <2>3. ASSUME NEW j \in Jobs, op.job = j PROVE Sound(j, out)'
      <3>1. state = "quarantined" => id \in Ids
        BY DEF Ends
      <3>2. ASSUME NEW i \in Ids, state = "quarantined", id = i PROVE Fine(j, i)'
        BY <1>4, <2>3, <3>2
      <3>3. out' = out
        BY DEF out
      <3> QED
        BY <1>3, <3>1, <3>2, <3>3 DEF Sound
    <2>4. Told1'
      <3> SUFFICES ASSUME NEW j \in Jobs, NEW p \in Paths
                   PROVE  Sound(j, threats[j][p])' /\ Sound(j, worker[j].got[p])'
        BY DEF Told1
      <3>1. Sound(j, threats[j][p]) /\ Sound(j, worker[j].got[p])
        BY DEF AsideInv, Told1
      <3>2. Sound(j, threats[j][p])'
        BY <1>1, <1>2, <3>1 DEF Sound
      <3>3. CASE worker'[j].got[p] = worker[j].got[p]
        BY <1>2, <3>1, <3>2, <3>3 DEF Sound
      <3>4. CASE j = op.by /\ worker'[j].got[p] = out
        <4>1. Sound(j, out)'
          BY <2>2, <2>3, <3>4
        <4> QED
          BY <3>2, <3>4, <4>1 DEF Sound, out
      <3> QED
        BY <2>1, <3>3, <3>4
    <2>5. Outs'
      <3>1. CASE op.by = "admin"
        <4>1. adm.kind = "quarantine" => adm.job \in Jobs
          BY <1>1, <3>1 DEF IInv, Asked
        <4>2. /\ op.kind \in OpKinds
              /\ op.kind = "restore"    => adm.kind \in {"restore", "fine"}
              /\ op.kind = "delete"     => adm.kind = "delete"
              /\ op.kind = "add"        => adm.kind \in {"judge", "whitelist"}
              /\ op.kind = "drop"       => adm.kind = "unwhitelist"
              /\ op.kind = "quarantine" => adm.kind = "quarantine" /\ op.job = adm.job
          BY <3>1, OpFacts DEF IInv, AsideInv, OnBehalf
        <4>3. adm.kind = "quarantine" => op.kind = "quarantine" /\ op.job = adm.job
          BY <4>2 DEF OpKinds
        <4>4. /\ adm.kind \in {"restore", "fine"}    => state \in {"restored", "failed"}
              /\ adm.kind = "delete"                 => state \in {"deleted", "failed"}
              /\ adm.kind \in {"judge", "whitelist"} => state \in {"whitelisted", "failed"}
              /\ adm.kind = "quarantine" => state \notin {"restored", "deleted"}
          BY <4>2 DEF OpKinds, Ends
        <4>5. adm.kind = "quarantine" => Sound(adm.job, out)'
          <5> SUFFICES ASSUME adm.kind = "quarantine" PROVE Sound(adm.job, out)'
            OBVIOUS
          <5>1. PICK j \in Jobs : j = adm.job
            BY <4>1
          <5>2. Sound(j, out)'
            BY <2>3, <4>3, <5>1
          <5> QED
            BY <1>1, <3>1, <5>1, <5>2 DEF Sound
        <4>6. adm'.out.state = state
          BY <1>3, <2>1, <3>1
        <4>7. adm'.kind = "quarantine" => Sound(adm.job, adm.out)'
          BY <1>1, <2>1, <3>1, <4>5 DEF Sound, out
        <4> QED
          BY <1>1, <3>1, <4>4, <4>6, <4>7 DEF Outs
      <3>2. CASE op.by # "admin"
        <4>1. adm # None /\ adm.kind = "quarantine" => adm.job \in Jobs
          BY DEF IInv, Asked
        <4> QED
          BY <1>1, <1>2, <3>2, <4>1 DEF AsideInv, Outs, Sound
      <3> QED
        BY <3>1, <3>2
    <2> QED
      BY <1>1, <2>4, <2>5 DEF AsideInv, OnBehalf
  <1>6. CASE ReplyLost
    <2>1. Again
      BY <1>6 DEF ReplyLost
    <2>2. UNCHANGED worker /\ (op.by = "admin" => adm'.step = "ask")
      BY <2>1, AgainFacts
    <2>3. Told1'
      BY <1>1, <1>2, <2>2 DEF AsideInv, Told1, Sound
    <2>4. Outs'
      <3>1. adm # None /\ adm.kind = "quarantine" => adm.job \in Jobs
        BY DEF IInv, Asked
      <3> QED
        BY <1>1, <1>2, <2>2, <3>1 DEF AsideInv, Outs, Sound
    <2> QED
      BY <1>1, <2>3, <2>4 DEF AsideInv, OnBehalf
  <1> QED
    BY <1>5, <1>6 DEF Answer

LEMMA HelperAsides == IInv /\ IInv' /\ Settled /\ AsideInv /\ HelperStep => AsideInv'
  <1> SUFFICES ASSUME IInv, IInv', Settled, AsideInv, HelperStep PROVE AsideInv'
    OBVIOUS
  <1>1. op # None /\ op \in Op /\ op.kind \in OpKinds
    BY OpFacts
    DEF HelperStep, Open, Move, Copy, Same, Unlink, OpenMoved, Record, Restore, PutBack, CopyBack,
        Clear, Own, Delete, Forget, WhiteAdd, WhiteDrop, At, IInv
  <1>2. op.by \in Jobs => op.kind = "quarantine"
    BY <1>1 DEF IInv, Callers
  <1>3. CASE Forget
    <2>1. /\ op.kind \in {"restore", "delete"} /\ op.id \in Ids /\ UNCHANGED made
          /\ \A k \in Ids \ {op.id} : items'[k] = items[k]
      BY <1>3, Forgotten
    <2>2. PICK s \in {"restored", "deleted", "failed"} :
            /\ Answer(s, None)
            /\ s = "failed" => UNCHANGED items
            /\ op.kind = "restore" => s = "restored"
            /\ op.kind = "delete" => s \in {"deleted", "failed"}
      BY <1>3, Forgotten
    <2>3. s \in States /\ s \in Ends(op.kind) /\ s # "quarantined" /\ op.by \notin Jobs
      BY <1>2, <2>1, <2>2 DEF States, Ends
    <2>4. untold \subseteq untold'
      BY <1>1, <2>2, <2>3, AnswerFacts
    <2>5. ASSUME NEW i \in Ids, Listed(i) PROVE Kept(i)'
      <3>1. CASE i # op.id \/ s = "failed"
        BY <2>1, <2>2, <2>5, <3>1 DEF Kept, Listed
      <3>2. CASE i = op.id /\ s # "failed" /\ ReplyLost
        BY <2>1, <3>2 DEF ReplyLost, Kept
      <3>3. CASE i = op.id /\ s # "failed" /\ Reply(s, None) /\ op.by = "admin"
        <4>1. adm # None /\ op.id = adm.id
          BY <1>1, <2>1, <3>3 DEF IInv, Callers, AsideInv, OnBehalf
        <4>2. /\ adm' # None /\ adm'.step = "told" /\ adm'.out = [state |-> s, id |-> None]
              /\ adm'.id = adm.id
          BY <1>1, <2>3, <3>3, ReplyFacts
        <4>3. adm'.out.state # "failed"
          BY <3>3, <4>2
        <4> QED
          BY <3>3, <4>1, <4>2, <4>3 DEF Kept, Done, Failed
      <3>4. CASE i = op.id /\ op.by = None
        <4>1. i \in untold
          BY <1>1, <2>1, <3>4 DEF AsideInv, OnBehalf
        <4> QED
          BY <2>4, <4>1 DEF Kept
      <3>5. op.by \in {"admin", None}
        BY <1>1, <2>3, OpFacts DEF IInv
      <3> QED
        BY <2>2, <3>1, <3>2, <3>3, <3>4, <3>5 DEF Answer
    <2> QED
      BY <1>1, <2>2, <2>3, <2>5, AnswerAsides
  <1>4. ASSUME ~Forget PROVE \A i \in Ids : Listed(i) => Listed(i)'
    BY <1>4, ListedStays DEF Next
  <1>5. CASE ~Forget /\ UNCHANGED panel /\ \E s \in OpSteps : Goto(s)
    <2>1. /\ op'.kind = op.kind /\ op'.job = op.job /\ op'.id = op.id /\ op'.by = op.by
      BY <1>1, <1>5, GotoFacts DEF IInv
    <2> QED
      BY <1>1, <1>4, <1>5, <2>1, QuietAsides DEF panel
  <1>6. CASE /\ ~Forget /\ UNCHANGED panel /\ op' \in Op /\ op'.kind = op.kind /\ op'.job = op.job
             /\ op'.by = op.by /\ op.kind = "quarantine"
    BY <1>1, <1>4, <1>6, QuietAsides DEF panel
  <1>7. CASE ~Forget /\ \E s \in Ends(op.kind) : s # "quarantined" /\ Answer(s, None)
    <2>1. PICK s \in Ends(op.kind) : s # "quarantined" /\ Answer(s, None)
      BY <1>7
    <2>2. s \in States /\ (op.by \in Jobs => s \notin {"restored", "deleted"})
      BY <1>1, <1>2, <2>1 DEF Ends, OpKinds, States
    <2>3. \A i \in Ids : Listed(i) => Kept(i)'
      BY <1>4, <1>7 DEF Kept
    <2> QED
      BY <1>1, <2>1, <2>2, <2>3, AnswerAsides
  <1>8. CASE Record
    <2>1. op.kind = "quarantine" /\ Bare(op.id) /\ op.job \in Jobs /\ op.path \in Paths
      BY <1>1, <1>8, OpFacts DEF Record, At, IInv, Asides
    <2>2. ~Forget
      BY <2>1 DEF Forget, At
    <2>3. CASE Answer("failed", None)
      BY <1>7, <2>1, <2>2, <2>3 DEF Ends
    <2>4. CASE /\ Answer("quarantined", op.id) /\ UNCHANGED made
               /\ items' = [items EXCEPT ![op.id] = [@ EXCEPT !.sum = op.file, !.path = op.path,
                                                              !.job = op.job]]
      <3>1. PICK i \in Ids : i = op.id /\ items[i] \in Item
        BY <2>1 DEF Bare, IInv, TypeOK
      <3> DEFINE it == [items[op.id] EXCEPT !.sum = op.file, !.path = op.path, !.job = op.job]
      <3>2. it.path = op.path /\ it.job = op.job /\ it # None
        <4>1. op.file \in Things \cup {None}
          BY <1>1, OpFacts DEF IInv
        <4>2. it \in Item /\ it.path = op.path /\ it.job = op.job
          BY <2>1, <3>1, <4>1 DEF Item
        <4> QED
          BY <4>2, NoneIsNo
      <3>3. items' = [items EXCEPT ![i] = it] /\ items \in [Ids -> Item \cup {None}]
        BY <2>4, <3>1 DEF IInv, TypeOK
      <3> HIDE DEF it
      <3>4. items'[i] = it
        BY <3>1, <3>3
      <3>5. Listed(i)' /\ items'[i].job = op.job
        BY <2>1, <3>2, <3>4, NoneIsNo DEF Listed
      <3>6. op' = None
        <4>1. "quarantined" \in States /\ Answer("quarantined", i)
          BY <2>4, <3>1 DEF States
        <4> QED
          BY <1>1, <4>1, AnswerEnds
      <3>7. Given(i)' /\ ~Given(i)
        BY <1>1, <2>1, <2>4, <3>1, <3>6 DEF Given, Bare, IInv, Stored
      <3>8. \A k \in Ids : Listed(k) => Kept(k)'
        BY <1>4, <2>2 DEF Kept
      <3>9. Answer("quarantined", i)
        BY <2>4, <3>1
      <3> QED
        BY <1>1, <2>1, <3>1, <3>5, <3>7, <3>8, <3>9, AnswerAsides DEF States
    <2> QED
      BY <1>8, <2>3, <2>4 DEF Record
  <1>9. CASE Open
    <2>1. op.kind = "quarantine" /\ ~Forget
      BY <1>9 DEF Open, Forget, At
    <2>2. CASE \E s \in {"missing", "failed", "whitelisted", "left"} : Answer(s, None)
      BY <1>7, <2>1, <2>2 DEF Ends
    <2>3. CASE /\ op' = [op EXCEPT !.file = at[op.path], !.lies = op.path, !.step = "move"]
               /\ UNCHANGED panel
      <3>1. op.path \in Paths /\ at[op.path] \in Things \cup {None}
        BY <1>1, OpFacts DEF IInv
      <3>2. op' \in Op
        BY <1>1, <2>3, <3>1 DEF Op
      <3>3. op'.kind = op.kind /\ op'.job = op.job /\ op'.by = op.by
        BY <1>1, <2>3 DEF Op
      <3> QED
        BY <1>6, <2>1, <2>3, <3>2, <3>3
    <2> QED
      BY <1>9, <2>2, <2>3 DEF Open
  <1>10. CASE Move \/ Copy
    <2>1. op.kind = "quarantine" /\ ~Forget
      BY <1>10 DEF Move, Copy, Forget, At
    <2>2. CASE NoFolder
      BY <1>7, <2>1, <2>2 DEF NoFolder, Ends
    <2>3. CASE Folder /\ UNCHANGED panel /\ \E s \in {"open", "same"} :
                 op' = [op EXCEPT !.id = NewId, !.step = s]
      <3>1. NewId \in Ids
        BY <2>3, NewItem
      <3>2. op' \in Op
        BY <1>1, <2>3, <3>1 DEF Op
      <3>3. op'.kind = op.kind /\ op'.job = op.job /\ op'.by = op.by
        BY <1>1, <2>3 DEF Op
      <3> QED
        BY <1>6, <2>1, <2>3, <3>2, <3>3
    <2> QED
      BY <1>10, <2>2, <2>3 DEF Move, Copy
  <1>11. CASE Same \/ Unlink \/ OpenMoved
    <2>1. op.kind = "quarantine" /\ ~Forget
      BY <1>11 DEF Same, Unlink, OpenMoved, Forget, At
    <2>2. CASE Answer("failed", None)
      BY <1>7, <2>1, <2>2 DEF Ends
    <2>3. CASE UNCHANGED panel /\ \E s \in {"unlink", "open"} : Goto(s)
      BY <1>5, <2>1, <2>3 DEF OpSteps
    <2>4. CASE UNCHANGED panel /\ op' = [op EXCEPT !.step = "record",
                                    !.file = IF SameFile THEN @ ELSE items[op.id].file] /\ OpenMoved
      <3>1. items[op.id].file \in Things \cup {None}
        BY <1>1, <2>1, <2>4 DEF OpenMoved, At, IInv, Asides, Bare, TypeOK, Item
      <3>2. op' \in Op
        BY <1>1, <2>4, <3>1 DEF Op
      <3>3. op'.kind = op.kind /\ op'.job = op.job /\ op'.by = op.by
        BY <1>1, <2>4 DEF Op
      <3> QED
        BY <1>6, <2>1, <2>4, <3>2, <3>3
    <2> QED
      BY <1>11, <2>2, <2>3, <2>4 DEF Same, Unlink, OpenMoved, GiveUp
  <1>12. CASE Restore \/ PutBack \/ CopyBack \/ Clear \/ Own
    <2>1. op.kind = "restore" /\ ~Forget
      BY <1>12 DEF Restore, PutBack, CopyBack, Clear, Own, Forget, At
    <2>2. CASE Answer("failed", None)
      BY <1>7, <2>1, <2>2 DEF Ends
    <2>3. CASE UNCHANGED panel /\ \E s \in {"put", "own", "clear", "forget"} : Goto(s)
      BY <1>5, <2>1, <2>3 DEF OpSteps
    <2> QED
      BY <1>12, <2>2, <2>3 DEF Restore, PutBack, CopyBack, Clear, Own
  <1>13. CASE Delete \/ WhiteAdd \/ WhiteDrop
    <2>1. op.kind \in {"delete", "add", "drop"} /\ ~Forget
      BY <1>13 DEF Delete, WhiteAdd, WhiteDrop, Forget, At
    <2>2. CASE \E s \in Ends(op.kind) : s # "quarantined" /\ Answer(s, None)
      BY <1>7, <2>1, <2>2
    <2>3. CASE UNCHANGED panel /\ Goto("forget")
      BY <1>5, <2>1, <2>3 DEF OpSteps
    <2> QED
      BY <1>13, <2>2, <2>3 DEF Delete, WhiteAdd, WhiteDrop, At, Ends
  <1> QED
    BY <1>3, <1>8, <1>9, <1>10, <1>11, <1>12, <1>13 DEF HelperStep

LEMMA ScanAsides ==
  ASSUME IInv, IInv', Settled, AsideInv, NEW k \in Jobs, Scan(k) \/ Amend(k)
  PROVE  AsideInv'
  <1>1. UNCHANGED <<items, made, op, adm, untold>>
    BY DEF Scan, Amend, store
  <1>2. ASSUME NEW j \in Jobs, NEW i \in Ids, Fine(j, i) PROVE Fine(j, i)'
    BY <1>1, <1>2 DEF Fine, Given, Kept, Listed, Done, Failed
  <1>3. /\ threats \in [Jobs -> [Paths -> Threat \cup {None}]] /\ worker \in [Jobs -> Worker]
    BY DEF IInv, TypeOK
  <1>4. ASSUME NEW j \in Jobs, NEW p \in Paths PROVE Sound(j, threats[j][p])'
    <2>1. Sound(j, threats[j][p]) /\ Sound(j, worker[j].got[p])
      BY DEF AsideInv, Told1
    <2>2. CASE threats'[j][p] = threats[j][p]
      BY <1>2, <2>1, <2>2 DEF Sound
    <2>3. CASE threats'[j][p] = None \/ threats'[j][p] = [state |-> "found", id |-> None]
      BY <2>3 DEF Sound
    <2>4. CASE threats'[j][p] = Applied(threats[j][p], worker[j].got[p]) /\ worker[j].got[p] # None
      <3>1. worker[j].got[p].state \notin {"restored", "deleted"}
        BY <2>4 DEF IInv, Callers
      <3>2. threats'[j][p] = [state |-> worker[j].got[p].state, id |-> worker[j].got[p].id]
        BY <2>4, <3>1 DEF Applied
      <3>3. threats'[j][p].state = worker[j].got[p].state /\ threats'[j][p].id = worker[j].got[p].id
        BY <3>2
      <3> QED
        BY <1>2, <2>1, <2>4, <3>3 DEF Sound
    <2>5. CASE Scan(k)
      <3>1. PICK found \in SUBSET Paths : threats' = [threats EXCEPT ![k] =
              [q \in Paths |-> IF q \in found THEN [state |-> "found", id |-> None] ELSE None]]
        BY <2>5, ConstantsAssumption DEF Scan
      <3> QED
        BY <1>3, <2>2, <2>3, <3>1
    <2>6. CASE Amend(k)
      <3>1. threats' = [threats EXCEPT ![k] =
              [q \in Paths |-> IF worker[k].got[q] = None THEN threats[k][q]
                               ELSE Applied(threats[k][q], worker[k].got[q])]]
        BY <1>3, <2>6 DEF Amend
      <3> QED
        BY <1>3, <2>2, <2>4, <3>1
    <2> QED
      BY <2>5, <2>6
  <1>5. ASSUME NEW j \in Jobs, NEW p \in Paths PROVE Sound(j, worker[j].got[p])'
    <2>1. Sound(j, worker[j].got[p])
      BY DEF AsideInv, Told1
    <2>2. worker'[j].got[p] = worker[j].got[p] \/ worker'[j].got[p] = None
      <3>1. CASE Scan(k)
        <4>1. PICK found : worker' = [worker EXCEPT ![k].step = "isolate", ![k].todo = found]
          BY <3>1 DEF Scan
        <4> DEFINE w == [worker[k] EXCEPT !.step = "isolate", !.todo = found]
        <4>2. w.got = worker[k].got
          BY <1>3 DEF Worker
        <4>3. worker' = [worker EXCEPT ![k] = w]
          BY <1>3, <4>1
        <4> HIDE DEF w
        <4> QED
          BY <1>3, <4>2, <4>3
      <3>2. CASE Amend(k)
        BY <1>3, <3>2 DEF Amend, Over
      <3> QED
        BY <3>1, <3>2
    <2> QED
      BY <1>2, <2>1, <2>2 DEF Sound
  <1>6. Outs'
    <2>1. adm # None /\ adm.kind = "quarantine" => adm.job \in Jobs
      BY DEF IInv, Asked
    <2> QED
      BY <1>1, <1>2, <2>1 DEF AsideInv, Outs, Sound
  <1>7. OnBehalf'
    BY <1>1 DEF AsideInv, OnBehalf
  <1> QED
    BY <1>4, <1>5, <1>6, <1>7 DEF AsideInv, Told1

\* Calls, requests and what is to be judged next change none of what is told.
LEMMA AsksAside ==
  ASSUME IInv, IInv', Settled, AsideInv, UNCHANGED <<items, made, threats, worker, untold>>,
         Done => adm' # None /\ Done' /\ adm'.id = adm.id,
         adm' # None /\ adm'.id \in Ids =>
           \/ adm # None /\ adm'.id = adm.id /\ adm'.job = adm.job
           \/ Listed(adm'.id) /\ adm'.job = items[adm'.id].job,
         adm' = adm \/ (adm' # None /\ adm'.step # "told"),
         OnBehalf'
  PROVE  AsideInv'
  <1>1. ASSUME NEW j \in Jobs, NEW i \in Ids, Fine(j, i) PROVE Fine(j, i)'
    <2>1. Kept(i)'
      BY <1>1 DEF Fine, Kept, Listed
    <2>2. adm' # None /\ adm'.id = i =>
            \/ adm # None /\ adm'.id = adm.id /\ adm'.job = adm.job
            \/ Listed(i) /\ adm'.job = items[i].job
      OBVIOUS
    <2> QED
      BY <1>1, <2>1, <2>2, FineStays
  <1>2. Told1'
    BY <1>1 DEF AsideInv, Told1, Sound
  <1>3. Outs'
    <2>1. adm # None /\ adm.kind = "quarantine" => adm.job \in Jobs
      BY DEF IInv, Asked
    <2> QED
      BY <1>1, <2>1 DEF AsideInv, Outs, Sound
  <1> QED
    BY <1>2, <1>3 DEF AsideInv

LEMMA RequestAsides ==
  IInv /\ IInv' /\ Settled /\ AsideInv /\ (AskItem \/ AskThreat \/ AskUnwhite) => AsideInv'
  <1> SUFFICES ASSUME IInv, IInv', Settled, AsideInv, AskItem \/ AskThreat \/ AskUnwhite
               PROVE  AsideInv'
    OBVIOUS
  <1>1. PICK kind \in Kinds, path \in Paths, job \in Jobs \cup {None}, id \in Ids \cup {None} :
          Request(kind, path, job, id) /\ (id # None => Listed(id) /\ job = items[id].job)
    <2>1. CASE AskItem
      <3>1. PICK i \in Ids, kind \in {"restore", "fine", "delete"} :
              Listed(i) /\ Request(kind, items[i].path, items[i].job, i)
        BY <2>1 DEF AskItem
      <3>2. items[i].path \in Paths /\ items[i].job \in Jobs
        BY <3>1 DEF IInv, TypeOK, Stored, Listed, Item
      <3> QED
        BY <3>1, <3>2 DEF Kinds
    <2>2. CASE AskThreat
      BY <2>2 DEF AskThreat, Kinds
    <2>3. CASE AskUnwhite
      <3>1. PICK e \in white : Request("unwhitelist", e[1], None, None)
        BY <2>3 DEF AskUnwhite
      <3>2. e[1] \in Paths
        BY DEF IInv, TypeOK
      <3> QED
        BY <3>1, <3>2 DEF Kinds
    <2> QED
      BY <2>1, <2>2, <2>3
  <1>2. /\ adm = None /\ UNCHANGED <<items, made, op, threats, worker, untold>>
        /\ adm' = [kind |-> kind, path |-> path, job |-> job, id |-> id, step |-> "ask",
                    out |-> None]
    BY <1>1 DEF Request, store
  <1>3. adm'.id = id /\ adm'.job = job /\ adm'.step = "ask"
    BY <1>2
  <1>4. adm' # None
    <2>1. adm' \in Ask
      BY <1>2 DEF Ask
    <2> QED
      BY <2>1, NoneIsNo
  <1>5. OnBehalf'
    BY <1>2, NoneIsNo DEF IInv, Callers, AsideInv, OnBehalf
  <1>6. adm'.id \in Ids => Listed(adm'.id) /\ adm'.job = items[adm'.id].job
    BY <1>1, <1>3, NoneIsNo
  <1> QED
    BY <1>2, <1>3, <1>4, <1>5, <1>6, AsksAside DEF Done

LEMMA SendAsides ==
  ASSUME IInv, IInv', Settled, AsideInv, (\E j \in Jobs : Isolate(j)) \/ Send \/ Judge
  PROVE  AsideInv'
  <1>1. CASE \E j \in Jobs : Isolate(j)
    <2>1. PICK j \in Jobs : Isolate(j)
      BY <1>1
    <2>2. PICK p \in worker[j].todo : Call(j, "quarantine", p, None, j)
      BY <2>1 DEF Isolate
    <2>3. p \in Paths /\ UNCHANGED <<items, made, threats, worker, adm, untold>>
      BY <2>1 DEF Isolate, store, panel, IInv, TypeOK, Worker
    <2>4. op' # None /\ op'.by = j /\ op'.kind = "quarantine" /\ op'.job = j
      BY <2>2, <2>3, CallFacts DEF OpKinds
    <2>5. OnBehalf'
      BY <2>4, NoneIsNo DEF OnBehalf
    <2> QED
      BY <2>3, <2>5, AsksAside DEF Done, Failed
  <1>2. CASE Send
    <2>1. /\ adm # None /\ adm.step = "ask" /\ UNCHANGED <<items, made, threats, worker, untold>>
          /\ adm' = [adm EXCEPT !.step = "wait"] /\ Call("admin", Verb, adm.path, adm.id, adm.job)
      BY <1>2 DEF Send, AdmAt, store
    <2>2. adm \in Ask
      BY <2>1, AskFacts DEF IInv
    <2>3. /\ adm' # None /\ adm'.step = "wait" /\ adm'.kind = adm.kind
          /\ adm'.id = adm.id /\ adm'.job = adm.job
      <3>1. adm' \in Ask
        BY <2>1, <2>2, AskRecords
      <3> QED
        BY <2>1, <2>2, <3>1, NoneIsNo DEF Ask
    <2>4. op'.by = "admin" /\ op'.kind = Verb /\ op'.id = adm.id /\ op'.job = adm.job
      BY <2>1 DEF Call
    <2>5. PICK v : v = Verb
      OBVIOUS
    <2>6. /\ v = "restore"    <=> adm.kind \in {"restore", "fine"}
          /\ v = "delete"     <=> adm.kind = "delete"
          /\ v = "add"        <=> adm.kind \in {"judge", "whitelist"}
          /\ v = "drop"       <=> adm.kind = "unwhitelist"
          /\ v = "quarantine" <=> adm.kind = "quarantine"
      BY <2>1, <2>5, VerbFacts
    <2>7. OnBehalf'
      BY <2>3, <2>4, <2>5, <2>6, NoneIsNo DEF OnBehalf
    <2>8. Done => Done'
      BY <2>1, <2>3 DEF Done
    <2> QED
      BY <2>1, <2>3, <2>7, <2>8, AsksAside DEF Done
  <1>3. CASE Judge
    <2>1. /\ adm # None /\ adm.step = "told" /\ adm.kind = "fine"
          /\ UNCHANGED <<items, made, op, threats, worker, untold>>
          /\ adm' = [adm EXCEPT !.kind = "judge", !.step = "ask"]
      BY <1>3 DEF Judge, AdmAt, store
    <2>2. adm \in Ask
      BY <2>1, AskFacts DEF IInv
    <2>3. /\ adm' # None /\ adm'.step = "ask" /\ adm'.kind = "judge"
          /\ adm'.id = adm.id /\ adm'.job = adm.job
      <3>1. adm' \in Ask
        BY <2>1, <2>2, AskRecords
      <3> QED
        BY <2>1, <2>2, <3>1, NoneIsNo DEF Ask
    <2>4. OnBehalf'
      BY <2>1, <2>3 DEF IInv, Callers, AsideInv, OnBehalf
    <2>5. Done => Done'
      BY <2>3 DEF Done
    <2> QED
      BY <2>1, <2>3, <2>4, <2>5, AsksAside DEF Done
  <1> QED
    BY <1>1, <1>2, <1>3

\* What is told of an item is marked before anybody could look for it.
LEMMA ToldAsides == IInv /\ IInv' /\ Settled /\ AsideInv /\ Told => AsideInv'
  <1> SUFFICES ASSUME IInv, IInv', Settled, AsideInv, Told PROVE AsideInv'
    OBVIOUS
  <1>1. /\ adm # None /\ adm.step = "told" /\ adm' = None /\ untold' = untold \cup Early
        /\ UNCHANGED <<items, made, op, worker>>
    BY DEF Told, AdmAt, store
  <1>2. /\ adm.out \in Threat /\ adm.id \in Ids \cup {None}
        /\ adm.kind # "unwhitelist" => adm.job \in Jobs
        /\ adm.kind \in {"restore", "fine", "judge", "delete"} <=> adm.id \in Ids
    BY <1>1, AskFacts DEF IInv, Asked
  <1>3. threats \in [Jobs -> [Paths -> Threat \cup {None}]]
    BY DEF IInv, TypeOK
  <1>4. ASSUME NEW j \in Jobs, NEW i \in Ids, Fine(j, i), (Done /\ adm.id = i => i \in untold')
        PROVE  Fine(j, i)'
    <2>1. Kept(i)'
      BY <1>1, <1>4 DEF Fine, Kept, Listed
    <2> QED
      BY <1>1, <1>4, <2>1, FineStays
  <1>5. ASSUME NEW j \in Jobs, NEW p \in Paths PROVE Sound(j, worker[j].got[p])'
    <2>1. Sound(j, worker[j].got[p])
      BY DEF AsideInv, Told1
    <2>2. ASSUME NEW i \in Ids, Fine(j, i), worker[j].got[p] # None, worker[j].got[p].id = i
          PROVE  Fine(j, i)'
      <3>1. ASSUME Done, adm.id = i PROVE i \in untold'
        <4>1. adm.job = j
          BY <2>2, <3>1 DEF Fine, Done
        <4>2. i \in Early
          BY <2>2, <3>1, <4>1, NoneIsNo DEF Early
        <4> QED
          BY <1>1, <4>2
      <3> QED
        BY <1>4, <2>2, <3>1
    <2> QED
      BY <1>1, <2>1, <2>2 DEF Sound
  <1>6. Done => \/ adm.kind \in {"restore", "delete"} /\ ~Failed /\ Mark(adm.out, WithTheId)
                \/ adm.kind = "judge" /\ Judged
    BY <1>1, <1>2 DEF Told, Done
  <1>7. ASSUME NEW j \in Jobs, NEW p \in Paths PROVE Sound(j, threats[j][p])'
    <2>1. Sound(j, threats[j][p])
      BY DEF AsideInv, Told1
    <2>2. CASE threats'[j][p] = threats[j][p] /\ ~(Done /\ j = adm.job /\ p \in WithTheId)
      <3>1. ASSUME NEW i \in Ids, Fine(j, i), threats[j][p] # None, threats[j][p].id = i
            PROVE  Fine(j, i)'
        <4>1. ~(Done /\ adm.id = i)
          <5> SUFFICES ASSUME Done, adm.id = i PROVE FALSE
            OBVIOUS
          <5>1. adm.job = j
            BY <3>1 DEF Fine, Done
          <5>2. p \in WithTheId
            BY <3>1, <5>1 DEF WithTheId, Threatened
          <5> QED
            BY <2>2, <5>1, <5>2
        <4> QED
          BY <1>4, <3>1, <4>1
      <3> QED
        BY <2>1, <2>2, <3>1 DEF Sound
    <2>3. ASSUME NEW out \in Threat, threats'[j][p] = Applied(threats[j][p], out),
                 threats[j][p] # None, out.state # "quarantined"
          PROVE  Sound(j, threats[j][p])'
      <3>1. threats'[j][p].state # "quarantined"
        BY <2>3 DEF Applied
      <3> QED
        BY <3>1 DEF Sound
    <2>4. ASSUME NEW out \in Threat, NEW these, these \subseteq Threatened, Mark(out, these),
                 adm.job \in Jobs
          PROVE  \/ j = adm.job /\ p \in these /\ threats'[j][p] = Applied(threats[j][p], out)
                    /\ threats[j][p] # None
                 \/ ~(j = adm.job /\ p \in these) /\ threats'[j][p] = threats[j][p]
      BY <1>3, <2>4 DEF Mark, Threatened
    <2>5. WithTheId \subseteq Threatened /\ AtThePath \subseteq Threatened
      BY DEF WithTheId, AtThePath
    <2>6. CASE adm.kind \in {"restore", "delete"} /\ ~Failed /\ Mark(adm.out, WithTheId)
      <3>1. adm.out.state # "quarantined"
        BY <1>1, <2>6 DEF AsideInv, Outs
      <3> QED
        BY <1>2, <2>2, <2>3, <2>4, <2>5, <2>6, <3>1
    <2>7. CASE adm.kind = "judge" /\ Judged
      <3>1. PICK out \in Threat : Mark(out, WithTheId) /\ out.state # "quarantined"
        <4>1. CASE Failed
          <5> DEFINE o == [adm.out EXCEPT !.state = "restored"]
          <5>1. o \in Threat /\ o.state = "restored"
            BY <1>2 DEF Threat, States
          <5>2. Mark(o, WithTheId)
            BY <2>7, <4>1 DEF Judged
          <5> HIDE DEF o
          <5> QED
            BY <5>1, <5>2
        <4>2. CASE ~Failed
          BY <1>1, <1>2, <2>7, <4>2 DEF Judged, AsideInv, Outs
        <4> QED
          BY <4>1, <4>2
      <3> QED
        BY <1>2, <2>2, <2>3, <2>4, <2>5, <2>7, <3>1
    <2>8. CASE adm.kind = "whitelist" /\ ~Failed /\ Mark(adm.out, AtThePath)
      <3>1. adm.out.state # "quarantined" /\ ~Done
        BY <1>1, <1>2, <2>8 DEF AsideInv, Outs, Done
      <3> QED
        BY <1>2, <2>2, <2>3, <2>4, <2>5, <2>8, <3>1
    <2>9. CASE adm.kind = "quarantine" /\ Mark(adm.out, AtThePath)
      <3>1. adm.out.state \notin {"restored", "deleted"} /\ Sound(adm.job, adm.out) /\ ~Done
        BY <1>1, <1>2, <2>9 DEF AsideInv, Outs, Done
      <3>2. CASE j = adm.job /\ threats'[j][p] = Applied(threats[j][p], adm.out)
        <4>1. threats'[j][p] = [state |-> adm.out.state, id |-> adm.out.id]
          BY <3>1, <3>2 DEF Applied
        <4>2. threats'[j][p].state = adm.out.state /\ threats'[j][p].id = adm.out.id
          BY <4>1
        <4>3. ASSUME NEW i \in Ids, Fine(j, i) PROVE Fine(j, i)'
          BY <1>4, <3>1, <4>3
        <4>4. adm.out # None /\ Sound(j, adm.out)
          BY <1>2, <3>1, <3>2, NoneIsNo
        <4> QED
          BY <4>2, <4>3, <4>4 DEF Sound
      <3> QED
        BY <1>2, <2>2, <2>4, <2>5, <2>9, <3>1, <3>2
    <2>10. CASE UNCHANGED threats /\ ~Done
      BY <2>2, <2>10
    <2> QED
      BY <1>6, <2>6, <2>7, <2>8, <2>9, <2>10 DEF Told
  <1>8. Outs'
    BY <1>1 DEF Outs
  <1>9. OnBehalf'
    <2>1. op # None => op.by # "admin"
      BY <1>1 DEF IInv, Callers
    <2> QED
      BY <1>1, <2>1 DEF AsideInv, OnBehalf
  <1> QED
    BY <1>5, <1>7, <1>8, <1>9 DEF AsideInv, Told1

LEMMA QuietSteps ==
  ASSUME IInv, IInv', Settled, AsideInv,
         Customer \/ Dropped \/ PanelDies \/ ServerDies \/ UNCHANGED vars
  PROVE  AsideInv'
  <1>1. Done => adm.id \in Meant
    BY NoneIsNo DEF Done, Meant
  <1>2. CASE Customer
    <2>1. UNCHANGED panel
      BY <1>2 DEF Customer, Put, Remove, Rename, Write, WriteAside
    <2>2. op' = op \/ (op # None /\ \E x \in Paths \cup {None} : op' = [op EXCEPT !.lies = x])
      BY <1>2 DEF Customer, Put, Remove, Rename, Write, WriteAside, Held
    <2>3. /\ op' # None <=> op # None
          /\ op # None =>
               op'.kind = op.kind /\ op'.job = op.job /\ op'.id = op.id /\ op'.by = op.by
      BY <2>2, LiesElsewhere DEF IInv
    <2>4. ~Forget
      <3> SUFFICES ASSUME Forget PROVE FALSE
        OBVIOUS
      <3>1. op # None /\ \E s \in {"restored", "deleted", "failed"} : Answer(s, None)
        BY Forgotten
      <3>2. op' = None
        BY <3>1, AnswerEnds DEF States
      <3> QED
        BY <2>3, <3>1, <3>2
    <2>5. \A i \in Ids : Listed(i) => Listed(i)'
      BY <1>2, <2>4, ListedStays DEF Next
    <2> QED
      BY <2>1, <2>3, <2>5, QuietAsides DEF panel
  <1>3. CASE UNCHANGED vars
    <2>1. UNCHANGED <<items, op, threats, worker, adm, untold>>
      BY <1>3 DEF vars, store, panel
    <2> QED
      BY <2>1, QuietAsides DEF Listed
  <1>4. CASE Dropped \/ PanelDies \/ ServerDies
    <2>1. adm' = None /\ UNCHANGED <<items, threats>> /\ untold' = untold \cup Meant
      BY <1>4 DEF Dropped, PanelDies, ServerDies, PanelStops, store
    <2>2. \/ op' = None
          \/ op # None /\ op' = [op EXCEPT !.by = None]
          \/ op # None /\ op.by # "admin" /\ op' = op
      BY <1>4 DEF Dropped, PanelDies, ServerDies, PanelStops, Orphaned
    <2>3. \A j \in Jobs, p \in Paths :
            worker'[j].got[p] = worker[j].got[p] \/ worker'[j].got[p] = None
      BY <1>4 DEF Dropped, PanelDies, ServerDies, PanelStops, Over
    <2>4. op' # None =>
            /\ op # None /\ op'.kind = op.kind /\ op'.job = op.job /\ op'.id = op.id
            /\ op'.by = None \/ (op'.by = op.by /\ op.by # "admin")
      BY <2>2, OpFacts DEF IInv, Op
    <2>5. \A i \in Ids : Listed(i) => Listed(i)'
      BY <2>1 DEF Listed
    <2> QED
      BY <1>1, <2>1, <2>3, <2>4, <2>5, QuietAsides
  <1> QED
    BY <1>2, <1>3, <1>4

LEMMA HelperDiesAsides == IInv /\ IInv' /\ Settled /\ AsideInv /\ HelperDies => AsideInv'
  <1> SUFFICES ASSUME IInv, IInv', Settled, AsideInv, HelperDies PROVE AsideInv'
    OBVIOUS
  <1>1. op # None /\ Again /\ UNCHANGED <<items, made, untold>>
    BY DEF HelperDies, store
  <1>2. /\ op' = None /\ UNCHANGED <<threats, worker>>
        /\ op.by # "admin" => adm' = adm
        /\ op.by = "admin" =>
              /\ adm # None /\ adm' # None /\ adm'.step = "ask" /\ adm'.kind = adm.kind
              /\ adm'.id = adm.id /\ adm'.job = adm.job
    BY <1>1, AgainFacts
  <1>3. OnBehalf'
    BY <1>2 DEF OnBehalf
  <1>4. Done => adm' # None /\ Done' /\ adm'.id = adm.id
    <2>1. CASE op.by = "admin"
      <3>1. adm.step = "wait"
        BY <1>1, <2>1 DEF IInv, Callers
      <3> QED
        BY <1>2, <2>1, <3>1 DEF Done
    <2>2. CASE op.by # "admin"
      BY <1>2, <2>2 DEF Done, Failed
    <2> QED
      BY <2>1, <2>2
  <1>5. adm' # None => adm # None /\ adm'.id = adm.id /\ adm'.job = adm.job
    BY <1>2
  <1>6. adm' = adm \/ (adm' # None /\ adm'.step # "told")
    BY <1>2
  <1> QED
    BY <1>1, <1>2, <1>3, <1>4, <1>5, <1>6, AsksAside

LEMMA AsideStep == IInv /\ AsideInv /\ [Next]_vars => AsideInv'
  <1> SUFFICES ASSUME IInv, AsideInv, [Next]_vars PROVE AsideInv'
    OBVIOUS
  <1>1. IInv' /\ Settled
    BY StepInv
  <1>2. CASE HelperStep
    BY <1>1, <1>2, HelperAsides
  <1>3. CASE \E j \in Jobs : Scan(j) \/ Isolate(j) \/ Amend(j)
    BY <1>1, <1>3, ScanAsides, SendAsides
  <1>4. CASE AskItem \/ AskThreat \/ AskUnwhite
    BY <1>1, <1>4, RequestAsides
  <1>5. CASE Send \/ Judge
    BY <1>1, <1>5, SendAsides
  <1>6. CASE Told
    BY <1>1, <1>6, ToldAsides
  <1>7. CASE Customer \/ Dropped \/ PanelDies \/ ServerDies \/ UNCHANGED vars
    BY <1>1, <1>7, QuietSteps
  <1>8. CASE HelperDies
    BY <1>1, <1>8, HelperDiesAsides
  <1> QED
    BY <1>2, <1>3, <1>4, <1>5, <1>6, <1>7, <1>8 DEF Next

\* What a scan shows as quarantined has its item in the store, unless what became of that was
\* not told to the scan, or is about to be.
THEOREM ShownIsAside == Spec => []QuarantinedIsAside
  <1>1. Init => AsideInv
    BY NoneIsNo DEF Init, AsideInv, Told1, Sound, Outs, OnBehalf
  <1>2. IInv /\ AsideInv /\ [Next]_vars => AsideInv'
    BY AsideStep
  <1>3. AsideInv => QuarantinedIsAside
    <2> SUFFICES ASSUME AsideInv, NEW j \in Jobs, NEW p \in Paths, threats[j][p] # None,
                        threats[j][p].state = "quarantined", threats[j][p].id \notin untold
                 PROVE  /\ threats[j][p].id # None
                        /\ Listed(threats[j][p].id) \/ (adm # None /\ adm.id = threats[j][p].id)
      BY DEF QuarantinedIsAside
    <2>1. PICK i \in Ids : threats[j][p].id = i /\ Fine(j, i)
      BY DEF AsideInv, Told1, Sound
    <2>2. Kept(i) /\ i # None
      BY <2>1, NoneIsNo DEF Fine
    <2>3. i \notin untold
      BY <2>1
    <2>4. Listed(i) \/ (adm # None /\ adm.id = i)
      BY <2>2, <2>3 DEF Kept, Done
    <2> QED
      BY <2>1, <2>2, <2>4 DEF Listed
  <1> QED
    BY <1>1, <1>2, <1>3, Inductive, PTL DEF Spec

=============================================================================
