------------------------ MODULE HelperServer_proofs ------------------------
(***************************************************************************)
(* What holds of HelperServer for any set of calls, any operations, any    *)
(* number of slots and every fault: the types, that two operations run for *)
(* the socket never change one resource together, that waiting threads     *)
(* never form a cycle, and that the helper implements ResourceTurns.       *)
(*                                                                         *)
(* The invariant all of it rests on is HoldOrder: a thread holds locks of  *)
(* its own operation only, from the front of their order, it holds them    *)
(* all while it runs, and it holds none before it waits or after it ends.  *)
(***************************************************************************)
EXTENDS HelperServer, FiniteSetTheorems, TLAPS

Holders == {"locking", "running", "releasing"}

HoldOrder ==
  /\ \A r \in Resource : owner[r] # Nobody =>
        conn[owner[r]] \in Holders /\ r \in Needs(owner[r])
  /\ \A c \in Calls : conn[c] = "running" => Needs(c) \subseteq Held(c)
  /\ \A c \in Calls : conn[c] = "locking" =>
        \A r \in Held(c), s \in Wanted(c) : r < s

\* The threads that have a slot are finitely many, and the rest are free.
Busy == {c \in Calls : conn[c] \in Threaded}
SlotInv == IsFiniteSet(Busy) /\ free + Cardinality(Busy) = MaxInFlight

\* The backlog holds each connection nobody has accepted, once; a call that
\* has not been made has no connection.
BacklogInv ==
  /\ \A i \in 1..Len(backlog) : conn[backlog[i]] = "backlog"
  /\ \A i, j \in 1..Len(backlog) : backlog[i] = backlog[j] => i = j
  /\ \A c \in Calls : caller[c] = "idle" => conn[c] = "none"

\* A run is the helper's or sudo's, and each of them has at most one.
Undispatched(c) == conn[c] \in {"none", "backlog", "accepted", "serving", "locking"}
NotBySudo(c)    == caller[c] \in {"idle", "socket", "answered"}
RunInv ==
  \A c \in Calls :
    /\ Undispatched(c) /\ NotBySudo(c) => runs[c] = 0
    /\ Undispatched(c) \/ NotBySudo(c) => runs[c] <= 1

IInv == TypeOK /\ HoldOrder /\ SlotInv /\ BacklogInv /\ RunInv

-----------------------------------------------------------------------------
(* The table and the two choices made from it. *)

\* Every row of the table is made of resources (locks.rs, `placed`).
LEMMA LocksOfType == \A op : LocksOf(op) \subseteq Resource
  BY DEF LocksOf, Resource, Packages, Accounts, Systemd, Php, Nginx, Firewall, Cron, Malware

\* A set of resources that is not empty has a first and a last member.
LEMMA FirstAndLast ==
  ASSUME NEW S \in SUBSET Resource, S # {}
  PROVE  /\ \E r \in S : \A s \in S : r <= s
         /\ \E r \in S : \A s \in S : s <= r
  <1>1. S \subseteq {1, 2, 3, 4, 5, 6, 7, 8}
    BY DEF Resource
  <1>2. \E r \in S : \A s \in S : r <= s
    <2>1. CASE 1 \in S  BY <1>1, <2>1
    <2>2. CASE 1 \notin S /\ 2 \in S  BY <1>1, <2>2
    <2>3. CASE S \cap 1..2 = {} /\ 3 \in S  BY <1>1, <2>3
    <2>4. CASE S \cap 1..3 = {} /\ 4 \in S  BY <1>1, <2>4
    <2>5. CASE S \cap 1..4 = {} /\ 5 \in S  BY <1>1, <2>5
    <2>6. CASE S \cap 1..5 = {} /\ 6 \in S  BY <1>1, <2>6
    <2>7. CASE S \cap 1..6 = {} /\ 7 \in S  BY <1>1, <2>7
    <2>8. CASE S \cap 1..7 = {}
      <3>1. \A s \in S : s = 8  BY <1>1, <2>8
      <3>2. PICK r \in S : TRUE  OBVIOUS
      <3>3. QED  BY <3>1, <3>2
    <2>9. QED  BY <1>1, <2>1, <2>2, <2>3, <2>4, <2>5, <2>6, <2>7, <2>8
  <1>3. \E r \in S : \A s \in S : s <= r
    <2>1. CASE 8 \in S  BY <1>1, <2>1
    <2>2. CASE 8 \notin S /\ 7 \in S  BY <1>1, <2>2
    <2>3. CASE S \cap 7..8 = {} /\ 6 \in S  BY <1>1, <2>3
    <2>4. CASE S \cap 6..8 = {} /\ 5 \in S  BY <1>1, <2>4
    <2>5. CASE S \cap 5..8 = {} /\ 4 \in S  BY <1>1, <2>5
    <2>6. CASE S \cap 4..8 = {} /\ 3 \in S  BY <1>1, <2>6
    <2>7. CASE S \cap 3..8 = {} /\ 2 \in S  BY <1>1, <2>7
    <2>8. CASE S \cap 2..8 = {}
      <3>1. \A s \in S : s = 1  BY <1>1, <2>8
      <3>2. PICK r \in S : TRUE  OBVIOUS
      <3>3. QED  BY <3>1, <3>2
    <2>9. QED  BY <1>1, <2>1, <2>2, <2>3, <2>4, <2>5, <2>6, <2>7, <2>8
  <1>4. QED
    BY <1>2, <1>3

\* `hold` waits for the first lock it wants.
LEMMA NextLockIsFirst ==
  ASSUME NEW c, Wanted(c) # {}
  PROVE  /\ NextLock(c) \in Wanted(c)
         /\ \A s \in Wanted(c) : NextLock(c) <= s
  <1>1. Wanted(c) \in SUBSET Resource
    BY LocksOfType DEF Wanted, Needs
  <1>2. QED
    BY <1>1, FirstAndLast DEF NextLock

\* `Held::drop` frees a lock it holds.
LEMMA FirstFreedIsHeld ==
  ASSUME NEW c, Held(c) # {}
  PROVE  FirstFreed(c) \in Held(c)
  <1>1. Held(c) \in SUBSET Resource
    BY DEF Held
  <1>2. QED
    BY <1>1, FirstAndLast DEF FirstFreed

-----------------------------------------------------------------------------
(* The invariant holds at the start and every step keeps it. *)

LEMMA InitInv == Init => IInv
  <1> SUFFICES ASSUME Init PROVE IInv
    OBVIOUS
  <1> USE ConstantsAssumption DEF Init
  <1>1. TypeOK
    BY DEF TypeOK, CallerStates, ConnStates
  <1>2. HoldOrder
    BY DEF HoldOrder
  <1>3. SlotInv
    <2>1. Busy = {}
      BY DEF Busy, Threaded
    <2>2. QED
      BY <2>1, FS_EmptySet DEF SlotInv
  <1>4. BacklogInv
    BY DEF BacklogInv
  <1>5. RunInv
    BY DEF RunInv, Undispatched, NotBySudo
  <1>6. QED
    BY <1>1, <1>2, <1>3, <1>4, <1>5 DEF IInv

\* The locks: what changes an owner or the state of a holder.
LEMMA HoldOrderStep ==
  ASSUME TypeOK, HoldOrder, BacklogInv, [Next]_vars
  PROVE  HoldOrder'
  <1> USE ConstantsAssumption DEF TypeOK, HoldOrder, Holders, Held, Wanted, serverVars
  <1>1. ASSUME NEW c \in Calls, Connect(c) PROVE HoldOrder'
    BY <1>1 DEF Connect, BacklogInv
  <1>2. ASSUME NEW c \in Calls, PanelStep(c) PROVE HoldOrder'
    BY <1>2 DEF PanelStep, ReadNothing, ReadReply, SudoEnds, RunBySudo
  <1>3. ASSUME NEW c \in Calls, TakeSlot(c) PROVE HoldOrder'
    BY <1>3 DEF TakeSlot
  <1>4. ASSUME NEW c \in Calls, ThreadStep(c) PROVE HoldOrder'
    <2>1. CASE Admit(c)
      BY <2>1 DEF Admit
    <2>2. CASE Refuse(c)
      BY <2>2 DEF Refuse
    <2>3. CASE TakeLock(c)
      <3> DEFINE l == NextLock(c)
      <3>1. l \in Wanted(c) /\ (\A s \in Wanted(c) : l <= s) /\ Wanted(c) \subseteq Resource
        BY <2>3, NextLockIsFirst, LocksOfType DEF TakeLock, Needs
      <3> HIDE DEF l
      <3>2. /\ owner[l] = Nobody /\ owner' = [owner EXCEPT ![l] = c]
            /\ conn[c] = "locking" /\ conn' = conn
        BY <2>3 DEF TakeLock, l
      <3>3. /\ Held(c)' = Held(c) \cup {l} /\ Wanted(c)' = Wanted(c) \ {l}
            /\ \A d \in Calls \ {c} : Held(d)' = Held(d) /\ Wanted(d)' = Wanted(d)
        BY <3>1, <3>2 DEF Needs
      <3>4. l \in Resource /\ Resource \subseteq Int
        BY <3>1 DEF Resource
      <3>5. \A r \in Held(c)', s \in Wanted(c)' : r < s
        <4> SUFFICES ASSUME NEW r \in Held(c) \cup {l}, NEW s \in Wanted(c) \ {l} PROVE r < s
          BY <3>3
        <4>1. CASE r = l
          BY <4>1, <3>1, <3>4
        <4>2. CASE r \in Held(c)
          BY <4>2, <3>2
        <4>3. QED
          BY <4>1, <4>2
      <3>6. \A r \in Resource : owner'[r] # Nobody =>
               conn'[owner'[r]] \in Holders /\ r \in Needs(owner'[r])
        BY <3>1, <3>2, <3>4
      <3>7. \A d \in Calls : conn'[d] = "running" => Needs(d) \subseteq Held(d)'
        BY <3>2, <3>3
      <3>8. \A d \in Calls : conn'[d] = "locking" => \A r \in Held(d)', s \in Wanted(d)' : r < s
        BY <3>2, <3>3, <3>5
      <3>9. QED
        BY <3>6, <3>7, <3>8 DEF Needs
    <2>4. CASE Dispatch(c)
      BY <2>4 DEF Dispatch
    <2>5. CASE Finish(c)
      BY <2>5 DEF Finish
    <2>6. CASE DropLock(c)
      BY <2>6, FirstFreedIsHeld DEF DropLock
    <2>7. CASE Respond(c)
      BY <2>7 DEF Respond
    <2>8. CASE GiveBack(c)
      BY <2>8 DEF GiveBack
    <2>9. QED
      BY <1>4, <2>1, <2>2, <2>3, <2>4, <2>5, <2>6, <2>7, <2>8 DEF ThreadStep
  <1>5. ASSUME NEW c \in Calls, FaultStep(c) PROVE HoldOrder'
    <2>1. CASE NoSocket(c) \/ TimeOut(c)
      BY <2>1 DEF NoSocket, TimeOut, RunBySudo
    <2>2. CASE NoThread(c)
      BY <2>2 DEF NoThread
    <2>3. CASE Panic(c)
      BY <2>3 DEF Panic, InProcess, Threaded
    <2>4. QED
      BY <1>5, <2>1, <2>2, <2>3 DEF FaultStep
  <1>6. ASSUME NEW t \in Timers, UnitStarts(t) \/ UnitEnds(t) PROVE HoldOrder'
    BY <1>6 DEF UnitStarts, UnitEnds
  <1>7. CASE Accept
    <2>1. Head(backlog) \in Calls /\ conn[Head(backlog)] = "backlog"
      BY <1>7 DEF Accept, BacklogInv
    <2>2. QED
      BY <1>7, <2>1 DEF Accept
  <1>8. CASE Restart
    BY <1>8 DEF Restart
  <1>9. CASE Quiet \/ UNCHANGED vars
    BY <1>9 DEF Quiet, vars
  <1>10. QED
    BY <1>1, <1>2, <1>3, <1>4, <1>5, <1>6, <1>7, <1>8, <1>9 DEF Next

\* The slots: a thread is counted from TakeSlot to GiveBack, and a panic
\* empties the process.
LEMMA SlotStep ==
  ASSUME TypeOK, SlotInv, BacklogInv, [Next]_vars
  PROVE  SlotInv'
  <1> USE ConstantsAssumption DEF TypeOK, SlotInv, serverVars
  <1>1. ASSUME free' = free, Busy' = Busy PROVE SlotInv'
    BY <1>1
  <1>2. ASSUME NEW c \in Calls, Connect(c) PROVE SlotInv'
    <2>1. Busy' = Busy
      BY <1>2 DEF Connect, Busy, Threaded, BacklogInv
    <2>2. QED
      BY <1>1, <1>2, <2>1 DEF Connect
  <1>3. ASSUME NEW c \in Calls, PanelStep(c) PROVE SlotInv'
    BY <1>1, <1>3 DEF PanelStep, ReadNothing, ReadReply, SudoEnds, RunBySudo, Busy
  <1>4. ASSUME NEW c \in Calls, TakeSlot(c) PROVE SlotInv'
    <2>1. c \notin Busy /\ Busy' = Busy \cup {c}
      BY <1>4 DEF TakeSlot, Busy, Threaded
    <2>2. IsFiniteSet(Busy') /\ Cardinality(Busy') = Cardinality(Busy) + 1
      BY <2>1, FS_AddElement
    <2>3. Cardinality(Busy) \in Nat
      BY FS_CardinalityType
    <2>4. QED
      BY <1>4, <2>2, <2>3 DEF TakeSlot
  <1>5. ASSUME NEW c \in Calls, ThreadStep(c) PROVE SlotInv'
    <2>1. CASE GiveBack(c)
      <3>1. c \in Busy /\ Busy' = Busy \ {c}
        BY <2>1 DEF GiveBack, Busy, Threaded
      <3>2. IsFiniteSet(Busy') /\ Cardinality(Busy') = Cardinality(Busy) - 1
        BY <3>1, FS_RemoveElement
      <3>3. Cardinality(Busy) \in Nat
        BY FS_CardinalityType
      <3>4. QED
        BY <2>1, <3>2, <3>3 DEF GiveBack
    <2>2. CASE Admit(c) \/ Refuse(c) \/ TakeLock(c) \/ Dispatch(c)
               \/ Finish(c) \/ DropLock(c) \/ Respond(c)
      <3>1. Busy' = Busy
        BY <2>2 DEF Admit, Refuse, TakeLock, Dispatch, Finish, DropLock, Respond, Busy, Threaded
      <3>2. QED
        BY <1>1, <2>2, <3>1 DEF Admit, Refuse, TakeLock, Dispatch, Finish, DropLock, Respond
    <2>3. QED
      BY <1>5, <2>1, <2>2 DEF ThreadStep
  <1>6. ASSUME NEW c \in Calls, FaultStep(c) PROVE SlotInv'
    <2>1. CASE NoSocket(c) \/ TimeOut(c)
      BY <1>1, <2>1 DEF NoSocket, TimeOut, RunBySudo, Busy
    <2>2. CASE NoThread(c)
      <3>1. Busy' = Busy
        BY <2>2 DEF NoThread, Busy, Threaded
      <3>2. QED
        BY <1>1, <2>2, <3>1 DEF NoThread
    <2>3. CASE Panic(c)
      <3>1. Busy' = {} /\ free' = MaxInFlight
        BY <2>3 DEF Panic, Busy, Threaded, InProcess
      <3>2. QED
        BY <3>1, FS_EmptySet
    <2>4. QED
      BY <1>6, <2>1, <2>2, <2>3 DEF FaultStep
  <1>7. CASE Accept
    <2>1. Head(backlog) \in Calls /\ conn[Head(backlog)] = "backlog"
      BY <1>7 DEF Accept, BacklogInv
    <2>2. Busy' = Busy
      BY <1>7, <2>1 DEF Accept, Busy, Threaded
    <2>3. QED
      BY <1>1, <1>7, <2>2 DEF Accept
  <1>8. CASE Restart
    BY <1>1, <1>8 DEF Restart, Busy
  <1>9. CASE Quiet \/ UNCHANGED vars
    BY <1>1, <1>9 DEF Quiet, vars, Busy
  <1>10. ASSUME NEW t \in Timers, UnitStarts(t) \/ UnitEnds(t) PROVE SlotInv'
    BY <1>1, <1>10 DEF UnitStarts, UnitEnds, Busy
  <1>11. QED
    BY <1>2, <1>3, <1>4, <1>5, <1>6, <1>7, <1>8, <1>9, <1>10 DEF Next

\* The backlog: only Connect and Accept touch it, and no other step takes a
\* connection out of "backlog".
LEMMA BacklogStep ==
  ASSUME TypeOK, BacklogInv, [Next]_vars
  PROVE  BacklogInv'
  <1> USE ConstantsAssumption DEF TypeOK, BacklogInv, serverVars
  <1>1. ASSUME NEW c \in Calls, Connect(c) PROVE BacklogInv'
    <2>1. /\ Len(backlog') = Len(backlog) + 1 /\ backlog'[Len(backlog) + 1] = c
          /\ \A i \in 1..Len(backlog) : backlog'[i] = backlog[i] /\ backlog[i] # c
      BY <1>1 DEF Connect
    <2>2. QED
      BY <1>1, <2>1 DEF Connect
  <1>2. ASSUME NEW c \in Calls, PanelStep(c) PROVE BacklogInv'
    BY <1>2 DEF PanelStep, ReadNothing, ReadReply, SudoEnds, RunBySudo
  <1>3. ASSUME NEW c \in Calls, TakeSlot(c) PROVE BacklogInv'
    BY <1>3 DEF TakeSlot
  <1>4. ASSUME NEW c \in Calls, ThreadStep(c) PROVE BacklogInv'
    BY <1>4 DEF ThreadStep, Admit, Refuse, TakeLock, Dispatch, Finish, DropLock, Respond, GiveBack
  <1>5. ASSUME NEW c \in Calls, FaultStep(c) PROVE BacklogInv'
    BY <1>5 DEF FaultStep, NoSocket, TimeOut, NoThread, Panic, RunBySudo, InProcess, Threaded
  <1>6. CASE Accept
    <2>1. /\ Head(backlog) = backlog[1] /\ Head(backlog) \in Calls
          /\ Len(backlog') = Len(backlog) - 1
          /\ \A i \in 1..Len(backlog') : backlog'[i] = backlog[i + 1]
      BY <1>6 DEF Accept
    <2>2. QED
      BY <1>6, <2>1 DEF Accept
  <1>7. CASE Restart \/ Quiet \/ UNCHANGED vars
    BY <1>7 DEF Restart, Quiet, vars
  <1>8. ASSUME NEW t \in Timers, UnitStarts(t) \/ UnitEnds(t) PROVE BacklogInv'
    BY <1>8 DEF UnitStarts, UnitEnds
  <1>9. QED
    BY <1>1, <1>2, <1>3, <1>4, <1>5, <1>6, <1>7, <1>8 DEF Next

\* The runs: Dispatch counts the helper's, RunBySudo counts sudo's.
LEMMA RunStep ==
  ASSUME TypeOK, BacklogInv, RunInv, [Next]_vars
  PROVE  RunInv'
  <1> USE ConstantsAssumption DEF TypeOK, RunInv, serverVars, Undispatched, NotBySudo
  <1>1. ASSUME NEW c \in Calls, Connect(c) PROVE RunInv'
    BY <1>1 DEF Connect, BacklogInv
  <1>2. ASSUME NEW c \in Calls, PanelStep(c) PROVE RunInv'
    <2>1. CASE ReadNothing(c)
      BY <2>1 DEF ReadNothing, RunBySudo
    <2>2. CASE ReadReply(c)
      BY <2>2 DEF ReadReply
    <2>3. CASE SudoEnds(c)
      BY <2>3 DEF SudoEnds
    <2>4. QED
      BY <1>2, <2>1, <2>2, <2>3 DEF PanelStep
  <1>3. ASSUME NEW c \in Calls, TakeSlot(c) PROVE RunInv'
    BY <1>3 DEF TakeSlot
  <1>4. ASSUME NEW c \in Calls, ThreadStep(c) PROVE RunInv'
    <2>1. CASE Dispatch(c)
      BY <2>1 DEF Dispatch
    <2>2. CASE \/ Admit(c) \/ Refuse(c) \/ TakeLock(c) \/ Finish(c)
               \/ DropLock(c) \/ Respond(c) \/ GiveBack(c)
      BY <2>2 DEF Admit, Refuse, TakeLock, Finish, DropLock, Respond, GiveBack
    <2>3. QED
      BY <1>4, <2>1, <2>2 DEF ThreadStep
  <1>5. ASSUME NEW c \in Calls, FaultStep(c) PROVE RunInv'
    <2>1. CASE NoSocket(c)
      BY <2>1 DEF NoSocket, RunBySudo, BacklogInv
    <2>2. CASE TimeOut(c)
      BY <2>2 DEF TimeOut, RunBySudo
    <2>3. CASE NoThread(c)
      BY <2>3 DEF NoThread
    <2>4. CASE Panic(c)
      BY <2>4 DEF Panic, InProcess, Threaded
    <2>5. QED
      BY <1>5, <2>1, <2>2, <2>3, <2>4 DEF FaultStep
  <1>6. CASE Accept
    <2>1. Head(backlog) \in Calls /\ conn[Head(backlog)] = "backlog"
      BY <1>6 DEF Accept, BacklogInv
    <2>2. QED
      BY <1>6, <2>1 DEF Accept
  <1>7. CASE Restart \/ Quiet \/ UNCHANGED vars
    BY <1>7 DEF Restart, Quiet, vars
  <1>8. ASSUME NEW t \in Timers, UnitStarts(t) \/ UnitEnds(t) PROVE RunInv'
    BY <1>8 DEF UnitStarts, UnitEnds
  <1>9. QED
    BY <1>1, <1>2, <1>3, <1>4, <1>5, <1>6, <1>7, <1>8 DEF Next

\* The types; the bounds on slots and runs come from SlotInv and RunInv.
LEMMA TypeStep ==
  ASSUME IInv, [Next]_vars
  PROVE  TypeOK'
  <1> USE ConstantsAssumption DEF TypeOK, CallerStates, ConnStates, InProcess, Threaded, serverVars
  <1> USE DEF IInv
  <1>1. ASSUME NEW c \in Calls, Connect(c) PROVE TypeOK'
    BY <1>1 DEF Connect
  <1>2. ASSUME NEW c \in Calls, caller[c] \in {"idle", "socket"}, RunBySudo(c) PROVE TypeOK'
    <2>1. runs[c] + 1 \in 0..2
      BY <1>2 DEF RunInv, NotBySudo
    <2>2. QED
      BY <1>2, <2>1 DEF RunBySudo
  <1>3. ASSUME NEW c \in Calls, PanelStep(c) PROVE TypeOK'
    BY <1>2, <1>3 DEF PanelStep, ReadNothing, ReadReply, SudoEnds
  <1>4. ASSUME NEW c \in Calls, TakeSlot(c) PROVE TypeOK'
    BY <1>4 DEF TakeSlot
  <1>5. ASSUME NEW c \in Calls, ThreadStep(c) PROVE TypeOK'
    <2>1. CASE Admit(c) \/ Refuse(c) \/ Finish(c) \/ Respond(c)
      BY <2>1 DEF Admit, Refuse, Finish, Respond
    <2>2. CASE TakeLock(c)
      BY <2>2 DEF TakeLock
    <2>3. CASE Dispatch(c)
      <3>1. runs[c] + 1 \in 0..2
        BY <2>3 DEF Dispatch, RunInv, Undispatched
      <3>2. QED
        BY <2>3, <3>1 DEF Dispatch
    <2>4. CASE DropLock(c)
      BY <2>4 DEF DropLock
    <2>5. CASE GiveBack(c)
      <3>0. c \in Busy
        BY <2>5 DEF GiveBack, Busy
      <3>1. Cardinality(Busy) # 0
        BY <3>0, FS_EmptySet DEF SlotInv
      <3>2. Cardinality(Busy) \in Nat
        BY FS_CardinalityType DEF SlotInv
      <3>3. free + 1 \in 0..MaxInFlight
        BY <3>1, <3>2 DEF SlotInv
      <3>4. QED
        BY <2>5, <3>3 DEF GiveBack
    <2>6. QED
      BY <1>5, <2>1, <2>2, <2>3, <2>4, <2>5 DEF ThreadStep
  <1>6. ASSUME NEW c \in Calls, FaultStep(c) PROVE TypeOK'
    <2>1. CASE NoSocket(c) \/ TimeOut(c)
      BY <1>2, <2>1 DEF NoSocket, TimeOut
    <2>2. CASE NoThread(c)
      BY <2>2 DEF NoThread
    <2>3. CASE Panic(c)
      <3>1. conn' \in [Calls -> ConnStates]
        BY <2>3 DEF Panic
      <3>2. free' \in 0..MaxInFlight /\ owner' \in [Resource -> Calls \cup {Nobody}]
        BY <2>3 DEF Panic
      <3>3. up' \in BOOLEAN
        BY <2>3 DEF Panic
      <3>4. QED
        BY <2>3, <3>1, <3>2, <3>3 DEF Panic
    <2>4. QED
      BY <1>6, <2>1, <2>2, <2>3 DEF FaultStep
  <1>7. CASE Accept
    BY <1>7 DEF Accept
  <1>8. CASE Restart \/ Quiet \/ UNCHANGED vars
    BY <1>8 DEF Restart, Quiet, vars
  <1>9. ASSUME NEW t \in Timers, UnitStarts(t) \/ UnitEnds(t) PROVE TypeOK'
    BY <1>9 DEF UnitStarts, UnitEnds
  <1>10. QED
    BY <1>1, <1>3, <1>4, <1>5, <1>6, <1>7, <1>8, <1>9 DEF Next

\* IInv is an invariant of the helper.
THEOREM Invariance == Spec => []IInv
  <1>1. Init => IInv
    BY InitInv
  <1>2. IInv /\ [Next]_vars => IInv'
    BY HoldOrderStep, SlotStep, BacklogStep, RunStep, TypeStep DEF IInv
  <1>3. QED
    BY <1>1, <1>2, PTL DEF Spec

-----------------------------------------------------------------------------
(* What follows from it. *)

\* Every variable keeps its type: no slot is invented, no mutex has a holder
\* that is not a call, no operation is started a third time.
THEOREM TypeCorrect == Spec => []TypeOK
  <1>1. IInv => TypeOK
    BY DEF IInv
  <1>2. QED
    BY <1>1, Invariance, PTL

\* Two operations run for the socket never change one resource together,
\* for any table of calls and operations and after any fault.
LEMMA RunningHoldsItsLocks ==
  ASSUME IInv, NEW c \in Calls, NEW d \in Calls, c # d,
         conn[c] = "running", conn[d] = "running"
  PROVE  ~Clash(OpOf[c], OpOf[d])
  <1>1. Needs(c) \subseteq Held(c) /\ Needs(d) \subseteq Held(d)
    BY DEF IInv, HoldOrder
  <1>2. Held(c) \cap Held(d) = {}
    BY DEF Held
  <1>3. QED
    BY <1>1, <1>2 DEF Clash, Needs

THEOREM Exclusive == Spec => []SocketOpsExclusive
  <1>1. IInv => SocketOpsExclusive
    BY RunningHoldsItsLocks DEF SocketOpsExclusive
  <1>2. QED
    BY <1>1, Invariance, PTL

\* Waiting threads never form a cycle: the lock a holder waits for comes
\* after every lock it holds.
THEOREM NoCycle == Spec => []NoWaitCycle
  <1>1. IInv => NoWaitCycle
    <2> SUFFICES ASSUME IInv, NEW c \in Calls, NEW d \in Calls,
                        WaitsFor(c, d), Waits(d)
                 PROVE  NextLock(c) < NextLock(d)
      BY DEF NoWaitCycle
    <2>1. NextLock(c) \in Wanted(c) /\ NextLock(d) \in Wanted(d)
      BY NextLockIsFirst DEF WaitsFor, Waits
    <2>2. NextLock(c) \in Resource
      BY <2>1, LocksOfType DEF Wanted, Needs
    <2>3. NextLock(c) \in Held(d)
      BY <2>2 DEF WaitsFor, Held
    <2>4. QED
      BY <2>1, <2>3 DEF IInv, HoldOrder, Waits
  <1>2. QED
    BY <1>1, Invariance, PTL

\* What has been answered, and how often the operation ran by then: a peer that
\* is not the panel runs nothing, and neither does it turn to sudo.
AnswerInv ==
  \A c \in Calls :
    /\ reply[c] # "none" => conn[c] \in {"ending", "gone"}
    /\ ~IsPanel(c) => /\ conn[c] \notin {"locking", "running", "releasing"}
                      /\ NotBySudo(c) /\ runs[c] = 0 /\ reply[c] # "result"
    /\ NotBySudo(c) => /\ conn[c] \in {"running", "releasing"} => runs[c] = 1
                       /\ reply[c] = "result"  => runs[c] = 1
                       /\ reply[c] = "refused" => runs[c] = 0
    /\ caller[c] = "answered" => reply[c] # "none" \/ ~IsPanel(c)

LEMMA AnswerStep ==
  ASSUME IInv, AnswerInv, [Next]_vars
  PROVE  AnswerInv'
  <1> USE ConstantsAssumption DEF IInv, TypeOK, AnswerInv, serverVars, NotBySudo, IsPanel
  <1>1. ASSUME NEW c \in Calls, Connect(c) PROVE AnswerInv'
    BY <1>1 DEF Connect, BacklogInv
  <1>2. ASSUME NEW c \in Calls, PanelStep(c) PROVE AnswerInv'
    BY <1>2 DEF PanelStep, ReadNothing, RunBySudo, ReadReply, SudoEnds
  <1>3. ASSUME NEW c \in Calls, TakeSlot(c) PROVE AnswerInv'
    BY <1>3 DEF TakeSlot
  <1>4. ASSUME NEW c \in Calls, ThreadStep(c) PROVE AnswerInv'
    <2>1. CASE Dispatch(c)
      BY <2>1 DEF Dispatch, RunInv, Undispatched
    <2>2. CASE Admit(c) \/ Refuse(c)
      BY <2>2 DEF Admit, Refuse, RunInv, Undispatched
    <2>3. CASE TakeLock(c) \/ Finish(c) \/ DropLock(c) \/ Respond(c) \/ GiveBack(c)
      BY <2>3 DEF TakeLock, Finish, DropLock, Respond, GiveBack
    <2>4. QED
      BY <1>4, <2>1, <2>2, <2>3 DEF ThreadStep
  <1>5. ASSUME NEW c \in Calls, FaultStep(c) PROVE AnswerInv'
    <2>1. CASE NoSocket(c) \/ TimeOut(c)
      BY <2>1 DEF NoSocket, TimeOut, RunBySudo
    <2>2. CASE NoThread(c)
      BY <2>2 DEF NoThread
    <2>3. CASE Panic(c)
      BY <2>3 DEF Panic, InProcess, Threaded
    <2>4. QED
      BY <1>5, <2>1, <2>2, <2>3 DEF FaultStep
  <1>6. CASE Accept
    <2>1. Head(backlog) \in Calls /\ conn[Head(backlog)] = "backlog"
      BY <1>6 DEF Accept, BacklogInv
    <2>2. QED
      BY <1>6, <2>1 DEF Accept
  <1>7. CASE Restart \/ Quiet \/ UNCHANGED vars
    BY <1>7 DEF Restart, Quiet, vars
  <1>8. ASSUME NEW t \in Timers, UnitStarts(t) \/ UnitEnds(t) PROVE AnswerInv'
    BY <1>8 DEF UnitStarts, UnitEnds
  <1>9. QED
    BY <1>1, <1>2, <1>3, <1>4, <1>5, <1>6, <1>7, <1>8 DEF Next

LEMMA AnswersHold == Spec => []AnswerInv
  <1>1. Init => AnswerInv
    BY ConstantsAssumption DEF Init, AnswerInv, NotBySudo
  <1>2. IInv /\ AnswerInv /\ [Next]_vars => AnswerInv'
    BY AnswerStep
  <1>3. QED
    BY <1>1, <1>2, Invariance, PTL DEF Spec

\* An answer is the answer of one run, or of none when it is a refusal,
\* whatever was lost, timed out or died on the way to it (`call_at`).
THEOREM AnswersAreRuns == Spec => []AnswerTellsTheRun
  <1>1. AnswerInv /\ IInv => AnswerTellsTheRun
    <2> SUFFICES ASSUME AnswerInv, IInv, NEW c \in Calls, caller[c] = "answered"
                 PROVE  runs[c] = IF reply[c] = "result" THEN 1 ELSE 0
      BY DEF AnswerTellsTheRun
    <2>1. NotBySudo(c) /\ reply[c] \in {"none", "result", "refused"}
      BY DEF NotBySudo, IInv, TypeOK
    <2>2. CASE IsPanel(c)
      BY <2>1, <2>2 DEF AnswerInv, IsPanel
    <2>3. CASE ~IsPanel(c)
      BY <2>1, <2>3 DEF AnswerInv, IsPanel
    <2>4. QED
      BY <2>2, <2>3
  <1>2. QED
    BY <1>1, AnswersHold, Invariance, PTL

\* What is answered while its caller waits is not run again, by the helper's
\* thread or through sudo: nothing but these two starts an operation.
THEOREM AnswersAreFinal == Spec => AnswerIsFinal
  <1> DEFINE Final == \A c \in Calls :
                        caller[c] = "socket" /\ reply[c] # "none" => runs'[c] = runs[c]
  <1>1. IInv /\ AnswerInv /\ [Next]_vars => Final
    <2> SUFFICES ASSUME IInv, AnswerInv, [Next]_vars,
                        NEW c \in Calls, caller[c] = "socket", reply[c] # "none"
                 PROVE  runs'[c] = runs[c]
      OBVIOUS
    <2>1. conn[c] # "locking" /\ runs \in [Calls -> 0..2]
      BY DEF AnswerInv, IInv, TypeOK
    <2> USE <2>1 DEF serverVars
    <2>2. ASSUME NEW d \in Calls, Dispatch(d) PROVE runs'[c] = runs[c]
      BY <2>2 DEF Dispatch
    <2>3. ASSUME NEW d \in Calls, ReadNothing(d) \/ NoSocket(d) \/ TimeOut(d)
          PROVE  runs'[c] = runs[c]
      BY <2>3 DEF ReadNothing, NoSocket, TimeOut, RunBySudo
    <2>4. CASE runs' = runs
      BY <2>4
    <2>5. QED
      BY <2>2, <2>3, <2>4
      DEF Next, PanelStep, ThreadStep, FaultStep, Connect, ReadReply, SudoEnds, TakeSlot,
          Admit, Refuse, TakeLock, Finish, DropLock, Respond, GiveBack, NoThread, Panic,
          UnitStarts, UnitEnds, Accept, Restart, Quiet, vars
  <1>2. QED
    BY <1>1, AnswersHold, Invariance, PTL DEF Spec, AnswerIsFinal

\* No slot is lost and none is given back twice.
THEOREM SlotsConserved == Spec => []SlotsAccounted
  <1>1. IInv => SlotsAccounted
    BY DEF IInv, SlotInv, SlotsAccounted, Busy
  <1>2. QED
    BY <1>1, Invariance, PTL

\* No thread that is not at work has a lock.
THEOREM LocksLetGo == Spec => []LocksOfTheLiving
  <1>1. IInv => LocksOfTheLiving
    BY ConstantsAssumption DEF IInv, HoldOrder, Holders, LocksOfTheLiving, Held
  <1>2. QED
    BY <1>1, Invariance, PTL

\* The helper implements ResourceTurns: a dispatch is a Begin, an end or a
\* panic is an End, and every other step leaves what runs as it is.
THEOREM Implements == Spec => TakesTurns
  <1> DEFINE now == {c \in Calls : conn[c] = "running"}
  <1>1. Init => Turns!Init
    BY DEF Init, Turns!Init
  <1>2. IInv /\ IInv' /\ [Next]_vars => [Turns!Next]_now
    <2> SUFFICES ASSUME IInv, IInv', [Next]_vars
                 PROVE  Turns!Next \/ now' = now
      OBVIOUS
    <2> USE DEF IInv, TypeOK, serverVars
    <2>1. ASSUME NEW c \in Calls, Dispatch(c) PROVE Turns!Begin(c)
      <3>1. c \notin now /\ now' = now \cup {c}
        BY <2>1 DEF Dispatch
      <3>2. ASSUME NEW d \in now PROVE ~Clash(OpOf[c], OpOf[d])
        <4>1. conn'[c] = "running" /\ conn'[d] = "running" /\ c # d /\ d \in Calls
          BY <2>1, <3>2 DEF Dispatch
        <4>2. Needs(c) \subseteq Held(c)' /\ Needs(d) \subseteq Held(d)'
          BY <4>1 DEF HoldOrder, Needs
        <4>3. Held(c)' \cap Held(d)' = {}
          BY <4>1 DEF Held
        <4>4. QED
          BY <4>2, <4>3 DEF Clash, Needs
      <3>3. QED
        <4>1. \A op : Turns!LocksOf(op) = LocksOf(op)
          BY DEF LocksOf, Turns!LocksOf, Resource, Turns!Resource,
                 Packages, Accounts, Systemd, Php, Nginx, Firewall, Cron, Malware,
                 Turns!Packages, Turns!Accounts, Turns!Systemd, Turns!Php,
                 Turns!Nginx, Turns!Firewall, Turns!Cron, Turns!Malware
        <4>2. \A d \in now : ~Turns!Clash(OpOf[c], OpOf[d])
          BY <3>2, <4>1 DEF Clash, Turns!Clash
        <4>3. QED
          BY <3>1, <4>2 DEF Turns!Begin
    <2>2. ASSUME now' \subseteq now PROVE Turns!Next \/ now' = now
      BY <2>2 DEF Turns!Next, Turns!End
    <2>3. CASE \E c \in Calls : Connect(c) \/ PanelStep(c) \/ TakeSlot(c)
      BY <2>2, <2>3 DEF Connect, PanelStep, TakeSlot, ReadNothing, ReadReply, SudoEnds, RunBySudo
    <2>4. ASSUME NEW c \in Calls, ThreadStep(c) PROVE Turns!Next \/ now' = now
      <3>1. CASE Dispatch(c)
        BY <2>1, <3>1 DEF Turns!Next
      <3>2. CASE \/ Admit(c) \/ Refuse(c) \/ TakeLock(c) \/ Finish(c)
                 \/ DropLock(c) \/ Respond(c) \/ GiveBack(c)
        BY <2>2, <3>2 DEF Admit, Refuse, TakeLock, Finish, DropLock, Respond, GiveBack
      <3>3. QED
        BY <2>4, <3>1, <3>2 DEF ThreadStep
    <2>5. CASE \E c \in Calls : FaultStep(c)
      BY <2>2, <2>5 DEF FaultStep, NoSocket, TimeOut, NoThread, Panic, RunBySudo, InProcess, Threaded
    <2>6. CASE Accept
      BY <2>2, <2>6 DEF Accept
    <2>7. CASE Restart \/ Quiet \/ UNCHANGED vars
      BY <2>2, <2>7 DEF Restart, Quiet, vars
    <2>8. CASE \E t \in Timers : UnitStarts(t) \/ UnitEnds(t)
      BY <2>2, <2>8 DEF UnitStarts, UnitEnds
    <2>9. QED
      BY <2>3, <2>4, <2>5, <2>6, <2>7, <2>8 DEF Next
  <1>3. QED
    BY <1>1, <1>2, Invariance, PTL DEF Spec, TakesTurns, Turns!Spec
=============================================================================
