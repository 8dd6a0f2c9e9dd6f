---------------------------- MODULE HelperServer ----------------------------
(***************************************************************************)
(* A privileged call, end to end: the panel (snpanel-api/src/shell.rs and  *)
(* helper_socket.rs) sends an operation to the root helper over a socket   *)
(* and runs it through sudo when the socket gives no answer; the helper    *)
(* (snpanel-helper/src/main.rs and locks.rs) accepts on one thread, works  *)
(* on MaxInFlight requests at once, and holds the locks of what an         *)
(* operation changes while it runs.  systemd units run the same binary     *)
(* from the command line, which takes no locks.                            *)
(*                                                                         *)
(* An operation is opaque: it starts, changes the resources it is placed   *)
(* on, and ends or panics.                                                 *)
(***************************************************************************)
EXTENDS HelperLocks, Sequences, FiniteSets

CONSTANTS
  Calls,        \* calls of `privileged`; each is made at most once
  Timers,       \* systemd units whose ExecStart is a helper verb
  OpOf,         \* the operation of each call and of each unit
  Peer,         \* who connects: the panel, a stranger, or a panel whose
                \* request this helper cannot decode
  MaxInFlight,  \* MAX_IN_FLIGHT
  Faults,       \* what may go wrong in this run
  Nobody        \* the holder of a free lock

AllFaults == {"timeout", "panic", "no_socket", "no_thread"}

ASSUME ConstantsAssumption ==
  /\ Calls \cap Timers = {}
  /\ OpOf \in [Calls \cup Timers -> STRING]
  /\ Peer \in [Calls -> {"panel", "stranger", "garbled"}]
  /\ MaxInFlight \in Nat \ {0}
  /\ Faults \subseteq AllFaults
  /\ Nobody \notin Calls

VARIABLES
  caller,   \* the panel's side of each call
  conn,     \* the helper's side of its connection
  reply,    \* what the helper wrote on the connection
  backlog,  \* connections the kernel holds for `accept`, oldest first
  free,     \* `Slots::free`
  owner,    \* who holds each mutex of LOCKS
  up,       \* the helper process is running
  runs,     \* how often each call's operation has been started
  units     \* the systemd units running a helper verb now

vars == <<caller, conn, reply, backlog, free, owner, up, runs, units>>
serverVars == <<backlog, free, owner, up>>

CallerStates == {"idle", "socket", "sudo", "answered", "sudo_done"}

\* A connection is in a thread of its own from "serving" to "ending".
Threaded   == {"serving", "locking", "running", "releasing", "ending"}
InProcess  == {"accepted"} \cup Threaded
ConnStates == {"none", "backlog", "gone"} \cup InProcess

IsPanel(c) == Peer[c] # "stranger"

Needs(c) == LocksOf(OpOf[c])
Held(c)  == {r \in Resource : owner[r] = c}

\* Slip: `hold` stops at the first lock of the row.
SlipOneLock(c) == IF Held(c) = {} THEN Needs(c) ELSE {}

\* The locks `hold` has yet to take, and the one it waits for: the sorted
\* vector is walked front to back.
Wanted(c)    == Needs(c) \ Held(c)
\* Slip: the vector is not sorted, and one row lists Firewall before Systemd.
SlipUnsorted(c) ==
  IF OpOf[c] = "fail2ban-stop"
  THEN CHOOSE r \in Needs(c) \ Held(c) : \A s \in Needs(c) \ Held(c) : s <= r
  ELSE CHOOSE r \in Needs(c) \ Held(c) : \A s \in Needs(c) \ Held(c) : r <= s

NextLock(c)  == CHOOSE r \in Wanted(c) : \A s \in Wanted(c) : r <= s
\* `Held::drop` pops from the back.
FirstFreed(c) == CHOOSE r \in Held(c) : \A s \in Held(c) : s <= r

Init ==
  /\ caller = [c \in Calls |-> "idle"]
  /\ conn = [c \in Calls |-> "none"]
  /\ reply = [c \in Calls |-> "none"]
  /\ backlog = <<>>
  /\ free = MaxInFlight
  /\ owner = [r \in Resource |-> Nobody]
  /\ up = TRUE
  /\ runs = [c \in Calls |-> 0]
  /\ units = {}

-----------------------------------------------------------------------------
(* The panel: `privileged_timed` and `call_at`. *)

\* Connect and write the request.  systemd owns the listening socket, so this
\* succeeds whether or not the helper is up.
Connect(c) ==
  /\ caller[c] = "idle"
  /\ caller' = [caller EXCEPT ![c] = "socket"]
  /\ conn' = [conn EXCEPT ![c] = "backlog"]
  /\ backlog' = Append(backlog, c)
  /\ UNCHANGED <<reply, free, owner, up, runs, units>>

\* `sudo -n snpanel-helper <verb>`: the same operation in a process of its
\* own, through `cli`, which does not call `locks::hold`.
RunBySudo(c) ==
  /\ caller' = [caller EXCEPT ![c] = "sudo"]
  /\ runs' = [runs EXCEPT ![c] = @ + 1]
  /\ UNCHANGED <<conn, reply, backlog, free, owner, up, units>>

NoSocket(c) ==
  /\ "no_socket" \in Faults
  /\ caller[c] = "idle"
  /\ IsPanel(c)
  /\ RunBySudo(c)

\* The 900 seconds are over.  The stream is dropped; the helper is not told.
TimeOut(c) ==
  /\ "timeout" \in Faults
  /\ caller[c] = "socket"
  /\ IsPanel(c)
  /\ reply[c] = "none"
  /\ RunBySudo(c)

\* Slip: a connection that is closed is a transport fault, answered or not.
SlipRetryAnswered(c) ==
  /\ caller[c] = "socket"
  /\ IsPanel(c)
  /\ conn[c] = "gone"
  /\ RunBySudo(c)

\* The connection was closed with nothing written on it.
ReadNothing(c) ==
  /\ caller[c] = "socket"
  /\ IsPanel(c)
  /\ conn[c] = "gone"
  /\ reply[c] = "none"
  /\ RunBySudo(c)

\* Slip: an empty reply is taken for an answer.
SlipEmptyReply(c) ==
  /\ caller[c] = "socket"
  /\ reply[c] # "none" \/ conn[c] = "gone"
  /\ caller' = [caller EXCEPT ![c] = "answered"]
  /\ UNCHANGED <<conn, reply, backlog, free, owner, up, runs, units>>

\* Whatever the helper answers, a refusal included, is the call's result.
ReadReply(c) ==
  /\ caller[c] = "socket"
  /\ \/ reply[c] # "none"
     \/ ~IsPanel(c) /\ conn[c] = "gone"
  /\ caller' = [caller EXCEPT ![c] = "answered"]
  /\ UNCHANGED <<conn, reply, backlog, free, owner, up, runs, units>>

SudoEnds(c) ==
  /\ caller[c] = "sudo"
  /\ caller' = [caller EXCEPT ![c] = "sudo_done"]
  /\ UNCHANGED <<conn, reply, backlog, free, owner, up, runs, units>>

-----------------------------------------------------------------------------
(* The helper: `serve`, `handle` and `locks::hold`. *)

\* The accept loop has one thread, and it is back at `accept` only when the
\* connection before has been given a slot.
Accept ==
  /\ up
  /\ backlog # <<>>
  /\ \A c \in Calls : conn[c] # "accepted"
  /\ conn' = [conn EXCEPT ![Head(backlog)] = "accepted"]
  /\ backlog' = Tail(backlog)
  /\ UNCHANGED <<caller, reply, free, owner, up, runs, units>>

\* `slots.take()` and the thread that holds the slot.
TakeSlot(c) ==
  /\ conn[c] = "accepted"
  /\ free > 0
  /\ free' = free - 1
  /\ conn' = [conn EXCEPT ![c] = "serving"]
  /\ UNCHANGED <<caller, reply, backlog, owner, up, runs, units>>

\* Slip: the slot of a thread that could not be started is not given back.
SlipSlotLost(c) ==
  /\ "no_thread" \in Faults
  /\ conn[c] = "accepted"
  /\ free > 0
  /\ free' = free - 1
  /\ conn' = [conn EXCEPT ![c] = "gone"]
  /\ UNCHANGED <<caller, reply, backlog, owner, up, runs, units>>

\* The thread cannot be started: the slot goes back, the stream is dropped.
NoThread(c) ==
  /\ "no_thread" \in Faults
  /\ conn[c] = "accepted"
  /\ free > 0
  /\ conn' = [conn EXCEPT ![c] = "gone"]
  /\ UNCHANGED <<caller, reply, backlog, free, owner, up, runs, units>>

\* Authorise the peer and decode its request.
Admit(c) ==
  /\ conn[c] = "serving"
  /\ Peer[c] = "panel"
  /\ conn' = [conn EXCEPT ![c] = "locking"]
  /\ UNCHANGED <<caller, reply, serverVars, runs, units>>

Refuse(c) ==
  /\ conn[c] = "serving"
  /\ Peer[c] # "panel"
  /\ reply' = [reply EXCEPT ![c] = "refused"]
  /\ conn' = [conn EXCEPT ![c] = "ending"]
  /\ UNCHANGED <<caller, serverVars, runs, units>>

\* One turn of `hold`'s loop: it waits until the lock is nobody's.
TakeLock(c) ==
  /\ conn[c] = "locking"
  /\ Wanted(c) # {}
  /\ owner[NextLock(c)] = Nobody
  /\ owner' = [owner EXCEPT ![NextLock(c)] = c]
  /\ UNCHANGED <<caller, conn, reply, backlog, free, up, runs, units>>

\* Slip: the operation is dispatched without waiting for its last lock.
SlipDispatchEarly(c) ==
  /\ conn[c] = "locking"
  /\ Held(c) # {} \/ Needs(c) = {}
  /\ conn' = [conn EXCEPT ![c] = "running"]
  /\ runs' = [runs EXCEPT ![c] = @ + 1]
  /\ UNCHANGED <<caller, reply, serverVars, units>>

\* Every lock is held: `ops::dispatch`.
Dispatch(c) ==
  /\ conn[c] = "locking"
  /\ Wanted(c) = {}
  /\ conn' = [conn EXCEPT ![c] = "running"]
  /\ runs' = [runs EXCEPT ![c] = @ + 1]
  /\ UNCHANGED <<caller, reply, serverVars, units>>

Finish(c) ==
  /\ conn[c] = "running"
  /\ conn' = [conn EXCEPT ![c] = "releasing"]
  /\ UNCHANGED <<caller, reply, serverVars, runs, units>>

DropLock(c) ==
  /\ conn[c] = "releasing"
  /\ Held(c) # {}
  /\ owner' = [owner EXCEPT ![FirstFreed(c)] = Nobody]
  /\ UNCHANGED <<caller, conn, reply, backlog, free, up, runs, units>>

Respond(c) ==
  /\ conn[c] = "releasing"
  /\ Held(c) = {}
  /\ reply' = [reply EXCEPT ![c] = "result"]
  /\ conn' = [conn EXCEPT ![c] = "ending"]
  /\ UNCHANGED <<caller, serverVars, runs, units>>

\* The stream is closed and `SlotGuard` dropped.
GiveBack(c) ==
  /\ conn[c] = "ending"
  /\ conn' = [conn EXCEPT ![c] = "gone"]
  /\ free' = free + 1
  /\ UNCHANGED <<caller, reply, backlog, owner, up, runs, units>>

\* An operation panics.  The release profile aborts on a panic (Cargo.toml),
\* so every thread of the process goes with it; connections not yet accepted
\* stay with systemd's socket.
Panic(c) ==
  /\ "panic" \in Faults
  /\ conn[c] = "running"
  /\ up' = FALSE
  /\ conn' = [d \in Calls |-> IF conn[d] \in InProcess THEN "gone" ELSE conn[d]]
  /\ owner' = [r \in Resource |-> Nobody]
  /\ free' = MaxInFlight
  /\ UNCHANGED <<caller, reply, backlog, runs, units>>

\* Restart=on-failure, or the next connection on the socket.
Restart ==
  /\ ~up
  /\ up' = TRUE
  /\ UNCHANGED <<caller, conn, reply, backlog, free, owner, runs, units>>

-----------------------------------------------------------------------------
(* systemd: a unit that runs `snpanel-helper <verb>` as root, through `cli`. *)

UnitStarts(t) ==
  /\ t \notin units
  /\ units' = units \cup {t}
  /\ UNCHANGED <<caller, conn, reply, serverVars, runs>>

UnitEnds(t) ==
  /\ t \in units
  /\ units' = units \ {t}
  /\ UNCHANGED <<caller, conn, reply, serverVars, runs>>

\* Every call has been made and is over, and so is every unit.
Quiet ==
  /\ \A c \in Calls : caller[c] \in {"answered", "sudo_done"}
                      /\ conn[c] \in {"none", "gone"}
  /\ units = {} /\ up
  /\ UNCHANGED vars

PanelStep(c)  == ReadNothing(c) \/ ReadReply(c) \/ SudoEnds(c)
ThreadStep(c) == \/ Admit(c) \/ Refuse(c) \/ TakeLock(c) \/ Dispatch(c)
                 \/ Finish(c) \/ DropLock(c) \/ Respond(c) \/ GiveBack(c)
FaultStep(c)  == NoSocket(c) \/ TimeOut(c) \/ NoThread(c) \/ Panic(c)

Next ==
  \/ \E c \in Calls : Connect(c) \/ PanelStep(c) \/ TakeSlot(c)
                      \/ ThreadStep(c) \/ FaultStep(c)
  \/ \E t \in Timers : UnitStarts(t) \/ UnitEnds(t)
  \/ Accept
  \/ Restart
  \/ Quiet

\* Threads are scheduled, operations end, the accept loop loops and systemd
\* restarts the service.  Nothing has to be asked for and nothing has to go
\* wrong.  Each call is made once, so a mutex that is wanted for ever is free
\* for ever in the end: weak fairness is enough, whichever waiter it lets in.
Fairness ==
  /\ \A c \in Calls : /\ WF_vars(PanelStep(c))
                      /\ WF_vars(TakeSlot(c))
                      /\ WF_vars(ThreadStep(c))
  /\ \A t \in Timers : WF_vars(UnitEnds(t))
  /\ WF_vars(Accept)
  /\ WF_vars(Restart)

Spec == Init /\ [][Next]_vars
FairSpec == Spec /\ Fairness

-----------------------------------------------------------------------------
(* Properties *)

\* Every variable keeps its type: slots never exceed MAX_IN_FLIGHT, a mutex
\* has one holder, and no call is started more than twice.
TypeOK ==
  /\ caller \in [Calls -> CallerStates]
  /\ conn \in [Calls -> ConnStates]
  /\ reply \in [Calls -> {"none", "result", "refused"}]
  /\ backlog \in Seq(Calls)
  /\ free \in 0..MaxInFlight
  /\ owner \in [Resource -> Calls \cup {Nobody}]
  /\ up \in BOOLEAN
  /\ runs \in [Calls -> 0..2]
  /\ units \subseteq Timers

\* Two operations the helper runs for the socket never change one shared
\* piece of the system at the same time, whatever times out or panics
\* (locks.rs, `hold`).
SocketOpsExclusive ==
  \A c, d \in Calls :
    c # d /\ conn[c] = "running" /\ conn[d] = "running"
      => ~Clash(OpOf[c], OpOf[d])

Waits(c)     == conn[c] = "locking" /\ Wanted(c) # {}
WaitsFor(c, d) == Waits(c) /\ owner[NextLock(c)] = d

\* Along a chain of waiting threads the locks waited for ascend, so the chain
\* never closes: "two operations can never each hold what the other waits
\* for" (locks.rs).
NoWaitCycle ==
  \A c, d \in Calls :
    WaitsFor(c, d) /\ Waits(d) => NextLock(c) < NextLock(d)

\* Each slot is free or one thread's: a refusal, a thread that could not be
\* started and a dead helper lose none and give none back twice
\* (`Slots`, `SlotGuard`).
SlotsAccounted ==
  free + Cardinality({c \in Calls : conn[c] \in Threaded}) = MaxInFlight

\* A lock is somebody's only while its thread takes, uses or drops it.
LocksOfTheLiving ==
  \A c \in Calls :
    Held(c) # {} => conn[c] \in {"locking", "running", "releasing"}

\* A call that ends with an answer from the helper ran once, or not at all
\* when it was refused: an empty reply is no answer (`call_at`).
AnswerTellsTheRun ==
  \A c \in Calls :
    caller[c] = "answered" => runs[c] = IF reply[c] = "result" THEN 1 ELSE 0

\* Once the helper has answered a caller that still waits, nothing starts the
\* operation again: "It is never retried through sudo" (helper_socket.rs).
AnswerIsFinal ==
  [][\A c \in Calls :
       caller[c] = "socket" /\ reply[c] # "none" => runs'[c] = runs[c]]_vars

\* Every request made over the socket comes to an end for its caller, through
\* the helper or through sudo: no wait for a slot or a lock is for ever, and a
\* helper that dies does not strand the calls it had.
EveryCallEnds ==
  \A c \in Calls :
    caller[c] = "socket" ~> caller[c] \in {"answered", "sudo_done"}

\* The helper as `ResourceTurns` promises it: what runs is what is dispatched
\* and has not finished.
Turns == INSTANCE ResourceTurns
           WITH running <- {c \in Calls : conn[c] = "running"}
TakesTurns == Turns!Spec
=============================================================================
