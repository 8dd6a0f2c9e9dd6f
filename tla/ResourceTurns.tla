--------------------------- MODULE ResourceTurns ---------------------------
(***************************************************************************)
(* What snpanel-helper promises about the operations it runs: any number   *)
(* of them side by side, but never two that change one shared piece of the *)
(* system ("What must not overlap is two changes to one shared piece of    *)
(* the system", locks.rs).  How turns are taken is not said here.          *)
(***************************************************************************)
EXTENDS HelperLocks

CONSTANTS Calls,    \* the requests made of the helper
          OpOf      \* the operation each asks for

VARIABLE running    \* the calls whose operation is changing the system now

Init == running = {}

\* A call may begin when nothing that runs changes what it changes.
Begin(c) ==
  /\ c \notin running
  /\ \A d \in running : ~Clash(OpOf[c], OpOf[d])
  /\ running' = running \cup {c}

\* An operation ends; when the helper dies all of them end together.
End == /\ running # {}
       /\ running' \in (SUBSET running) \ {running}

Next == (\E c \in Calls : Begin(c)) \/ End

Spec == Init /\ [][Next]_running
=============================================================================
