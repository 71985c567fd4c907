----------------------------- MODULE RoundRobin -----------------------------
(***************************************************************************)
(* What the thread library promises: cooperative coroutines run one at a   *)
(* time, in the order they became ready; a coroutine that yields goes to   *)
(* the back, one that exits never runs again.                              *)
(***************************************************************************)
EXTENDS Integers, Sequences

CONSTANTS
  Ids,   \* identities a coroutine can have
  None   \* no coroutine

VARIABLES
  ready,    \* coroutines waiting for their turn, first to run first
  running,  \* the coroutine whose turn it is
  done      \* coroutines that exited

vars == <<ready, running, done>>

InQueue(t) == \E k \in 1 .. Len(ready) : ready[k] = t

Init ==
  /\ ready = <<>>
  /\ running = None
  /\ done = {}

\* A new coroutine waits behind the others, whoever creates it.
Spawn(t) ==
  /\ ~InQueue(t)
  /\ running # t
  /\ t \notin done
  /\ ready' = Append(ready, t)
  /\ UNCHANGED <<running, done>>

Dispatch ==
  /\ running = None
  /\ ready # <<>>
  /\ running' = Head(ready)
  /\ ready' = Tail(ready)
  /\ UNCHANGED done

Yield ==
  /\ running # None
  /\ ready' = Append(ready, running)
  /\ running' = None
  /\ UNCHANGED done

Exit ==
  /\ running # None
  /\ done' = done \cup {running}
  /\ running' = None
  /\ UNCHANGED ready

Next ==
  \/ \E t \in Ids : Spawn(t)
  \/ Dispatch
  \/ Yield
  \/ Exit

Spec == Init /\ [][Next]_vars

=============================================================================
