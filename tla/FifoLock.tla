------------------------------ MODULE FifoLock ------------------------------
(***************************************************************************)
(* What skynet.queue() promises its callers: one line of coroutines, the   *)
(* first of which owns the critical section.  A coroutine joins the line   *)
(* at the end and only the owner leaves it, so ownership is exclusive and  *)
(* is granted in the order of arrival; nobody barges in.                   *)
(***************************************************************************)
EXTENDS Naturals, Sequences

CONSTANT Threads      \* the coroutines of the service

VARIABLE line         \* the owner, then the coroutines that wait for it

Init == line = <<>>

\* A coroutine that is not in the line calls cs(f).
Arrive(th) == /\ \A i \in DOMAIN line : line[i] # th
              /\ line' = Append(line, th)

\* The owner's outermost call returns (or raises).
Leave == /\ line # <<>>
         /\ line' = Tail(line)

Next == (\E th \in Threads : Arrive(th)) \/ Leave

Spec == Init /\ [][Next]_line
=============================================================================
