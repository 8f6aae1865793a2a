-------------------------------- MODULE Signal --------------------------------
(***************************************************************************)
(* What an Event promises (src/event.h): it is signaled or not; a Wait     *)
(* returns true by finding it signaled, and takes the signal with it       *)
(* unless the event is reset by hand; a Wait returns false only when its   *)
(* time is over.                                                           *)
(***************************************************************************)
EXTENDS Integers

CONSTANTS Waiters, Forever, NotWaiting

VARIABLES
  manual,    \* is the event reset by hand
  signaled,
  deadline,  \* per waiter: the time of its Wait, Forever or NotWaiting
  now

vars == <<manual, signaled, deadline, now>>

Init ==
  /\ manual \in BOOLEAN
  /\ signaled \in BOOLEAN
  /\ deadline = [w \in Waiters |-> NotWaiting]
  /\ now = 0

Set == signaled' = TRUE /\ UNCHANGED <<deadline, now>>
Reset == signaled' = FALSE /\ UNCHANGED <<deadline, now>>

Begin(w) ==
  /\ deadline[w] = NotWaiting
  /\ deadline'[w] \in Nat \cup {Forever}
  /\ deadline' = [deadline EXCEPT ![w] = deadline'[w]]
  /\ UNCHANGED <<signaled, now>>

Leave(w) == deadline' = [deadline EXCEPT ![w] = NotWaiting]

Take(w) ==
  /\ deadline[w] # NotWaiting
  /\ signaled
  /\ signaled' = manual
  /\ Leave(w)
  /\ UNCHANGED now

GiveUp(w) ==
  /\ deadline[w] \notin {NotWaiting, Forever}
  /\ now >= deadline[w]
  /\ Leave(w)
  /\ UNCHANGED <<signaled, now>>

Tick == now' = now + 1 /\ UNCHANGED <<signaled, deadline>>

Next ==
  /\ \/ Set \/ Reset \/ Tick
     \/ \E w \in Waiters : Begin(w) \/ Take(w) \/ GiveUp(w)
  /\ UNCHANGED manual

Spec == Init /\ [][Next]_vars

===============================================================================
