-------------------------------- MODULE MCSync --------------------------------
(* A small instance of Sync: the queue starts with the bottles of its slots, *)
(* in their order, and only an event is reset by hand.                       *)
EXTENDS Sync

CONSTANTS t1, t2, t3, o1, o2, f1

MCPrioRange == <<-1, 9>>

MCInit ==
  /\ SyncInit
  /\ queue_ = [s \in Slots |-> s + 1] /\ input = Size + 1
  /\ subject # "event" => ~is_manual_reset_

OfSwap(A) == subject = "swap" /\ A /\ UNCHANGED other_vars

\* The fairness of SwapQueue.
MCSpec ==
  /\ MCInit /\ [][SyncNext]_SyncVars
  /\ WF_SyncVars(OfSwap(Insert))
  /\ WF_SyncVars(OfSwap(Remove \/ ClearAdvance))

=============================================================================
