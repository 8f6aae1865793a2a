-------------------------------- MODULE Fifo --------------------------------
(***************************************************************************)
(* What a SwapQueue promises, without its slots, indices and counter: a    *)
(* bounded first-in first-out queue.                                       *)
(***************************************************************************)
EXTENDS Naturals, Sequences

CONSTANTS
  Values,   \* what is put into the queue
  Size      \* the most it can hold

VARIABLES
  inside,   \* the values in the queue, oldest first
  taken     \* the values taken from it, in order

fifoVars == <<inside, taken>>

Put(v) ==
  /\ Len(inside) < Size
  /\ inside' = Append(inside, v)
  /\ UNCHANGED taken

Take ==
  /\ inside # <<>>
  /\ taken' = Append(taken, Head(inside))
  /\ inside' = Tail(inside)

DropAll ==
  /\ inside' = <<>>
  /\ UNCHANGED taken

Init == inside = <<>> /\ taken = <<>>

Next == (\E v \in Values : Put(v)) \/ Take \/ DropAll

Spec == Init /\ [][Next]_fifoVars

=============================================================================
