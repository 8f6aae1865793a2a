------------------------------ MODULE SwapQueue ------------------------------
(***************************************************************************)
(* SwapQueue (src/swap_queue.h): a ring of Size slots between one producer *)
(* and one consumer.  Only num_elements_ is shared by atomic accesses; the *)
(* slots themselves are read and written without any, one thread at a time *)
(* because num_elements_ says so.  Items are swapped, never copied: a slot *)
(* and the callers' variables always hold a bottle, full or stale.         *)
(*                                                                         *)
(* Insert and Remove are split at each access of shared memory: the load   *)
(* of num_elements_, the two halves of the swap (read the slot, write the  *)
(* slot), the fetch_add or fetch_sub.  The acquire and release orders make *)
(* these take effect in program order; Clear's relaxed exchange touches no *)
(* slot.  Left out: the item verifier (a swap permutes verified items) and *)
(* SizeAtLeast, which only loads num_elements_.                            *)
(***************************************************************************)
EXTENDS Integers, Sequences

CONSTANTS
  Size,       \* queue_.size()
  Bottles,    \* the items: one per slot and one for each caller
  MaxFills    \* how often the producer fills a bottle

ASSUME SwapQueueAssumption ==
  /\ Size \in Nat \ {0}
  /\ MaxFills \in Nat

Slots == 0..(Size - 1)

VARIABLES
  next_write_index_,
  next_read_index_,
  num_elements_,
  queue_,             \* the bottle in each slot
  input, ppc, ptmp,   \* the producer: its bottle, its step, swap's temporary
  output, cpc, ctmp,  \* the consumer: likewise
  dropped,            \* what the exchange in Clear returned
  content,            \* what each bottle was last filled with, 0 at first
  fills,              \* how many times the producer filled a bottle
  received            \* history: the contents the consumer got, in order

producer == <<next_write_index_, input, ppc, ptmp>>
consumer == <<next_read_index_, output, cpc, ctmp, dropped, received>>
vars == <<num_elements_, queue_, content, fills, producer, consumer>>

\* An index that was moved past the end of the ring, at most once around.
Wrap(i) == IF i >= Size THEN i - Size ELSE i

-----------------------------------------------------------------------------
(* The producer fills its bottle, inserts it and fills what it got for it. *)

Fill ==
  /\ ppc = "fill"
  /\ fills < MaxFills
  /\ fills' = fills + 1
  /\ content' = [content EXCEPT ![input] = fills']
  /\ ppc' = "insert"
  /\ UNCHANGED <<num_elements_, queue_, next_write_index_, input, ptmp,
                 consumer>>

\* Insert returns false: the queue is full.  The caller tries the same bottle
\* again or fills it anew.
InsertFull ==
  /\ ppc = "insert"
  /\ num_elements_ = Size
  /\ ppc' = "fill"
  /\ UNCHANGED <<num_elements_, queue_, content, fills, next_write_index_,
                 input, ptmp, consumer>>

\* Mutant: the test for a full queue is off by one.
InsertBeginFull ==
  /\ ppc = "insert"
  /\ num_elements_ # Size + 1
  /\ ppc' = "swapout"
  /\ UNCHANGED <<num_elements_, queue_, content, fills, next_write_index_,
                 input, ptmp, consumer>>

\* The load of num_elements_ finds room.
InsertBegin ==
  /\ ppc = "insert"
  /\ num_elements_ # Size
  /\ ppc' = "swapout"
  /\ UNCHANGED <<num_elements_, queue_, content, fills, next_write_index_,
                 input, ptmp, consumer>>

\* swap(*input, queue_[next_write_index_])
InsertSwapOut ==
  /\ ppc = "swapout"
  /\ ptmp' = input
  /\ input' = queue_[next_write_index_]
  /\ ppc' = "swapin"
  /\ UNCHANGED <<num_elements_, queue_, content, fills, next_write_index_,
                 consumer>>

InsertSwapIn ==
  /\ ppc = "swapin"
  /\ queue_' = [queue_ EXCEPT ![next_write_index_] = ptmp]
  /\ ppc' = "publish"
  /\ UNCHANGED <<num_elements_, content, fills, next_write_index_, input, ptmp,
                 consumer>>

\* fetch_add(&num_elements_, 1)
InsertPublish ==
  /\ ppc = "publish"
  /\ num_elements_' = num_elements_ + 1
  /\ ppc' = "advance"
  /\ UNCHANGED <<queue_, content, fills, next_write_index_, input, ptmp,
                 consumer>>

InsertAdvance ==
  /\ ppc = "advance"
  /\ next_write_index_' = IF next_write_index_ + 1 = Size
                            THEN 0 ELSE next_write_index_ + 1
  /\ ppc' = "fill"
  /\ UNCHANGED <<num_elements_, queue_, content, fills, input, ptmp, consumer>>

-----------------------------------------------------------------------------
(* The consumer: Remove, and Clear.                                        *)

\* Mutants: the test for an empty queue is missing; it is off by one.
RemoveBeginEmpty ==
  /\ cpc = "remove"
  /\ cpc' = "swapout"
  /\ UNCHANGED <<num_elements_, queue_, content, fills, producer,
                 next_read_index_, output, ctmp, dropped, received>>

RemoveBeginLast ==
  /\ cpc = "remove"
  /\ num_elements_ > 1
  /\ cpc' = "swapout"
  /\ UNCHANGED <<num_elements_, queue_, content, fills, producer,
                 next_read_index_, output, ctmp, dropped, received>>

\* The load of num_elements_ finds an element; when it finds none, Remove
\* returns false and nothing has changed.
RemoveBegin ==
  /\ cpc = "remove"
  /\ num_elements_ # 0
  /\ cpc' = "swapout"
  /\ UNCHANGED <<num_elements_, queue_, content, fills, producer,
                 next_read_index_, output, ctmp, dropped, received>>

\* swap(*output, queue_[next_read_index_])
RemoveSwapOut ==
  /\ cpc = "swapout"
  /\ ctmp' = output
  /\ output' = queue_[next_read_index_]
  /\ received' = Append(received, content[output'])
  /\ cpc' = "swapin"
  /\ UNCHANGED <<num_elements_, queue_, content, fills, producer,
                 next_read_index_, dropped>>

RemoveSwapIn ==
  /\ cpc = "swapin"
  /\ queue_' = [queue_ EXCEPT ![next_read_index_] = ctmp]
  /\ cpc' = "publish"
  /\ UNCHANGED <<num_elements_, content, fills, producer, next_read_index_,
                 output, ctmp, dropped, received>>

\* fetch_sub(&num_elements_, 1)
RemovePublish ==
  /\ cpc = "publish"
  /\ num_elements_' = num_elements_ - 1
  /\ cpc' = "advance"
  /\ UNCHANGED <<queue_, content, fills, producer, next_read_index_, output,
                 ctmp, dropped, received>>

RemoveAdvance ==
  /\ cpc = "advance"
  /\ next_read_index_' = IF next_read_index_ + 1 = Size
                           THEN 0 ELSE next_read_index_ + 1
  /\ cpc' = "remove"
  /\ UNCHANGED <<num_elements_, queue_, content, fills, producer, output, ctmp,
                 dropped, received>>

\* exchange(&num_elements_, 0)
Clear ==
  /\ cpc = "remove"
  /\ dropped' = num_elements_
  /\ num_elements_' = 0
  /\ cpc' = "clear"
  /\ UNCHANGED <<queue_, content, fills, producer, next_read_index_, output,
                 ctmp, received>>

\* Mutant: the index is not moved.
ClearAdvanceNot ==
  /\ cpc = "clear"
  /\ cpc' = "remove"
  /\ UNCHANGED <<num_elements_, queue_, content, fills, producer,
                 next_read_index_, output, ctmp, dropped, received>>

\* next_read_index_ moves past what was dropped.
ClearAdvance ==
  /\ cpc = "clear"
  /\ next_read_index_' = Wrap(next_read_index_ + dropped)
  /\ cpc' = "remove"
  /\ UNCHANGED <<num_elements_, queue_, content, fills, producer, output, ctmp,
                 dropped, received>>

-----------------------------------------------------------------------------

Init ==
  /\ next_write_index_ = 0
  /\ next_read_index_ = 0
  /\ num_elements_ = 0
  /\ queue_ \in [Slots -> Bottles]
  /\ input \in Bottles
  /\ output \in Bottles
  /\ ptmp = input
  /\ ctmp = output
  /\ input # output
  /\ \A i \in Slots : queue_[i] \notin {input, output}
  /\ \A i, j \in Slots : i # j => queue_[i] # queue_[j]
  /\ ppc = "fill"
  /\ cpc = "remove"
  /\ dropped = 0
  /\ content = [b \in Bottles |-> 0]
  /\ fills = 0
  /\ received = <<>>

\* The steps of Insert and of Remove.
Insert ==
  \/ InsertBegin \/ InsertSwapOut \/ InsertSwapIn \/ InsertPublish
  \/ InsertAdvance

Remove ==
  \/ RemoveBegin \/ RemoveSwapOut \/ RemoveSwapIn \/ RemovePublish
  \/ RemoveAdvance

Next ==
  \/ Fill \/ InsertFull \/ Insert
  \/ Remove \/ Clear \/ ClearAdvance

Spec == Init /\ [][Next]_vars

\* The producer tries a bottle until it is inserted, and the consumer calls
\* Remove again and again, as in the comment at swap_queue.h:60-76.
FairSpec == Spec /\ WF_vars(Insert) /\ WF_vars(Remove \/ ClearAdvance)

-----------------------------------------------------------------------------
(* Properties.                                                             *)

InsertSteps == {"fill", "insert", "swapout", "swapin", "publish", "advance"}
RemoveSteps == {"remove", "swapout", "swapin", "publish", "advance", "clear"}

\* Every variable has its type; the indices stay inside the ring.
TypeOK ==
  /\ next_write_index_ \in Slots
  /\ next_read_index_ \in Slots
  /\ num_elements_ \in 0..Size
  /\ dropped \in 0..Size
  /\ queue_ \in [Slots -> Bottles]
  /\ {input, output, ptmp, ctmp} \subseteq Bottles
  /\ ppc \in InsertSteps
  /\ cpc \in RemoveSteps
  /\ content \in [Bottles -> Nat]
  /\ fills \in Nat
  /\ received \in Seq(Nat)

ProducerInSlot == ppc \in {"swapout", "swapin"}
ConsumerInSlot == cpc \in {"swapout", "swapin"}

\* The producer and the consumer are never in the same slot: plain memory is
\* never accessed by both at once (swap_queue.h:131-204).
SlotExclusive ==
  ProducerInSlot /\ ConsumerInSlot => next_write_index_ # next_read_index_

\* The bottle that belongs in slot i: in the middle of a swap, the one in the
\* temporary.
InSlot(i) ==
  IF ppc = "swapin" /\ i = next_write_index_ THEN ptmp
  ELSE IF cpc = "swapin" /\ i = next_read_index_ THEN ctmp
  ELSE queue_[i]

\* Items are swapped and never copied or lost: at all times the slots and the
\* two callers hold different bottles.  Nothing is allocated or freed on the
\* way, and nobody writes to a bottle that another one reads.
BottlesConserved ==
  /\ input # output
  /\ \A i \in Slots : InSlot(i) \notin {input, output}
  /\ \A i, j \in Slots : i # j => InSlot(i) # InSlot(j)

\* The next slot to write and the next slot to read, moved past what was
\* already published but not yet counted in the thread's own index.
Back ==
  IF ppc = "advance" THEN Wrap(next_write_index_ + 1) ELSE next_write_index_
Oldest ==
  IF cpc = "advance" THEN Wrap(next_read_index_ + 1)
  ELSE IF cpc = "clear" THEN Wrap(next_read_index_ + dropped)
  ELSE next_read_index_

\* The ring is consistent: num_elements_ slots lie between the two, there is
\* room while the producer is in one and an element while the consumer is.
RingInv ==
  /\ Back = Wrap(Oldest + num_elements_)
  /\ ppc \in {"swapout", "swapin", "publish"} => num_elements_ < Size
  /\ cpc \in {"swapout", "swapin", "publish"} => num_elements_ > 0

\* Where the consumer's next element is, and how many follow from there, while
\* the consumer is between its accesses.
Front ==
  Wrap(next_read_index_ +
         CASE cpc \in {"swapin", "publish", "advance"} -> 1
           [] cpc = "clear" -> dropped
           [] OTHER -> 0)
Available ==
  IF cpc \in {"swapin", "publish"} THEN num_elements_ - 1 ELSE num_elements_

Inside == [i \in 1..Available |-> content[queue_[Wrap(Front + i - 1)]]]

Promise == INSTANCE Fifo WITH
  Values <- 1..MaxFills, inside <- Inside, taken <- received

\* The queue is a bounded first-in first-out queue: nothing inserted is lost,
\* repeated, reordered or read while it is being written, whatever the two
\* threads interleave, and Clear drops exactly what had been inserted.
ImplementsFifo == Promise!Spec

\* The contents inserted so far and not yet received or dropped.
Waiting(v) == \E i \in 1..Available : Inside[i] = v

\* An inserted bottle does not stay in the queue for ever when the consumer
\* goes on calling Remove: the counter never hides an element.
InsertedIsTaken == \A v \in 1..MaxFills : Waiting(v) ~> ~Waiting(v)

=============================================================================
