------------------------------ MODULE SyncProofs ------------------------------
(***************************************************************************)
(* The components of Sync are correct for any number of threads: each one  *)
(* is proved from its own specification, which every behaviour of Sync     *)
(* meets.                                                                  *)
(***************************************************************************)
EXTENDS Sync, FiniteSetTheorems, SequenceTheorems, TLAPS

-----------------------------------------------------------------------------
(* The ring.                                                               *)

\* The ring stays consistent in every state.
LEMMA RingKept == Spec => [](TypeOK /\ RingInv)
  \* Every step keeps the types, given that the ring is consistent.
  <1>TypeStep. TypeOK /\ RingInv /\ [Next]_vars => TypeOK'
    <2> SUFFICES ASSUME TypeOK, RingInv, [Next]_vars PROVE TypeOK'
      OBVIOUS
    <2> USE SwapQueueAssumption
        DEF TypeOK, Slots, InsertSteps, RemoveSteps, producer, consumer
    <2>1. ASSUME Fill PROVE TypeOK'
      BY <2>1 DEF Fill
    <2>2. ASSUME InsertFull PROVE TypeOK'
      BY <2>2 DEF InsertFull
    <2>3. ASSUME InsertBegin PROVE TypeOK'
      BY <2>3 DEF InsertBegin
    <2>4. ASSUME InsertSwapOut PROVE TypeOK'
      BY <2>4 DEF InsertSwapOut
    <2>5. ASSUME InsertSwapIn PROVE TypeOK'
      BY <2>5 DEF InsertSwapIn
    <2>6. ASSUME InsertPublish PROVE TypeOK'
      BY <2>6 DEF InsertPublish, RingInv
    <2>7. ASSUME InsertAdvance PROVE TypeOK'
      BY <2>7 DEF InsertAdvance
    <2>8. ASSUME RemoveBegin PROVE TypeOK'
      BY <2>8 DEF RemoveBegin
    <2>9. ASSUME RemoveSwapOut PROVE TypeOK'
      BY <2>9 DEF RemoveSwapOut
    <2>10. ASSUME RemoveSwapIn PROVE TypeOK'
      BY <2>10 DEF RemoveSwapIn
    <2>11. ASSUME RemovePublish PROVE TypeOK'
      BY <2>11 DEF RemovePublish, RingInv
    <2>12. ASSUME RemoveAdvance PROVE TypeOK'
      BY <2>12 DEF RemoveAdvance
    <2>13. ASSUME Clear PROVE TypeOK'
      BY <2>13 DEF Clear
    <2>14. ASSUME ClearAdvance PROVE TypeOK'
      BY <2>14 DEF ClearAdvance, Wrap
    <2>15. CASE UNCHANGED vars
      BY <2>15 DEF vars
    <2> QED
      BY <2>1, <2>2, <2>3, <2>4, <2>5, <2>6, <2>7, <2>8, <2>9, <2>10, <2>11,
         <2>12, <2>13, <2>14, <2>15
      DEF Next, Insert, Remove
  \* Every step keeps the ring consistent.
  <1>RingStep. TypeOK /\ RingInv /\ [Next]_vars => RingInv'
    <2> SUFFICES ASSUME TypeOK, RingInv, [Next]_vars PROVE RingInv'
      OBVIOUS
    <2> USE SwapQueueAssumption
        DEF RingInv, Back, Oldest, Wrap, producer, consumer
    <2>0. /\ num_elements_ \in 0..Size /\ dropped \in 0..Size
          /\ next_read_index_ \in 0..(Size - 1)
          /\ next_write_index_ \in 0..(Size - 1)
      BY DEF TypeOK, Slots
    <2>1. ASSUME Fill PROVE RingInv'
      BY <2>0, <2>1 DEF Fill
    <2>2. ASSUME InsertFull PROVE RingInv'
      BY <2>0, <2>2 DEF InsertFull
    <2>3. ASSUME InsertBegin PROVE RingInv'
      BY <2>0, <2>3 DEF InsertBegin
    <2>4. ASSUME InsertSwapOut PROVE RingInv'
      BY <2>0, <2>4 DEF InsertSwapOut
    <2>5. ASSUME InsertSwapIn PROVE RingInv'
      BY <2>0, <2>5 DEF InsertSwapIn
    <2>6. ASSUME InsertPublish PROVE RingInv'
      BY <2>0, <2>6 DEF InsertPublish
    <2>7. ASSUME InsertAdvance PROVE RingInv'
      BY <2>0, <2>7 DEF InsertAdvance
    <2>8. ASSUME RemoveBegin PROVE RingInv'
      BY <2>0, <2>8 DEF RemoveBegin
    <2>9. ASSUME RemoveSwapOut PROVE RingInv'
      BY <2>0, <2>9 DEF RemoveSwapOut
    <2>10. ASSUME RemoveSwapIn PROVE RingInv'
      BY <2>0, <2>10 DEF RemoveSwapIn
    <2>11. ASSUME RemovePublish PROVE RingInv'
      BY <2>0, <2>11 DEF RemovePublish
    <2>12. ASSUME RemoveAdvance PROVE RingInv'
      BY <2>0, <2>12 DEF RemoveAdvance
    <2>13. ASSUME Clear PROVE RingInv'
      BY <2>0, <2>13 DEF Clear
    <2>14. ASSUME ClearAdvance PROVE RingInv'
      BY <2>0, <2>14 DEF ClearAdvance
    <2>15. CASE UNCHANGED vars
      BY <2>15 DEF vars
    <2> QED
      BY <2>1, <2>2, <2>3, <2>4, <2>5, <2>6, <2>7, <2>8, <2>9, <2>10, <2>11,
         <2>12, <2>13, <2>14, <2>15
      DEF Next, Insert, Remove
  <1>1. Init => TypeOK /\ RingInv
    <2> SUFFICES ASSUME Init PROVE TypeOK /\ RingInv
      OBVIOUS
    <2> USE SwapQueueAssumption DEF Init
    <2>1. TypeOK
      BY DEF TypeOK, Slots, InsertSteps, RemoveSteps
    <2>2. RingInv
      BY DEF RingInv, Back, Oldest, Wrap
    <2> QED
      BY <2>1, <2>2
  <1> QED
    BY <1>1, <1>TypeStep, <1>RingStep, PTL DEF Spec

\* The single producer and the single consumer never access the same slot at
\* the same time, whatever the size of the queue (swap_queue.h:131-204).
THEOREM SlotsExclusive == Spec => []SlotExclusive
  <1>1. TypeOK /\ RingInv => SlotExclusive
    BY SwapQueueAssumption
    DEF TypeOK, RingInv, Back, Oldest, Wrap, Slots, SlotExclusive,
        ProducerInSlot, ConsumerInSlot
  <1> QED
    BY <1>1, RingKept, PTL

-----------------------------------------------------------------------------
(* The bottles.                                                            *)

\* The slots and the two callers hold different bottles at all times: items are
\* swapped, never copied, lost or shared (swap_queue.h:60-82).
THEOREM NoBottleLost == Spec => []BottlesConserved
  \* Every step keeps the bottles apart: a swap moves its slot's bottle through
  \* the temporary of a thread that is alone in the slot.
  <1>BottleStep.
    ASSUME TypeOK, RingInv, BottlesConserved, [Next]_vars
    PROVE  BottlesConserved'
    <2> USE <1>BottleStep
    <2>0. SlotExclusive
      BY SwapQueueAssumption
      DEF TypeOK, RingInv, Back, Oldest, Wrap, Slots, SlotExclusive,
          ProducerInSlot, ConsumerInSlot
    <2> USE DEF BottlesConserved, InSlot, producer, consumer
    <2>1. ASSUME Fill PROVE BottlesConserved'
      BY <2>1 DEF Fill
    <2>2. ASSUME InsertFull PROVE BottlesConserved'
      BY <2>2 DEF InsertFull
    <2>3. ASSUME InsertBegin PROVE BottlesConserved'
      BY <2>3 DEF InsertBegin
    <2>4. ASSUME InsertSwapOut PROVE BottlesConserved'
      BY <2>4, <2>0
        DEF InsertSwapOut, TypeOK, SlotExclusive,
           ProducerInSlot, ConsumerInSlot
    <2>5. ASSUME InsertSwapIn PROVE BottlesConserved'
      BY <2>5, <2>0
        DEF InsertSwapIn, TypeOK, SlotExclusive,
           ProducerInSlot, ConsumerInSlot
    <2>6. ASSUME InsertPublish PROVE BottlesConserved'
      BY <2>6 DEF InsertPublish
    <2>7. ASSUME InsertAdvance PROVE BottlesConserved'
      BY <2>7 DEF InsertAdvance
    <2>8. ASSUME RemoveBegin PROVE BottlesConserved'
      BY <2>8 DEF RemoveBegin
    <2>9. ASSUME RemoveSwapOut PROVE BottlesConserved'
      BY <2>9, <2>0
        DEF RemoveSwapOut, TypeOK, SlotExclusive,
           ProducerInSlot, ConsumerInSlot
    <2>10. ASSUME RemoveSwapIn PROVE BottlesConserved'
      BY <2>10, <2>0
        DEF RemoveSwapIn, TypeOK, SlotExclusive,
           ProducerInSlot, ConsumerInSlot
    <2>11. ASSUME RemovePublish PROVE BottlesConserved'
      BY <2>11 DEF RemovePublish
    <2>12. ASSUME RemoveAdvance PROVE BottlesConserved'
      BY <2>12 DEF RemoveAdvance
    <2>13. ASSUME Clear PROVE BottlesConserved'
      BY <2>13 DEF Clear
    <2>14. ASSUME ClearAdvance PROVE BottlesConserved'
      BY <2>14 DEF ClearAdvance
    <2>15. CASE UNCHANGED vars
      BY <2>15 DEF vars
    <2> QED
      BY <2>1, <2>2, <2>3, <2>4, <2>5, <2>6, <2>7, <2>8, <2>9, <2>10, <2>11,
         <2>12, <2>13, <2>14, <2>15
      DEF Next, Insert, Remove
  <1>1. Init => BottlesConserved
    BY DEF Init, BottlesConserved, InSlot
  <1> QED
    BY <1>1, RingKept, <1>BottleStep, PTL DEF Spec

-----------------------------------------------------------------------------
(* SwapQueue implements Fifo.                                              *)

\* The slot of the i-th element inside.
At(i) == Wrap(Front + i - 1)

\* The elements inside lie in slots of the ring, none of them in a slot that
\* the producer fills or the consumer has emptied.
LEMMA InsideLies ==
  ASSUME TypeOK, RingInv
  PROVE  /\ Available \in 0..Size
         /\ Available = Size => num_elements_ = Size
         /\ \A i \in 1..Available :
              /\ At(i) \in Slots
              /\ ppc \in {"swapout", "swapin", "publish"} =>
                   At(i) # next_write_index_
              /\ cpc \in {"swapin", "publish"} => At(i) # next_read_index_
  <1> USE SwapQueueAssumption
  <1>0. /\ num_elements_ \in 0..Size /\ dropped \in 0..Size
        /\ next_read_index_ \in 0..(Size - 1)
        /\ next_write_index_ \in 0..(Size - 1)
        /\ Size \in Nat \ {0}
    BY DEF TypeOK, Slots
  <1>1. Available \in 0..Size /\ (Available = Size => num_elements_ = Size)
    BY <1>0 DEF RingInv, Available
  <1>2. Front \in 0..(Size - 1)
    BY <1>0 DEF RingInv, Front, Wrap
  <1> SUFFICES
        ASSUME NEW i \in 1..Available
        PROVE  /\ At(i) \in Slots
               /\ ppc \in {"swapout", "swapin", "publish"} =>
                    At(i) # next_write_index_
               /\ cpc \in {"swapin", "publish"} => At(i) # next_read_index_
    BY <1>1
  <1>3. At(i) \in Slots
    BY <1>0, <1>1, <1>2 DEF At, Wrap, Slots
  <1>4. ASSUME ppc \in {"swapout", "swapin", "publish"}
        PROVE  At(i) # next_write_index_
    <2>1. next_write_index_ = Wrap(Oldest + num_elements_)
          /\ num_elements_ < Size
      BY <1>4 DEF RingInv, Back
    <2>2. CASE cpc \in {"swapin", "publish"}
      BY <1>0, <2>1, <2>2 DEF At, Wrap, Oldest, Front, Available
    <2>3. CASE cpc \notin {"swapin", "publish"}
      BY <1>0, <2>1, <2>3 DEF At, Wrap, Oldest, Front, Available
    <2> QED
      BY <2>2, <2>3
  <1>5. ASSUME cpc \in {"swapin", "publish"}
        PROVE  At(i) # next_read_index_
    BY <1>0, <1>5 DEF At, Wrap, Front, Available
  <1> QED
    BY <1>3, <1>4, <1>5

\* What is inside is a sequence of contents.
InsideIsSeq ==
  /\ Inside \in Seq(Nat)
  /\ Len(Inside) = Available
  /\ \A i \in 1..Available : Inside[i] = content[queue_[At(i)]]

LEMMA InsideSeq ==
  ASSUME TypeOK, RingInv
  PROVE  InsideIsSeq
  <1>1. /\ Available \in Nat
        /\ \A i \in 1..Available : At(i) \in Slots
    BY InsideLies, SwapQueueAssumption
  <1>2. \A i \in 1..Available : content[queue_[At(i)]] \in Nat
    BY <1>1 DEF TypeOK
  <1>3. Inside = [i \in 1..Available |-> content[queue_[At(i)]]]
    BY DEF Inside, At
  <1>4. Inside \in [1..Available -> Nat]
    BY <1>2, <1>3
  <1>5. Inside \in Seq(Nat) /\ Len(Inside) = Available
    BY <1>1, <1>4
  <1> QED
    BY <1>3, <1>5 DEF InsideIsSeq

\* A bottle that is about to be inserted was filled.
Filled ==
  /\ fills <= MaxFills
  /\ ppc \in {"insert", "swapout"} => content[input] \in 1..MaxFills
  /\ ppc = "swapin" => content[ptmp] \in 1..MaxFills
  /\ ppc = "publish" => content[queue_[next_write_index_]] \in 1..MaxFills

\* Every step is one of Fifo, or changes nothing that Fifo sees.
LEMMA FifoStep ==
  ASSUME TypeOK, RingInv, BottlesConserved, Filled, InsideIsSeq',
         [Next]_vars
  PROVE  [Promise!Next]_<<Inside, received>>
  <1> USE SwapQueueAssumption DEF producer, consumer
  <1>0. /\ num_elements_ \in 0..Size /\ dropped \in 0..Size
        /\ next_read_index_ \in 0..(Size - 1)
        /\ next_write_index_ \in 0..(Size - 1)
        /\ Size \in Nat \ {0}
    BY DEF TypeOK, Slots
  <1>1. /\ Inside \in Seq(Nat) /\ Len(Inside) = Available
        /\ \A i \in 1..Available : Inside[i] = content[queue_[At(i)]]
        /\ Available \in 0..Size
        /\ Available = Size => num_elements_ = Size
        /\ \A i \in 1..Available :
              /\ At(i) \in Slots
              /\ ppc \in {"swapout", "swapin", "publish"} =>
                   At(i) # next_write_index_
              /\ cpc \in {"swapin", "publish"} => At(i) # next_read_index_
    BY InsideSeq, InsideLies DEF InsideIsSeq
  <1>2. /\ Inside' \in Seq(Nat) /\ Len(Inside') = Available'
        /\ \A i \in 1..Available' : Inside'[i] = content'[queue_'[At(i)']]
    BY DEF InsideIsSeq
  \* A step that leaves the elements where they are, and as they are.
  <1>same. ASSUME Available' = Available, Front' = Front,
                  \A i \in 1..Available :
                    content'[queue_'[At(i)]] = content[queue_[At(i)]]
           PROVE  Inside' = Inside
    <2>1. \A i \in 1..Available : At(i)' = At(i)
      BY <1>same DEF At, Wrap
    <2>2. \A i \in 1..Available : Inside'[i] = Inside[i]
      BY <1>1, <1>2, <1>same, <2>1
    <2> QED
      BY <1>1, <1>2, <1>same, <2>2, SeqEqual
  <1>3. CASE Fill
    <2>1. Available' = Available /\ Front' = Front
      BY <1>3 DEF Fill, Available, Front
    <2>2. \A i \in 1..Available : queue_[At(i)] = InSlot(At(i))
      BY <1>1, <1>3 DEF Fill, InSlot
    <2>3. \A i \in 1..Available : queue_[At(i)] # input
      BY <1>1, <2>2 DEF BottlesConserved
    <2>4. \A i \in 1..Available :
            content'[queue_'[At(i)]] = content[queue_[At(i)]]
      BY <1>1, <1>3, <2>3 DEF Fill, TypeOK
    <2> QED
      BY <1>3, <1>same, <2>1, <2>4 DEF Fill
  <1>4. CASE \/ InsertFull \/ InsertBegin \/ InsertSwapOut \/ InsertAdvance
             \/ RemoveBegin
    <2>1. Available' = Available /\ Front' = Front
      BY <1>4
      DEF InsertFull, InsertBegin, InsertSwapOut, InsertAdvance, RemoveBegin,
          Available, Front
    <2> QED
      BY <1>4, <1>same, <2>1
      DEF InsertFull, InsertBegin, InsertSwapOut, InsertAdvance, RemoveBegin
  <1>5. CASE InsertSwapIn
    <2>1. Available' = Available /\ Front' = Front
      BY <1>5 DEF InsertSwapIn, Available, Front
    <2>2. \A i \in 1..Available : queue_'[At(i)] = queue_[At(i)]
      BY <1>1, <1>5 DEF InsertSwapIn, TypeOK
    <2> QED
      BY <1>5, <1>same, <2>1, <2>2 DEF InsertSwapIn
  <1>6. CASE RemoveSwapIn
    <2>1. Available' = Available /\ Front' = Front
      BY <1>6 DEF RemoveSwapIn, Available, Front
    <2>2. \A i \in 1..Available : queue_'[At(i)] = queue_[At(i)]
      BY <1>1, <1>6 DEF RemoveSwapIn, TypeOK
    <2> QED
      BY <1>6, <1>same, <2>1, <2>2 DEF RemoveSwapIn
  <1>7. CASE RemovePublish
    <2>1. Available' = Available /\ Front' = Front
      BY <1>7 DEF RemovePublish, Available, Front
    <2> QED
      BY <1>7, <1>same, <2>1 DEF RemovePublish
  <1>8. CASE RemoveAdvance
    <2>1. Available' = Available /\ Front' = Front
      BY <1>0, <1>8 DEF RemoveAdvance, Available, Front, Wrap
    <2> QED
      BY <1>8, <1>same, <2>1 DEF RemoveAdvance
  <1>9. CASE ClearAdvance
    <2>1. Available' = Available /\ Front' = Front
      BY <1>0, <1>9 DEF ClearAdvance, Available, Front, Wrap
    <2> QED
      BY <1>9, <1>same, <2>1 DEF ClearAdvance
  <1>10. CASE InsertPublish
    <2> DEFINE v == content[queue_[next_write_index_]]
    <2>1. v \in 1..MaxFills
      BY <1>10 DEF InsertPublish, Filled
    <2>2. Available' = Available + 1 /\ Available < Size
      BY <1>0, <1>1, <1>10 DEF InsertPublish, Available, RingInv
    <2>3. \A i \in 1..(Available + 1) : At(i)' = At(i)
      BY <1>10 DEF InsertPublish, At, Front, Wrap
    <2>4. At(Available + 1) = next_write_index_
      <3>1. next_write_index_ = Wrap(Oldest + num_elements_)
        BY <1>10 DEF InsertPublish, RingInv, Back
      <3>2. num_elements_ < Size
        BY <1>10 DEF InsertPublish, RingInv
      <3>3. CASE cpc \in {"swapin", "publish"}
        <4>1. num_elements_ > 0
          BY <3>3 DEF RingInv
        <4> QED
          BY <1>0, <3>1, <3>2, <3>3, <4>1
          DEF At, Wrap, Oldest, Front, Available
      <3>4. CASE cpc \notin {"swapin", "publish"}
        BY <1>0, <3>1, <3>2, <3>4 DEF At, Wrap, Oldest, Front, Available
      <3> QED
        BY <3>3, <3>4
    <2>5. UNCHANGED <<content, queue_, received>>
      BY <1>10 DEF InsertPublish
    <2>6. Inside' = Append(Inside, v)
      <3>1. v \in Nat
        BY <2>1
      <3>2. /\ Append(Inside, v) \in Seq(Nat)
            /\ Len(Append(Inside, v)) = Available + 1
            /\ \A i \in 1..(Available + 1) :
                 Append(Inside, v)[i] =
                   IF i = Available + 1 THEN v ELSE Inside[i]
        BY <1>1, <3>1
      <3>3. \A i \in 1..(Available + 1) :
              Inside'[i] = IF i = Available + 1 THEN v ELSE Inside[i]
        <4>1. ASSUME NEW i \in 1..(Available + 1)
              PROVE  Inside'[i] = content[queue_[At(i)]]
          <5>1. i \in 1..Available'
            BY <2>2, <4>1
          <5>2. Inside'[i] = content'[queue_'[At(i)']]
            BY <1>2, <5>1
          <5>3. At(i)' = At(i)
            BY <2>3, <4>1
          <5> QED
            BY <2>5, <5>2, <5>3
        <4>2. ASSUME NEW i \in 1..Available
              PROVE  i \in 1..(Available + 1) /\ Inside'[i] = Inside[i]
          <5>1. i \in 1..(Available + 1)
            BY <1>1, <4>2
          <5>2. Inside[i] = content[queue_[At(i)]]
            BY <1>1, <4>2
          <5> QED
            BY <4>1, <5>1, <5>2
        <4>3. Available + 1 \in 1..(Available + 1)
          BY <1>1
        <4>4. Inside'[Available + 1] = v
          BY <2>4, <4>1, <4>3
        <4>5. ASSUME NEW i \in 1..(Available + 1), i # Available + 1
              PROVE  i \in 1..Available
          BY <1>1, <4>5
        <4> QED
          BY <4>2, <4>4, <4>5
      <3> QED
        BY <1>2, <2>2, <3>2, <3>3, SeqEqual
    <2> QED
      BY <1>1, <2>1, <2>2, <2>5, <2>6 DEF Promise!Next, Promise!Put
  <1>11. CASE RemoveSwapOut
    <2>1. num_elements_ > 0 /\ Available = num_elements_
      BY <1>11 DEF RemoveSwapOut, RingInv, Available
    <2>2. Available' = Available - 1
      BY <1>11 DEF RemoveSwapOut, Available
    <2>3. At(1) = next_read_index_
      BY <1>0, <1>11 DEF RemoveSwapOut, At, Front, Wrap
    <2>4. \A i \in 1..(Available - 1) : At(i)' = At(i + 1)
      <3> SUFFICES ASSUME NEW i \in 1..(Available - 1)
                   PROVE  At(i)' = At(i + 1)
        OBVIOUS
      <3>1. i \in Nat \ {0} /\ i < Size
        BY <1>0, <2>1
      <3>2. Front = next_read_index_ /\ Front' = Wrap(next_read_index_ + 1)
        BY <1>0, <1>11 DEF RemoveSwapOut, Front, Wrap
      <3> QED
        BY <1>0, <3>1, <3>2 DEF At, Wrap
    <2>5. UNCHANGED <<content, queue_>>
      BY <1>11 DEF RemoveSwapOut
    <2>6. Inside # <<>> /\ Head(Inside) = content[queue_[next_read_index_]]
      BY <1>1, <2>1, <2>3
    <2>7. Inside' = Tail(Inside)
      <3>1. /\ Tail(Inside) \in Seq(Nat)
            /\ Len(Tail(Inside)) = Available - 1
            /\ \A i \in 1..(Available - 1) : Tail(Inside)[i] = Inside[i + 1]
        BY <1>1, <2>6, HeadTailProperties
      <3>2. \A i \in 1..(Available - 1) : Inside'[i] = Inside[i + 1]
        <4> SUFFICES ASSUME NEW i \in 1..(Available - 1)
                     PROVE  Inside'[i] = Inside[i + 1]
          OBVIOUS
        <4>1. i \in 1..Available' /\ i + 1 \in 1..Available
          BY <1>0, <2>1, <2>2
        <4>2. Inside'[i] = content'[queue_'[At(i)']]
          BY <1>2, <4>1
        <4>3. Inside[i + 1] = content[queue_[At(i + 1)]]
          BY <1>1, <4>1
        <4> QED
          BY <2>4, <2>5, <4>2, <4>3
      <3> QED
        BY <1>2, <2>2, <3>1, <3>2, SeqEqual
    <2>8. received' = Append(received, Head(Inside))
      BY <1>11, <2>6 DEF RemoveSwapOut
    <2> QED
      BY <2>6, <2>7, <2>8 DEF Promise!Next, Promise!Take
  <1>12. CASE Clear
    <2>1. Available' = 0
      BY <1>12 DEF Clear, Available
    <2> QED
      BY <1>2, <1>12, <2>1 DEF Clear, Promise!Next, Promise!DropAll
  <1>13. CASE UNCHANGED vars
    BY <1>13 DEF vars, Inside, Available, Front, Wrap
  <1> QED
    BY <1>3, <1>4, <1>5, <1>6, <1>7, <1>8, <1>9, <1>10, <1>11, <1>12, <1>13
    DEF Next, Insert, Remove

\* SwapQueue implements a bounded first-in first-out queue, for any size and
\* any number of bottles: what is inserted is received once, in order, or was
\* inside when Clear was called (swap_queue.h:60-204).
THEOREM QueueIsFifo == Spec => ImplementsFifo
  <1>FilledStep.
    ASSUME TypeOK, RingInv, Filled, [Next]_vars
    PROVE  Filled'
    <2> USE <1>FilledStep
    <2> USE SwapQueueAssumption DEF producer, consumer
    <2>1. CASE Fill
      BY <2>1 DEF Fill, Filled, TypeOK
    <2>2. CASE InsertFull \/ InsertBegin
      BY <2>2 DEF InsertFull, InsertBegin, Filled
    <2>3. CASE InsertSwapOut
      BY <2>3 DEF InsertSwapOut, Filled
    <2>4. CASE InsertSwapIn
      BY <2>4 DEF InsertSwapIn, Filled, TypeOK
    <2>5. CASE InsertPublish \/ InsertAdvance
      BY <2>5 DEF InsertPublish, InsertAdvance, Filled
    <2>6. CASE RemoveSwapIn
      <3>1. ppc = "publish" => next_read_index_ # next_write_index_
        BY <2>6 DEF RemoveSwapIn, TypeOK, RingInv, Back, Oldest, Wrap, Slots
      <3> QED
        BY <2>6, <3>1 DEF RemoveSwapIn, Filled, TypeOK
    <2>7. CASE \/ RemoveBegin \/ RemoveSwapOut \/ RemovePublish
               \/ RemoveAdvance \/ Clear \/ ClearAdvance
      BY <2>7
      DEF RemoveBegin, RemoveSwapOut, RemovePublish, RemoveAdvance, Clear,
          ClearAdvance, Filled
    <2>8. CASE UNCHANGED vars
      BY <2>8 DEF vars, Filled
    <2> QED
      BY <2>1, <2>2, <2>3, <2>4, <2>5, <2>6, <2>7, <2>8
      DEF Next, Insert, Remove
  <1>1. Init => Promise!Init
    BY SwapQueueAssumption
    DEF Init, Promise!Init, Inside, Available
  <1>2. Init => Filled
    BY SwapQueueAssumption DEF Init, Filled
  <1>3. Spec => []Filled
    BY <1>2, RingKept, <1>FilledStep, PTL DEF Spec
  <1>4. TypeOK /\ RingInv => InsideIsSeq
    BY InsideSeq
  <1>5. /\ TypeOK /\ RingInv /\ BottlesConserved /\ Filled /\ InsideIsSeq'
        /\ [Next]_vars
        => [Promise!Next]_(Promise!fifoVars)
    BY FifoStep DEF Promise!fifoVars
  <1> QED
    BY <1>1, <1>3, <1>4, <1>5, RingKept, NoBottleLost, PTL
    DEF Spec, ImplementsFifo, Promise!Spec

-----------------------------------------------------------------------------
(* The components run in one specification.                               *)

\* A behaviour of Sync is one of each component.
LEMMA ComponentsRun ==
  SyncSpec =>
    /\ Spec
    /\ Locks!Spec /\ Events!Spec /\ Spawns!Spec /\ Races!Spec /\ Refs!Spec
    /\ Traces!Spec
<1>1. SyncInit =>
        /\ Init
        /\ Locks!Init /\ Events!Init /\ Spawns!Init /\ Races!Init /\ Refs!Init
        /\ Traces!Init
  BY DEF SyncInit
<1> USE DEF SyncNext, SyncVars, other_vars
<1>2. [SyncNext]_SyncVars => [Locks!Next]_(Locks!vars)
  BY DEF locks_vars, Locks!vars
<1>3. [SyncNext]_SyncVars => [Events!Next]_(Events!vars)
  BY DEF event_vars, Events!vars
<1>4. [SyncNext]_SyncVars => [Spawns!Next]_(Spawns!vars)
  BY DEF threads_vars, Spawns!vars, Spawns!creator
<1>5. [SyncNext]_SyncVars => [Races!Next]_(Races!vars)
  BY DEF checkers_vars, Races!vars, Races!race, Races!sequence
<1>6. [SyncNext]_SyncVars => [Refs!Next]_(Refs!vars)
  BY DEF refs_vars, Refs!vars
<1>7. [SyncNext]_SyncVars => [Traces!Next]_(Traces!vars)
  BY DEF trace_vars, Traces!vars
<1>8. [SyncNext]_SyncVars => [Next]_vars
  OBVIOUS
<1> QED
  BY <1>1, <1>2, <1>3, <1>4, <1>5, <1>6, <1>7, <1>8, PTL
  DEF SyncSpec, Spec, Locks!Spec, Events!Spec, Spawns!Spec, Races!Spec,
      Refs!Spec, Traces!Spec

-----------------------------------------------------------------------------
(* CriticalSection and GlobalLock: the owner and the depth that a debug    *)
(* build keeps are those of the mutex whenever it looks at them.           *)

\* The entries that thread t holds of the mutex: its scopes, and one while it
\* is between the mutex and the counts.
Entries(t) == depth[t] + (IF at[t] = "outside" THEN 0 ELSE 1)

\* The holder of the mutex has all the entries, no other thread has one.
MutexCounts ==
  /\ mutex_.count = 0 <=> mutex_.holder = NoThread
  /\ \A t \in LockThreads :
       IF mutex_.holder = t THEN mutex_.count = Entries(t)
       ELSE depth[t] = 0 /\ at[t] = "outside"

\* The copy: recursion_count_ is the depth of the holder, and thread_ is the
\* holder until LeaveForgets.
CopyAgrees ==
  /\ mutex_.holder = NoThread => recursion_count_ = 0 /\ thread_ = NoThread
  /\ \A t \in LockThreads : mutex_.holder = t =>
       /\ recursion_count_ = depth[t]
       /\ IF depth[t] > 0 THEN thread_ = t
          ELSE at[t] \in {"entering", "unlocking"} => thread_ = NoThread

\* The word is 1 while a thread is in the GlobalLockScope, and one is.
WordCounts ==
  /\ lock_acquired_ = 0 => \A t \in LockThreads : ~spun[t]
  /\ lock_acquired_ = 1 => \E t \in LockThreads : spun[t]
  /\ \A t, u \in LockThreads : spun[t] /\ spun[u] => t = u

LockInv ==
  Locks!TypeOK /\ MutexCounts /\ CopyAgrees /\ WordCounts /\ ~dcheck_failed

\* The invariant holds at first and every step keeps it.
LEMMA LockInvInductive == Locks!Spec => []LockInv
<1> USE SyncAssumption
    DEF LockInv, Locks!TypeOK, MutexCounts, Entries, CopyAgrees, WordCounts
<1>1. Locks!Init => LockInv
  <2> SUFFICES ASSUME Locks!Init PROVE LockInv
    OBVIOUS
  <2> USE DEF Locks!Init
  <2>1. /\ mutex_ \in [holder : LockThreads \cup {NoThread}, count : Nat]
        /\ thread_ \in LockThreads \cup {NoThread}
        /\ recursion_count_ \in Int /\ lock_acquired_ \in {0, 1}
        /\ at \in [LockThreads ->
                    {"outside", "entering", "leaving", "unlocking"}]
        /\ depth \in [LockThreads -> Nat]
    OBVIOUS
  <2>2. spun \in [LockThreads -> BOOLEAN] /\ dcheck_failed = FALSE
    OBVIOUS
  <2>3. MutexCounts
    OBVIOUS
  <2>4. CopyAgrees /\ WordCounts
    OBVIOUS
  <2> QED
    BY <2>1, <2>2, <2>3, <2>4, Zenon
<1>2. LockInv /\ [Locks!Next]_(Locks!vars) => LockInv'
  <2> SUFFICES ASSUME LockInv, [Locks!Next]_(Locks!vars) PROVE LockInv'
    OBVIOUS
  <2> USE DEF Locks!section, Locks!global, Locks!Step, Locks!Dcheck
  <2>1. CASE UNCHANGED Locks!vars
    BY <2>1 DEF Locks!vars
  <2>2. ASSUME NEW t \in LockThreads, Locks!EnterLocks(t) PROVE LockInv'
    BY <2>2 DEF Locks!EnterLocks, Locks!MtxLock, Locks!MtxFree
  <2>3. ASSUME NEW t \in LockThreads, Locks!EnterCounts(t) PROVE LockInv'
    BY <2>3 DEF Locks!EnterCounts, Locks!CurrentThreadIsOwner
  <2>4. ASSUME NEW t \in LockThreads, Locks!TryEnterFails(t) PROVE LockInv'
    BY <2>4 DEF Locks!TryEnterFails, Locks!vars
  <2>5. ASSUME NEW t \in LockThreads, Locks!LeaveCounts(t) PROVE LockInv'
    BY <2>5 DEF Locks!LeaveCounts, Locks!CurrentThreadIsOwner
  <2>6. ASSUME NEW t \in LockThreads, Locks!LeaveForgets(t) PROVE LockInv'
    BY <2>6 DEF Locks!LeaveForgets
  <2>7. ASSUME NEW t \in LockThreads, Locks!LeaveUnlocks(t) PROVE LockInv'
    BY <2>7 DEF Locks!LeaveUnlocks, Locks!MtxUnlock
  <2>8. ASSUME NEW t \in LockThreads, Locks!Lock(t) PROVE LockInv'
    BY <2>8 DEF Locks!Lock, Locks!CompareAndSwap
  <2>9. ASSUME NEW t \in LockThreads, Locks!Unlock(t) PROVE LockInv'
    BY <2>9 DEF Locks!Unlock, Locks!CompareAndSwap
  <2> QED
    BY <2>1, <2>2, <2>3, <2>4, <2>5, <2>6, <2>7, <2>8, <2>9 DEF Locks!Next
<1> QED
  BY <1>1, <1>2, PTL DEF Locks!Spec

\* At most one thread is in scopes of a section or of the global lock, and no
\* assertion fails (CriticalSection::Enter, TryEnter, Leave, GlobalLock).
THEOREM LocksAreExclusive == SyncSpec => []LocksExclude
<1>1. LockInv => LocksExclude
  BY DEF LockInv, Locks!TypeOK, MutexCounts, WordCounts, LocksExclude,
         Locks!LocksExclude
<1> QED
  BY <1>1, LockInvInductive, ComponentsRun, PTL

-----------------------------------------------------------------------------
(* Event: it implements Signal, and nobody sleeps over its signal, for any *)
(* waiters, deadlines and warnings.                                        *)

WaitSteps == {"idle", "test", "asleep", "timedout"} \X Events!Stages

Times == Nat \cup {Events!nullopt}

\* A waiter in its first stage has a warning to wait for; one that has passed
\* its last deadline had one, and it is over.
DeadlinesMeant ==
  \A w \in Waiters :
    /\ wpc[w][1] \in {"test", "asleep"} /\ wpc[w][2] = "warn" =>
         warn_ts[w] # Events!nullopt
    /\ wpc[w][1] = "timedout" /\ wpc[w][2] = "give_up" =>
         give_up_ts[w] # Events!nullopt /\ give_up_ts[w] <= clock

EventInv ==
  /\ is_manual_reset_ \in BOOLEAN /\ event_status_ \in BOOLEAN
  /\ wpc \in [Waiters -> WaitSteps]
  /\ warn_ts \in [Waiters -> Times] /\ give_up_ts \in [Waiters -> Times]
  /\ clock \in Nat
  /\ DeadlinesMeant
  /\ Events!NoSleepOverSignal

\* The invariant holds at first and every step keeps it.
LEMMA EventInvInductive == Events!Spec => []EventInv
<1> USE DEF EventInv, WaitSteps, Times, Events!Stages, DeadlinesMeant,
            Events!NoSleepOverSignal, Events!nullopt, Events!kForever
<1>1. Events!Init => EventInv
  <2> SUFFICES ASSUME Events!Init PROVE EventInv
    OBVIOUS
  <2> USE SyncAssumption DEF Events!Init
  <2>1. is_manual_reset_ \in BOOLEAN /\ event_status_ \in BOOLEAN
    OBVIOUS
  <2>2. /\ wpc \in [Waiters -> WaitSteps]
        /\ warn_ts \in [Waiters -> Times] /\ give_up_ts \in [Waiters -> Times]
        /\ clock \in Nat /\ DeadlinesMeant
    OBVIOUS
  <2>3. Events!NoSleepOverSignal
    OBVIOUS
  <2> QED
    BY <2>1, <2>2, <2>3
<1>2. EventInv /\ [Events!Next]_(Events!vars) => EventInv'
  <2> SUFFICES ASSUME EventInv, [Events!Next]_(Events!vars) PROVE EventInv'
    OBVIOUS
  <2> USE DEF Events!Step, Events!Return
  <2>1. CASE UNCHANGED Events!vars
    BY <2>1 DEF Events!vars
  <2> SUFFICES ASSUME Events!Next PROVE EventInv'
    BY <2>1
  <2>2. is_manual_reset_' = is_manual_reset_
    BY DEF Events!Next
  <2>3. CASE Events!Set
    BY <2>2, <2>3 DEF Events!Set
  <2>4. CASE Events!Reset
    BY <2>2, <2>4 DEF Events!Reset
  <2>5. CASE Events!Tick
    BY <2>2, <2>5 DEF Events!Tick
  <2>moves. ASSUME NEW w \in Waiters, NEW s \in Events!Stages,
                   NEW where \in {"idle", "test", "asleep", "timedout"},
                   wpc' = [wpc EXCEPT ![w] = <<where, s>>],
                   UNCHANGED <<warn_ts, give_up_ts, clock>>,
                   event_status_' \in {event_status_, FALSE},
                   where = "asleep" => ~event_status_',
                   where \in {"test", "asleep"} /\ s = "warn" =>
                     warn_ts[w] # Events!nullopt,
                   where = "timedout" /\ s = "give_up" =>
                     give_up_ts[w] # Events!nullopt /\ give_up_ts[w] <= clock
            PROVE  EventInv'
    <3>1. /\ wpc' \in [Waiters -> WaitSteps] /\ wpc'[w] = <<where, s>>
          /\ \A v \in Waiters \ {w} : wpc'[v] = wpc[v]
      BY <2>moves
    <3>2. DeadlinesMeant'
      BY <2>moves, <3>1
    <3>3. Events!NoSleepOverSignal'
      BY <2>moves, <3>1
    <3> QED
      BY <2>2, <2>moves, <3>1, <3>2, <3>3
  <2>tests. ASSUME NEW w \in Waiters, NEW s \in Events!Stages,
                   Events!Test(w, s),
                   UNCHANGED <<warn_ts, give_up_ts, clock>>,
                   s = "warn" => warn_ts[w] # Events!nullopt
            PROVE  EventInv'
    <3>1. CASE event_status_
      <4>1. /\ event_status_' = is_manual_reset_
            /\ wpc' = [wpc EXCEPT ![w] = <<"idle", "warn">>]
        BY <2>tests, <3>1 DEF Events!Test
      <4>2. event_status_' \in {event_status_, FALSE}
        BY <3>1, <4>1
      <4> QED
        BY <2>tests, <2>moves, <4>1, <4>2
    <3>2. CASE ~event_status_
      <4>1. /\ event_status_' = event_status_
            /\ wpc' = [wpc EXCEPT ![w] = <<"asleep", s>>]
        BY <2>tests, <3>2 DEF Events!Test
      <4> QED
        BY <2>tests, <2>moves, <3>2, <4>1
    <3> QED
      BY <3>1, <3>2
  <2>6. ASSUME NEW w \in Waiters, Events!WaitTest(w) PROVE EventInv'
    BY <2>6, <2>tests DEF Events!WaitTest
  <2>7. ASSUME NEW w \in Waiters, Events!Spurious(w) PROVE EventInv'
    BY <2>7, <2>moves DEF Events!Spurious
  <2>8. ASSUME NEW w \in Waiters, Events!TimedOut(w) PROVE EventInv'
    BY <2>8, <2>moves DEF Events!TimedOut, Events!Deadline
  <2>9. ASSUME NEW w \in Waiters, Events!TimedOutReturns(w) PROVE EventInv'
    <3>1. CASE Events!Return(w, FALSE) /\ UNCHANGED event_status_
      BY <2>9, <2>moves, <3>1 DEF Events!TimedOutReturns
    <3>2. CASE wpc[w][2] = "warn" /\ Events!Test(w, "give_up")
      BY <2>9, <2>tests, <3>2 DEF Events!TimedOutReturns
    <3> QED
      BY <2>9, <3>1, <3>2 DEF Events!TimedOutReturns
  <2>10. ASSUME NEW w \in Waiters, NEW g \in Times, NEW m \in Times,
                Events!WaitBegin(w, g, m)
         PROVE  EventInv'
    <3> DEFINE warns == m # Events!kForever /\ ~(g # Events!kForever /\ m > g)
               s == IF warns THEN "warn" ELSE "give_up"
    <3>1. /\ s \in Events!Stages /\ wpc' = [wpc EXCEPT ![w] = <<"test", s>>]
          /\ s = "warn" => warn_ts'[w] # Events!nullopt
      BY <2>10 DEF Events!WaitBegin, Events!GetTimespec
    <3> HIDE DEF s
    <3>2. /\ warn_ts' \in [Waiters -> Times]
          /\ give_up_ts' \in [Waiters -> Times]
          /\ \A v \in Waiters \ {w} : /\ warn_ts'[v] = warn_ts[v]
                                     /\ give_up_ts'[v] = give_up_ts[v]
      BY <2>10 DEF Events!WaitBegin, Events!GetTimespec
    <3>3. /\ wpc' \in [Waiters -> WaitSteps] /\ wpc'[w] = <<"test", s>>
          /\ \A v \in Waiters \ {w} : wpc'[v] = wpc[v]
      BY <3>1
    <3>4. event_status_' = event_status_ /\ clock' = clock
      BY <2>10 DEF Events!WaitBegin
    <3>5. DeadlinesMeant'
      BY <3>1, <3>2, <3>3, <3>4
    <3>6. Events!NoSleepOverSignal'
      BY <3>3, <3>4
    <3> QED
      BY <2>2, <3>2, <3>3, <3>4, <3>5, <3>6
  <2>11. ASSUME NEW w \in Waiters, NEW g \in Delays \cup {Events!kForever},
                Events!WaitDefault(w, g)
         PROVE  EventInv'
    BY <2>10, <2>11, SyncAssumption DEF Events!WaitDefault
  <2> QED
    BY <2>3, <2>4, <2>5, <2>6, <2>7, <2>8, <2>9, <2>10, <2>11, SyncAssumption
    DEF Events!Next
<1> QED
  BY <1>1, <1>2, PTL DEF Events!Spec

\* No thread sleeps in Wait while the event is signaled (Event::Set, Wait).
THEOREM SignalWakes == SyncSpec => []NoSleepOverSignal
<1>1. EventInv => NoSleepOverSignal
  BY DEF EventInv, NoSleepOverSignal
<1> QED
  BY <1>1, EventInvInductive, ComponentsRun, PTL

\* Event implements Signal (event.cc:120-177).
THEOREM EventIsSignal == SyncSpec => ImplementsSignal
\* A step that ends a Wait of w ends it in Signal.
<1>Leaves.
    ASSUME EventInv, NEW w \in Waiters, NEW r \in BOOLEAN,
           give_up_ts' = give_up_ts, Events!Return(w, r)
    PROVE  Events!Promise!Leave(w)
  BY <1>Leaves DEF Events!Return, Events!Promise!Leave, EventInv, WaitSteps
<1> USE DEF Events!nullopt, Events!kForever, Events!NotWaiting
<1>1. Events!Init => Events!Promise!Init
  BY SyncAssumption DEF Events!Init, Events!Promise!Init
<1>2. EventInv /\ [Events!Next]_(Events!vars) =>
        [Events!Promise!Next]_(Events!Promise!vars)
  <2> SUFFICES ASSUME EventInv, [Events!Next]_(Events!vars)
               PROVE  Events!Promise!Next \/ UNCHANGED Events!Promise!vars
    OBVIOUS
  <2> USE DEF EventInv, WaitSteps, Times, Events!Stages, Events!Step
  <2>1. CASE UNCHANGED Events!vars
    BY <2>1 DEF Events!vars, Events!Promise!vars
  <2> SUFFICES ASSUME Events!Next
               PROVE  Events!Promise!Next \/ UNCHANGED Events!Promise!vars
    BY <2>1
  <2>2. is_manual_reset_' = is_manual_reset_
    BY DEF Events!Next
  <2>3. CASE Events!Set
    BY <2>2, <2>3 DEF Events!Set, Events!Promise!Next, Events!Promise!Set
  <2>4. CASE Events!Reset
    BY <2>2, <2>4 DEF Events!Reset, Events!Promise!Next, Events!Promise!Reset
  <2>5. CASE Events!Tick
    BY <2>2, <2>5 DEF Events!Tick, Events!Promise!Next, Events!Promise!Tick
  <2>6. ASSUME NEW w \in Waiters, NEW s \in Events!Stages, wpc[w][1] # "idle",
               UNCHANGED <<warn_ts, give_up_ts, clock>>, Events!Test(w, s)
        PROVE  Events!Promise!Take(w) \/ UNCHANGED Events!Promise!vars
    <3>1. CASE event_status_
      <4>1. event_status_' = is_manual_reset_ /\ Events!Return(w, TRUE)
        BY <2>6, <3>1 DEF Events!Test
      <4>2. Events!Promise!Leave(w)
        BY <2>6, <4>1, <1>Leaves
      <4> QED
        BY <2>6, <3>1, <4>1, <4>2 DEF Events!Promise!Take
    <3>2. CASE ~event_status_
      <4>1. /\ wpc' = [wpc EXCEPT ![w] = <<"asleep", s>>]
            /\ event_status_' = event_status_
        BY <2>6, <3>2 DEF Events!Test
      <4>2. \A v \in Waiters : wpc'[v][1] = "idle" <=> wpc[v][1] = "idle"
        BY <2>6, <4>1
      <4> QED
        BY <2>2, <2>6, <4>1, <4>2 DEF Events!Promise!vars
    <3> QED
      BY <3>1, <3>2
  <2>7. ASSUME NEW w \in Waiters, Events!WaitTest(w)
        PROVE  Events!Promise!Next \/ UNCHANGED Events!Promise!vars
    BY <2>2, <2>6, <2>7 DEF Events!WaitTest, Events!Promise!Next
  <2>8. ASSUME NEW w \in Waiters, Events!Spurious(w) \/ Events!TimedOut(w)
        PROVE  Events!Promise!Next \/ UNCHANGED Events!Promise!vars
    BY <2>2, <2>8 DEF Events!Spurious, Events!TimedOut, Events!Promise!vars
  <2>9. ASSUME NEW w \in Waiters, Events!TimedOutReturns(w)
        PROVE  Events!Promise!Next \/ UNCHANGED Events!Promise!vars
    <3>1. CASE wpc[w][2] = "warn"
      BY <2>2, <2>6, <2>9, <3>1 DEF Events!TimedOutReturns, Events!Promise!Next
    <3>2. CASE wpc[w][2] = "give_up"
      <4>1. /\ give_up_ts[w] # Events!nullopt /\ give_up_ts[w] <= clock
            /\ wpc[w][1] = "timedout"
        BY <2>9, <3>2 DEF Events!TimedOutReturns, DeadlinesMeant
      <4>2. /\ Events!Return(w, FALSE)
            /\ UNCHANGED <<event_status_, give_up_ts, clock>>
        BY <2>9, <3>2 DEF Events!TimedOutReturns
      <4>3. Events!Promise!Leave(w)
        BY <4>2, <1>Leaves
      <4>4. Events!Promise!GiveUp(w)
        BY <4>1, <4>2, <4>3 DEF Events!Promise!GiveUp
      <4> QED
        BY <2>2, <4>4 DEF Events!Promise!Next
    <3> QED
      BY <3>1, <3>2
  <2>10. ASSUME NEW w \in Waiters, NEW g \in Times, NEW m \in Times,
                Events!WaitBegin(w, g, m)
         PROVE  Events!Promise!Next
    <3>1. PICK s \in Events!Stages : wpc' = [wpc EXCEPT ![w] = <<"test", s>>]
      BY <2>10 DEF Events!WaitBegin
    <3>2. /\ \A v \in Waiters \ {w} : wpc'[v] = wpc[v]
          /\ wpc[w][1] = "idle" /\ wpc'[w][1] = "test"
      BY <2>10, <3>1 DEF Events!WaitBegin
    <3> DEFINE d == IF g = Events!kForever THEN Events!nullopt ELSE clock + g
    <3>3. d \in Times /\ give_up_ts' = [give_up_ts EXCEPT ![w] = d]
      BY <2>10 DEF Events!WaitBegin, Events!GetTimespec
    <3> HIDE DEF d
    <3>4. event_status_' = event_status_ /\ clock' = clock
      BY <2>10 DEF Events!WaitBegin
    <3>5. Events!Promise!Begin(w)
      BY <3>2, <3>3, <3>4 DEF Events!Promise!Begin
    <3> QED
      BY <2>2, <3>5 DEF Events!Promise!Next
  <2>11. ASSUME NEW w \in Waiters, NEW g \in Delays \cup {Events!kForever},
                Events!WaitDefault(w, g)
         PROVE  Events!Promise!Next
    BY <2>10, <2>11, SyncAssumption DEF Events!WaitDefault
  <2> QED
    BY <2>3, <2>4, <2>5, <2>7, <2>8, <2>9, <2>10, <2>11, SyncAssumption
    DEF Events!Next
<1> QED
  BY <1>1, <1>2, EventInvInductive, ComponentsRun, PTL
  DEF Events!Spec, ImplementsSignal, Events!ImplementsSignal,
      Events!Promise!Spec

-----------------------------------------------------------------------------
(* Threads: the hand-over of a new thread is sound, however fast it is.    *)

SpawnSteps == {"none", "wrapper", "prio", "run", "exited", "joined"}

SpawnTypeOK ==
  /\ thr \in Spawned \cup {Spawns!thrd_null}
  /\ spc \in {"idle", "create", "store", "created"}
  /\ spc # "idle" => creating \in Spawned
  /\ block \in [Spawned -> {"none", "allocated", "freed"}]
  /\ wtpc \in [Spawned -> SpawnSteps]
  /\ prioritized \subseteq Spawned

\* Is the block of t still its creator's?
Creators(t) ==
  /\ spc # "idle" /\ creating = t
  /\ spc = "create" \/ (spc = "created" /\ thr = Spawns!thrd_null)

\* A block is its creator's until there is a thread, then the thread's until
\* its wrapper has freed it.
BlocksHaveOneOwner ==
  /\ ~fault
  /\ \A t \in Spawned :
       /\ Creators(t) => block[t] = "allocated" /\ wtpc[t] = "none"
       /\ block[t] = "allocated" => Creators(t) \/ wtpc[t] = "wrapper"
       /\ wtpc[t] = "wrapper" => block[t] = "allocated"
       /\ block[t] = "none" => wtpc[t] = "none"
  /\ spc \in {"create", "store"} => thr = Spawns!thrd_null
  /\ spc = "store" => wtpc[creating] # "none"

SpawnInv == SpawnTypeOK /\ BlocksHaveOneOwner /\ Spawns!PriorityIsOwn

\* The invariant holds at first and every step keeps it.
LEMMA SpawnInvInductive == Spawns!Spec => []SpawnInv
<1> USE DEF SpawnInv, SpawnTypeOK, BlocksHaveOneOwner, Spawns!PriorityIsOwn,
            Creators, SpawnSteps, Spawns!thrd_null, Spawns!NULL
<1>1. Spawns!Init => SpawnInv
  <2> SUFFICES ASSUME Spawns!Init PROVE SpawnInv
    OBVIOUS
  <2> USE DEF Spawns!Init
  <2>1. SpawnTypeOK /\ Spawns!PriorityIsOwn
    OBVIOUS
  <2>2. BlocksHaveOneOwner
    OBVIOUS
  <2> QED
    BY <2>1, <2>2
<1>2. SpawnInv /\ [Spawns!Next]_(Spawns!vars) => SpawnInv'
  <2> SUFFICES ASSUME SpawnInv, [Spawns!Next]_(Spawns!vars) PROVE SpawnInv'
    OBVIOUS
  <2> USE SyncAssumption DEF Spawns!Unchanged, Spawns!creator, Spawns!Free
  <2>1. CASE UNCHANGED Spawns!vars
    BY <2>1 DEF Spawns!vars
  <2>2. CASE Spawns!CreateBegin
    BY <2>2 DEF Spawns!CreateBegin, Spawns!Fresh
  <2>3. CASE Spawns!CreateHelper
    BY <2>3 DEF Spawns!CreateHelper
  <2>4. CASE Spawns!CreateStores
    BY <2>4 DEF Spawns!CreateStores
  <2>5. CASE Spawns!CreateFails
    BY <2>5 DEF Spawns!CreateFails
  <2>6. CASE Spawns!CreateEnd
    <3>1. CASE thr = Spawns!thrd_null
      <4>1. /\ block' = [block EXCEPT ![creating] = "freed"]
            /\ fault' = (fault \/ block[creating] # "allocated")
            /\ spc' = "idle" /\ wtpc' = wtpc /\ thr' = thr
            /\ spc = "created" /\ UNCHANGED prioritized
        BY <2>6, <3>1 DEF Spawns!CreateEnd
      <4>2. creating \in Spawned /\ Creators(creating)
        BY <3>1, <4>1
      <4>3. ~fault'
        BY <4>1, <4>2
      <4> QED
        BY <4>1, <4>2, <4>3
    <3>2. CASE thr # Spawns!thrd_null
      BY <2>6, <3>2 DEF Spawns!CreateEnd
    <3> QED
      BY <3>1, <3>2
  <2>7. CASE Spawns!Join
    BY <2>7 DEF Spawns!Join
  <2>8. CASE Spawns!Detach
    BY <2>8 DEF Spawns!Detach
  <2>9. ASSUME NEW t \in Spawned, Spawns!Wrapper(t) PROVE SpawnInv'
    BY <2>9 DEF Spawns!Wrapper
  <2>10. ASSUME NEW t \in Spawned, Spawns!SetPrio(t) PROVE SpawnInv'
    <3>1. /\ wtpc[t] = "prio" /\ wtpc' = [wtpc EXCEPT ![t] = "run"]
          /\ prioritized' \in {prioritized, prioritized \cup {t}}
          /\ UNCHANGED <<thr, spc, creating, status, block, fault>>
      BY <2>10 DEF Spawns!SetPrio
    <3> QED
      BY <3>1
  <2>11. ASSUME NEW t \in Spawned, NEW res \in Results, Spawns!Exit(t, res)
         PROVE  SpawnInv'
    BY <2>11 DEF Spawns!Exit
  <2> QED
    BY <2>1, <2>2, <2>3, <2>4, <2>5, <2>6, <2>7, <2>8, <2>9, <2>10, <2>11
    DEF Spawns!Next
<1> QED
  BY <1>1, <1>2, PTL DEF Spawns!Spec

\* Blocks are freed once, by whoever is left with them; a priority is asked
\* for no other handle than that of the thread that asks; ThrdEqual is equality
\* (thrd_create, thrd_create_helper, PlatformThread::Run).
THEOREM SpawnsAreSound == SyncSpec => []SpawnIsSound
<1>1. ASSUME NEW t \in Spawned, NEW u \in Spawned
      PROVE  Spawns!ThrdEqual(t, u) <=> t = u
  BY DEF Spawns!ThrdEqual, Spawns!thrd_equal, Spawns!pthread_equal
<1>2. SpawnInv => SpawnIsSound
  BY <1>1
  DEF SpawnInv, SpawnTypeOK, SpawnIsSound, Spawns!SpawnIsSound,
      Spawns!BlocksFreedOnce, BlocksHaveOneOwner, Creators
<1> QED
  BY <1>2, SpawnInvInductive, ComponentsRun, PTL

-----------------------------------------------------------------------------
(* Checkers: the race checker, racy itself, and the sequence checker.      *)

RaceSteps == {"out", "acquire", "claim", "compare", "release"}

\* As long as no two threads were inside at once, the count is that of the one
\* that is, whatever step it is at, and the checker knows it.
CountsOne ==
  ~overlapped =>
    /\ alarm = {}
    /\ \A t, u \in RaceThreads : Races!Busy(t) /\ Races!Busy(u) => t = u
    /\ (\A t \in RaceThreads : ~Races!Busy(t)) => access_count_ = 0
    /\ \A t \in RaceThreads : Races!Busy(t) =>
         /\ access_count_ = nested[t] +
              (IF rpc[t] \in {"claim", "compare"} THEN 1 ELSE 0)
         /\ rpc[t] \in {"acquire", "release"} => rloaded[t] = access_count_
         /\ rpc[t] = "claim" \/ (rpc[t] = "acquire" /\ nested[t] = 0)
              \/ accessing_thread_ = t

\* While t is on its way in over a thread that stays inside, nobody can claim
\* the checker: the count is not 0 for anyone.
KeptFrom(t) ==
  /\ rpc[t] \in {"acquire", "compare"}
  /\ accessing_thread_ # t
  /\ access_count_ > 0
  /\ \A u \in RaceThreads :
       /\ rpc[u] \in {"out", "acquire", "compare"}
       /\ rpc[u] = "acquire" => rloaded[u] > 0

OneIsCurrent ==
  confirmed \subseteq (IF attached_ THEN {valid_thread_} ELSE {})

RaceInv ==
  /\ Races!TypeOK
  /\ rpc \in [RaceThreads -> RaceSteps]
  /\ nested \in [RaceThreads -> Nat]
  /\ \A t \in RaceThreads : rpc[t] = "release" => nested[t] > 0
  /\ overlapped \in BOOLEAN
  /\ CountsOne
  /\ intruded \subseteq RaceThreads
  /\ \A t \in intruded : t \in alarm \/ KeptFrom(t)
  /\ OneIsCurrent

\* The invariant holds at first and every step keeps it.
LEMMA RaceInvInductive == Races!Spec => []RaceInv
<1> USE DEF RaceInv, Races!TypeOK, RaceSteps, CountsOne, KeptFrom,
            OneIsCurrent, Races!Busy
<1>1. Races!Init => RaceInv
  <2> SUFFICES ASSUME Races!Init PROVE RaceInv
    OBVIOUS
  <2>1. Races!Creator \in RaceThreads
    BY SyncAssumption DEF Races!Creator
  <2> USE DEF Races!Init
  <2>2. Races!TypeOK /\ overlapped = FALSE /\ intruded = {}
    BY <2>1
  <2>3. /\ rpc \in [RaceThreads -> RaceSteps]
        /\ nested \in [RaceThreads -> Nat]
        /\ \A t \in RaceThreads : ~Races!Busy(t) /\ rpc[t] # "release"
    OBVIOUS
  <2>4. CountsOne /\ OneIsCurrent
    BY <2>3
  <2> QED
    BY <2>2, <2>3, <2>4
<1>2. RaceInv /\ [Races!Next]_(Races!vars) => RaceInv'
  <2> SUFFICES ASSUME RaceInv, [Races!Next]_(Races!vars) PROVE RaceInv'
    OBVIOUS
  <2> USE DEF Races!Step, Races!sequence, Races!race
  <2>1. CASE UNCHANGED Races!vars
    BY <2>1 DEF Races!vars
  <2>2. CASE Races!Detach
    BY <2>2 DEF Races!Detach
  <2>3. ASSUME NEW t \in RaceThreads, Races!IsCurrent(t) PROVE RaceInv'
    BY <2>3 DEF Races!IsCurrent
  <2>4. ASSUME NEW t \in RaceThreads, Races!AcquireLoad(t),
               UNCHANGED Races!sequence
        PROVE  RaceInv'
    <3> DEFINE others == {u \in RaceThreads \ {t} : Races!Busy(u)}
    <3>1. /\ rpc[t] = "out" /\ rpc' = [rpc EXCEPT ![t] = "acquire"]
          /\ rloaded' = [rloaded EXCEPT ![t] = access_count_]
          /\ UNCHANGED <<access_count_, accessing_thread_, nested, alarm>>
          /\ UNCHANGED <<attached_, valid_thread_, confirmed>>
      BY <2>4 DEF Races!AcquireLoad
    <3>2. overlapped' \in BOOLEAN
      BY <2>4 DEF Races!AcquireLoad
    <3>3. ~overlapped' => ~overlapped /\ others = {}
      BY <2>4 DEF Races!AcquireLoad
    <3>4. CountsOne'
      BY <3>1, <3>3
    <3>5. \/ intruded' = intruded
          \/ /\ intruded' = {t} /\ ~overlapped /\ others # {}
             /\ \A u \in others : Races!Settled(u)
      BY <2>4 DEF Races!AcquireLoad
    <3>6. \A u \in intruded' : u \in RaceThreads
                              /\ (u \in alarm' \/ KeptFrom(u)')
      <4>1. CASE intruded' = intruded
        BY <3>1, <4>1
      <4>2. CASE /\ intruded' = {t} /\ ~overlapped /\ others # {}
                 /\ \A u \in others : Races!Settled(u)
        <5>1. PICK u \in RaceThreads : u # t /\ Races!Settled(u)
          BY <4>2
        <5>2. /\ access_count_ > 0 /\ accessing_thread_ = u
              /\ \A v \in RaceThreads \ {u} : rpc[v] = "out"
          BY <4>2, <5>1 DEF Races!Settled
        <5>3. KeptFrom(t)'
          BY <3>1, <5>1, <5>2 DEF Races!Settled
        <5> QED
          BY <4>2, <5>3
      <4> QED
        BY <3>5, <4>1, <4>2
    <3> HIDE DEF KeptFrom, CountsOne
    <3> QED
      BY <3>1, <3>2, <3>4, <3>6
  <2>5. ASSUME NEW t \in RaceThreads, Races!AcquireStore(t),
               UNCHANGED Races!sequence
        PROVE  RaceInv'
    BY <2>5 DEF Races!AcquireStore
  <2>6. ASSUME NEW t \in RaceThreads, Races!AcquireClaim(t),
               UNCHANGED Races!sequence
        PROVE  RaceInv'
    BY <2>6 DEF Races!AcquireClaim
  <2>7. ASSUME NEW t \in RaceThreads, Races!AcquireCompare(t),
               UNCHANGED Races!sequence
        PROVE  RaceInv'
    BY <2>7 DEF Races!AcquireCompare
  <2>8. ASSUME NEW t \in RaceThreads, Races!ReleaseLoad(t),
               UNCHANGED Races!sequence
        PROVE  RaceInv'
    BY <2>8 DEF Races!ReleaseLoad
  <2>9. ASSUME NEW t \in RaceThreads, Races!ReleaseStore(t),
               UNCHANGED Races!sequence
        PROVE  RaceInv'
    BY <2>9 DEF Races!ReleaseStore
  <2> QED
    BY <2>1, <2>2, <2>3, <2>4, <2>5, <2>6, <2>7, <2>8, <2>9
    DEF Races!Next, Races!RaceSteps
<1> QED
  BY <1>1, <1>2, PTL DEF Races!Spec

\* Nobody is told of a race that was not there, the first one is seen, and one
\* thread at most is confirmed (RaceChecker::Acquire, Release,
\* SequenceCheckerImpl::IsCurrent).
THEOREM CheckersAreRight == SyncSpec => []CheckersTell
<1>1. RaceInv => CheckersTell
  <2> SUFFICES ASSUME RaceInv PROVE Races!CheckersTell
    BY DEF CheckersTell
  <2>1. Cardinality(confirmed) <= 1
    <3>1. confirmed = {} \/ confirmed = {valid_thread_}
      BY DEF RaceInv, OneIsCurrent
    <3>2. Cardinality({}) = 0 /\ Cardinality({valid_thread_}) = 1
      BY FS_EmptySet, FS_Singleton
    <3> QED
      BY <3>1, <3>2
  <2>c. Races!Cardinality(confirmed) = Cardinality(confirmed)
    BY DEF Races!Cardinality, Cardinality
  <2>2. alarm # {} => overlapped
    BY DEF RaceInv, CountsOne
  <2>3. \A t \in intruded :
          nested[t] > 0 /\ rpc[t] = "out" => t \in alarm
    BY DEF RaceInv, KeptFrom
  <2> QED
    BY <2>1, <2>c, <2>2, <2>3 DEF Races!CheckersTell
<1> QED
  BY <1>1, RaceInvInductive, ComponentsRun, PTL

-----------------------------------------------------------------------------
(* RefCount: the count of an object is the number of places that refer to  *)
(* it, and every step moves, makes or drops one reference.                 *)

\* The places a counted reference can be in: a scoped_refptr, the hands of a
\* thread, or the call it is in.
Places ==
  ({"ptr"} \X Refs!Pointers) \cup ({"raw", "val", "old"} \X RefThreads)

HolderOf(k) == IF k[1] = "ptr" THEN k[2][1] ELSE k[2]

\* What is in each of them.
In(k, ptrs, raws, calls) ==
  CASE k[1] = "ptr" ->
         IF /\ calls[k[2][1]].into = k[2]
            /\ calls[k[2][1]].step \in {"delete", "store"}
         THEN nullptr ELSE ptrs[k[2]]
    [] k[1] = "raw" -> raws[k[2]]
    [] k[1] = "val" -> calls[k[2]].val
    [] k[1] = "old" ->
         IF calls[k[2]].step = "release" /\ calls[k[2]].into = nullptr
         THEN calls[k[2]].old ELSE nullptr

Reference == [k \in Places |-> In(k, ptr_, raw, rcall)]

\* The same, place by place.
PtrFits(f, p, ptrs, calls) ==
  f[<<"ptr", p>>] = IF /\ calls[p[1]].into = p
                       /\ calls[p[1]].step \in {"delete", "store"}
                    THEN nullptr ELSE ptrs[p]
ThreadFits(f, t, raws, calls) ==
  /\ f[<<"raw", t>>] = raws[t]
  /\ f[<<"val", t>>] = calls[t].val
  /\ f[<<"old", t>>] =
       IF calls[t].step = "release" /\ calls[t].into = nullptr
       THEN calls[t].old ELSE nullptr

Holding(f, o) == {k \in Places : f[k] = o}

Counted(f, o, n) ==
  IsFiniteSet(Holding(f, o)) /\ n = Cardinality(Holding(f, o))

RefCalls ==
  [step : {"idle", "release", "delete", "store"}, old : Refs!Refs,
   into : Refs!Pointers \cup {nullptr}, val : Refs!Refs]

\* What a call has to do is what its pointer asks for.
CallsMeant ==
  \A t \in RefThreads :
    LET c == rcall[t]
    IN /\ c.step = "idle" => c = Refs!Idle
       /\ c.into # nullptr => c.into \in Refs!Of(t)
       /\ c.into = nullptr => c.val = nullptr
       /\ c.step = "release" =>
            /\ c.old # nullptr
            /\ c.into # nullptr => ptr_[c.into] = c.old
       /\ c.step = "delete" =>
            /\ c.old # nullptr /\ life[c.old] = "live"
            /\ ref_count_[c.old] = 0
            /\ \A u \in RefThreads :
                 rcall[u].step = "delete" /\ rcall[u].old = c.old => u = t

Deleting(o) == \E t \in RefThreads :
                 rcall[t].step = "delete" /\ rcall[t].old = o

\* An object lives as long as it has references, or is being deleted.
LifeFollows ==
  \A o \in Objects :
    /\ life[o] # "twice"
    /\ ref_count_[o] > 0 => life[o] = "live"
    /\ life[o] = "live" => ref_count_[o] > 0 \/ Deleting(o)

CountsAgree == \A o \in Objects : Counted(Reference, o, ref_count_[o])

RefInv ==
  /\ Refs!TypeOK
  /\ rcall \in [RefThreads -> RefCalls]
  /\ CallsMeant
  /\ LifeFollows
  /\ CountsAgree

\* The invariant holds at first and every step keeps it.
LEMMA RefInvInductive == Refs!Spec => []RefInv
\* Filling an empty place adds a reference, emptying one takes one away, and
\* swapping what two places hold changes no count.
<1>PlaceSet.
    ASSUME NEW f \in [Places -> Refs!Refs], NEW k \in Places,
           NEW v \in Refs!Refs, NEW o \in Objects, NEW n \in Int,
           Counted(f, o, n),
           NEW g, g = [f EXCEPT ![k] = v]
    PROVE  Counted(g, o, n - (IF f[k] = o THEN 1 ELSE 0)
                           + (IF v = o THEN 1 ELSE 0))
  <2> USE <1>PlaceSet
  <2>1. Holding(g, o) = IF v = o THEN (Holding(f, o) \ {k}) \cup {k}
                        ELSE Holding(f, o) \ {k}
    BY DEF Holding
  <2> DEFINE S == Holding(f, o)
  <2>2. IsFiniteSet(S) /\ n = Cardinality(S) /\ (k \in S <=> f[k] = o)
    BY DEF Counted, Holding
  <2>3. /\ IsFiniteSet(S \ {k})
        /\ Cardinality(S \ {k}) = n - (IF f[k] = o THEN 1 ELSE 0)
    BY <2>2, FS_RemoveElement
  <2>4. /\ IsFiniteSet((S \ {k}) \cup {k})
        /\ Cardinality((S \ {k}) \cup {k}) = Cardinality(S \ {k}) + 1
    BY <2>3, FS_AddElement
  <2> HIDE DEF S
  <2> QED
    BY <2>1, <2>3, <2>4 DEF Counted, S
<1>PlacesSwapped.
    ASSUME NEW f \in [Places -> Refs!Refs], NEW k \in Places, NEW l \in Places,
           NEW o \in Objects, NEW n \in Int, Counted(f, o, n),
           NEW g, g = [f EXCEPT ![k] = f[l], ![l] = f[k]]
    PROVE  Counted(g, o, n)
  <2> USE <1>PlacesSwapped
  <2> DEFINE h == [f EXCEPT ![k] = f[l]]
  <2>1. h \in [Places -> Refs!Refs]
    OBVIOUS
  <2> DEFINE m == n - (IF f[k] = o THEN 1 ELSE 0) + (IF f[l] = o THEN 1 ELSE 0)
  <2>2. m \in Int /\ f[k] \in Refs!Refs /\ f[l] \in Refs!Refs
    OBVIOUS
  <2>c. Counted(h, o, m)
    BY <2>2, <1>PlaceSet
  <2>3. g = [h EXCEPT ![l] = f[k]] /\ h[l] = f[l]
    OBVIOUS
  <2> HIDE DEF h, m
  <2> DEFINE v == f[k]
  <2>4. v \in Refs!Refs /\ g = [h EXCEPT ![l] = v]
    BY <2>2, <2>3
  <2> HIDE DEF v
  <2>5. Counted(g, o, m - (IF h[l] = o THEN 1 ELSE 0)
                        + (IF v = o THEN 1 ELSE 0))
    BY <2>1, <2>2, <2>c, <2>4, <1>PlaceSet
  <2> QED
    BY <2>3, <2>5 DEF m, v
<1>fits. /\ \A p \in Refs!Pointers : PtrFits(Reference, p, ptr_, rcall)
        /\ \A t \in RefThreads : ThreadFits(Reference, t, raw, rcall)
  BY DEF Reference, Places, In, PtrFits, ThreadFits
<1>is. ASSUME NEW f \in [Places -> Refs!Refs],
              \A p \in Refs!Pointers : PtrFits(f, p, ptr_', rcall'),
              \A t \in RefThreads : ThreadFits(f, t, raw', rcall')
       PROVE  Reference' = f
  <2>1. ASSUME NEW k \in Places PROVE f[k] = In(k, ptr_', raw', rcall')
    <3>1. CASE k \in {"ptr"} \X Refs!Pointers
      <4>1. PICK p \in Refs!Pointers : k = <<"ptr", p>>
        BY <3>1
      <4> QED
        BY <1>is, <4>1 DEF In, PtrFits
    <3>2. CASE k \in {"raw", "val", "old"} \X RefThreads
      <4>1. PICK t \in RefThreads, i \in {"raw", "val", "old"} : k = <<i, t>>
        BY <3>2
      <4> QED
        BY <1>is, <4>1 DEF In, ThreadFits
    <3> QED
      BY <3>1, <3>2 DEF Places
  <2> QED
    BY <1>is, <2>1 DEF Reference
<1>1. Refs!Init => RefInv
  <2> SUFFICES ASSUME Refs!Init PROVE RefInv
    OBVIOUS
  <2> USE SyncAssumption DEF Refs!Init, Refs!Idle, Refs!Refs
  <2>1. Refs!TypeOK /\ rcall \in [RefThreads -> RefCalls]
    BY DEF Refs!TypeOK, RefCalls
  <2>2. CallsMeant /\ LifeFollows
    BY DEF CallsMeant, LifeFollows
  <2>3. ASSUME NEW o \in Objects PROVE Counted(Reference, o, 0)
    <3>1. ASSUME NEW k \in Places PROVE Reference[k] = nullptr
      BY DEF Reference, Places, In
    <3>2. Holding(Reference, o) = {}
      BY <3>1 DEF Holding
    <3> QED
      BY <3>2, FS_EmptySet DEF Counted
  <2> QED
    BY <2>1, <2>2, <2>3 DEF RefInv, CountsAgree
<1>2. RefInv /\ [Refs!Next]_(Refs!vars) => RefInv'
  <2> SUFFICES ASSUME RefInv, [Refs!Next]_(Refs!vars) PROVE RefInv'
    OBVIOUS
  <2> USE SyncAssumption DEF RefInv, Refs!TypeOK
  <2>typed. Reference \in [Places -> Refs!Refs]
    BY DEF Reference, Places, In, RefCalls, Refs!Refs
  <2>count. ASSUME NEW o \in Objects
            PROVE  /\ ref_count_[o] \in Nat
                   /\ \A k \in Places : Reference[k] = o => ref_count_[o] > 0
    <3>1. /\ IsFiniteSet(Holding(Reference, o))
          /\ ref_count_[o] = Cardinality(Holding(Reference, o))
      BY <2>count DEF CountsAgree, Counted
    <3>2. ASSUME NEW k \in Places, Reference[k] = o
          PROVE  Holding(Reference, o) # {}
      BY <3>2 DEF Holding
    <3> QED
      BY <3>1, <3>2, FS_CardinalityType, FS_EmptySet
  <2>ptr. ASSUME NEW p \in Refs!Pointers
          PROVE  /\ <<"ptr", p>> \in Places /\ p[1] \in RefThreads
                 /\ Reference[<<"ptr", p>>] =
                      IF /\ rcall[p[1]].into = p
                         /\ rcall[p[1]].step \in {"delete", "store"}
                      THEN nullptr ELSE ptr_[p]
    BY <1>fits DEF PtrFits, Places, Refs!Pointers
  <2>thr. ASSUME NEW t \in RefThreads
          PROVE  /\ {<<"raw", t>>, <<"val", t>>, <<"old", t>>} \subseteq Places
                 /\ Reference[<<"raw", t>>] = raw[t]
                 /\ Reference[<<"val", t>>] = rcall[t].val
                 /\ Reference[<<"old", t>>] =
                      IF rcall[t].step = "release" /\ rcall[t].into = nullptr
                      THEN rcall[t].old ELSE nullptr
    BY <1>fits DEF ThreadFits, Places
  <2>same. ASSUME Reference' = Reference, UNCHANGED ref_count_
           PROVE  CountsAgree'
    BY <2>same DEF CountsAgree
  <2>swap. ASSUME NEW k \in Places, NEW l \in Places,
                  Reference' = [Reference EXCEPT ![k] = Reference[l],
                                                 ![l] = Reference[k]],
                  UNCHANGED ref_count_
           PROVE  CountsAgree'
    BY <2>typed, <2>count, <2>swap, <1>PlacesSwapped DEF CountsAgree
  <2>set. ASSUME NEW k \in Places, NEW v \in Refs!Refs,
                 Reference' = [Reference EXCEPT ![k] = v],
                 \A x \in Objects :
                   ref_count_'[x] = ref_count_[x]
                     - (IF Reference[k] = x THEN 1 ELSE 0)
                     + (IF v = x THEN 1 ELSE 0)
          PROVE  CountsAgree'
    <3> SUFFICES ASSUME NEW x \in Objects
                 PROVE  Counted(Reference', x, ref_count_'[x])
      BY DEF CountsAgree
    <3>1. Counted(Reference, x, ref_count_[x]) /\ ref_count_[x] \in Int
      BY DEF CountsAgree
    <3>2. Counted(Reference', x, ref_count_[x]
            - (IF Reference[k] = x THEN 1 ELSE 0) + (IF v = x THEN 1 ELSE 0))
      BY <2>typed, <2>set, <3>1, <1>PlaceSet
    <3> QED
      BY <2>set, <3>2
  <2>1. CASE UNCHANGED Refs!vars
    <3>1. UNCHANGED <<ptr_, raw, ref_count_, life, rcall>>
      BY <2>1 DEF Refs!vars
    <3>2. Reference' = Reference
      BY <3>1 DEF Reference
    <3> QED
      BY <3>1, <3>2 DEF CallsMeant, LifeFollows, Deleting, CountsAgree
  <2>2. ASSUME NEW t \in RefThreads, Refs!DecRef(t) PROVE RefInv'
    <3> DEFINE o == rcall[t].old
               n == ref_count_[o] - 1
               p == rcall[t].into
               k == IF p = nullptr THEN <<"old", t>> ELSE <<"ptr", p>>
               g == [Reference EXCEPT ![k] = nullptr]
    <3>1. /\ rcall[t].step = "release" /\ o \in Objects
          /\ p # nullptr => p \in Refs!Pointers /\ p[1] = t /\ ptr_[p] = o
      BY <2>2
      DEF Refs!DecRef, CallsMeant, RefCalls, Refs!Refs, Refs!Of
    <3>2. k \in Places /\ Reference[k] = o
      BY <2>ptr, <2>thr, <3>1
    <3>3. ref_count_[o] \in Nat /\ ref_count_[o] > 0
      BY <2>count, <3>1, <3>2
    <3>4. /\ ref_count_' = [ref_count_ EXCEPT ![o] = n]
          /\ rcall' = [rcall EXCEPT
                         ![t].step = IF n = 0 THEN "delete" ELSE "store"]
          /\ UNCHANGED <<ptr_, raw, life>>
      BY <2>2 DEF Refs!DecRef
    <3>5. Refs!TypeOK' /\ rcall' \in [RefThreads -> RefCalls]
      BY <3>1, <3>3, <3>4 DEF RefCalls
    <3>6. CallsMeant'
      BY <3>1, <3>3, <3>4
      DEF CallsMeant, LifeFollows, RefCalls, Refs!Of, Refs!Refs
    <3>7. LifeFollows'
      BY <3>1, <3>3, <3>4 DEF LifeFollows, Deleting, RefCalls
    <3>8. g \in [Places -> Refs!Refs] /\ nullptr \in Refs!Refs
      BY <2>typed DEF Refs!Refs
    <3>9. ASSUME NEW q \in Refs!Pointers PROVE PtrFits(g, q, ptr_', rcall')
      <4>1. <<"ptr", q>> = k <=> q = p
        BY <3>1, SyncAssumption
      <4> QED
        BY <2>ptr, <2>typed, <3>1, <3>2, <3>4, <4>1 DEF RefCalls, PtrFits
    <3>10. ASSUME NEW u \in RefThreads PROVE ThreadFits(g, u, raw', rcall')
      <4>1. /\ {<<"raw", u>>, <<"val", u>>, <<"old", u>>} \subseteq Places
            /\ Reference[<<"raw", u>>] = raw[u]
            /\ Reference[<<"val", u>>] = rcall[u].val
            /\ Reference[<<"old", u>>] =
                 IF rcall[u].step = "release" /\ rcall[u].into = nullptr
                 THEN rcall[u].old ELSE nullptr
        BY <2>thr
      <4>2. /\ <<"raw", u>> # k /\ <<"val", u>> # k
            /\ <<"old", u>> = k <=> p = nullptr /\ u = t
        BY SyncAssumption
      <4>3. /\ g[<<"raw", u>>] = raw[u] /\ g[<<"val", u>>] = rcall[u].val
            /\ g[<<"old", u>>] = IF <<"old", u>> = k THEN nullptr
                                 ELSE Reference[<<"old", u>>]
        BY <2>typed, <3>2, <4>1, <4>2
      <4>4. g[<<"old", u>>] =
              IF rcall'[u].step = "release" /\ rcall'[u].into = nullptr
              THEN rcall'[u].old ELSE nullptr
        <5> HIDE DEF k, g
        <5>1. CASE u = t
          BY <3>1, <3>4, <4>1, <4>2, <4>3, <5>1 DEF RefCalls
        <5>2. CASE u # t
          BY <3>1, <3>4, <4>1, <4>2, <4>3, <5>2 DEF RefCalls
        <5> QED
          BY <5>1, <5>2
      <4>5. raw'[u] = raw[u] /\ rcall'[u].val = rcall[u].val
        BY <3>4
      <4> HIDE DEF k, g
      <4> QED
        BY <4>3, <4>4, <4>5 DEF ThreadFits
    <3>11. Reference' = g
      <4> HIDE DEF k, g
      <4> QED
        BY <1>is, <3>8, <3>9, <3>10
    <3>12. \A x \in Objects :
             ref_count_'[x] = ref_count_[x]
               - (IF Reference[k] = x THEN 1 ELSE 0)
               + (IF nullptr = x THEN 1 ELSE 0)
      BY <3>1, <3>2, <3>4
    <3>13. CountsAgree'
      <4> HIDE DEF k
      <4> QED
        BY <2>set, <3>2, <3>8, <3>11, <3>12
    <3> QED
      BY <3>5, <3>6, <3>7, <3>13
  <2>3. ASSUME NEW t \in RefThreads, Refs!DeleteThis(t) PROVE RefInv'
    <3>1. Reference' = Reference
      BY <2>ptr, <2>thr, <1>is, <2>3, <2>typed
      DEF Refs!DeleteThis, RefCalls, PtrFits, ThreadFits
    <3>2. /\ Refs!TypeOK' /\ rcall' \in [RefThreads -> RefCalls]
          /\ CallsMeant' /\ LifeFollows'
      BY <2>3 DEF Refs!DeleteThis, RefCalls, CallsMeant, LifeFollows,
                  Deleting, Refs!Refs
    <3> QED
      BY <2>3, <2>same, <3>1, <3>2 DEF Refs!DeleteThis
  <2>4. ASSUME NEW t \in RefThreads, Refs!Store(t) PROVE RefInv'
    <3>1. Refs!TypeOK' /\ rcall' \in [RefThreads -> RefCalls]
      BY <2>4 DEF Refs!Store, RefCalls, Refs!Idle, Refs!Refs
    <3>2. CallsMeant' /\ LifeFollows'
      BY <2>4 DEF Refs!Store, RefCalls, CallsMeant, LifeFollows, Deleting,
                  Refs!Refs, Refs!Idle, Refs!Of
    <3> DEFINE p == rcall[t].into
    <3>3. CASE p = nullptr
      <4>1. Reference' = Reference
        BY <2>ptr, <2>thr, <1>is, <2>4, <2>typed, <3>3
        DEF Refs!Store, RefCalls, CallsMeant, Refs!Idle, PtrFits, ThreadFits
      <4> QED
        BY <2>4, <2>same, <3>1, <3>2, <4>1 DEF Refs!Store
    <3>4. CASE p # nullptr
      <4> DEFINE k == <<"val", t>>
                 l == <<"ptr", p>>
                 g == [Reference EXCEPT ![k] = Reference[l],
                                        ![l] = Reference[k]]
      <4>1. /\ ptr_' = [ptr_ EXCEPT ![p] = rcall[t].val]
            /\ rcall' = [rcall EXCEPT ![t] = Refs!Idle]
            /\ rcall[t].step = "store" /\ p \in Refs!Pointers /\ p[1] = t
            /\ UNCHANGED <<raw, ref_count_>>
        BY <2>4, <3>4 DEF Refs!Store, RefCalls, CallsMeant, Refs!Of
      <4>2. /\ k \in Places /\ l \in Places
            /\ Reference[l] = nullptr /\ Reference[k] = rcall[t].val
        BY <2>ptr, <2>thr, <4>1
      <4>3. g \in [Places -> Refs!Refs]
        BY <2>typed, <4>2
      <4>4. ASSUME NEW q \in Refs!Pointers PROVE PtrFits(g, q, ptr_', rcall')
        BY <2>ptr, <2>typed, <4>1, <4>2 DEF RefCalls, Refs!Idle, PtrFits
      <4>5. ASSUME NEW u \in RefThreads PROVE ThreadFits(g, u, raw', rcall')
        BY <2>thr, <2>typed, <4>1, <4>2 DEF RefCalls, Refs!Idle, ThreadFits
      <4>6. Reference' = g
        BY <1>is, <4>3, <4>4, <4>5
      <4> QED
        BY <2>swap, <3>1, <3>2, <4>1, <4>2, <4>6
    <3> QED
      BY <3>3, <3>4
  <2>own. ASSUME NEW t \in RefThreads, NEW p \in Refs!Of(t)
          PROVE  p \in Refs!Pointers /\ p[1] = t
    BY DEF Refs!Of, Refs!Pointers
  <2>rest. ASSUME NEW t \in RefThreads, Refs!AtRest(t)
           PROVE  rcall[t] = Refs!Idle
    BY <2>rest DEF Refs!AtRest, CallsMeant
  <2>held. ASSUME NEW t \in RefThreads, NEW p \in Refs!Of(t),
                  Refs!AtRest(t), ptr_[p] # nullptr
           PROVE  ptr_[p] \in Objects /\ ref_count_[ptr_[p]] > 0
    <3>1. Reference[<<"ptr", p>>] = ptr_[p] /\ <<"ptr", p>> \in Places
      BY <2>held, <2>own, <2>rest, <2>ptr DEF Refs!Idle
    <3>2. ptr_[p] \in Objects
      BY <2>held, <2>own DEF Refs!Refs
    <3> QED
      BY <2>count, <3>1, <3>2
  <2>5. ASSUME NEW t \in RefThreads, NEW p \in Refs!Of(t), NEW o \in Objects,
               Refs!ConstructNew(t, p, o)
        PROVE  RefInv'
    <3> DEFINE g == [Reference EXCEPT ![<<"ptr", p>>] = o]
    <3>1. /\ rcall[t] = Refs!Idle /\ ptr_[p] = nullptr /\ life[o] = "unborn"
          /\ p \in Refs!Pointers /\ p[1] = t /\ o # nullptr
          /\ life' = [life EXCEPT ![o] = "live"]
          /\ ptr_' = [ptr_ EXCEPT ![p] = o]
          /\ ref_count_' = [ref_count_ EXCEPT ![o] = @ + 1]
          /\ UNCHANGED <<raw, rcall>>
      BY <2>5, <2>own, <2>rest DEF Refs!ConstructNew, Refs!IncRef
    <3>2. ref_count_[o] = 0
      BY <2>count, <3>1 DEF LifeFollows
    <3>3. Refs!TypeOK' /\ o \in Refs!Refs
      BY <3>1 DEF Refs!Refs
    <3>4. CallsMeant'
      BY <3>1 DEF CallsMeant, Refs!Idle, RefCalls
    <3>5. LifeFollows'
      BY <3>1, <3>2 DEF LifeFollows, Deleting
    <3>6. g \in [Places -> Refs!Refs] /\ Reference[<<"ptr", p>>] = nullptr
      BY <2>ptr, <2>typed, <3>1, <3>3 DEF Refs!Idle
    <3>7. ASSUME NEW x \in Refs!Pointers PROVE PtrFits(g, x, ptr_', rcall')
      BY <2>ptr, <2>typed, <3>1, <3>6 DEF Refs!Idle, PtrFits
    <3>8. ASSUME NEW u \in RefThreads PROVE ThreadFits(g, u, raw', rcall')
      BY <2>thr, <2>typed, <3>1 DEF ThreadFits
    <3>9. Reference' = g
      BY <1>is, <3>6, <3>7, <3>8
    <3>10. \A x \in Objects :
             ref_count_'[x] = ref_count_[x]
               - (IF Reference[<<"ptr", p>>] = x THEN 1 ELSE 0)
               + (IF o = x THEN 1 ELSE 0)
      BY <3>1, <3>6
    <3>11. CountsAgree'
      <4> DEFINE k == <<"ptr", p>>
      <4>1. k \in Places
        BY <2>ptr, <3>1
      <4> HIDE DEF k
      <4> QED
        BY <2>set, <3>1, <3>3, <3>9, <3>10, <4>1 DEF k
    <3> QED
      BY <3>1, <3>3, <3>4, <3>5, <3>11
  <2>6. ASSUME NEW t \in RefThreads, NEW p \in Refs!Of(t),
               NEW q \in Refs!Of(t),
               Refs!CopyConstruct(t, p, q)
        PROVE  RefInv'
    <3> DEFINE v == ptr_[q]
               g == [Reference EXCEPT ![<<"ptr", p>>] = v]
    <3>1. /\ rcall[t] = Refs!Idle /\ ptr_[p] = nullptr /\ v \in Refs!Refs
          /\ p \in Refs!Pointers /\ p[1] = t
          /\ ptr_' = [ptr_ EXCEPT ![p] = v]
          /\ ref_count_' = IF v = nullptr THEN ref_count_
                           ELSE [ref_count_ EXCEPT ![v] = @ + 1]
          /\ UNCHANGED <<raw, life, rcall>>
          /\ v # nullptr => v \in Objects /\ ref_count_[v] > 0
      BY <2>6, <2>own, <2>rest, <2>held DEF Refs!CopyConstruct, Refs!IncRef
    <3> HIDE DEF v
    <3>3. Refs!TypeOK'
      BY <3>1
    <3>4. CallsMeant'
      BY <3>1 DEF CallsMeant, Refs!Idle, RefCalls
    <3>5. LifeFollows'
      BY <2>count, <3>1 DEF LifeFollows, Deleting
    <3>6. g \in [Places -> Refs!Refs] /\ Reference[<<"ptr", p>>] = nullptr
      BY <2>ptr, <2>typed, <3>1 DEF Refs!Idle
    <3>7. ASSUME NEW x \in Refs!Pointers PROVE PtrFits(g, x, ptr_', rcall')
      BY <2>ptr, <2>typed, <3>1, <3>6 DEF Refs!Idle, PtrFits
    <3>8. ASSUME NEW u \in RefThreads PROVE ThreadFits(g, u, raw', rcall')
      BY <2>thr, <2>typed, <3>1 DEF ThreadFits
    <3>9. Reference' = g
      BY <1>is, <3>6, <3>7, <3>8
    <3>10. \A x \in Objects :
             ref_count_'[x] = ref_count_[x]
               - (IF Reference[<<"ptr", p>>] = x THEN 1 ELSE 0)
               + (IF v = x THEN 1 ELSE 0)
      BY <3>1, <3>6
    <3>11. CountsAgree'
      <4> DEFINE k == <<"ptr", p>>
      <4>1. k \in Places
        BY <2>ptr, <3>1
      <4> HIDE DEF k
      <4> QED
        BY <2>set, <3>1, <3>9, <3>10, <4>1 DEF k
    <3> QED
      BY <3>1, <3>3, <3>4, <3>5, <3>11
  <2>7. ASSUME NEW t \in RefThreads, NEW p \in Refs!Of(t), Refs!Destroy(t, p)
        PROVE  RefInv'
    <3>1. /\ rcall[t] = Refs!Idle /\ ptr_[p] # nullptr
          /\ p \in Refs!Pointers /\ p[1] = t
          /\ rcall' = [rcall EXCEPT ![t] =
               [step |-> "release", old |-> ptr_[p], into |-> p,
                val |-> nullptr]]
          /\ UNCHANGED <<ptr_, raw, ref_count_, life>>
      BY <2>7, <2>own, <2>rest
      DEF Refs!Destroy, Refs!Begin, Refs!Releasing
    <3>2. Refs!TypeOK' /\ rcall' \in [RefThreads -> RefCalls]
      BY <3>1 DEF RefCalls, Refs!Refs
    <3>3. CallsMeant'
      BY <2>7, <3>1 DEF CallsMeant, Refs!Idle, RefCalls
    <3>4. LifeFollows'
      BY <3>1 DEF LifeFollows, Deleting, Refs!Idle, RefCalls
    <3>5. Reference' = Reference
      BY <2>ptr, <2>thr, <1>is, <2>typed, <3>1
      DEF Refs!Idle, RefCalls, PtrFits, ThreadFits
    <3> QED
      BY <2>same, <3>1, <3>2, <3>3, <3>4, <3>5
  <2>8. ASSUME NEW t \in RefThreads, NEW p \in Refs!Of(t), NEW v \in Refs!Refs,
               Refs!AtRest(t) /\ v # nullptr =>
                 v \in Objects /\ ref_count_[v] > 0,
               Refs!Assign(t, p, v)
        PROVE  RefInv'
    <3> DEFINE c == Refs!Releasing(ptr_[p], p, v)
               k == <<"val", t>>
               g == [Reference EXCEPT ![k] = v]
    <3>1. /\ rcall[t] = Refs!Idle
          /\ p \in Refs!Pointers /\ p[1] = t
          /\ rcall' = [rcall EXCEPT ![t] = c]
          /\ ref_count_' = IF v = nullptr THEN ref_count_
                           ELSE [ref_count_ EXCEPT ![v] = @ + 1]
          /\ UNCHANGED <<ptr_, raw, life>>
          /\ v # nullptr => v \in Objects /\ ref_count_[v] > 0
      BY <2>8, <2>own, <2>rest DEF Refs!Assign, Refs!Begin, Refs!IncRef
    <3>2. /\ c \in RefCalls /\ c.into = p /\ c.val = v /\ c.old = ptr_[p]
          /\ c.step = IF ptr_[p] = nullptr THEN "store" ELSE "release"
      BY <3>1 DEF Refs!Releasing, RefCalls, Refs!Refs
    <3> HIDE DEF c
    <3>3. Refs!TypeOK' /\ rcall' \in [RefThreads -> RefCalls]
      BY <3>1, <3>2
    <3>4. CallsMeant'
      BY <2>8, <2>count, <3>1, <3>2 DEF CallsMeant, Refs!Idle, RefCalls
    <3>5. LifeFollows'
      BY <2>count, <3>1, <3>2 DEF LifeFollows, Deleting, Refs!Idle, RefCalls
    <3>6. /\ g \in [Places -> Refs!Refs] /\ k \in Places
          /\ Reference[k] = nullptr
      <4>1. k \in Places /\ Reference[k] = rcall[t].val
        BY <2>thr
      <4> QED
        BY <2>typed, <3>1, <4>1 DEF Refs!Idle
    <3>7. ASSUME NEW x \in Refs!Pointers PROVE PtrFits(g, x, ptr_', rcall')
      BY <2>ptr, <2>typed, <3>1, <3>2 DEF Refs!Idle, PtrFits
    <3>8. ASSUME NEW u \in RefThreads PROVE ThreadFits(g, u, raw', rcall')
      BY <2>thr, <2>typed, <3>1, <3>2 DEF Refs!Idle, ThreadFits
    <3>9. Reference' = g
      BY <1>is, <3>6, <3>7, <3>8
    <3>10. \A x \in Objects :
             ref_count_'[x] = ref_count_[x]
               - (IF Reference[k] = x THEN 1 ELSE 0)
               + (IF v = x THEN 1 ELSE 0)
      BY <3>1, <3>6
    <3>11. CountsAgree'
      BY <2>set, <3>6, <3>9, <3>10
    <3> QED
      BY <3>3, <3>4, <3>5, <3>11
  <2>9. ASSUME NEW t \in RefThreads, NEW p \in Refs!Of(t),
               NEW q \in Refs!Pointers,
               Refs!AtRest(t), Refs!AtRest(q[1]),
               ptr_' = [ptr_ EXCEPT ![p] = ptr_[q], ![q] = ptr_[p]],
               UNCHANGED <<raw, ref_count_, life, rcall>>
        PROVE  RefInv'
    <3> DEFINE k == <<"ptr", p>>
               l == <<"ptr", q>>
               g == [Reference EXCEPT ![k] = Reference[l],
                                      ![l] = Reference[k]]
    <3>1. /\ rcall[t] = Refs!Idle /\ rcall[q[1]] = Refs!Idle
          /\ p \in Refs!Pointers /\ p[1] = t /\ q[1] \in RefThreads
      BY <2>9, <2>own, <2>rest, <2>ptr
    <3>2. Refs!TypeOK' /\ LifeFollows'
      BY <2>9, <3>1 DEF LifeFollows, Deleting
    <3>3. CallsMeant'
      BY <2>9, <3>1 DEF CallsMeant, Refs!Idle, RefCalls, Refs!Of
    <3>4. /\ k \in Places /\ l \in Places
          /\ Reference[k] = ptr_[p] /\ Reference[l] = ptr_[q]
      BY <2>ptr, <3>1 DEF Refs!Idle
    <3>5. g \in [Places -> Refs!Refs]
      BY <2>typed, <3>4
    <3>6. ASSUME NEW x \in Refs!Pointers PROVE PtrFits(g, x, ptr_', rcall')
      BY <2>ptr, <2>typed, <2>9, <3>1, <3>4 DEF Refs!Idle, PtrFits
    <3>7. ASSUME NEW u \in RefThreads PROVE ThreadFits(g, u, raw', rcall')
      BY <2>thr, <2>typed, <2>9, <3>4 DEF ThreadFits
    <3>8. Reference' = g
      BY <1>is, <3>5, <3>6, <3>7
    <3>9. CountsAgree'
      BY <2>swap, <2>9, <3>4, <3>8
    <3> QED
      BY <2>9, <3>2, <3>3, <3>9
  <2>10. ASSUME NEW t \in RefThreads, NEW p \in Refs!Of(t),
                NEW q \in Refs!Pointers, Refs!MoveConstruct(t, p, q)
         PROVE  RefInv'
    <3>1. p \in Refs!Pointers
      BY <2>own
    <3>2. ptr_' = [ptr_ EXCEPT ![p] = ptr_[q], ![q] = ptr_[p]]
      BY <2>10, <3>1 DEF Refs!MoveConstruct
    <3> QED
      BY <2>9, <2>10, <3>2 DEF Refs!MoveConstruct
  <2>11. ASSUME NEW t \in RefThreads, NEW p \in Refs!Of(t),
                NEW q \in Refs!Of(t), Refs!SwapPointers(t, p, q)
         PROVE  RefInv'
    <3>1. q \in Refs!Pointers /\ q[1] = t
      BY <2>own
    <3> QED
      BY <2>9, <2>11, <3>1 DEF Refs!SwapPointers
  <2>12. ASSUME NEW t \in RefThreads, NEW p \in Refs!Of(t),
                Refs!ReleasePointer(t, p)
         PROVE  RefInv'
    <3> DEFINE k == <<"ptr", p>>
               l == <<"raw", t>>
               g == [Reference EXCEPT ![k] = Reference[l],
                                      ![l] = Reference[k]]
    <3>1. /\ rcall[t] = Refs!Idle /\ p \in Refs!Pointers /\ p[1] = t
          /\ raw[t] = nullptr
          /\ raw' = [raw EXCEPT ![t] = ptr_[p]]
          /\ ptr_' = [ptr_ EXCEPT ![p] = nullptr]
          /\ UNCHANGED <<ref_count_, life, rcall>>
      BY <2>12, <2>own, <2>rest DEF Refs!ReleasePointer
    <3>2. Refs!TypeOK' /\ LifeFollows'
      BY <3>1 DEF LifeFollows, Deleting, Refs!Refs
    <3>3. CallsMeant'
      BY <3>1 DEF CallsMeant, Refs!Idle, RefCalls, Refs!Of
    <3>4. /\ k \in Places /\ l \in Places
          /\ Reference[k] = ptr_[p] /\ Reference[l] = nullptr
      <4>1. k \in Places /\ Reference[k] = ptr_[p]
        BY <2>ptr, <3>1 DEF Refs!Idle
      <4>2. l \in Places /\ Reference[l] = raw[t]
        BY <2>thr
      <4> QED
        BY <3>1, <4>1, <4>2
    <3>5. g \in [Places -> Refs!Refs]
      BY <2>typed, <3>4
    <3>6. ASSUME NEW x \in Refs!Pointers PROVE PtrFits(g, x, ptr_', rcall')
      BY <2>ptr, <2>typed, <3>1, <3>4 DEF Refs!Idle, PtrFits
    <3>7. ASSUME NEW u \in RefThreads PROVE ThreadFits(g, u, raw', rcall')
      BY <2>thr, <2>typed, <3>1, <3>4 DEF ThreadFits
    <3>8. Reference' = g
      BY <1>is, <3>5, <3>6, <3>7
    <3>9. CountsAgree'
      BY <2>swap, <3>1, <3>4, <3>8
    <3> QED
      BY <3>1, <3>2, <3>3, <3>9
  <2>13. ASSUME NEW t \in RefThreads, Refs!ReleaseRaw(t) PROVE RefInv'
    <3> DEFINE k == <<"raw", t>>
               l == <<"old", t>>
               g == [Reference EXCEPT ![k] = Reference[l],
                                      ![l] = Reference[k]]
    <3>1. /\ rcall[t] = Refs!Idle /\ raw[t] # nullptr
          /\ rcall' = [rcall EXCEPT ![t] =
               [step |-> "release", old |-> raw[t], into |-> nullptr,
                val |-> nullptr]]
          /\ raw' = [raw EXCEPT ![t] = nullptr]
          /\ UNCHANGED <<ptr_, ref_count_, life>>
      BY <2>13, <2>rest DEF Refs!ReleaseRaw, Refs!Begin, Refs!Releasing
    <3>2. Refs!TypeOK' /\ rcall' \in [RefThreads -> RefCalls]
      BY <3>1 DEF Refs!Refs, RefCalls
    <3>3. CallsMeant'
      BY <3>1 DEF CallsMeant, Refs!Idle, RefCalls, Refs!Of
    <3>l. LifeFollows'
      BY <3>1 DEF LifeFollows, Deleting, Refs!Idle, RefCalls
    <3>4. /\ k \in Places /\ l \in Places
          /\ Reference[k] = raw[t] /\ Reference[l] = nullptr
      <4>1. k \in Places /\ l \in Places /\ Reference[k] = raw[t]
        BY <2>thr
      <4>2. Reference[l] = IF /\ rcall[t].step = "release"
                             /\ rcall[t].into = nullptr
                          THEN rcall[t].old ELSE nullptr
        BY <2>thr
      <4> QED
        BY <3>1, <4>1, <4>2 DEF Refs!Idle
    <3>5. g \in [Places -> Refs!Refs]
      BY <2>typed, <3>4
    <3>6. ASSUME NEW x \in Refs!Pointers PROVE PtrFits(g, x, ptr_', rcall')
      BY <2>ptr, <2>typed, <3>1, <3>4 DEF Refs!Idle, PtrFits
    <3>7. ASSUME NEW u \in RefThreads PROVE ThreadFits(g, u, raw', rcall')
      BY <2>thr, <2>typed, <3>1, <3>4 DEF Refs!Idle, ThreadFits
    <3>8. Reference' = g
      BY <1>is, <3>5, <3>6, <3>7
    <3>9. CountsAgree'
      BY <2>swap, <3>1, <3>4, <3>8
    <3> QED
      BY <3>1, <3>2, <3>3, <3>l, <3>9
  <2>14. ASSUME NEW t \in RefThreads, NEW p \in Refs!Of(t),
                NEW q \in Refs!Of(t), Refs!MoveAssign(t, p, q)
         PROVE  RefInv'
    <3> DEFINE a == IF p = q THEN nullptr ELSE ptr_[p]
               k == <<"ptr", p>>
               l == <<"ptr", q>>
               m == <<"old", t>>
               h == [Reference EXCEPT ![k] = Reference[m],
                                      ![m] = Reference[k]]
               g == [h EXCEPT ![k] = h[l], ![l] = h[k]]
    <3>1. /\ rcall[t] = Refs!Idle
          /\ p \in Refs!Pointers /\ p[1] = t
          /\ q \in Refs!Pointers /\ q[1] = t
          /\ rcall' = [rcall EXCEPT ![t] =
               [step |-> IF a = nullptr THEN "store" ELSE "release",
                old |-> a, into |-> nullptr, val |-> nullptr]]
          /\ ptr_' = IF p = q THEN ptr_
                     ELSE [ptr_ EXCEPT ![p] = ptr_[q], ![q] = nullptr]
          /\ UNCHANGED <<raw, ref_count_, life>>
      BY <2>14, <2>own, <2>rest
      DEF Refs!MoveAssign, Refs!Begin, Refs!Releasing
    <3>2. Refs!TypeOK' /\ rcall' \in [RefThreads -> RefCalls]
      BY <3>1 DEF Refs!Refs, RefCalls
    <3>3. CallsMeant'
      BY <3>1 DEF CallsMeant, Refs!Idle, RefCalls, Refs!Of
    <3>4. LifeFollows'
      BY <3>1 DEF LifeFollows, Deleting, Refs!Idle, RefCalls
    <3>5. CASE p = q
      <4>1. Reference' = Reference
        BY <2>ptr, <2>thr, <1>is, <2>typed, <3>1, <3>5
      DEF Refs!Idle, PtrFits, ThreadFits
      <4> QED
        BY <2>same, <3>1, <3>2, <3>3, <3>4, <3>5, <4>1
    <3>6. CASE p # q
      <4>1. /\ k \in Places /\ Reference[k] = ptr_[p]
            /\ l \in Places /\ Reference[l] = ptr_[q]
        BY <2>ptr, <3>1 DEF Refs!Idle
      <4>2. m \in Places /\ Reference[m] = nullptr
        <5>1. m \in Places
              /\ Reference[m] = IF /\ rcall[t].step = "release"
                                  /\ rcall[t].into = nullptr
                               THEN rcall[t].old ELSE nullptr
          BY <2>thr
        <5> QED
          BY <3>1, <5>1 DEF Refs!Idle
      <4>3. /\ h \in [Places -> Refs!Refs] /\ g \in [Places -> Refs!Refs]
            /\ h[k] = nullptr /\ h[m] = ptr_[p] /\ h[l] = ptr_[q]
            /\ \A j \in Places \ {k, m} : h[j] = Reference[j]
        BY <2>typed, <3>6, <4>1, <4>2
      <4>4. /\ g[k] = ptr_[q] /\ g[l] = nullptr /\ g[m] = ptr_[p]
            /\ \A j \in Places \ {k, l, m} : g[j] = Reference[j]
        BY <3>6, <4>1, <4>2, <4>3
      <4> HIDE DEF g, h
      <4>5. ASSUME NEW x \in Refs!Pointers PROVE PtrFits(g, x, ptr_', rcall')
        BY <2>ptr, <3>1, <3>6, <4>4 DEF Refs!Idle, PtrFits
      <4>6. ASSUME NEW u \in RefThreads PROVE ThreadFits(g, u, raw', rcall')
        BY <2>thr, <3>1, <3>6, <4>1, <4>4 DEF Refs!Idle, ThreadFits
      <4>7. Reference' = g
        BY <1>is, <4>3, <4>5, <4>6
      <4>8. ASSUME NEW x \in Objects
            PROVE  Counted(g, x, ref_count_[x])
        <5>1. Counted(Reference, x, ref_count_[x]) /\ ref_count_[x] \in Int
          BY DEF CountsAgree
        <5>2. Counted(h, x, ref_count_[x])
          BY <2>typed, <4>1, <4>2, <5>1, <1>PlacesSwapped DEF h
        <5> QED
          BY <4>1, <4>3, <5>1, <5>2, <1>PlacesSwapped DEF g
      <4>9. CountsAgree'
        BY <3>1, <4>7, <4>8 DEF CountsAgree
      <4> QED
        BY <3>1, <3>2, <3>3, <3>4, <4>9
    <3> QED
      BY <3>5, <3>6
  <2>15. ASSUME NEW t \in RefThreads, NEW p \in Refs!Of(t),
                \/ Refs!Assign(t, p, nullptr)
                \/ \E q \in Refs!Of(t) : Refs!Assign(t, p, ptr_[q])
         PROVE  RefInv'
    <3>1. nullptr \in Refs!Refs /\ \A q \in Refs!Of(t) : ptr_[q] \in Refs!Refs
      BY <2>own DEF Refs!Refs
    <3> QED
      BY <2>8, <2>15, <2>held, <3>1
  <2> QED
    BY <2>1, <2>2, <2>3, <2>4, <2>5, <2>6, <2>7, <2>10, <2>11, <2>12, <2>13,
       <2>14, <2>15
    DEF Refs!Next
<1> QED
  BY <1>1, <1>2, PTL DEF Refs!Spec

\* The count is that of the references, in every state: nobody refers to a
\* deleted object, none is deleted twice or forgotten, and HasOneRef is to be
\* trusted (RefCounter, scoped_refptr).
THEOREM ReferencesCounted == SyncSpec => []CountIsReferences
\* The references of a thread are as many as its places that hold them.
<1>OwnedAreHeld.
    ASSUME RefInv, NEW t \in RefThreads, NEW o \in Objects
    PROVE  LET H == {k \in Holding(Reference, o) : HolderOf(k) = t}
           IN  IsFiniteSet(H) /\ Refs!Owned(t, o) = Cardinality(H)
  <2> USE <1>OwnedAreHeld
  <2> DEFINE H == {k \in Holding(Reference, o) : HolderOf(k) = t}
             P == Refs!Pointing(o) \cap Refs!Of(t)
             Q == {<<"ptr", p>> : p \in P}
             c == rcall[t]
             A == IF c.val = o THEN Q \cup {<<"val", t>>} ELSE Q
             B == IF c.step = "release" /\ c.old = o /\ c.into = nullptr
                  THEN A \cup {<<"old", t>>} ELSE A
             C == IF raw[t] = o THEN B \cup {<<"raw", t>>} ELSE B
  <2>1. o # nullptr
    BY SyncAssumption
  <2>2. ASSUME NEW p \in Refs!Pointers
        PROVE  <<"ptr", p>> \in H <=> p \in P
    <3>1. <<"ptr", p>> \in Places /\ (p[1] = t <=> p \in Refs!Of(t))
      BY DEF Places, Refs!Pointers, Refs!Of
    <3>2. Reference[<<"ptr", p>>] = IF Refs!Stale(p) THEN nullptr ELSE ptr_[p]
      BY <3>1 DEF Reference, In, Refs!Stale
    <3> QED
      BY <2>1, <3>1, <3>2 DEF Holding, HolderOf, Refs!Pointing
  <2>3. ASSUME NEW i \in {"raw", "val", "old"}, NEW u \in RefThreads
        PROVE  <<i, u>> \in H <=>
                 /\ u = t
                 /\ \/ i = "raw" /\ raw[t] = o
                    \/ i = "val" /\ c.val = o
                    \/ /\ i = "old"
                       /\ c.step = "release" /\ c.old = o /\ c.into = nullptr
    BY <2>1 DEF Holding, HolderOf, Places, Reference, In
  <2>4. H = C
    <3>1. P \subseteq Refs!Pointers
      BY DEF Refs!Pointing
    <3>2. ASSUME NEW k \in H PROVE k \in C
      <4>1. k \in Places
        BY DEF Holding
      <4>2. CASE k \in {"ptr"} \X Refs!Pointers
        BY <2>2, <4>2
      <4>3. CASE k \in {"raw", "val", "old"} \X RefThreads
        BY <2>3, <4>3
      <4> QED
        BY <4>1, <4>2, <4>3 DEF Places
    <3>3. ASSUME NEW k \in C PROVE k \in H
      <4> HIDE DEF H, P
      <4>1. CASE k \in Q
        BY <2>2, <3>1, <4>1
      <4>2. CASE k \notin Q
        BY <2>3, <3>3, <4>2
      <4> QED
        BY <4>1, <4>2
    <3> QED
      BY <3>2, <3>3
  <2>5. IsFiniteSet(H)
    BY FS_Subset DEF RefInv, CountsAgree, Counted
  <2>6. IsFiniteSet(Q)
    BY <2>4, <2>5, FS_Subset
  <2>7. Cardinality(P) = Cardinality(Q)
    <3> DEFINE f == [k \in Q |-> k[2]]
    <3> HIDE DEF P
    <3>1. f \in [Q -> P]
          /\ \A p \in P : <<"ptr", p>> \in Q /\ f[<<"ptr", p>>] = p
      OBVIOUS
    <3>2. \A j, k \in Q : f[j] = f[k] => j = k
      OBVIOUS
    <3> HIDE DEF f, Q
    <3>3. f \in Bijection(Q, P)
      BY <3>1, <3>2 DEF Bijection, Injection, Surjection, IsInjective
    <3> QED
      BY <2>6, <3>3, FS_Bijection DEF ExistsBijection
  <2>8. Cardinality(Q) \in Nat
    BY <2>6, FS_CardinalityType
  <2> HIDE DEF P
  <2>9. /\ IsFiniteSet(A)
        /\ Cardinality(A) = Cardinality(Q) + (IF c.val = o THEN 1 ELSE 0)
    <3>1. <<"val", t>> \notin Q
      OBVIOUS
    <3> HIDE DEF Q
    <3>2. /\ IsFiniteSet(Q \cup {<<"val", t>>})
          /\ Cardinality(Q \cup {<<"val", t>>}) = Cardinality(Q) + 1
      BY <2>6, <3>1, FS_AddElement
    <3> QED
      BY <2>6, <2>8, <3>2
  <2>10. /\ IsFiniteSet(B)
         /\ Cardinality(B) = Cardinality(A) +
              (IF c.step = "release" /\ c.old = o /\ c.into = nullptr
               THEN 1 ELSE 0)
    <3>1. <<"old", t>> \notin A
      OBVIOUS
    <3>2. Cardinality(A) \in Nat
      BY <2>9, FS_CardinalityType
    <3> HIDE DEF A
    <3>3. /\ IsFiniteSet(A \cup {<<"old", t>>})
          /\ Cardinality(A \cup {<<"old", t>>}) = Cardinality(A) + 1
      BY <2>9, <3>1, FS_AddElement
    <3> QED
      BY <2>9, <3>2, <3>3
  <2>11. Cardinality(C) = Cardinality(B) + (IF raw[t] = o THEN 1 ELSE 0)
    <3>1. <<"raw", t>> \notin B
      OBVIOUS
    <3>2. Cardinality(B) \in Nat
      BY <2>10, FS_CardinalityType
    <3> HIDE DEF B
    <3>3. Cardinality(B \cup {<<"raw", t>>}) = Cardinality(B) + 1
      BY <2>10, <3>1, FS_AddElement
    <3> QED
      BY <3>2, <3>3
  <2>12. Refs!Cardinality(P) = Cardinality(P)
    BY DEF Refs!Cardinality, Cardinality
  <2> HIDE DEF H, A, B, C, Q
  <2>13. Refs!Owned(t, o) = Cardinality(H)
    BY <2>4, <2>7, <2>8, <2>9, <2>10, <2>11, <2>12
    DEF Refs!Owned, Refs!InCall, P
  <2> QED
    BY <2>5, <2>13 DEF H
<1>1. RefInv => CountIsReferences
  <2> SUFFICES ASSUME RefInv, NEW o \in Objects
               PROVE  /\ life[o] # "twice" /\ Refs!OwnersCounted(o)
                      /\ Refs!AloneWithOne(o) /\ Refs!NoneLeaked(o)
    BY DEF CountIsReferences, Refs!CountIsReferences
  <2> DEFINE S == Holding(Reference, o)
             H(t) == {k \in S : HolderOf(k) = t}
  <2>1. IsFiniteSet(S) /\ ref_count_[o] = Cardinality(S)
        /\ Cardinality(S) \in Nat
    BY FS_CardinalityType DEF RefInv, CountsAgree, Counted
  <2>2. ASSUME NEW t \in RefThreads
        PROVE  /\ IsFiniteSet(H(t)) /\ Refs!Owned(t, o) = Cardinality(H(t))
               /\ Cardinality(H(t)) \in Nat
               /\ Cardinality(H(t)) <= Cardinality(S)
               /\ Refs!Owned(t, o) > 0 <=> H(t) # {}
    <3>1. IsFiniteSet(H(t)) /\ Refs!Owned(t, o) = Cardinality(H(t))
      BY <1>OwnedAreHeld
    <3>2. Cardinality(H(t)) <= Cardinality(S)
      BY <2>1, FS_Subset
    <3>3. Cardinality(H(t)) \in Nat
      BY <3>1, FS_CardinalityType
    <3>4. Cardinality(H(t)) = 0 <=> H(t) = {}
      BY <3>1, FS_EmptySet
    <3> HIDE DEF H
    <3> QED
      BY <3>1, <3>2, <3>3, <3>4
  <2> HIDE DEF S
  <2>3. Refs!OwnersCounted(o)
    <3> SUFFICES ASSUME NEW t \in RefThreads, Refs!Owned(t, o) > 0
                 PROVE  life[o] = "live" /\ ref_count_[o] >= Refs!Owned(t, o)
      BY DEF Refs!OwnersCounted, Refs!Owners
    <3>1. ref_count_[o] >= Refs!Owned(t, o) /\ ref_count_[o] > 0
      <4>1. /\ Refs!Owned(t, o) = Cardinality(H(t))
            /\ Cardinality(H(t)) \in Nat
            /\ Cardinality(H(t)) <= Cardinality(S)
        BY <2>2
      <4> HIDE DEF H
      <4> QED
        BY <2>1, <4>1
    <3> QED
      BY <3>1 DEF RefInv, LifeFollows
  <2>4. Refs!AloneWithOne(o)
    <3> SUFFICES ASSUME ref_count_[o] = 1
                 PROVE  Cardinality(Refs!Owners(o)) <= 1
      BY DEF Refs!AloneWithOne, Refs!HasOneRef, Refs!Cardinality, Cardinality
    <3>1. PICK k : S = {k}
      BY <2>1, FS_Singleton
    <3>2. Refs!Owners(o) \subseteq {HolderOf(k)}
      BY <2>2, <3>1 DEF Refs!Owners
    <3>3. /\ IsFiniteSet({HolderOf(k)})
          /\ Cardinality({HolderOf(k)}) = 1
      BY FS_Singleton
    <3>4. Cardinality(Refs!Owners(o)) <= Cardinality({HolderOf(k)})
      BY <3>2, <3>3, FS_Subset
    <3> QED
      BY <3>3, <3>4
  <2>5. Refs!NoneLeaked(o)
    <3>1. ASSUME ref_count_[o] > 0
          PROVE  \E t \in RefThreads : Refs!Owned(t, o) > 0
      <4>1. PICK k \in S : TRUE
        BY <2>1, <3>1, FS_EmptySet
      <4>2. HolderOf(k) \in RefThreads
        BY DEF S, Holding, Places, HolderOf, Refs!Pointers
      <4> QED
        BY <2>2, <4>2
    <3> QED
      BY <3>1 DEF Refs!NoneLeaked, RefInv, LifeFollows, Deleting
  <2> QED
    BY <2>3, <2>4, <2>5 DEF RefInv, LifeFollows
<1> QED
  BY <1>1, RefInvInductive, ComponentsRun, PTL

-----------------------------------------------------------------------------
(* Trace: the rows of a stream, and the counters one thread keeps of them. *)

\* A product of positive numbers is no less than either.
LEMMA RingGrows ==
  ASSUME NEW a \in Nat, NEW k \in Int, k >= 1
  PROVE  a * k >= a
OBVIOUS

\* Two multiples of n are apart by n, and what is less than n is none.
LEMMA MultiplesApart ==
  ASSUME NEW n \in Nat \ {0}, NEW a \in Int, NEW b \in Int,
         a % n = 0, b % n = 0, a < b
  PROVE  b - a >= n
<1>1. /\ a \div n \in Int /\ b \div n \in Int
      /\ a = n * (a \div n) + (a % n) /\ b = n * (b \div n) + (b % n)
  OBVIOUS
<1> DEFINE k == b \div n - a \div n
<1>2. k \in Int /\ b - a = n * k
  BY <1>1
<1> HIDE DEF k
<1>3. k >= 1
  <2>1. k <= 0 => n * k <= 0
    BY <1>2
  <2> QED
    BY <1>2, <2>1
<1> QED
  BY <1>2, <1>3, RingGrows

Least(n) == IF n <= MaxRows THEN n ELSE MaxRows

\* Rows a and b come after a multiple of the ring's rows.
Fits(a, b, wrap) == (a - b) % (MaxRows - wrap) = 0

\* What a row shows when a line comes: that line where it fits, or the same.
LEMMA RowShowsNext ==
  ASSUME Traces!TraceAssumption, NEW n \in Nat, NEW wrap \in Nat,
         NEW r \in 1 .. (n + 1)
  PROVE  /\ r <= wrap => /\ Traces!RowShows(r, n + 1, wrap) = r
                         /\ Traces!RowShows(r, n, wrap) = r
         /\ r > wrap /\ wrap < MaxRows /\ Fits(n + 1, r, wrap) =>
              Traces!RowShows(r, n + 1, wrap) = n + 1
         /\ r > wrap /\ wrap < MaxRows /\ ~Fits(n + 1, r, wrap) =>
              Traces!RowShows(r, n + 1, wrap) = Traces!RowShows(r, n, wrap)
<1> DEFINE S(m) == {k \in r .. m : (k - r) % (MaxRows - wrap) = 0}
<1>1. ASSUME r <= wrap
      PROVE  Traces!RowShows(r, n + 1, wrap) = r
               /\ Traces!RowShows(r, n, wrap) = r
  BY <1>1 DEF Traces!RowShows
<1>2. ASSUME r > wrap
      PROVE  /\ Traces!RowShows(r, n + 1, wrap) = Traces!Max(S(n + 1))
             /\ Traces!RowShows(r, n, wrap) = Traces!Max(S(n))
  BY <1>2 DEF Traces!RowShows
<1>3. ASSUME Fits(n + 1, r, wrap) PROVE Traces!Max(S(n + 1)) = n + 1
  <2>1. n + 1 \in S(n + 1) /\ \A k \in S(n + 1) : k \in Int /\ k <= n + 1
    BY <1>3 DEF Fits
  <2> HIDE DEF S
  <2>2. ASSUME NEW x \in S(n + 1), \A y \in S(n + 1) : x >= y
        PROVE  x = n + 1
    BY <2>1, <2>2
  <2>3. \A y \in S(n + 1) : n + 1 >= y
    BY <2>1
  <2> QED
    BY <2>1, <2>2, <2>3 DEF Traces!Max
<1>4. ASSUME ~Fits(n + 1, r, wrap) PROVE S(n + 1) = S(n)
  <2>1. ASSUME NEW k \in r .. (n + 1), (k - r) % (MaxRows - wrap) = 0
        PROVE  k \in r .. n
    <3>1. k # n + 1
      BY <1>4, <2>1 DEF Fits
    <3> QED
      BY <3>1
  <2>2. \A k \in r .. n : k \in r .. (n + 1)
    OBVIOUS
  <2> QED
    BY <2>1, <2>2
<1> HIDE DEF S
<1> QED
  BY <1>1, <1>2, <1>3, <1>4

\* A file has header and rows.
Kept(lines, e, n, wrap) ==
  /\ lines \in Seq(Nat) /\ Len(lines) = e + Least(n)
  /\ e = 1 => lines[1] = Traces!Header
  /\ \A r \in 1 .. Least(n) :
       lines[e + r] # Traces!Header
           /\ lines[e + r] = Traces!RowShows(r, n, wrap)

\* Where the next line goes.
Next1(row, n, wrap) ==
  /\ row \in Nat
  /\ n < MaxRows => row = n
  /\ n >= MaxRows => IF wrap >= MaxRows THEN row = MaxRows
                     ELSE /\ row \in wrap .. (MaxRows - 1)
                          /\ Fits(n, row, wrap)

\* A line is written where it goes.
LEMMA WritesRow ==
  ASSUME Traces!TraceAssumption, NEW n \in Nat, NEW wrap \in Nat,
         NEW e \in 0 .. 1,
         NEW lines, Kept(lines, e, n, wrap),
         NEW row, Next1(row, n, wrap), row < MaxRows
  PROVE  Kept(Traces!Written([lines |-> lines, pos |-> e + row], n + 1).lines,
              e, n + 1, wrap)
<1> DEFINE p == row + 1
           new == Traces!Written([lines |-> lines, pos |-> e + row],
             n + 1).lines
<1>0. MaxRows \in Nat \ {0}
  BY DEF Traces!TraceAssumption
<1>1. /\ row \in Nat /\ p \in 1 .. MaxRows /\ p <= n + 1
      /\ lines \in Seq(Nat) /\ Len(lines) = e + Least(n)
  BY <1>0 DEF Next1, Kept
<1>2. new = IF e + row < Len(lines)
            THEN [lines EXCEPT ![(e + row) + 1] = n + 1]
            ELSE Append(lines, n + 1)
  BY DEF Traces!Written
<1>3. /\ new \in Seq(Nat) /\ Len(new) = e + Least(n + 1)
      /\ new[e + p] = n + 1
      /\ \A k \in 1 .. (e + Least(n)) : k # e + p => new[k] = lines[k]
  <2>1. CASE n < MaxRows
    <3>1. row = n /\ Least(n) = n /\ Least(n + 1) = n + 1
      BY <1>0, <2>1 DEF Next1, Least
    <3>2. ~(e + row < Len(lines))
      BY <1>1, <3>1
    <3>3. new = Append(lines, n + 1)
      BY <1>2, <3>2
    <3>4. n + 1 \in Nat /\ Len(lines) = e + n
      BY <1>1, <3>1
    <3>5. /\ new \in Seq(Nat) /\ Len(new) = (e + n) + 1
          /\ new[(e + n) + 1] = n + 1
          /\ \A k \in 1 .. (e + n) : new[k] = lines[k]
      <4> HIDE DEF new
      <4> QED
        BY <1>1, <3>3, <3>4, AppendProperties
    <3> HIDE DEF new
    <3> QED
      BY <1>1, <3>1, <3>5
  <2>2. CASE n >= MaxRows
    <3>1. Least(n) = MaxRows /\ Least(n + 1) = MaxRows
      BY <1>0, <2>2 DEF Least
    <3>2. new = [lines EXCEPT ![(e + row) + 1] = n + 1]
      BY <1>0, <1>1, <1>2, <3>1
    <3>3. (e + row) + 1 = e + p /\ e + p \in 1 .. Len(lines)
      BY <1>0, <1>1, <3>1
    <3>4. n + 1 \in Nat /\ lines \in [1 .. Len(lines) -> Nat]
      BY <1>1
    <3>5. new = [lines EXCEPT ![e + p] = n + 1]
      BY <3>2, <3>3
    <3> HIDE DEF new, p
    <3>6. /\ new \in [1 .. Len(lines) -> Nat] /\ new[e + p] = n + 1
          /\ \A k \in 1 .. Len(lines) : k # e + p => new[k] = lines[k]
      BY <3>3, <3>4, <3>5
    <3>7. new \in Seq(Nat) /\ Len(new) = Len(lines)
      BY <1>1, <3>6, SeqDef, LenProperties
    <3> QED
      BY <1>1, <3>1, <3>6, <3>7
  <2> QED
    BY <1>0, <2>1, <2>2
<1>4. Traces!RowShows(p, n + 1, wrap) = n + 1
  <2>1. CASE p <= wrap
    <3>1. n < MaxRows
      BY <1>0, <1>1, <2>1 DEF Next1
    <3> QED
      BY <1>1, <2>1, <3>1, RowShowsNext DEF Next1
  <2>2. CASE p > wrap
    <3>1. wrap < MaxRows
      BY <1>0, <1>1, <2>2
    <3>2. Fits(n + 1, p, wrap)
      <4>1. CASE n < MaxRows
        <5>1. (n + 1) - p = 0 /\ MaxRows - wrap \in Nat \ {0}
          BY <1>0, <1>1, <3>1, <4>1 DEF Next1
        <5>2. 0 % (MaxRows - wrap) = 0
          BY <5>1
        <5> QED
          BY <5>1, <5>2 DEF Fits
      <4>2. CASE n >= MaxRows
        <5>1. Fits(n, row, wrap) /\ (n + 1) - p = n - row
          BY <1>0, <1>1, <3>1, <4>2 DEF Next1
        <5> QED
          BY <5>1 DEF Fits
      <4> QED
        BY <1>0, <4>1, <4>2
    <3> QED
      BY <1>1, <2>2, <3>1, <3>2, RowShowsNext
  <2> QED
    BY <1>1, <2>1, <2>2
<1> HIDE DEF new
<1>5. ASSUME NEW r \in 1 .. Least(n + 1)
      PROVE  new[e + r] # Traces!Header
               /\ new[e + r] = Traces!RowShows(r, n + 1, wrap)
  <2>1. CASE r = p
    BY <1>3, <1>4, <2>1 DEF Traces!Header
  <2>2. CASE r # p
    <3>1. r \in 1 .. Least(n) /\ r \in 1 .. (n + 1) /\ r <= MaxRows
      BY <1>0, <1>1, <2>2 DEF Least, Next1
    <3>2. new[e + r] = lines[e + r]
      <4>1. e + r \in 1 .. (e + Least(n)) /\ e + r # e + p
        BY <1>0, <1>1, <2>2, <3>1 DEF Least
      <4> QED
        BY <1>3, <4>1
    <3>3. lines[e + r] # Traces!Header
              /\ lines[e + r] = Traces!RowShows(r, n, wrap)
      BY <3>1 DEF Kept
    <3>4. Traces!RowShows(r, n + 1, wrap) = Traces!RowShows(r, n, wrap)
      <4>1. CASE r <= wrap
        BY <3>1, <4>1, RowShowsNext
      <4>2. CASE r > wrap
        <5>1. wrap < MaxRows /\ MaxRows - wrap \in Nat \ {0}
          BY <1>0, <3>1, <4>2
        <5>2. ~Fits(n + 1, r, wrap)
          <6> SUFFICES ASSUME Fits(n + 1, r, wrap) PROVE FALSE
            OBVIOUS
          <6>1. Fits(n + 1, p, wrap)
            <7>1. CASE n < MaxRows
              <8>1. (n + 1) - p = 0
                BY <1>1, <7>1 DEF Next1
              <8>2. 0 % (MaxRows - wrap) = 0
                BY <5>1
              <8> QED
                BY <8>1, <8>2 DEF Fits
            <7>2. CASE n >= MaxRows
              <8>1. Fits(n, row, wrap) /\ (n + 1) - p = n - row
                BY <1>0, <1>1, <5>1, <7>2 DEF Next1
              <8> QED
                BY <8>1 DEF Fits
            <7> QED
              BY <1>0, <7>1, <7>2
          <6>2. /\ ((n + 1) - p) % (MaxRows - wrap) = 0
                /\ ((n + 1) - r) % (MaxRows - wrap) = 0
            BY <6>1 DEF Fits
          <6> DEFINE a == (n + 1) - p
                     b == (n + 1) - r
          <6>3. a \in Int /\ b \in Int /\ a # b
                /\ a - b < MaxRows - wrap /\ b - a < MaxRows - wrap
            <7>1. p > wrap \/ n < MaxRows
              <8>1. n >= MaxRows \/ n < MaxRows
                BY <1>0
              <8>2. ASSUME n >= MaxRows PROVE row >= wrap
                BY <1>0, <1>1, <5>1, <8>2 DEF Next1
              <8>3. row >= wrap => p > wrap
                BY <1>1
              <8> QED
                BY <8>1, <8>2, <8>3
            <7>2. ASSUME n < MaxRows PROVE r < p
              <8>1. row = n /\ Least(n) = n
                BY <1>0, <7>2 DEF Next1, Least
              <8> QED
                BY <3>1, <8>1
            <7> QED
              BY <1>0, <1>1, <2>2, <3>1, <4>2, <7>1, <7>2
          <6> HIDE DEF a, b
          <6>4. a % (MaxRows - wrap) = 0 /\ b % (MaxRows - wrap) = 0
            BY <6>2 DEF a, b
          <6>5. a < b \/ b < a
            BY <6>3
          <6> QED
            BY <5>1, <6>3, <6>4, <6>5, MultiplesApart
        <5> QED
          BY <3>1, <4>2, <5>1, <5>2, RowShowsNext
      <4> QED
        BY <3>1, <4>1, <4>2
    <3> QED
      BY <3>2, <3>3, <3>4
  <2> QED
    BY <2>1, <2>2
<1>6. ASSUME e = 1 PROVE new[1] = Traces!Header
  <2>1. lines[1] = Traces!Header
    BY <1>6 DEF Kept
  <2>2. 1 \in 1 .. (e + Least(n)) /\ 1 # e + p
    BY <1>0, <1>1, <1>6 DEF Least
  <2> QED
    BY <1>3, <2>1, <2>2
<1>7. Kept(new, e, n + 1, wrap)
  BY <1>3, <1>5, <1>6 DEF Kept
<1> QED
  BY <1>7 DEF new

-----------------------------------------------------------------------------
(* The counters of a stream.                                               *)

\* After n lines, with the last of them counted.
Even(row, n, wrap) ==
  /\ row \in Nat
  /\ n <= MaxRows => row = n
  /\ n > MaxRows => IF wrap >= MaxRows THEN row = MaxRows
                    ELSE row \in (wrap + 1) .. MaxRows /\ Fits(n, row, wrap)

\* The steps of WriteToFile in which the line is not in the file yet, and all.
Before == {"rows", "mark", "full", "seek", "put"}
Writing == Before \cup {"count", "next"}
TraceSteps == Writing \cup {"idle", "check", "list", "register", "registered"}

\* A stream of which a thread is at that step, or none ("rest"): its file has
\* n lines, or n - 1 before the write.
Follows(step, e, n, stream, file) ==
  LET m == IF step \in Before THEN n - 1 ELSE n
      wrap == stream.ostream.wrap_line_number
      row == stream.row_count_text
      marked == stream.wrap_offset = e + wrap
  IN /\ m \in Nat
     /\ Kept(file.lines, e, m, wrap)
     /\ step \in {"rest", "rows", "mark"} =>
          /\ Even(row, m, wrap) /\ file.pos = e + row
          /\ row > wrap => marked
     /\ step = "mark" => row >= wrap
     /\ step = "full" =>
          Even(row, m, wrap) /\ file.pos = e + row /\ row >= wrap /\ marked
     /\ step = "seek" => Next1(row, m, wrap) /\ row = wrap /\ marked
     /\ step = "put" =>
          /\ Next1(row, m, wrap) /\ file.pos = e + row
          /\ row >= wrap => marked
     /\ step \in {"count", "next"} =>
          /\ Even(row + 1, m, wrap) /\ file.pos = (e + row) + 1
          /\ row >= wrap => marked

-----------------------------------------------------------------------------
(* The invariant of one thread.                                            *)

Ostreams == [file : Traces!AllFiles \cup {NoFile}, filter : SUBSET Levels,
             wrap_line_number : Nat]
HandleRecords ==
  [ostream : Ostreams, wrap_offset : Nat, row_count_text : Nat]
TraceArgs == [level : Levels, line : Nat, length : Int, stream : Ostreams]

TraceTypes ==
  /\ handle_number \in 0 .. MaxStreams
  /\ handles \in [1 .. MaxStreams -> HandleRecords]
  /\ done \in BOOLEAN
  /\ files \in [Traces!AllFiles -> [lines : Seq(Nat), pos : Nat]]
  /\ tpc \in [TraceThreads -> TraceSteps]
  /\ at_handle \in [TraceThreads -> Nat \ {0}]
  /\ arg \in [TraceThreads -> TraceArgs]
  /\ tloaded \in [TraceThreads -> Nat]
  /\ given \in [Traces!AllFiles -> Nat]

FileOf(h) == handles[h].ostream.file

\* Streams have a file each, and a slot that is free has no rows.
StreamsDiffer ==
  /\ \A h \in Traces!Handles : FileOf(h) \in Traces!AllFiles
  /\ \A h, g \in Traces!Handles : h # g => FileOf(h) # FileOf(g)
  /\ \A h \in 1 .. MaxStreams :
       h > handle_number => handles[h].row_count_text = 0

\* Nothing is written before TraceInit, nor to a file without a stream.
FilesBlank ==
  \A f \in Traces!AllFiles :
    (~done \/ \A h \in Traces!Handles : FileOf(h) # f) =>
      files[f].lines = <<>> /\ files[f].pos = 0 /\ given[f] = 0

\* The thread's own state.
WriterFits(t) ==
  /\ arg[t].length < MaxMessage
  /\ done \/ tpc[t] \in {"idle", "register", "registered"}
  /\ tpc[t] \in {"register", "registered"} =>
       /\ arg[t].stream.file \in Files /\ handle_number < MaxStreams
       /\ \A h \in Traces!Handles : FileOf(h) # arg[t].stream.file
  /\ Traces!At(t, "registered") =>
       /\ tloaded[t] = handle_number
       /\ handles[handle_number + 1].ostream = arg[t].stream
  /\ tpc[t] \in Writing => at_handle[t] \in Traces!Handles
  /\ tpc[t] \in Before => arg[t].line = given[Traces!File(t)]
  /\ Traces!At(t, "next") => tloaded[t] = Traces!Row(t)

StepAt(t, h) ==
  IF tpc[t] \in Writing /\ at_handle[t] = h THEN tpc[t] ELSE "rest"

StreamsFollow(t) == \A h \in Traces!Handles : \E e \in 0 .. 1 :
  Follows(StepAt(t, h), e, given[FileOf(h)], handles[h], files[FileOf(h)])

TraceInv(t) ==
  /\ TraceTypes /\ StreamsDiffer /\ FilesBlank
  /\ WriterFits(t) /\ StreamsFollow(t)

-----------------------------------------------------------------------------
(* The steps on the counters.                                              *)

\* What fits n rows on, fits.
LEMMA FitsAgain ==
  ASSUME NEW k \in Int, NEW m \in Nat \ {0}, k % m = 0
  PROVE  (k + m) % m = 0
<1> DEFINE q == (k + m) \div m
           r == (k + m) % m
           j == (k \div m + 1) - q
<1>1. /\ k \div m \in Int /\ q \in Int /\ r \in Int /\ 0 <= r /\ r < m
      /\ k = m * (k \div m) + (k % m) /\ k + m = m * q + r
  OBVIOUS
<1>2. j \in Int /\ r = m * j
  BY <1>1
<1> HIDE DEF j, q, r
<1>3. j < 1
  <2>1. j >= 1 => m * j >= m
    BY <1>2, RingGrows
  <2> QED
    BY <1>1, <1>2, <2>1
<1>4. j > -1
  <2>1. j <= -1 => m * (-j) >= m
    BY <1>2, RingGrows
  <2>2. m * (-j) = -(m * j)
    BY <1>2
  <2> QED
    BY <1>1, <1>2, <2>1, <2>2
<1>5. j = 0
  BY <1>2, <1>3, <1>4
<1>6. r = 0
  BY <1>2, <1>5
<1> QED
  BY <1>6 DEF r

\* A stream is in one of three states at most when a line comes.
LEMMA EvenGoesOn ==
  ASSUME Traces!TraceAssumption, NEW n \in Nat, NEW wrap \in Nat, NEW row,
         Even(row, n, wrap)
  PROVE  /\ row <= MaxRows
         /\ row < wrap \/ row < MaxRows => Next1(row, n, wrap)
         /\ row >= wrap /\ row >= MaxRows => Next1(wrap, n, wrap)
<1>0. MaxRows \in Nat \ {0} /\ row \in Nat
  BY DEF Traces!TraceAssumption, Even
<1>1. CASE n < MaxRows
  <2>1. row = n
    BY <1>0, <1>1 DEF Even
  <2> QED
    BY <1>0, <1>1, <2>1 DEF Next1
<1>2. CASE n = MaxRows
  <2>1. row = MaxRows
    BY <1>0, <1>2 DEF Even
  <2>2. ASSUME row < wrap PROVE Next1(row, n, wrap)
    BY <1>0, <1>2, <2>1, <2>2 DEF Next1
  <2>3. ASSUME row >= wrap PROVE Next1(wrap, n, wrap)
    <3>1. CASE wrap = MaxRows
      BY <1>0, <1>2, <3>1 DEF Next1
    <3>2. CASE wrap < MaxRows
      <4>1. MaxRows - wrap \in Nat \ {0}
        BY <1>0, <3>2
      <4>2. (MaxRows - wrap) % (MaxRows - wrap) = 0
        BY <4>1
      <4>3. wrap \in wrap .. (MaxRows - 1) /\ ~(wrap >= MaxRows)
            /\ ~(n < MaxRows)
        BY <1>0, <1>2, <3>2
      <4> QED
        BY <1>2, <4>2, <4>3 DEF Next1, Fits
    <3> QED
      BY <1>0, <2>1, <2>3, <3>1, <3>2
  <2> QED
    BY <1>0, <2>1, <2>2, <2>3
<1>3. CASE n > MaxRows /\ wrap >= MaxRows
  <2>1. row = MaxRows
    BY <1>0, <1>3 DEF Even
  <2> QED
    BY <1>0, <1>3, <2>1 DEF Next1
<1>4. CASE n > MaxRows /\ wrap < MaxRows
  <2>1. row \in (wrap + 1) .. MaxRows /\ Fits(n, row, wrap)
    BY <1>0, <1>4 DEF Even
  <2>2. ASSUME row < MaxRows PROVE Next1(row, n, wrap)
    <3>1. row \in wrap .. (MaxRows - 1)
      BY <1>0, <2>1, <2>2
    <3> QED
      BY <1>0, <1>4, <2>1, <3>1 DEF Next1
  <2>3. ASSUME row = MaxRows PROVE Next1(wrap, n, wrap)
    <3>1. MaxRows - wrap \in Nat \ {0} /\ n - MaxRows \in Int
          /\ (n - MaxRows) + (MaxRows - wrap) = n - wrap
      BY <1>0, <1>4
    <3>2. (n - MaxRows) % (MaxRows - wrap) = 0
      BY <2>1, <2>3 DEF Fits
    <3>3. Fits(n, wrap, wrap)
      BY <3>1, <3>2, FitsAgain DEF Fits
    <3>4. wrap \in wrap .. (MaxRows - 1)
      BY <1>0, <1>4
    <3> QED
      BY <1>0, <1>4, <3>3, <3>4 DEF Next1
  <2> QED
    BY <1>0, <1>4, <2>1, <2>2, <2>3
<1> QED
  BY <1>0, <1>1, <1>2, <1>3, <1>4

\* A line that is written is counted.
LEMMA CountIsEven ==
  ASSUME Traces!TraceAssumption, NEW n \in Nat, NEW wrap \in Nat, NEW row,
         Next1(row, n, wrap), row < MaxRows
  PROVE  Even(row + 1, n + 1, wrap)
<1>0. MaxRows \in Nat \ {0} /\ row \in Nat
  BY DEF Traces!TraceAssumption, Next1
<1>1. CASE n < MaxRows
  BY <1>0, <1>1 DEF Next1, Even
<1>2. CASE n >= MaxRows
  <2>1. wrap < MaxRows /\ row \in wrap .. (MaxRows - 1) /\ Fits(n, row, wrap)
    BY <1>0, <1>2 DEF Next1
  <2>2. (n + 1) - (row + 1) = n - row
    BY <1>0
  <2>3. Fits(n + 1, row + 1, wrap)
    BY <2>1, <2>2 DEF Fits
  <2>4. row + 1 \in (wrap + 1) .. MaxRows /\ n + 1 > MaxRows
    BY <1>0, <1>2, <2>1
  <2> QED
    BY <1>0, <2>1, <2>3, <2>4 DEF Even
<1> QED
  BY <1>0, <1>1, <1>2

\* A line that comes when all rows are kept is not written.
LEMMA FullStays ==
  ASSUME Traces!TraceAssumption, NEW n \in Nat, NEW wrap \in Nat,
         NEW e \in 0 .. 1,
         NEW row, NEW lines,
         Next1(row, n, wrap), row >= MaxRows, Kept(lines, e, n, wrap)
  PROVE  Even(row, n + 1, wrap) /\ Kept(lines, e, n + 1, wrap)
<1>0. MaxRows \in Nat \ {0} /\ row \in Nat
  BY DEF Traces!TraceAssumption, Next1
<1>1. n >= MaxRows /\ wrap >= MaxRows /\ row = MaxRows
  BY <1>0 DEF Next1
<1>2. Least(n) = MaxRows /\ Least(n + 1) = MaxRows
  BY <1>0, <1>1 DEF Least
<1>3. Even(row, n + 1, wrap)
  BY <1>0, <1>1 DEF Even
<1>4. ASSUME NEW r \in 1 .. MaxRows
      PROVE  Traces!RowShows(r, n + 1, wrap) = Traces!RowShows(r, n, wrap)
  <2>1. r <= wrap
    BY <1>0, <1>1
  <2> QED
    BY <2>1 DEF Traces!RowShows
<1> QED
  BY <1>2, <1>3, <1>4 DEF Kept

-----------------------------------------------------------------------------
(* Steps of WriteToFile.                                                   *)

\* A step at one stream that lets it follow the lines leaves the invariant.
LEMMA WriterStep ==
  ASSUME Traces!TraceAssumption, NEW t, TraceThreads = {t}, TraceInv(t),
         tpc[t] \in Writing,
         NEW step \in Writing \cup {"list"}, NEW stream \in HandleRecords,
         NEW file \in [lines : Seq(Nat), pos : Nat],
         stream.ostream = handles[at_handle[t]].ostream,
         Traces!Fixed, tpc' = [tpc EXCEPT ![t] = step],
         handles' = [handles EXCEPT ![at_handle[t]] = stream],
         files' = [files EXCEPT ![Traces!File(t)] = file],
         at_handle'
             = [at_handle EXCEPT ![t] = IF step = "list" THEN @ + 1 ELSE @],
         tloaded' \in [TraceThreads -> Nat],
         step \in Before => tpc[t] \in Before,
         step = "next" => tloaded'[t] = stream.row_count_text,
         \E e \in 0 .. 1 :
           Follows(IF step = "list" THEN "rest" ELSE step, e,
                   given[Traces!File(t)], stream, file)
  PROVE  TraceInv(t)'
<1> DEFINE h == at_handle[t]
           f == Traces!File(t)
<1>1. /\ h \in Traces!Handles /\ h \in 1 .. MaxStreams /\ f = FileOf(h)
      /\ f \in Traces!AllFiles /\ t \in TraceThreads
  BY DEF TraceInv, TraceTypes, WriterFits, StreamsDiffer, Traces!File, FileOf,
         Traces!TraceAssumption, Traces!Handles
<1>2. /\ handle_number' = handle_number /\ done' = done /\ arg' = arg
      /\ given' = given /\ Traces!Handles' = Traces!Handles
  BY DEF Traces!Fixed, Traces!Handles
<1>3. /\ handles'[h] = stream /\ files'[f] = file /\ tpc'[t] = step
      /\ at_handle'[t] = IF step = "list" THEN h + 1 ELSE h
      /\ \A g \in 1 .. MaxStreams : g # h => handles'[g] = handles[g]
      /\ \A x \in Traces!AllFiles : x # f => files'[x] = files[x]
  BY <1>1 DEF TraceInv, TraceTypes
<1>4. \A g \in 1 .. MaxStreams : /\ FileOf(g)' = FileOf(g)
                                 /\ handles'[g].ostream = handles[g].ostream
  BY <1>1, <1>3 DEF FileOf
<1>5. TraceTypes'
  <2>1. at_handle' \in [TraceThreads -> Nat \ {0}]
    <3>1. at_handle[t] \in Nat \ {0} /\ at_handle[t] + 1 \in Nat \ {0}
      BY <1>1 DEF TraceInv, TraceTypes
    <3> QED
      BY <3>1 DEF TraceInv, TraceTypes
  <2>2. step \in TraceSteps
    BY DEF TraceSteps
  <2> QED
    BY <1>1, <1>2, <2>1, <2>2 DEF TraceInv, TraceTypes
<1>6. \A g \in Traces!Handles : g \in 1 .. MaxStreams
  BY DEF Traces!Handles, TraceInv, TraceTypes, Traces!TraceAssumption
<1>7. StreamsDiffer'
  <2>1. \A g \in 1 .. MaxStreams : g > handle_number => g # h
    BY <1>1 DEF Traces!Handles, TraceInv, TraceTypes
  <2> QED
    BY <1>2, <1>3, <1>4, <1>6, <2>1 DEF TraceInv, StreamsDiffer
<1>8. FilesBlank'
  <2>1. done
    BY DEF TraceInv, WriterFits, Writing, Before
  <2>2. ASSUME NEW x \in Traces!AllFiles,
               \A g \in Traces!Handles : FileOf(g) # x
        PROVE  x # f
    BY <1>1, <2>2
  <2> QED
    BY <1>2, <1>3, <1>4, <1>6, <2>1, <2>2 DEF TraceInv, FilesBlank
<1>9. WriterFits(t)'
  <2>1. done /\ arg[t].length < MaxMessage
    BY DEF TraceInv, WriterFits, Writing, Before
  <2>2. step \notin {"register", "registered"}
    BY DEF Writing, Before
  <2>3. step \in Before => arg[t].line = given[f]
    BY DEF TraceInv, WriterFits
  <2>4. step \in Writing => step # "list"
    BY DEF Writing, Before
  <2>5. step \in Before => Traces!File(t)' = f
    <3>1. ASSUME step # "list" PROVE Traces!File(t)' = f
      BY <1>1, <1>3, <1>4, <3>1 DEF Traces!File, FileOf
    <3> QED
      BY <2>4, <3>1 DEF Writing
  <2>6. step = "next" => Traces!Row(t)' = stream.row_count_text
    BY <1>3 DEF Traces!Row
  <2> QED
    BY <1>1, <1>2, <1>3, <2>1, <2>2, <2>3, <2>4, <2>5, <2>6
    DEF WriterFits, Traces!At
<1>10. StreamsFollow(t)'
  <2> SUFFICES ASSUME NEW g \in Traces!Handles
               PROVE  \E e \in 0 .. 1 :
                        Follows(StepAt(t, g)', e, given[FileOf(g)],
                                handles'[g], files'[FileOf(g)])
    BY <1>2, <1>4, <1>6 DEF StreamsFollow
  <2>1. CASE g = h
    <3>1. StepAt(t, g)' = IF step = "list" THEN "rest" ELSE step
      BY <1>1, <1>3, <2>1 DEF StepAt, Writing, Before
    <3> QED
      BY <1>1, <1>3, <2>1, <3>1
  <2>2. CASE g # h
    <3>1. FileOf(g) # f /\ FileOf(g) \in Traces!AllFiles
              /\ g \in 1 .. MaxStreams
      BY <1>1, <1>6, <2>2 DEF TraceInv, StreamsDiffer
    <3>2. handles'[g] = handles[g] /\ files'[FileOf(g)] = files[FileOf(g)]
      BY <1>3, <2>2, <3>1
    <3>3. StepAt(t, g) = "rest"
      BY <2>2 DEF StepAt
    <3>4. StepAt(t, g)' = "rest"
      BY <1>3, <2>2 DEF StepAt, Writing, Before
    <3>5. \E e \in 0 .. 1 :
            Follows(StepAt(t, g), e, given[FileOf(g)], handles[g],
                    files[FileOf(g)])
      BY DEF TraceInv, StreamsFollow
    <3> QED
      BY <3>2, <3>3, <3>4, <3>5
  <2> QED
    BY <2>1, <2>2
<1> QED
  BY <1>5, <1>7, <1>8, <1>9, <1>10 DEF TraceInv

\* What WriteToFile finds at its stream.
LEMMA AtStream ==
  ASSUME Traces!TraceAssumption, NEW t, TraceThreads = {t}, TraceInv(t),
         tpc[t] \in Writing
  PROVE  /\ at_handle[t] \in 1 .. MaxStreams
              /\ Traces!File(t) \in Traces!AllFiles
         /\ t \in TraceThreads /\ given[Traces!File(t)] \in Nat
         /\ handles[at_handle[t]] \in HandleRecords /\ Traces!Row(t) \in Nat
              /\ Traces!Wrap(t) \in Nat
         /\ handles[at_handle[t]].wrap_offset \in Nat
         /\ Traces!Row(t) = handles[at_handle[t]].row_count_text
         /\ Traces!Wrap(t) = handles[at_handle[t]].ostream.wrap_line_number
         /\ files[Traces!File(t)] \in [lines : Seq(Nat), pos : Nat]
         /\ files[Traces!File(t)].pos \in Nat
         /\ \E e \in 0 .. 1 : Follows(tpc[t], e, given[Traces!File(t)],
                                     handles[at_handle[t]],
                                       files[Traces!File(t)])
<1>1. at_handle[t] \in Traces!Handles /\ at_handle[t] \in 1 .. MaxStreams
          /\ t \in TraceThreads
  BY DEF TraceInv, TraceTypes, WriterFits, Traces!TraceAssumption,
         Traces!Handles
<1>2. Traces!File(t) \in Traces!AllFiles
          /\ Traces!File(t) = FileOf(at_handle[t])
  BY <1>1 DEF TraceInv, StreamsDiffer, Traces!File, FileOf
<1>3. handles[at_handle[t]] \in HandleRecords
  BY <1>1 DEF TraceInv, TraceTypes
<1>4. StepAt(t, at_handle[t]) = tpc[t]
  BY DEF StepAt
<1>5. \E e \in 0 .. 1 : Follows(tpc[t], e, given[Traces!File(t)],
        handles[at_handle[t]],
                               files[Traces!File(t)])
  BY <1>1, <1>2, <1>4 DEF TraceInv, StreamsFollow
<1> QED
  BY <1>1, <1>2, <1>3, <1>5
  DEF Traces!Row, Traces!Wrap, TraceInv, TraceTypes, HandleRecords, Ostreams

\* The steps before the write.
LEMMA RowsKeeps ==
  ASSUME Traces!TraceAssumption, NEW t, TraceThreads = {t}, TraceInv(t),
         Traces!Rows(t)
  PROVE  TraceInv(t)'
<1> DEFINE stream == handles[at_handle[t]]
           file == files[Traces!File(t)]
           step == IF Traces!Row(t) >= Traces!Wrap(t) THEN "mark" ELSE "put"
<1>1. tpc[t] = "rows" /\ tpc[t] \in Writing /\ tpc[t] \in Before
  BY DEF Traces!Rows, Traces!At, Writing, Before
<1>2. PICK e \in 0 .. 1 : Follows("rows", e, given[Traces!File(t)], stream,
           file)
  BY <1>1, AtStream
<1> DEFINE m == given[Traces!File(t)] - 1
<1>3. /\ m \in Nat /\ Kept(file.lines, e, m, Traces!Wrap(t))
      /\ Even(Traces!Row(t), m, Traces!Wrap(t)) /\ file.pos = e + Traces!Row(t)
      /\ Traces!Row(t) > Traces!Wrap(t)
           => stream.wrap_offset = e + Traces!Wrap(t)
      /\ Traces!Row(t) \in Nat /\ Traces!Wrap(t) \in Nat
  BY <1>1, <1>2, AtStream DEF Follows, Before
<1>4. Traces!Row(t) < Traces!Wrap(t) => Next1(Traces!Row(t), m, Traces!Wrap(t))
  BY <1>3, EvenGoesOn
<1>5. Follows(step, e, given[Traces!File(t)], stream, file)
  <2>1. CASE Traces!Row(t) >= Traces!Wrap(t)
    <3>1. Follows("mark", e, given[Traces!File(t)], stream, file)
      BY <1>1, <1>3, <2>1, AtStream DEF Follows, Before
    <3> QED
      BY <2>1, <3>1
  <2>2. CASE ~(Traces!Row(t) >= Traces!Wrap(t))
    <3>1. Next1(Traces!Row(t), m, Traces!Wrap(t))
              /\ ~(Traces!Row(t) >= Traces!Wrap(t))
      BY <1>3, <1>4, <2>2
    <3>2. Follows("put", e, given[Traces!File(t)], stream, file)
      BY <1>1, <1>3, <3>1, AtStream DEF Follows, Before
    <3> QED
      BY <2>2, <3>2
  <2> QED
    BY <2>1, <2>2
<1>6. /\ step \in Writing \cup {"list"} /\ step # "list" /\ step # "next"
      /\ stream \in HandleRecords /\ file \in [lines : Seq(Nat), pos : Nat]
  BY <1>1, AtStream DEF Writing, Before
<1>7. /\ Traces!Fixed /\ tpc' = [tpc EXCEPT ![t] = step]
      /\ handles' = [handles EXCEPT ![at_handle[t]] = stream]
      /\ files' = [files EXCEPT ![Traces!File(t)] = file]
      /\ at_handle'
           = [at_handle EXCEPT ![t] = IF step = "list" THEN @ + 1 ELSE @]
      /\ tloaded' \in [TraceThreads -> Nat]
  BY <1>1, <1>6, AtStream DEF Traces!Rows, Traces!Goto, TraceInv, TraceTypes
<1> HIDE DEF stream, file, step
<1>8. stream.ostream = handles[at_handle[t]].ostream
  BY DEF stream
<1> QED
  BY <1>1, <1>5, <1>6, <1>7, <1>8, WriterStep

LEMMA MarkKeeps ==
  ASSUME Traces!TraceAssumption, NEW t, TraceThreads = {t}, TraceInv(t),
         Traces!Mark(t)
  PROVE  TraceInv(t)'
<1> DEFINE old == handles[at_handle[t]]
           file == files[Traces!File(t)]
           stream == IF Traces!Row(t) = Traces!Wrap(t)
                     THEN [old EXCEPT !.wrap_offset
                         = Traces!ftell(Traces!File(t))]
                     ELSE old
           step == "full"
<1>1. tpc[t] = "mark" /\ tpc[t] \in Writing /\ tpc[t] \in Before
  BY DEF Traces!Mark, Traces!At, Writing, Before
<1>2. PICK e \in 0 .. 1 : Follows("mark", e, given[Traces!File(t)], old, file)
  BY <1>1, AtStream
<1> DEFINE m == given[Traces!File(t)] - 1
<1>3. /\ m \in Nat /\ Kept(file.lines, e, m, Traces!Wrap(t))
      /\ Even(Traces!Row(t), m, Traces!Wrap(t)) /\ file.pos = e + Traces!Row(t)
      /\ Traces!Row(t) > Traces!Wrap(t) => old.wrap_offset = e + Traces!Wrap(t)
      /\ Traces!Row(t) >= Traces!Wrap(t)
      /\ Traces!Row(t) \in Nat /\ Traces!Wrap(t) \in Nat
  BY <1>1, <1>2, AtStream DEF Follows, Before
<1>4. /\ stream.ostream = old.ostream
      /\ stream.row_count_text = old.row_count_text
      /\ stream \in HandleRecords
      /\ stream.wrap_offset = IF Traces!Row(t) = Traces!Wrap(t) THEN file.pos
                              ELSE old.wrap_offset
  BY <1>1, AtStream DEF HandleRecords, Traces!ftell
<1>5. stream.wrap_offset = e + Traces!Wrap(t)
  BY <1>3, <1>4
<1>6. /\ step \in Writing \cup {"list"} /\ step # "list" /\ step # "next"
      /\ file \in [lines : Seq(Nat), pos : Nat]
  BY <1>1, AtStream DEF Writing, Before
<1>7. /\ Traces!Fixed /\ tpc' = [tpc EXCEPT ![t] = step]
      /\ files' = [files EXCEPT ![Traces!File(t)] = file]
      /\ at_handle'
           = [at_handle EXCEPT ![t] = IF step = "list" THEN @ + 1 ELSE @]
      /\ tloaded' \in [TraceThreads -> Nat]
  BY <1>1, <1>6, AtStream DEF Traces!Mark, Traces!Goto, TraceInv, TraceTypes
<1>8. handles' = [handles EXCEPT ![at_handle[t]] = stream]
  <2>1. handles = [handles EXCEPT ![at_handle[t]] = handles[at_handle[t]]]
    BY <1>1, AtStream DEF TraceInv, TraceTypes
  <2>2. CASE Traces!Row(t) = Traces!Wrap(t)
    BY <2>2 DEF Traces!Mark
  <2>3. CASE Traces!Row(t) # Traces!Wrap(t)
    BY <2>1, <2>3 DEF Traces!Mark
  <2> QED
    BY <2>2, <2>3
<1> HIDE DEF stream
<1>9. Follows(step, e, given[Traces!File(t)], stream, file)
  BY <1>1, <1>3, <1>4, <1>5, AtStream DEF Follows, Before
<1> HIDE DEF file, step, old
<1>10. stream.ostream = handles[at_handle[t]].ostream
  BY <1>4 DEF old
<1> QED
  BY <1>1, <1>4, <1>6, <1>7, <1>8, <1>9, <1>10, WriterStep

LEMMA FullKeeps ==
  ASSUME Traces!TraceAssumption, NEW t, TraceThreads = {t}, TraceInv(t),
         Traces!Full(t)
  PROVE  TraceInv(t)'
<1> DEFINE old == handles[at_handle[t]]
           file == files[Traces!File(t)]
           stream == IF Traces!Row(t) >= MaxRows
                     THEN [old EXCEPT !.row_count_text = Traces!Wrap(t)]
                     ELSE old
           step == IF Traces!Row(t) >= MaxRows THEN "seek" ELSE "put"
           m == given[Traces!File(t)] - 1
<1>1. tpc[t] = "full" /\ tpc[t] \in Writing /\ tpc[t] \in Before
  BY DEF Traces!Full, Traces!At, Writing, Before
<1>2. PICK e \in 0 .. 1 : Follows("full", e, given[Traces!File(t)], old, file)
  BY <1>1, AtStream
<1>3. /\ m \in Nat /\ Kept(file.lines, e, m, Traces!Wrap(t))
      /\ Even(Traces!Row(t), m, Traces!Wrap(t)) /\ file.pos = e + Traces!Row(t)
      /\ old.wrap_offset = e + Traces!Wrap(t)
           /\ Traces!Row(t) >= Traces!Wrap(t)
      /\ Traces!Row(t) \in Nat /\ Traces!Wrap(t) \in Nat
  BY <1>1, <1>2, AtStream DEF Follows, Before
<1>4. /\ stream.ostream = old.ostream
      /\ stream.row_count_text = IF Traces!Row(t) >= MaxRows
           THEN Traces!Wrap(t) ELSE Traces!Row(t)
      /\ stream.wrap_offset = old.wrap_offset
      /\ stream \in HandleRecords
  BY <1>1, AtStream DEF HandleRecords
<1>5. Next1(stream.row_count_text, m, Traces!Wrap(t))
  <2>1. MaxRows \in Nat
    BY DEF Traces!TraceAssumption
  <2> QED
    BY <1>3, <1>4, <2>1, EvenGoesOn
<1>6. /\ step \in Writing \cup {"list"} /\ step # "list" /\ step # "next"
      /\ file \in [lines : Seq(Nat), pos : Nat]
  BY <1>1, AtStream DEF Writing, Before
<1>7. /\ Traces!Fixed /\ tpc' = [tpc EXCEPT ![t] = step]
      /\ files' = [files EXCEPT ![Traces!File(t)] = file]
      /\ at_handle'
           = [at_handle EXCEPT ![t] = IF step = "list" THEN @ + 1 ELSE @]
      /\ tloaded' \in [TraceThreads -> Nat]
  BY <1>1, <1>6, AtStream DEF Traces!Full, Traces!Goto, TraceInv, TraceTypes
<1>8. handles' = [handles EXCEPT ![at_handle[t]] = stream]
  <2>1. handles = [handles EXCEPT ![at_handle[t]] = handles[at_handle[t]]]
    BY <1>1, AtStream DEF TraceInv, TraceTypes
  <2>2. CASE Traces!Row(t) >= MaxRows
    BY <2>2 DEF Traces!Full
  <2>3. CASE ~(Traces!Row(t) >= MaxRows)
    BY <2>1, <2>3 DEF Traces!Full
  <2> QED
    BY <2>2, <2>3
<1> HIDE DEF stream
<1>9. Follows(step, e, given[Traces!File(t)], stream, file)
  <2>1. stream.ostream.wrap_line_number = Traces!Wrap(t)
    BY <1>1, <1>4, AtStream
  <2>2. CASE Traces!Row(t) >= MaxRows
    <3>1. Follows("seek", e, given[Traces!File(t)], stream, file)
      BY <1>1, <1>3, <1>4, <1>5, <2>1, <2>2 DEF Follows, Before
    <3> QED
      BY <2>2, <3>1
  <2>3. CASE ~(Traces!Row(t) >= MaxRows)
    <3>1. Follows("put", e, given[Traces!File(t)], stream, file)
      BY <1>1, <1>3, <1>4, <1>5, <2>1, <2>3 DEF Follows, Before
    <3> QED
      BY <2>3, <3>1
  <2> QED
    BY <2>2, <2>3
<1> HIDE DEF file, step, old
<1>10. stream.ostream = handles[at_handle[t]].ostream
  BY <1>4 DEF old
<1> QED
  BY <1>1, <1>4, <1>6, <1>7, <1>8, <1>9, <1>10, WriterStep

LEMMA SeekKeeps ==
  ASSUME Traces!TraceAssumption, NEW t, TraceThreads = {t}, TraceInv(t),
         Traces!Seek(t)
  PROVE  TraceInv(t)'
<1> DEFINE old == files[Traces!File(t)]
           stream == handles[at_handle[t]]
           file == [old EXCEPT !.pos = stream.wrap_offset]
           m == given[Traces!File(t)] - 1
<1>1. tpc[t] = "seek" /\ tpc[t] \in Writing /\ tpc[t] \in Before
  BY DEF Traces!Seek, Traces!At, Writing, Before
<1>2. PICK e \in 0 .. 1 : Follows("seek", e, given[Traces!File(t)], stream,
           old)
  BY <1>1, AtStream
<1>3. /\ m \in Nat /\ Kept(old.lines, e, m, Traces!Wrap(t))
      /\ Next1(Traces!Row(t), m, Traces!Wrap(t))
           /\ Traces!Row(t) = Traces!Wrap(t)
      /\ stream.wrap_offset = e + Traces!Wrap(t)
      /\ Traces!Row(t) \in Nat /\ Traces!Wrap(t) \in Nat
  BY <1>1, <1>2, AtStream DEF Follows, Before
<1>4. /\ file.lines = old.lines /\ file.pos = stream.wrap_offset
      /\ file \in [lines : Seq(Nat), pos : Nat]
  BY <1>1, AtStream
<1>5. /\ "put" \in Writing \cup {"list"}
      /\ stream \in HandleRecords
  BY <1>1, AtStream DEF Writing, Before
<1>6. /\ Traces!Fixed /\ tpc' = [tpc EXCEPT ![t] = "put"]
      /\ handles' = [handles EXCEPT ![at_handle[t]] = stream]
      /\ at_handle'
           = [at_handle EXCEPT ![t] = IF "put" = "list" THEN @ + 1 ELSE @]
      /\ tloaded' \in [TraceThreads -> Nat]
  BY <1>1, AtStream DEF Traces!Seek, Traces!Goto, TraceInv, TraceTypes
<1>7. files' = [files EXCEPT ![Traces!File(t)] = file]
  BY DEF Traces!Seek, Traces!fseek
<1> HIDE DEF file
<1>8. Follows("put", e, given[Traces!File(t)], stream, file)
  <2>1. stream.ostream.wrap_line_number = Traces!Wrap(t)
        /\ stream.row_count_text = Traces!Row(t)
    BY <1>1, AtStream
  <2> QED
    BY <1>1, <1>3, <1>4, <2>1 DEF Follows, Before
<1> HIDE DEF stream
<1>9. stream.ostream = handles[at_handle[t]].ostream
  BY DEF stream
<1> QED
  BY <1>1, <1>4, <1>5, <1>6, <1>7, <1>8, <1>9, WriterStep

\* The write, and what is not written.
LEMMA PutKeeps ==
  ASSUME Traces!TraceAssumption, NEW t, TraceThreads = {t}, TraceInv(t),
         Traces!Put(t)
  PROVE  TraceInv(t)'
<1> DEFINE old == files[Traces!File(t)]
           stream == handles[at_handle[t]]
           n == given[Traces!File(t)]
           m == n - 1
           file == IF Traces!Row(t) < MaxRows THEN Traces!Written(old, n)
               ELSE old
           step == IF Traces!Row(t) < MaxRows THEN "count" ELSE "list"
<1>0. MaxRows \in Nat
  BY DEF Traces!TraceAssumption
<1>1. tpc[t] = "put" /\ tpc[t] \in Writing /\ tpc[t] \in Before
  BY DEF Traces!Put, Traces!At, Writing, Before
<1>2. PICK e \in 0 .. 1 : Follows("put", e, n, stream, old)
  BY <1>1, AtStream
<1>3. /\ m \in Nat /\ n \in Nat /\ Kept(old.lines, e, m, Traces!Wrap(t))
      /\ Next1(Traces!Row(t), m, Traces!Wrap(t)) /\ old.pos = e + Traces!Row(t)
      /\ Traces!Row(t) >= Traces!Wrap(t)
           => stream.wrap_offset = e + Traces!Wrap(t)
      /\ Traces!Row(t) \in Nat /\ Traces!Wrap(t) \in Nat /\ m + 1 = n
  <2>1. /\ Traces!Row(t) \in Nat /\ Traces!Wrap(t) \in Nat /\ n \in Nat
        /\ stream.row_count_text = Traces!Row(t)
        /\ stream.ostream.wrap_line_number = Traces!Wrap(t)
    BY <1>1, AtStream
  <2> HIDE DEF n, old, stream
  <2> QED
    BY <1>1, <1>2, <2>1 DEF Follows, Before
<1>4. stream.ostream.wrap_line_number = Traces!Wrap(t)
      /\ stream.row_count_text = Traces!Row(t) /\ stream \in HandleRecords
  BY <1>1, AtStream
<1>5. old = [lines |-> old.lines, pos |-> e + Traces!Row(t)]
  BY <1>1, <1>3, AtStream
<1>6. CASE Traces!Row(t) < MaxRows
  <2> DEFINE new == Traces!Written(old, n)
  <2>1. Kept(new.lines, e, n, Traces!Wrap(t))
    <3> HIDE DEF m
    <3>1. Kept(Traces!Written([lines |-> old.lines, pos |-> e + Traces!Row(t)],
            m + 1).lines,
               e, m + 1, Traces!Wrap(t))
      BY <1>3, <1>6, WritesRow
    <3> QED
      BY <1>3, <1>5, <3>1
  <2>2. Even(Traces!Row(t) + 1, n, Traces!Wrap(t))
    <3> HIDE DEF m
    <3> QED
      BY <1>3, <1>6, CountIsEven
  <2>3. new.pos = (e + Traces!Row(t)) + 1
    BY <1>3 DEF Traces!Written
  <2>4. new \in [lines : Seq(Nat), pos : Nat]
    <3>1. new.lines \in Seq(Nat)
      BY <2>1 DEF Kept
    <3>2. new.pos \in Nat
      BY <1>3, <2>3
    <3>3. new = [lines |-> new.lines, pos |-> new.pos]
      BY DEF Traces!Written
    <3> HIDE DEF new
    <3> QED
      BY <3>1, <3>2, <3>3
  <2>5. files' = [files EXCEPT ![Traces!File(t)] = new]
    <3>1. arg[t].line = n
      BY <1>1 DEF TraceInv, WriterFits
    <3> QED
      BY <1>6, <3>1 DEF Traces!Put, Traces!fwrite
  <2>6. /\ Traces!Fixed /\ tpc' = [tpc EXCEPT ![t] = "count"]
        /\ handles' = [handles EXCEPT ![at_handle[t]] = stream]
        /\ at_handle'
             = [at_handle EXCEPT ![t] = IF "count" = "list" THEN @ + 1 ELSE @]
        /\ tloaded' \in [TraceThreads -> Nat]
    BY <1>1, <1>6, AtStream DEF Traces!Put, Traces!Goto, TraceInv, TraceTypes
  <2> HIDE DEF new
  <2>7. Follows("count", e, n, stream, new)
    BY <1>3, <1>4, <2>1, <2>2, <2>3 DEF Follows, Before
  <2>8. "count" \in Writing \cup {"list"} /\ "count" \notin Before
    BY DEF Writing, Before
  <2> HIDE DEF stream
  <2>9. stream.ostream = handles[at_handle[t]].ostream
    BY DEF stream
  <2> QED
    BY <1>1, <1>4, <2>4, <2>5, <2>6, <2>7, <2>8, <2>9, WriterStep
<1>7. CASE ~(Traces!Row(t) < MaxRows)
  <2>1. Even(Traces!Row(t), n, Traces!Wrap(t))
            /\ Kept(old.lines, e, n, Traces!Wrap(t))
    <3> HIDE DEF m
    <3>1. Traces!Row(t) >= MaxRows
      BY <1>0, <1>3, <1>7
    <3>2. Even(Traces!Row(t), m + 1, Traces!Wrap(t))
              /\ Kept(old.lines, e, m + 1, Traces!Wrap(t))
      BY <1>3, <3>1, FullStays
    <3> QED
      BY <1>3, <3>2
  <2>2. /\ Traces!Fixed /\ tpc' = [tpc EXCEPT ![t] = "list"]
        /\ handles' = [handles EXCEPT ![at_handle[t]] = stream]
        /\ files' = [files EXCEPT ![Traces!File(t)] = old]
        /\ at_handle'
             = [at_handle EXCEPT ![t] = IF "list" = "list" THEN @ + 1 ELSE @]
        /\ tloaded' \in [TraceThreads -> Nat]
        /\ old \in [lines : Seq(Nat), pos : Nat]
    BY <1>1, <1>7, AtStream DEF Traces!Put, Traces!Goto, TraceInv, TraceTypes
  <2>3. Follows("rest", e, n, stream, old)
    BY <1>3, <1>4, <2>1 DEF Follows, Before
  <2>4. "list" \in Writing \cup {"list"} /\ "list" \notin Before
    BY DEF Writing, Before
  <2> HIDE DEF stream
  <2>5. stream.ostream = handles[at_handle[t]].ostream
    BY DEF stream
  <2> QED
    BY <1>1, <1>4, <2>2, <2>3, <2>4, <2>5, WriterStep
<1> QED
  BY <1>6, <1>7

\* The count, loaded and stored.
LEMMA CountKeeps ==
  ASSUME Traces!TraceAssumption, NEW t, TraceThreads = {t}, TraceInv(t),
         Traces!Count(t)
  PROVE  TraceInv(t)'
<1> DEFINE file == files[Traces!File(t)]
           stream == handles[at_handle[t]]
<1>1. tpc[t] = "count" /\ tpc[t] \in Writing
  BY DEF Traces!Count, Traces!At, Writing
<1>2. PICK e \in 0 .. 1 : Follows("count", e, given[Traces!File(t)], stream,
           file)
  BY <1>1, AtStream
<1>3. Follows("next", e, given[Traces!File(t)], stream, file)
  BY <1>2 DEF Follows, Before
<1>4. /\ Traces!Fixed /\ tpc' = [tpc EXCEPT ![t] = "next"]
      /\ handles' = [handles EXCEPT ![at_handle[t]] = stream]
      /\ files' = [files EXCEPT ![Traces!File(t)] = file]
      /\ at_handle'
           = [at_handle EXCEPT ![t] = IF "next" = "list" THEN @ + 1 ELSE @]
      /\ tloaded' \in [TraceThreads -> Nat]
           /\ tloaded'[t] = stream.row_count_text
  BY <1>1, AtStream DEF Traces!Count, Traces!Goto, TraceInv, TraceTypes
<1>5. /\ "next" \in Writing \cup {"list"} /\ "next" \notin Before
      /\ stream \in HandleRecords /\ file \in [lines : Seq(Nat), pos : Nat]
  BY <1>1, AtStream DEF Writing, Before
<1> HIDE DEF stream, file
<1>6. stream.ostream = handles[at_handle[t]].ostream
  BY DEF stream
<1> QED
  BY <1>1, <1>3, <1>4, <1>5, <1>6, WriterStep

LEMMA NextHandleKeeps ==
  ASSUME Traces!TraceAssumption, NEW t, TraceThreads = {t}, TraceInv(t),
         Traces!NextHandle(t)
  PROVE  TraceInv(t)'
<1> DEFINE old == handles[at_handle[t]]
           file == files[Traces!File(t)]
           stream == [old EXCEPT !.row_count_text = Traces!Row(t) + 1]
           n == given[Traces!File(t)]
<1>1. tpc[t] = "next" /\ tpc[t] \in Writing
  BY DEF Traces!NextHandle, Traces!At, Writing
<1>2. PICK e \in 0 .. 1 : Follows("next", e, n, old, file)
  BY <1>1, AtStream
<1>3. /\ n \in Nat /\ Kept(file.lines, e, n, Traces!Wrap(t))
      /\ Even(Traces!Row(t) + 1, n, Traces!Wrap(t))
           /\ file.pos = (e + Traces!Row(t)) + 1
      /\ Traces!Row(t) >= Traces!Wrap(t)
           => old.wrap_offset = e + Traces!Wrap(t)
      /\ Traces!Row(t) \in Nat /\ Traces!Wrap(t) \in Nat
  BY <1>1, <1>2, AtStream DEF Follows, Before
<1>4. /\ stream.ostream = old.ostream
      /\ stream.row_count_text = Traces!Row(t) + 1
      /\ stream.wrap_offset = old.wrap_offset
      /\ stream \in HandleRecords
      /\ stream.ostream.wrap_line_number = Traces!Wrap(t)
  BY <1>1, <1>3, AtStream DEF HandleRecords
<1>5. handles' = [handles EXCEPT ![at_handle[t]] = stream]
  <2>1. tloaded[t] = Traces!Row(t)
    BY <1>1 DEF TraceInv, WriterFits, Traces!At
  <2> QED
    BY <2>1 DEF Traces!NextHandle
<1>6. /\ Traces!Fixed /\ tpc' = [tpc EXCEPT ![t] = "list"]
      /\ files' = [files EXCEPT ![Traces!File(t)] = file]
      /\ at_handle'
           = [at_handle EXCEPT ![t] = IF "list" = "list" THEN @ + 1 ELSE @]
      /\ tloaded' \in [TraceThreads -> Nat]
  BY <1>1, AtStream DEF Traces!NextHandle, Traces!Goto, TraceInv, TraceTypes
<1> HIDE DEF stream
<1>7. Follows("rest", e, n, stream, file)
  <2>1. file.pos = e + (Traces!Row(t) + 1)
        /\ (Traces!Row(t) + 1 > Traces!Wrap(t)
             => stream.wrap_offset = e + Traces!Wrap(t))
    BY <1>3, <1>4
  <2> QED
    BY <1>3, <1>4, <2>1 DEF Follows, Before
<1>8. /\ "list" \in Writing \cup {"list"} /\ "list" \notin Before
      /\ file \in [lines : Seq(Nat), pos : Nat]
  BY <1>1, AtStream DEF Writing, Before
<1> HIDE DEF file, old
<1>9. stream.ostream = handles[at_handle[t]].ostream
  BY <1>4 DEF old
<1> QED
  BY <1>1, <1>4, <1>5, <1>6, <1>7, <1>8, <1>9, WriterStep

-----------------------------------------------------------------------------
(* Steps outside of WriteToFile.                                           *)

\* The line fits its buffer, whatever the length of the message.
LEMMA LineFits ==
  ASSUME Traces!TraceAssumption, NEW len \in Nat
  PROVE  LET length == Traces!AddImpl(TRUE, TRUE, 20, len)
         IN length \in Int /\ length < MaxMessage
<1> DEFINE room == (MaxMessage - 74) - 2
           shorter == IF len <= room THEN len ELSE room
<1>0. MaxMessage \in Nat /\ MaxMessage > 74
  BY DEF Traces!TraceAssumption
<1>1. Traces!Max({10, 20}) = 20
  <2>1. 20 \in {10, 20} /\ \A y \in {10, 20} : 20 >= y
    OBVIOUS
  <2>2. \A x \in {10, 20} : (\A y \in {10, 20} : x >= y) => x = 20
    OBVIOUS
  <2> QED
    BY <2>1, <2>2 DEF Traces!Max
<1>2. Traces!Min({len, room}) = shorter
  <2>1. shorter \in {len, room} /\ \A y \in {len, room} : shorter <= y
    BY <1>0
  <2>2. \A x \in {len, room} :
          (\A y \in {len, room} : x <= y) => x = shorter
    BY <1>0
  <2> HIDE DEF room, shorter
  <2> QED
    BY <2>1, <2>2 DEF Traces!Min
<1>3. Traces!AddLevel(TRUE) + Traces!AddTime + Traces!AddModuleAndId(TRUE)
        + Traces!AddThreadId(20) = 74
  BY <1>1 DEF Traces!AddLevel, Traces!AddTime, Traces!AddModuleAndId,
     Traces!AddThreadId
<1>4. Traces!AddTraceMessage(len, 74) = shorter + 1
  BY <1>0, <1>2 DEF Traces!AddTraceMessage
<1>5. Traces!AddImpl(TRUE, TRUE, 20, len) = 74 + (shorter + 1)
  BY <1>3, <1>4 DEF Traces!AddImpl
<1>6. 74 + (shorter + 1) \in Int /\ 74 + (shorter + 1) < MaxMessage
  BY <1>0
<1> HIDE DEF shorter
<1> QED
  BY <1>5, <1>6

\* The argument of a thread without one.
LEMMA NoArgFits ==
  ASSUME Traces!TraceAssumption
  PROVE  Traces!NoArg \in TraceArgs /\ Traces!NoArg.length < MaxMessage
<1>1. (CHOOSE l \in Levels : TRUE) \in Levels
  BY DEF Traces!TraceAssumption
<1>2. Traces!NoStream \in Ostreams
  BY DEF Traces!NoStream, Ostreams
<1>3. MaxMessage > 74 /\ MaxMessage \in Nat
  BY DEF Traces!TraceAssumption
<1> QED
  BY <1>1, <1>2, <1>3 DEF Traces!NoArg, TraceArgs

\* A step on no stream or file leaves the streams' part of the invariant.
LEMMA StreamsLeft ==
  ASSUME NEW t, TraceInv(t),
         UNCHANGED <<handle_number, handles, files, given>>,
         done' = done,
         tpc[t] \notin Writing, tpc'[t] \notin Writing
  PROVE  StreamsDiffer' /\ FilesBlank' /\ StreamsFollow(t)'
<1>1. Traces!Handles' = Traces!Handles
          /\ \A h \in Traces!Handles : FileOf(h)' = FileOf(h)
  BY DEF Traces!Handles, FileOf
<1>2. \A h \in Traces!Handles : StepAt(t, h) = "rest" /\ StepAt(t, h)' = "rest"
  BY DEF StepAt
<1>3. StreamsDiffer'
  BY <1>1 DEF TraceInv, StreamsDiffer, FileOf
<1>4. FilesBlank'
  BY <1>1 DEF TraceInv, FilesBlank
<1>5. StreamsFollow(t)'
  BY <1>1, <1>2 DEF TraceInv, StreamsFollow
<1> QED
  BY <1>3, <1>4, <1>5

\* What the thread at rest knows of itself.
LEMMA AtRest ==
  ASSUME Traces!TraceAssumption, NEW t, TraceThreads = {t}, TraceInv(t)
  PROVE  /\ t \in TraceThreads /\ arg[t] \in TraceArgs
              /\ at_handle[t] \in Nat \ {0}
         /\ arg[t].length < MaxMessage /\ arg[t].stream \in Ostreams
         /\ \A h \in Traces!Handles : h \in 1 .. MaxStreams
         /\ \A h \in Traces!Handles : handles[h] \in HandleRecords
BY DEF TraceInv, TraceTypes, WriterFits, TraceArgs, Traces!Handles,
       Traces!TraceAssumption

LEMMA AddCheckKeeps ==
  ASSUME Traces!TraceAssumption, NEW t, TraceThreads = {t}, TraceInv(t),
         Traces!AddCheck(t)
  PROVE  TraceInv(t)'
<1>1. tpc[t] = "check" /\ tpc'[t] \in {"list", "idle"} /\ done
      /\ tpc' \in [TraceThreads -> TraceSteps]
  BY AtRest
  DEF Traces!AddCheck, Traces!At, Traces!Goto, TraceInv, TraceTypes,
      WriterFits, TraceSteps
<1>2. StreamsDiffer' /\ FilesBlank' /\ StreamsFollow(t)'
  BY <1>1, StreamsLeft DEF Traces!AddCheck, Writing, Before
<1>3. arg' \in [TraceThreads -> TraceArgs] /\ arg'[t].length < MaxMessage
  <2>1. CASE arg' = arg
    BY <2>1, AtRest DEF TraceInv, TraceTypes
  <2>2. CASE arg' = [arg EXCEPT ![t] = Traces!NoArg]
    BY <2>2, AtRest, NoArgFits DEF TraceInv, TraceTypes
  <2> QED
    BY <2>1, <2>2 DEF Traces!AddCheck
<1>4. TraceTypes'
  BY <1>1, <1>3 DEF TraceInv, TraceTypes, Traces!AddCheck
<1>5. WriterFits(t)'
  BY <1>1, <1>3 DEF WriterFits, Traces!AddCheck, Traces!At, Writing, Before
<1> QED
  BY <1>2, <1>4, <1>5 DEF TraceInv

\* The thread has a line for a stream, or goes on to the next one.
LEMMA ToListKeeps ==
  ASSUME Traces!TraceAssumption, NEW t, TraceThreads = {t}, TraceInv(t),
         Traces!ToList(t)
  PROVE  TraceInv(t)'
<1> DEFINE h == at_handle[t]
           f == handles[h].ostream.file
<1>1. tpc[t] = "list" /\ tpc[t] \notin Writing /\ done /\ t \in TraceThreads
      /\ h \in Nat \ {0}
  BY AtRest DEF Traces!ToList, Traces!At, TraceInv, WriterFits, Writing, Before
<1>2. UNCHANGED <<handle_number, handles, done, files, tloaded>>
  BY DEF Traces!ToList
<1>3. CASE h > handle_number
  <2>1. /\ tpc' = [tpc EXCEPT ![t] = "idle"]
             /\ at_handle' = [at_handle EXCEPT ![t] = 1]
        /\ arg' = [arg EXCEPT ![t] = Traces!NoArg] /\ given' = given
    BY <1>3 DEF Traces!ToList, Traces!Goto
  <2>2. tpc'[t] = "idle" /\ tpc' \in [TraceThreads -> TraceSteps]
    BY <1>1, <2>1 DEF TraceInv, TraceTypes, TraceSteps
  <2>3. StreamsDiffer' /\ FilesBlank' /\ StreamsFollow(t)'
    BY <1>1, <1>2, <2>1, <2>2, StreamsLeft DEF Writing, Before
  <2>4. TraceTypes'
    BY <1>2, <2>1, <2>2, NoArgFits DEF TraceInv, TraceTypes
  <2>5. WriterFits(t)'
    BY <1>1, <1>2, <2>1, <2>2, NoArgFits, AtRest
    DEF WriterFits, Traces!At, Writing, Before, TraceInv, TraceTypes
  <2> QED
    BY <2>3, <2>4, <2>5 DEF TraceInv
<1>4. CASE /\ ~(h > handle_number)
           /\ ~Traces!CheckLevel(handles[h], arg[t].level) \/ f = NoFile
  <2>1. /\ at_handle' = [at_handle EXCEPT ![t] = h + 1]
        /\ tpc' = tpc /\ arg' = arg /\ given' = given
    BY <1>4 DEF Traces!ToList
  <2>2. StreamsDiffer' /\ FilesBlank' /\ StreamsFollow(t)'
    BY <1>1, <1>2, <2>1, StreamsLeft
  <2>3. h + 1 \in Nat \ {0}
    BY <1>1
  <2>4. TraceTypes'
    BY <1>2, <2>1, <2>3 DEF TraceInv, TraceTypes
  <2>5. WriterFits(t)'
    BY <1>1, <1>2, <2>1, AtRest DEF WriterFits, Traces!At, Writing, Before
  <2> QED
    BY <2>2, <2>4, <2>5 DEF TraceInv
<1>5. CASE /\ ~(h > handle_number)
           /\ ~(~Traces!CheckLevel(handles[h], arg[t].level) \/ f = NoFile)
  <2>1. /\ tpc' = [tpc EXCEPT ![t] = "rows"] /\ at_handle' = at_handle
        /\ given' = [given EXCEPT ![f] = given[f] + 1]
        /\ arg' = [arg EXCEPT ![t].line = given[f] + 1]
    BY <1>5 DEF Traces!ToList, Traces!Goto
  <2>2. h \in Traces!Handles /\ f = FileOf(h) /\ f \in Traces!AllFiles
        /\ h \in 1 .. MaxStreams
    <3>1. h \in Traces!Handles
      BY <1>1, <1>5 DEF Traces!Handles, TraceInv, TraceTypes,
         Traces!TraceAssumption
    <3> QED
      BY <3>1, AtRest DEF FileOf, TraceInv, StreamsDiffer
  <2>3. /\ given[f] \in Nat /\ given' \in [Traces!AllFiles -> Nat]
        /\ given'[f] = given[f] + 1
        /\ \A x \in Traces!AllFiles : x # f => given'[x] = given[x]
    BY <2>1, <2>2 DEF TraceInv, TraceTypes
  <2>4. /\ tpc'[t] = "rows" /\ tpc' \in [TraceThreads -> TraceSteps]
        /\ at_handle'[t] = h
    BY <1>1, <2>1 DEF TraceInv, TraceTypes, TraceSteps, Writing, Before
  <2>5. /\ arg' \in [TraceThreads -> TraceArgs] /\ arg'[t].line = given[f] + 1
        /\ arg'[t].length = arg[t].length
    <3> DEFINE new == [arg[t] EXCEPT !.line = given[f] + 1]
    <3>1. /\ new \in TraceArgs /\ new.line = given[f] + 1
          /\ new.length = arg[t].length
      BY <2>3, AtRest DEF TraceArgs
    <3>2. arg' = [arg EXCEPT ![t] = new]
      BY <2>1
    <3> HIDE DEF new
    <3>3. arg'[t] = new /\ arg' \in [TraceThreads -> TraceArgs]
      BY <1>1, <3>1, <3>2 DEF TraceInv, TraceTypes
    <3> QED
      BY <3>1, <3>3
  <2>6. Traces!Handles' = Traces!Handles
            /\ \A g \in Traces!Handles : FileOf(g)' = FileOf(g)
    BY <1>2 DEF Traces!Handles, FileOf
  <2>7. TraceTypes'
    BY <1>2, <2>1, <2>3, <2>4, <2>5 DEF TraceInv, TraceTypes
  <2>8. StreamsDiffer'
    BY <1>2, <2>6 DEF TraceInv, StreamsDiffer
  <2>9. FilesBlank'
    BY <1>1, <1>2, <2>2, <2>3, <2>6 DEF TraceInv, FilesBlank
  <2>10. WriterFits(t)'
    <3>1. Traces!File(t)' = f
      BY <1>2, <2>1 DEF Traces!File
    <3> QED
      BY <1>1, <1>2, <2>1, <2>2, <2>3, <2>4, <2>5, <2>6, <3>1, AtRest
      DEF WriterFits, Traces!At, Writing, Before
  <2>11. StreamsFollow(t)'
    <3> SUFFICES ASSUME NEW g \in Traces!Handles
                 PROVE  \E e \in 0 .. 1 :
                          Follows(StepAt(t, g)', e, given'[FileOf(g)],
                                  handles[g], files[FileOf(g)])
      BY <1>2, <2>6 DEF StreamsFollow
    <3>1. StepAt(t, g) = "rest"
      BY <1>1 DEF StepAt
    <3>2. PICK e \in 0 .. 1 : Follows("rest", e, given[FileOf(g)],
                                      handles[g], files[FileOf(g)])
      BY <3>1 DEF TraceInv, StreamsFollow
    <3>3. CASE g = h
      <4>1. StepAt(t, g)' = "rows"
        BY <2>4, <3>3 DEF StepAt, Writing, Before
      <4>2. Follows("rows", e, given[f] + 1, handles[g], files[FileOf(g)])
        <5>1. (given[f] + 1) - 1 = given[f]
          BY <2>3
        <5> QED
          BY <2>2, <3>2, <3>3, <5>1 DEF Follows, Before
      <4> QED
        BY <2>2, <2>3, <3>3, <4>1, <4>2
    <3>4. CASE g # h
      <4>1. StepAt(t, g)' = "rest"
        BY <2>4, <3>4 DEF StepAt
      <4>2. FileOf(g) # f /\ FileOf(g) \in Traces!AllFiles
        BY <2>2, <3>4 DEF TraceInv, StreamsDiffer
      <4> QED
        BY <2>3, <3>2, <4>1, <4>2
    <3> QED
      BY <3>3, <3>4
  <2> QED
    BY <2>7, <2>8, <2>9, <2>10, <2>11 DEF TraceInv
<1> QED
  BY <1>3, <1>4, <1>5

\* A stream waits for its slot.
LEMMA SetOStreamKeeps ==
  ASSUME Traces!TraceAssumption, NEW t, TraceThreads = {t}, TraceInv(t),
         NEW f \in Files, NEW filter \in SUBSET Levels, NEW wrap \in WrapLines,
         Traces!SetOStream(t, f, filter, wrap)
  PROVE  TraceInv(t)'
<1> DEFINE stream ==
             [file |-> f, filter |-> filter, wrap_line_number |-> wrap]
           new == [arg[t] EXCEPT !.stream = stream]
<1>1. tpc[t] = "idle" /\ tpc' = [tpc EXCEPT ![t] = "register"]
      /\ tpc[t] \notin Writing
  BY DEF Traces!SetOStream, Traces!Enter, Traces!At, Traces!Goto, Writing,
         Before
<1>2. tpc'[t] = "register" /\ tpc' \in [TraceThreads -> TraceSteps]
  BY <1>1, AtRest DEF TraceInv, TraceTypes, TraceSteps
<1>3. StreamsDiffer' /\ FilesBlank' /\ StreamsFollow(t)'
  BY <1>1, <1>2, StreamsLeft DEF Traces!SetOStream, Writing, Before
<1>4. stream \in Ostreams
  BY DEF Ostreams, Traces!TraceAssumption, Traces!AllFiles
<1>5. new \in TraceArgs /\ new.stream = stream /\ new.length = arg[t].length
  <2> HIDE DEF stream
  <2> QED
    BY <1>4, AtRest DEF TraceArgs
<1>6. arg' = [arg EXCEPT ![t] = new]
  BY DEF Traces!SetOStream
<1>7. stream.file = f
  OBVIOUS
<1>8. /\ \A h \in Traces!Handles : FileOf(h) # f
      /\ handle_number < MaxStreams /\ UNCHANGED handle_number
  BY DEF Traces!SetOStream, FileOf
<1> HIDE DEF new, stream
<1>9. arg' \in [TraceThreads -> TraceArgs] /\ arg'[t] = new
  BY <1>5, <1>6, AtRest DEF TraceInv, TraceTypes
<1>10. TraceTypes'
  BY <1>2, <1>9 DEF TraceInv, TraceTypes, Traces!SetOStream
<1>11. Traces!Handles' = Traces!Handles
           /\ \A h \in Traces!Handles : FileOf(h)' = FileOf(h)
  BY DEF Traces!SetOStream, Traces!Handles, FileOf
<1>12. WriterFits(t)'
  BY <1>2, <1>5, <1>7, <1>8, <1>9, <1>11, AtRest
  DEF WriterFits, Traces!At, Writing, Before
<1> QED
  BY <1>3, <1>10, <1>12 DEF TraceInv

\* Its slot has no lines yet.
LEMMA SetOStreamCopyKeeps ==
  ASSUME Traces!TraceAssumption, NEW t, TraceThreads = {t}, TraceInv(t),
         Traces!SetOStreamCopy(t)
  PROVE  TraceInv(t)'
<1> DEFINE slot == handle_number + 1
           stream == [handles[slot] EXCEPT !.ostream = arg[t].stream]
<1>1. /\ tpc[t] = "register" /\ tpc' = [tpc EXCEPT ![t] = "registered"]
      /\ handle_number < MaxStreams
  BY DEF Traces!SetOStreamCopy, Traces!At, Traces!Goto, TraceInv, WriterFits
<1>2. /\ tpc'[t] = "registered" /\ tpc' \in [TraceThreads -> TraceSteps]
      /\ tpc[t] \notin Writing /\ tpc'[t] \notin Writing
      /\ handle_number \in Nat /\ MaxStreams \in Nat
  BY <1>1, AtRest
  DEF TraceInv, TraceTypes, TraceSteps, Writing, Before, Traces!TraceAssumption
<1>3. slot \in 1 .. MaxStreams /\ slot \notin Traces!Handles
  BY <1>1, <1>2 DEF Traces!Handles
<1>4. /\ stream \in HandleRecords /\ stream.ostream = arg[t].stream
      /\ stream.row_count_text = handles[slot].row_count_text
  <2>1. handles[slot] \in HandleRecords
    BY <1>3 DEF TraceInv, TraceTypes
  <2> QED
    BY <2>1, AtRest DEF HandleRecords
<1>5. handles' = [handles EXCEPT ![slot] = stream]
  <2>1. DOMAIN handles = 1 .. MaxStreams /\ slot \in DOMAIN handles
    BY <1>3 DEF TraceInv, TraceTypes
  <2>2. DOMAIN handles \cup {slot} = DOMAIN handles
    BY <2>1
  <2>3. Traces!HandleAt(slot) = handles[slot]
    BY <2>1 DEF Traces!HandleAt
  <2>4. handles' = [h \in DOMAIN handles |->
                      IF h = slot THEN stream ELSE handles[h]]
    BY <2>2, <2>3 DEF Traces!SetOStreamCopy
  <2> HIDE DEF stream, slot
  <2> QED
    BY <2>1, <2>4
<1> HIDE DEF stream
<1>6. /\ handles' \in [1 .. MaxStreams -> HandleRecords]
      /\ handles'[slot] = stream
      /\ \A h \in 1 .. MaxStreams : h # slot => handles'[h] = handles[h]
  BY <1>3, <1>4, <1>5 DEF TraceInv, TraceTypes
<1>7. UNCHANGED <<handle_number, done, files, at_handle, arg, given>>
  BY DEF Traces!SetOStreamCopy
<1>8. /\ Traces!Handles' = Traces!Handles
      /\ \A h \in Traces!Handles : /\ h # slot /\ handles'[h] = handles[h]
                                   /\ FileOf(h)' = FileOf(h)
  BY <1>3, <1>6, <1>7, AtRest DEF Traces!Handles, FileOf
<1>9. /\ tloaded' = [tloaded EXCEPT ![t] = handle_number]
      /\ tloaded'[t] = handle_number /\ tloaded' \in [TraceThreads -> Nat]
  BY <1>2, AtRest DEF Traces!SetOStreamCopy, TraceInv, TraceTypes
<1>10. TraceTypes'
  BY <1>2, <1>6, <1>7, <1>9 DEF TraceInv, TraceTypes
<1>11. StreamsDiffer'
  <2>1. \A h \in 1 .. MaxStreams :
          h > handle_number => handles'[h].row_count_text = 0
    BY <1>4, <1>6 DEF TraceInv, StreamsDiffer
  <2> QED
    BY <1>7, <1>8, <2>1 DEF TraceInv, StreamsDiffer
<1>12. FilesBlank'
  BY <1>7, <1>8 DEF TraceInv, FilesBlank
<1>13. WriterFits(t)'
  <2>1. /\ arg[t].stream.file \in Files
        /\ \A h \in Traces!Handles : FileOf(h) # arg[t].stream.file
    BY <1>1 DEF TraceInv, WriterFits
  <2> QED
    BY <1>1, <1>2, <1>4, <1>6, <1>7, <1>8, <1>9, <2>1, AtRest
    DEF WriterFits, Traces!At, Writing, Before
<1>14. StreamsFollow(t)'
  <2>1. \A h \in Traces!Handles : StepAt(t, h) = "rest"
            /\ StepAt(t, h)' = "rest"
    BY <1>2 DEF StepAt
  <2> QED
    BY <1>7, <1>8, <2>1 DEF TraceInv, StreamsFollow
<1> QED
  BY <1>10, <1>11, <1>12, <1>13, <1>14 DEF TraceInv

\* A stream without lines is at its first one.
LEMMA NewFollows ==
  ASSUME Traces!TraceAssumption, NEW stream \in HandleRecords, NEW file,
         NEW e \in 0 .. 1,
         stream.row_count_text = 0, file.pos = e,
         file.lines = IF e = 1 THEN <<Traces!Header>> ELSE <<>>
  PROVE  Follows("rest", e, 0, stream, file)
<1> DEFINE wrap == stream.ostream.wrap_line_number
<1>1. MaxRows \in Nat \ {0} /\ wrap \in Nat
  BY DEF Traces!TraceAssumption, HandleRecords, Ostreams
<1>2. Least(0) = 0
  BY <1>1 DEF Least
<1>3. Even(0, 0, wrap) /\ ~(0 > wrap) /\ e + 0 = e
  BY <1>1 DEF Even
<1>4. file.lines \in Seq(Nat) /\ Len(file.lines) = e + Least(0)
      /\ (e = 1 => file.lines[1] = Traces!Header)
  <2>1. CASE e = 1
    BY <1>2, <2>1 DEF Traces!Header
  <2>2. CASE e = 0
    BY <1>2, <2>2
  <2> QED
    BY <2>1, <2>2
<1>5. Kept(file.lines, e, 0, wrap)
  <2>1. 1 .. Least(0) = {}
    BY <1>2
  <2> QED
    BY <1>4, <2>1 DEF Kept
<1> HIDE DEF wrap
<1>6. Follows("rest", e, 0, stream, file)
  <2>1. wrap = stream.ostream.wrap_line_number
    BY DEF wrap
  <2> QED
    BY <1>3, <1>5, <2>1 DEF Follows, Before
<1> QED
  BY <1>6

\* The slot becomes a stream; no line of it was written.
LEMMA SetOStreamEndKeeps ==
  ASSUME Traces!TraceAssumption, NEW t, TraceThreads = {t}, TraceInv(t),
         Traces!SetOStreamEnd(t)
  PROVE  TraceInv(t)'
<1> DEFINE slot == handle_number + 1
           f == arg[t].stream.file
<1>1. /\ tpc[t] = "registered" /\ tpc' = [tpc EXCEPT ![t] = "idle"]
      /\ handle_number' = tloaded[t] + 1 /\ tloaded[t] = handle_number
      /\ handle_number < MaxStreams /\ handles[slot].ostream = arg[t].stream
      /\ f \in Files /\ \A h \in Traces!Handles : FileOf(h) # f
  BY DEF Traces!SetOStreamEnd, Traces!At, Traces!Goto, TraceInv, WriterFits
<1>2. /\ tpc'[t] = "idle" /\ tpc' \in [TraceThreads -> TraceSteps]
      /\ tpc[t] \notin Writing /\ tpc'[t] \notin Writing
      /\ handle_number \in Nat /\ MaxStreams \in Nat
  BY <1>1, AtRest
  DEF TraceInv, TraceTypes, TraceSteps, Writing, Before, Traces!TraceAssumption
<1>3. /\ handle_number' = slot /\ slot \in 1 .. MaxStreams
      /\ Traces!Handles' = Traces!Handles \cup {slot}
           /\ slot \notin Traces!Handles
  BY <1>1, <1>2 DEF Traces!Handles
<1>4. /\ UNCHANGED <<handles, done, files, at_handle, given>>
      /\ arg' = [arg EXCEPT ![t] = Traces!NoArg]
      /\ tloaded' = [tloaded EXCEPT ![t] = 0]
  BY DEF Traces!SetOStreamEnd
<1>5. \A h : FileOf(h)' = FileOf(h)
  BY <1>4 DEF FileOf
<1>6. FileOf(slot) = f /\ f \in Traces!AllFiles
  BY <1>1 DEF FileOf, Traces!AllFiles
<1>7. TraceTypes'
  BY <1>2, <1>3, <1>4, NoArgFits DEF TraceInv, TraceTypes
<1>8. StreamsDiffer'
  <2>1. \A h \in 1 .. MaxStreams : h > slot => handles[h].row_count_text = 0
    BY <1>2 DEF TraceInv, StreamsDiffer
  <2>2. \A h \in Traces!Handles \cup {slot} : FileOf(h) \in Traces!AllFiles
    BY <1>6 DEF TraceInv, StreamsDiffer
  <2>3. \A h, g \in Traces!Handles \cup {slot} : h # g => FileOf(h) # FileOf(g)
    BY <1>1, <1>6 DEF TraceInv, StreamsDiffer
  <2> QED
    BY <1>3, <1>4, <1>5, <2>1, <2>2, <2>3 DEF StreamsDiffer
<1>9. FilesBlank'
  BY <1>3, <1>4, <1>5 DEF TraceInv, FilesBlank
<1>10. WriterFits(t)'
  BY <1>2, <1>4, NoArgFits, AtRest
  DEF WriterFits, Traces!At, Writing, Before, TraceInv, TraceTypes
<1>11. StreamsFollow(t)'
  <2> SUFFICES ASSUME NEW g \in Traces!Handles \cup {slot}
               PROVE  \E e \in 0 .. 1 :
                        Follows("rest", e, given[FileOf(g)], handles[g],
                                files[FileOf(g)])
    <3>1. \A h : StepAt(t, h)' = "rest"
      BY <1>2 DEF StepAt
    <3> QED
      BY <1>3, <1>4, <1>5, <3>1 DEF StreamsFollow
  <2>1. CASE g \in Traces!Handles
    <3>1. StepAt(t, g) = "rest"
      BY <1>2 DEF StepAt
    <3> QED
      BY <2>1, <3>1 DEF TraceInv, StreamsFollow
  <2>2. CASE g = slot
    <3>1. files[f].lines = <<>> /\ files[f].pos = 0 /\ given[f] = 0
      BY <1>1, <1>6 DEF TraceInv, FilesBlank
    <3>2. handles[slot] \in HandleRecords /\ handles[slot].row_count_text = 0
      <4>1. slot > handle_number
        BY <1>2
      <4> QED
        BY <1>3, <4>1 DEF TraceInv, TraceTypes, StreamsDiffer
    <3>3. Follows("rest", 0, 0, handles[slot], files[f])
      BY <3>1, <3>2, NewFollows
    <3> QED
      BY <1>6, <2>2, <3>1, <3>3
  <2> QED
    BY <2>1, <2>2
<1> QED
  BY <1>7, <1>8, <1>9, <1>10, <1>11 DEF TraceInv

\* A stream's lines and counters do not depend on its filter.
LEMMA SetLevelFilterKeeps ==
  ASSUME Traces!TraceAssumption, NEW t, TraceThreads = {t}, TraceInv(t),
         NEW f \in Files \cup {NoFile}, NEW filter \in SUBSET Levels,
         Traces!set_level_filter(t, f, filter)
  PROVE  TraceInv(t)'
<1> DEFINE set(h) == h <= handle_number /\ f \in {NoFile, FileOf(h)}
           new(h) == IF set(h)
                     THEN [handles[h] EXCEPT !.ostream.filter = filter]
                     ELSE handles[h]
<1>1. /\ tpc[t] = "idle" /\ tpc' = [tpc EXCEPT ![t] = "idle"]
      /\ tpc' = tpc
      /\ tpc[t] \notin Writing /\ tpc'[t] \notin Writing
  BY AtRest DEF Traces!set_level_filter, Traces!Enter, Traces!At, Traces!Goto,
     TraceInv, TraceTypes,
                Writing, Before
<1>2. UNCHANGED <<handle_number, done, files, at_handle, arg, tloaded, given>>
  BY DEF Traces!set_level_filter
<1>3. handles' = [h \in 1 .. MaxStreams |-> new(h)]
  BY DEF Traces!set_level_filter, FileOf, TraceInv, TraceTypes
<1>4. ASSUME NEW h \in 1 .. MaxStreams
      PROVE  /\ new(h) \in HandleRecords
             /\ new(h).row_count_text = handles[h].row_count_text
             /\ new(h).wrap_offset = handles[h].wrap_offset
             /\ new(h).ostream.file = FileOf(h)
             /\ new(h).ostream.wrap_line_number
                  = handles[h].ostream.wrap_line_number
  <2>1. handles[h] \in HandleRecords
    BY DEF TraceInv, TraceTypes
  <2>2. CASE set(h)
    BY <2>1, <2>2 DEF HandleRecords, Ostreams, FileOf
  <2>3. CASE ~set(h)
    BY <2>1, <2>3 DEF FileOf
  <2> QED
    BY <2>2, <2>3
<1> HIDE DEF new
<1>5. /\ handles' \in [1 .. MaxStreams -> HandleRecords]
      /\ \A h \in 1 .. MaxStreams :
           /\ handles'[h] = new(h)
           /\ FileOf(h)' = FileOf(h)
           /\ handles'[h].row_count_text = handles[h].row_count_text
           /\ handles'[h].wrap_offset = handles[h].wrap_offset
           /\ handles'[h].ostream.wrap_line_number
                = handles[h].ostream.wrap_line_number
  BY <1>3, <1>4 DEF FileOf
<1>6. Traces!Handles' = Traces!Handles
          /\ \A h \in Traces!Handles : h \in 1 .. MaxStreams
  BY <1>2, AtRest DEF Traces!Handles
<1>7. TraceTypes'
  BY <1>1, <1>2, <1>5 DEF TraceInv, TraceTypes
<1>8. StreamsDiffer'
  BY <1>2, <1>5, <1>6 DEF TraceInv, StreamsDiffer
<1>9. FilesBlank'
  BY <1>2, <1>5, <1>6 DEF TraceInv, FilesBlank
<1>10. WriterFits(t)'
  BY <1>1, <1>2, AtRest DEF TraceInv, WriterFits, Traces!At, Writing, Before
<1>11. StreamsFollow(t)'
  <2> SUFFICES ASSUME NEW g \in Traces!Handles
               PROVE  \E e \in 0 .. 1 :
                        Follows(StepAt(t, g)', e, given[FileOf(g)],
                                handles'[g], files[FileOf(g)])
    BY <1>2, <1>5, <1>6 DEF StreamsFollow
  <2>1. StepAt(t, g) = "rest" /\ StepAt(t, g)' = "rest"
    BY <1>1 DEF StepAt
  <2>2. PICK e \in 0 .. 1 : Follows("rest", e, given[FileOf(g)],
                                    handles[g], files[FileOf(g)])
    BY <2>1 DEF TraceInv, StreamsFollow
  <2>3. Follows("rest", e, given[FileOf(g)], handles'[g], files[FileOf(g)])
    BY <1>5, <1>6, <2>2 DEF Follows, Before
  <2> QED
    BY <2>1, <2>3
<1> QED
  BY <1>7, <1>8, <1>9, <1>10, <1>11 DEF TraceInv

\* TraceInit heads the streams there are, or stdout as the only one.
LEMMA TraceInitKeeps ==
  ASSUME Traces!TraceAssumption, NEW t, TraceThreads = {t}, TraceInv(t),
         tpc[t] \notin Writing, tpc'[t] \notin Writing,
         ~done, Traces!TraceInit, given' = given
  PROVE  /\ done' = TRUE /\ handle_number' \in 0 .. MaxStreams
         /\ handles' \in [1 .. MaxStreams -> HandleRecords]
         /\ files' \in [Traces!AllFiles -> [lines : Seq(Nat), pos : Nat]]
         /\ StreamsDiffer' /\ FilesBlank' /\ StreamsFollow(t)'
<1> DEFINE none == handle_number = 0
           default == [file |-> stdout, filter |-> Traces!kTraceDefault,
                       wrap_line_number |-> 0]
           headed == IF none THEN {stdout}
               ELSE {FileOf(h) : h \in Traces!Handles}
           head == [lines |-> <<Traces!Header>>, pos |-> 1]
           blank == [lines |-> <<>>, pos |-> 0]
<1>1. /\ done' = TRUE
      /\ handle_number' = IF none THEN 1 ELSE handle_number
      /\ handles' = IF none THEN [handles EXCEPT ![1].ostream = default]
                    ELSE handles
      /\ files' = [f \in Traces!AllFiles |-> IF f \in headed
                                     THEN Traces!Written(files[f],
                                       Traces!Header)
                                     ELSE files[f]]
  BY DEF Traces!TraceInit, FileOf
<1>2. \A f \in Traces!AllFiles : files[f] = blank /\ given[f] = 0
  BY DEF TraceInv, TraceTypes, FilesBlank
<1>3. Traces!Written(blank, Traces!Header) = head
  BY DEF Traces!Written
<1>4. files' = [f \in Traces!AllFiles |-> IF f \in headed THEN head ELSE blank]
  <2> HIDE DEF headed, head, blank
  <2> QED
    BY <1>1, <1>2, <1>3
<1>5. /\ head \in [lines : Seq(Nat), pos : Nat] /\ head.pos = 1
      /\ blank \in [lines : Seq(Nat), pos : Nat]
           /\ head.lines = <<Traces!Header>>
      /\ blank.lines = <<>> /\ blank.pos = 0
  BY DEF Traces!Header
<1>6. MaxStreams \in Nat \ {0} /\ handle_number \in 0 .. MaxStreams
  BY DEF Traces!TraceAssumption, TraceInv, TraceTypes
<1>7. /\ handle_number' \in 0 .. MaxStreams
      /\ Traces!Handles' = IF none THEN {1} ELSE Traces!Handles
      /\ \A h \in Traces!Handles' : h \in 1 .. MaxStreams
  <2>1. CASE none
    <3>1. handle_number' = 1 /\ 1 .. 1 = {1} /\ 1 \in 0 .. MaxStreams
          /\ 1 \in 1 .. MaxStreams
      BY <1>1, <1>6, <2>1
    <3> QED
      BY <2>1, <3>1 DEF Traces!Handles
  <2>2. CASE ~none
    BY <1>1, <1>6, <2>2 DEF Traces!Handles
  <2> QED
    BY <2>1, <2>2
<1>8. default \in Ostreams /\ default.file = stdout
          /\ stdout \in Traces!AllFiles
  BY DEF Traces!kTraceDefault, Ostreams, Traces!AllFiles
<1>9. /\ handles' \in [1 .. MaxStreams -> HandleRecords]
      /\ \A h \in 1 .. MaxStreams :
           handles'[h].row_count_text = handles[h].row_count_text
      /\ none => FileOf(1)' = stdout
      /\ ~none => \A h \in Traces!Handles : FileOf(h)' = FileOf(h)
  <2> HIDE DEF default
  <2>1. CASE none
    <3> DEFINE new == [handles[1] EXCEPT !.ostream = default]
    <3>1. 1 \in 1 .. MaxStreams /\ handles[1] \in HandleRecords
      BY <1>6 DEF TraceInv, TraceTypes
    <3>2. /\ new \in HandleRecords /\ new.ostream = default
          /\ new.row_count_text = handles[1].row_count_text
      BY <1>8, <3>1 DEF HandleRecords
    <3>3. handles' = [handles EXCEPT ![1] = new]
      BY <1>1, <2>1
    <3> HIDE DEF new
    <3> QED
      BY <1>8, <2>1, <3>1, <3>2, <3>3 DEF TraceInv, TraceTypes, FileOf
  <2>2. CASE ~none
    BY <1>1, <2>2 DEF TraceInv, TraceTypes, FileOf
  <2> QED
    BY <2>1, <2>2
<1>10. \A h \in Traces!Handles' : FileOf(h)' \in headed
           /\ FileOf(h)' \in Traces!AllFiles
  BY <1>7, <1>8, <1>9 DEF TraceInv, StreamsDiffer
<1>11. \A f \in Traces!AllFiles :
         (\A h \in Traces!Handles' : FileOf(h)' # f) => f \notin headed
  BY <1>7, <1>9
<1>12. \A h \in Traces!Handles' : handles'[h].row_count_text = 0
  <2> SUFFICES ASSUME NEW h \in Traces!Handles'
               PROVE  handles[h].row_count_text = 0
    BY <1>7, <1>9
  <2>1. CASE none
    <3>1. h = 1 /\ 1 > handle_number /\ 1 \in 1 .. MaxStreams
      BY <1>6, <1>7, <2>1
    <3> QED
      BY <3>1 DEF TraceInv, StreamsDiffer
  <2>2. CASE ~none
    <3>1. h \in Traces!Handles /\ FileOf(h) \in Traces!AllFiles
              /\ given[FileOf(h)] = 0
      BY <1>2, <1>7, <2>2 DEF TraceInv, StreamsDiffer
    <3>2. StepAt(t, h) = "rest"
      BY DEF StepAt
    <3>3. PICK e \in 0 .. 1 : Follows("rest", e, 0, handles[h],
                                      files[FileOf(h)])
      BY <3>1, <3>2 DEF TraceInv, StreamsFollow
    <3>4. Even(handles[h].row_count_text, 0,
               handles[h].ostream.wrap_line_number)
      BY <3>3 DEF Follows, Before
    <3>5. 0 <= MaxRows
      BY DEF Traces!TraceAssumption
    <3> QED
      BY <3>4, <3>5 DEF Even
  <2> QED
    BY <2>1, <2>2
<1> HIDE DEF head, blank, headed, default
<1>13. StreamsDiffer'
  <2>1. \A h \in 1 .. MaxStreams :
          h > handle_number' => handles'[h].row_count_text = 0
    <3>1. \A h \in 1 .. MaxStreams : h > handle_number' => h > handle_number
      BY <1>1, <1>6
    <3> QED
      BY <1>9, <3>1 DEF TraceInv, StreamsDiffer
  <2>2. \A h, g \in Traces!Handles' : h # g => FileOf(h)' # FileOf(g)'
    BY <1>7, <1>9 DEF TraceInv, StreamsDiffer
  <2> QED
    BY <1>10, <2>1, <2>2 DEF StreamsDiffer
<1>14. FilesBlank'
  <2>1. \A f \in Traces!AllFiles : f \notin headed => files'[f] = blank
    BY <1>4
  <2> QED
    BY <1>1, <1>2, <1>5, <1>11, <2>1 DEF FilesBlank
<1>15. StreamsFollow(t)'
  <2> SUFFICES ASSUME NEW h \in Traces!Handles'
               PROVE  \E e \in 0 .. 1 :
                        Follows("rest", e, given[FileOf(h)'], handles'[h],
                                files'[FileOf(h)'])
    <3>1. \A h : StepAt(t, h)' = "rest"
      BY DEF StepAt
    <3> QED
      BY <3>1 DEF StreamsFollow
  <2>1. files'[FileOf(h)'] = head /\ given[FileOf(h)'] = 0
    BY <1>2, <1>4, <1>10
  <2>2. handles'[h] \in HandleRecords /\ handles'[h].row_count_text = 0
    BY <1>7, <1>9, <1>12
  <2>3. Follows("rest", 1, 0, handles'[h], head)
    BY <1>5, <2>2, NewFollows
  <2> QED
    BY <2>1, <2>3
<1>16. files' \in [Traces!AllFiles -> [lines : Seq(Nat), pos : Nat]]
  BY <1>4, <1>5
<1> QED
  BY <1>1, <1>7, <1>9, <1>13, <1>14, <1>15, <1>16

LEMMA AddBeginKeeps ==
  ASSUME Traces!TraceAssumption, NEW t, TraceThreads = {t}, TraceInv(t),
         NEW level \in Levels, NEW len \in MsgLengths,
           Traces!AddBegin(t, level, len)
  PROVE  TraceInv(t)'
<1> DEFINE length == Traces!AddImpl(TRUE, TRUE, 20, len)
           new == [arg[t] EXCEPT !.level = level, !.length = length]
<1>1. tpc[t] = "idle" /\ tpc' = [tpc EXCEPT ![t] = "check"]
      /\ tpc[t] \notin Writing
  BY DEF Traces!AddBegin, Traces!Enter, Traces!At, Traces!Goto, Writing, Before
<1>2. tpc'[t] = "check" /\ tpc' \in [TraceThreads -> TraceSteps]
      /\ tpc'[t] \notin Writing
  BY <1>1, AtRest DEF TraceInv, TraceTypes, TraceSteps, Writing, Before
<1>3. length \in Int /\ length < MaxMessage
  <2>1. len \in Nat
    BY DEF Traces!TraceAssumption
  <2> QED
    BY <2>1, LineFits
<1>4. arg' = [arg EXCEPT ![t] = new]
  BY DEF Traces!AddBegin
<1>5. new \in TraceArgs /\ new.length = length
  <2> HIDE DEF length
  <2> QED
    BY <1>3, AtRest DEF TraceArgs
<1> HIDE DEF new, length
<1>6. arg' \in [TraceThreads -> TraceArgs] /\ arg'[t] = new
  BY <1>4, <1>5, AtRest DEF TraceInv, TraceTypes
<1>7. /\ done' = TRUE /\ handle_number' \in 0 .. MaxStreams
      /\ handles' \in [1 .. MaxStreams -> HandleRecords]
      /\ files' \in [Traces!AllFiles -> [lines : Seq(Nat), pos : Nat]]
      /\ StreamsDiffer' /\ FilesBlank' /\ StreamsFollow(t)'
  <2>1. CASE done
    <3>1. UNCHANGED <<handle_number, handles, done, files, given>>
      BY <2>1 DEF Traces!AddBegin
    <3>2. StreamsDiffer' /\ FilesBlank' /\ StreamsFollow(t)'
      BY <1>1, <1>2, <3>1, StreamsLeft
    <3>3. done = TRUE
      BY <2>1 DEF TraceInv, TraceTypes
    <3> QED
      BY <3>1, <3>2, <3>3 DEF TraceInv, TraceTypes
  <2>2. CASE ~done
    <3>1. Traces!TraceInit /\ given' = given
      BY <2>2 DEF Traces!AddBegin
    <3> QED
      BY <1>1, <1>2, <2>2, <3>1, TraceInitKeeps
  <2> QED
    BY <2>1, <2>2
<1>8. UNCHANGED <<at_handle, tloaded, given>>
  BY DEF Traces!AddBegin
<1>9. TraceTypes'
  BY <1>2, <1>6, <1>7, <1>8 DEF TraceInv, TraceTypes
<1>10. WriterFits(t)'
  BY <1>2, <1>3, <1>5, <1>6, <1>7 DEF WriterFits, Traces!At, Writing, Before
<1> QED
  BY <1>7, <1>9, <1>10 DEF TraceInv

\* The invariant holds at first and every step of the one thread keeps it.
LEMMA TraceInvInductive ==
  ASSUME Traces!TraceAssumption, NEW t, TraceThreads = {t}
  PROVE  Traces!Spec => []TraceInv(t)
<1>1. Traces!Init => TraceInv(t)
  <2> SUFFICES ASSUME Traces!Init PROVE TraceInv(t)
    OBVIOUS
  <2>1. Traces!Handles = {}
    BY DEF Traces!Init, Traces!Handles
  <2>2. TraceTypes
    <3>1. Traces!NewHandle \in HandleRecords
      BY DEF Traces!NewHandle, Traces!NoStream, HandleRecords, Ostreams
    <3>2. 0 \in 0 .. MaxStreams
      BY DEF Traces!TraceAssumption
    <3>3. "idle" \in TraceSteps /\ 1 \in Nat \ {0} /\ 0 \in Nat
          /\ [lines |-> <<>>, pos |-> 0] \in [lines : Seq(Nat), pos : Nat]
      BY DEF TraceSteps
    <3> QED
      BY <3>1, <3>2, <3>3, NoArgFits DEF Traces!Init, TraceTypes
  <2>3. StreamsDiffer
    BY <2>1 DEF Traces!Init, StreamsDiffer, Traces!NewHandle
  <2>4. FilesBlank
    BY DEF Traces!Init, FilesBlank
  <2>5. WriterFits(t)
    BY NoArgFits DEF Traces!Init, WriterFits, Traces!At, Writing, Before
  <2> QED
    BY <2>1, <2>2, <2>3, <2>4, <2>5 DEF TraceInv, StreamsFollow
<1>2. TraceInv(t) /\ [Traces!Next]_(Traces!vars) => TraceInv(t)'
  <2> SUFFICES ASSUME TraceInv(t), [Traces!Next]_(Traces!vars)
               PROVE TraceInv(t)'
    OBVIOUS
  <2>1. ASSUME NEW level \in Levels, NEW len \in MsgLengths,
               Traces!AddBegin(t, level, len)
        PROVE  TraceInv(t)'
    BY <2>1, AddBeginKeeps
  <2>2. ASSUME Traces!AddCheck(t) PROVE TraceInv(t)'
    BY <2>2, AddCheckKeeps
  <2>3. ASSUME Traces!ToList(t) PROVE TraceInv(t)'
    BY <2>3, ToListKeeps
  <2>4. ASSUME Traces!Rows(t) PROVE TraceInv(t)'
    BY <2>4, RowsKeeps
  <2>5. ASSUME Traces!Mark(t) PROVE TraceInv(t)'
    BY <2>5, MarkKeeps
  <2>6. ASSUME Traces!Full(t) PROVE TraceInv(t)'
    BY <2>6, FullKeeps
  <2>7. ASSUME Traces!Seek(t) PROVE TraceInv(t)'
    BY <2>7, SeekKeeps
  <2>8. ASSUME Traces!Put(t) PROVE TraceInv(t)'
    BY <2>8, PutKeeps
  <2>9. ASSUME Traces!Count(t) PROVE TraceInv(t)'
    BY <2>9, CountKeeps
  <2>10. ASSUME Traces!NextHandle(t) PROVE TraceInv(t)'
    BY <2>10, NextHandleKeeps
  <2>11. ASSUME NEW f \in Files, NEW filter \in SUBSET Levels,
                NEW wrap \in WrapLines, Traces!SetOStream(t, f, filter, wrap)
         PROVE  TraceInv(t)'
    BY <2>11, SetOStreamKeeps
  <2>12. ASSUME Traces!SetOStreamCopy(t) PROVE TraceInv(t)'
    BY <2>12, SetOStreamCopyKeeps
  <2>13. ASSUME Traces!SetOStreamEnd(t) PROVE TraceInv(t)'
    BY <2>13, SetOStreamEndKeeps
  <2>14. ASSUME NEW f \in Files \cup {NoFile}, NEW filter \in SUBSET Levels,
                Traces!set_level_filter(t, f, filter)
         PROVE  TraceInv(t)'
    BY <2>14, SetLevelFilterKeeps
  <2>15. ASSUME UNCHANGED Traces!vars PROVE TraceInv(t)'
    BY <2>15
    DEF Traces!vars, TraceInv, TraceTypes, StreamsDiffer, FilesBlank,
        WriterFits,
        StreamsFollow, StepAt, FileOf, Traces!Handles, Traces!At, Traces!File,
          Traces!Row
  <2> QED
    BY <2>1, <2>2, <2>3, <2>4, <2>5, <2>6, <2>7, <2>8, <2>9, <2>10, <2>11,
       <2>12, <2>13, <2>14, <2>15 DEF Traces!Next
<1> QED
  BY <1>1, <1>2, PTL DEF Traces!Spec

\* A file tells whether it has a header.
LEMMA HeaderIs ==
  ASSUME Traces!TraceAssumption, NEW e \in 0 .. 1, NEW n \in Nat, NEW lines,
         NEW wrap,
         Kept(lines, e, n, wrap)
  PROVE  (IF lines # <<>> /\ lines[1] = Traces!Header THEN 1 ELSE 0) = e
<1>1. lines \in Seq(Nat) /\ Len(lines) = e + Least(n) /\ Least(n) \in Nat
  <2>1. Least(n) \in Nat
    BY DEF Least, Traces!TraceAssumption
  <2> QED
    BY <2>1 DEF Kept
<1>2. CASE e = 1
  <2>1. lines[1] = Traces!Header /\ Len(lines) # 0
    BY <1>1, <1>2 DEF Kept
  <2>2. lines # <<>>
    BY <2>1
  <2> QED
    BY <1>2, <2>1, <2>2
<1>3. CASE e = 0
  <2>1. CASE Least(n) = 0
    <3>1. Len(lines) = 0
      BY <1>1, <1>3, <2>1
    <3>2. lines = <<>>
      BY <1>1, <3>1, EmptySeq
    <3> QED
      BY <1>3, <3>2
  <2>2. CASE Least(n) # 0
    <3>1. 1 \in 1 .. Least(n) /\ e + 1 = 1
      BY <1>1, <1>3, <2>2
    <3>2. lines[1] # Traces!Header
      BY <3>1 DEF Kept
    <3> QED
      BY <1>3, <3>2
  <2> QED
    BY <2>1, <2>2
<1> QED
  BY <1>2, <1>3

\* What a stream that no line is on its way to shows.
LEMMA RestShows ==
  ASSUME Traces!TraceAssumption, NEW t, TraceThreads = {t}, TraceInv(t),
         Traces!Quiet,
         NEW h \in Traces!Handles
  PROVE  LET f == handles[h].ostream.file
             n == given[f]
             wrap == handles[h].ostream.wrap_line_number
         IN files[f].lines
             = [r \in 1..(Traces!HeaderOf(f) + Traces!Min({n, MaxRows})) |->
              IF r <= Traces!HeaderOf(f) THEN Traces!Header
              ELSE Traces!RowShows(r - Traces!HeaderOf(f), n, wrap)]
<1> DEFINE f == handles[h].ostream.file
           n == given[f]
           wrap == handles[h].ostream.wrap_line_number
           lines == files[f].lines
<1>1. StepAt(t, h) = "rest" /\ f = FileOf(h)
  BY DEF Traces!Quiet, Traces!At, StepAt, Writing, Before, FileOf
<1>2. PICK e \in 0 .. 1 : Follows("rest", e, n, handles[h], files[f])
  BY <1>1 DEF TraceInv, StreamsFollow
<1>3. n \in Nat /\ Kept(lines, e, n, wrap)
  BY <1>2 DEF Follows, Before
<1>4. MaxRows \in Nat \ {0}
  BY DEF Traces!TraceAssumption
<1>5. Traces!Min({n, MaxRows}) = Least(n)
  <2>1. Least(n) \in {n, MaxRows} /\ \A y \in {n, MaxRows} : Least(n) <= y
    BY <1>3, <1>4 DEF Least
  <2>2. \A x \in {n, MaxRows} :
          (\A y \in {n, MaxRows} : x <= y) => x = Least(n)
    BY <1>3, <1>4 DEF Least
  <2> HIDE DEF n
  <2> QED
    BY <2>1, <2>2 DEF Traces!Min
<1> HIDE DEF lines, n, wrap
<1>6. lines \in Seq(Nat) /\ Len(lines) = e + Least(n) /\ Least(n) \in Nat
      /\ lines = [r \in 1 .. (e + Least(n)) |-> lines[r]]
  <2>1. Least(n) \in Nat
    BY <1>3, <1>4 DEF Least
  <2> QED
    BY <1>3, <2>1, LenProperties DEF Kept
<1>7. Traces!HeaderOf(f) = e
  BY <1>3, HeaderIs DEF Traces!HeaderOf, lines
<1>8. ASSUME NEW r \in 1 .. (e + Least(n))
      PROVE  lines[r] = IF r <= e THEN Traces!Header
               ELSE Traces!RowShows(r - e, n, wrap)
  <2>1. CASE r <= e
    <3>1. e = 1 /\ r = 1
      BY <1>6, <2>1
    <3> QED
      BY <1>3, <2>1, <3>1 DEF Kept
  <2>2. CASE ~(r <= e)
    <3>1. r - e \in 1 .. Least(n) /\ e + (r - e) = r
      BY <1>6, <2>2
    <3>2. lines[e + (r - e)] = Traces!RowShows(r - e, n, wrap)
      BY <1>3, <3>1 DEF Kept
    <3> QED
      BY <2>2, <3>1, <3>2
  <2> QED
    BY <2>1, <2>2
<1>9. lines = [r \in 1 .. (e + Least(n)) |->
                IF r <= e THEN Traces!Header
                    ELSE Traces!RowShows(r - e, n, wrap)]
  BY <1>6, <1>8
<1>10. lines = [r \in 1 .. (Traces!HeaderOf(f) + Traces!Min({n, MaxRows})) |->
                 IF r <= Traces!HeaderOf(f) THEN Traces!Header
                 ELSE Traces!RowShows(r - Traces!HeaderOf(f), n, wrap)]
  BY <1>5, <1>7, <1>9
<1> QED
  BY <1>10 DEF lines, n, wrap

\* One thread's streams show the newest lines.
LEMMA OneThreadShows ==
  ASSUME Traces!TraceAssumption, NEW t, TraceThreads = {t}
  PROVE  Traces!Spec => []Traces!StreamsShowNewest
<1>1. TraceInv(t) => Traces!StreamsShowNewest
  <2> SUFFICES ASSUME TraceInv(t) PROVE Traces!StreamsShowNewest
    OBVIOUS
  <2>1. \A u \in TraceThreads : arg[u].length < MaxMessage
    BY AtRest
  <2>2. ASSUME Traces!Quiet, NEW h \in Traces!Handles
        PROVE  LET f == handles[h].ostream.file
                   n == given[f]
                   wrap == handles[h].ostream.wrap_line_number
               IN files[f].lines
                    = [r \in 1..(Traces!HeaderOf(f)
                                + Traces!Min({n, MaxRows})) |->
                        IF r <= Traces!HeaderOf(f) THEN Traces!Header
                        ELSE Traces!RowShows(r - Traces!HeaderOf(f), n, wrap)]
    BY <2>2, RestShows
  <2> QED
    BY <2>1, <2>2 DEF Traces!StreamsShowNewest
<1> QED
  BY <1>1, TraceInvInductive, PTL

\* A write goes after the first lines.
LEMMA PutLeavesFirst ==
  ASSUME Traces!TraceAssumption, NEW t, TraceThreads = {t}, TraceInv(t),
         Traces!Put(t),
         NEW r \in 1 .. (Traces!HeaderOf(Traces!File(t)) + Traces!Wrap(t)),
         r <= Len(files[Traces!File(t)].lines)
  PROVE  files'[Traces!File(t)].lines[r] = files[Traces!File(t)].lines[r]
<1> DEFINE old == files[Traces!File(t)]
           n == given[Traces!File(t)]
           m == n - 1
<1>0. MaxRows \in Nat \ {0}
  BY DEF Traces!TraceAssumption
<1>1. tpc[t] = "put" /\ tpc[t] \in Writing
  BY DEF Traces!Put, Traces!At, Writing, Before
<1>2. PICK e \in 0 .. 1 : Follows("put", e, n, handles[at_handle[t]], old)
  BY <1>1, AtStream
<1>3. /\ m \in Nat /\ Kept(old.lines, e, m, Traces!Wrap(t))
      /\ Next1(Traces!Row(t), m, Traces!Wrap(t)) /\ old.pos = e + Traces!Row(t)
      /\ Traces!Row(t) \in Nat /\ Traces!Wrap(t) \in Nat
  BY <1>1, <1>2, AtStream DEF Follows, Before
<1>4. Traces!HeaderOf(Traces!File(t)) = e
  BY <1>3, HeaderIs DEF Traces!HeaderOf
<1>5. old.lines \in Seq(Nat) /\ Len(old.lines) = e + Least(m)
      /\ r \in 1 .. Len(old.lines)
  BY <1>3 DEF Kept
<1>6. CASE ~(Traces!Row(t) < MaxRows)
  BY <1>6 DEF Traces!Put
<1>7. CASE Traces!Row(t) < MaxRows
  <2> DEFINE line == arg[t].line
  <2>1. files'[Traces!File(t)].lines = Traces!Written(old, line).lines
    BY <1>1, <1>7, AtStream DEF Traces!Put, Traces!fwrite, TraceInv, TraceTypes
  <2>2. Traces!Written(old, line).lines =
          IF old.pos < Len(old.lines)
          THEN [old.lines EXCEPT ![old.pos + 1] = line]
          ELSE Append(old.lines, line)
    BY DEF Traces!Written
  <2>3. CASE old.pos < Len(old.lines)
    <3>1. Traces!Row(t) < Least(m)
      <4>1. Least(m) \in Nat
        BY <1>0, <1>3 DEF Least
      <4>2. e + Traces!Row(t) < e + Least(m)
        BY <1>3, <1>5, <2>3
      <4> QED
        BY <1>3, <4>1, <4>2
    <3>2. m >= MaxRows
      <4>1. m < MaxRows => Traces!Row(t) = m /\ Least(m) = m
        BY <1>0, <1>3 DEF Next1, Least
      <4> QED
        BY <1>0, <1>3, <3>1, <4>1
    <3>3. Traces!Row(t) >= Traces!Wrap(t)
      BY <1>0, <1>3, <1>7, <3>2 DEF Next1
    <3>4. r # old.pos + 1
      BY <1>3, <1>4, <3>3
    <3> QED
      BY <1>5, <2>1, <2>2, <2>3, <3>4
  <2>4. CASE ~(old.pos < Len(old.lines))
    <3>1. line \in Nat
      BY AtRest DEF TraceArgs
    <3> QED
      BY <1>5, <2>1, <2>2, <2>4, <3>1, AppendProperties
  <2> QED
    BY <2>3, <2>4
<1> QED
  BY <1>6, <1>7

\* Other steps leave the lines, or find none.
LEMMA OthersLeaveLines ==
  ASSUME Traces!TraceAssumption, NEW t, TraceThreads = {t}, TraceInv(t),
         [Traces!Next]_(Traces!vars),
         ~Traces!Put(t), NEW f \in Traces!AllFiles
  PROVE  files'[f].lines = files[f].lines \/ files[f].lines = <<>>
<1>1. CASE files' = files
  BY <1>1
<1>2. ASSUME NEW level \in Levels, NEW len \in MsgLengths,
             Traces!AddBegin(t, level, len)
      PROVE  files' = files \/ files[f].lines = <<>>
  BY <1>2 DEF Traces!AddBegin, TraceInv, FilesBlank
<1>3. ASSUME Traces!Seek(t) PROVE files'[f].lines = files[f].lines
  BY <1>3 DEF Traces!Seek, Traces!fseek, TraceInv, TraceTypes
<1> QED
  BY <1>1, <1>2, <1>3
  DEF Traces!Next, Traces!vars, Traces!AddCheck, Traces!ToList, Traces!Rows,
      Traces!Mark, Traces!Full, Traces!Count, Traces!NextHandle,
      Traces!SetOStream, Traces!SetOStreamCopy, Traces!SetOStreamEnd,
        Traces!set_level_filter

\* One thread leaves the first lines.
LEMMA OneThreadKeeps ==
  ASSUME Traces!TraceAssumption, NEW t, TraceThreads = {t}
  PROVE  Traces!Spec => Traces!KeepsFirstLines
<1>1. ASSUME TraceInv(t), [Traces!Next]_(Traces!vars),
             NEW h \in Traces!Handles,
             handles[h].ostream.file # NoFile,
             NEW r \in 1 .. (Traces!HeaderOf(handles[h].ostream.file)
                             + handles[h].ostream.wrap_line_number),
             r <= Len(files[handles[h].ostream.file].lines)
      PROVE  files'[handles[h].ostream.file].lines[r]
               = files[handles[h].ostream.file].lines[r]
  <2> DEFINE f == handles[h].ostream.file
  <2>1. f \in Traces!AllFiles /\ f = FileOf(h)
    BY <1>1 DEF TraceInv, StreamsDiffer, FileOf
  <2>2. CASE ~Traces!Put(t)
    <3>1. files'[f].lines = files[f].lines \/ files[f].lines = <<>>
      BY <1>1, <2>1, <2>2, OthersLeaveLines
    <3>2. files[f].lines # <<>>
      <4> SUFFICES ASSUME files[f].lines = <<>> PROVE FALSE
        OBVIOUS
      <4>1. Len(files[f].lines) = 0
        OBVIOUS
      <4>2. r >= 1 /\ r <= 0
        BY <1>1, <4>1
      <4> QED
        BY <1>1, <4>2
    <3> QED
      BY <3>1, <3>2
  <2>3. CASE Traces!Put(t)
    <3>1. tpc[t] = "put" /\ tpc[t] \in Writing
      BY <2>3 DEF Traces!Put, Traces!At, Writing, Before
    <3>2. at_handle[t] \in Traces!Handles
      BY <1>1, <3>1 DEF TraceInv, WriterFits
    <3>3. CASE h = at_handle[t]
      <4>1. f = Traces!File(t)
                /\ handles[h].ostream.wrap_line_number = Traces!Wrap(t)
        BY <3>3 DEF Traces!File, Traces!Wrap
      <4> QED
        BY <1>1, <2>3, <4>1, PutLeavesFirst
    <3>4. CASE h # at_handle[t]
      <4>1. f # Traces!File(t)
        BY <1>1, <2>1, <3>2, <3>4 DEF TraceInv, StreamsDiffer, Traces!File,
           FileOf
      <4>2. files'[f] = files[f]
        BY <1>1, <2>1, <2>3, <4>1 DEF Traces!Put, Traces!fwrite, TraceInv,
           TraceTypes
      <4> QED
        BY <4>2
    <3> QED
      BY <3>3, <3>4
  <2> QED
    BY <2>2, <2>3
<1>2. TraceInv(t) /\ [Traces!Next]_(Traces!vars) =>
        [\A h \in Traces!Handles :
           LET f == handles[h].ostream.file
           IN \A r \in 1..(Traces!HeaderOf(f)
                             + handles[h].ostream.wrap_line_number) :
                f # NoFile /\ r <= Len(files[f].lines)
                  => files'[f].lines[r] = files[f].lines[r]]_(Traces!vars)
  BY <1>1
<1> QED
  BY <1>2, TraceInvInductive, PTL DEF Traces!Spec, Traces!KeepsFirstLines

\* With one thread that traces, streams show their first lines and the newest
\* of the others, and every line fits (WriteToFile, AddTraceMessage,
\* src/trace_impl_c.c:403-415, 470-471, 529-556).
THEOREM NewestAreShown ==
  ASSUME NEW t, TraceThreads = {t}
  PROVE  SyncSpec => []StreamsShowNewest
<1>1. Traces!StreamsShowNewest => StreamsShowNewest
  BY DEF StreamsShowNewest
<1>2. Traces!Spec => []Traces!StreamsShowNewest
  BY SyncAssumption, OneThreadShows
<1> QED
  BY <1>1, <1>2, ComponentsRun, PTL

\* With one thread, no step of WriteToFile goes over the lines before
\* wrap_line_number: what MCTrace finds takes two (trace_impl_c.c:524-528).
THEOREM FirstLinesStay ==
  ASSUME NEW t, TraceThreads = {t}
  PROVE  SyncSpec => Traces!KeepsFirstLines
<1>1. Traces!Spec => Traces!KeepsFirstLines
  BY SyncAssumption, OneThreadKeeps
<1> QED
  BY <1>1, ComponentsRun, PTL

-----------------------------------------------------------------------------
(* The types.                                                              *)

Answers == answer \in [Waiters -> BOOLEAN]

\* Every component's variables have their types, for all of them at once.
THEOREM TypesKept == SyncSpec => []SyncTypeOK
<1>1. /\ TypeOK /\ EventInv /\ Answers
      /\ LockInv /\ RaceInv /\ RefInv /\ SpawnInv
      => SyncTypeOK
  <2> SUFFICES ASSUME TypeOK, EventInv, LockInv, RaceInv, RefInv, SpawnInv,
                      Answers
               PROVE  SyncTypeOK
    OBVIOUS
  <2>1. Events!TypeOK
    BY DEF EventInv, Answers, WaitSteps, Events!TypeOK, DeadlinesMeant
  <2>2. Locks!TypeOK /\ Races!TypeOK /\ Refs!TypeOK
    BY DEF LockInv, RaceInv, RefInv
  <2>3. Spawns!TypeOK
    BY DEF SpawnInv, SpawnTypeOK, Spawns!TypeOK
  <2> QED
    BY <2>1, <2>2, <2>3 DEF SyncTypeOK
\* Wait answers TRUE or FALSE.
<1>2. Events!Init => Answers
  BY DEF Events!Init, Answers
<1>3. Answers /\ [Events!Next]_(Events!vars)
        => Answers'
  <2> SUFFICES ASSUME Answers,
                      [Events!Next]_(Events!vars)
               PROVE  Answers'
    OBVIOUS
  <2>1. \/ answer' = answer
        \/ \E w \in Waiters : \E r \in BOOLEAN : Events!Return(w, r)
    BY DEF Events!Next, Events!vars, Events!Set, Events!Reset, Events!Tick,
           Events!WaitTest, Events!Test, Events!Spurious, Events!TimedOut,
           Events!TimedOutReturns, Events!WaitBegin, Events!WaitDefault
  <2> QED
    BY <2>1 DEF Events!Return, Answers
<1> QED
  BY <1>1, <1>2, <1>3, RingKept, ComponentsRun, EventInvInductive,
     LockInvInductive, RaceInvInductive, RefInvInductive, SpawnInvInductive,
     PTL
  DEF Events!Spec

===============================================================================
