------------------------- MODULE MessageQueueProofs -------------------------
(* Proofs about MessageQueue, for any threads, messages, handlers and times. *)
EXTENDS MessageQueue, SequenceTheorems, FiniteSetTheorems, TLAPS

-----------------------------------------------------------------------------
(* Facts about the operators.                                              *)

\* What the steps of the owner need to know of the types.
LEMMA TypeFacts ==
  ASSUME TypeOK
  PROVE  /\ get \in Gets
         /\ now \in Nat
         /\ now \in Int
         /\ loop.msEnd \in Int
  BY QueueAssumption DEF TypeOK, OwnerTypes, QueueTypes

-----------------------------------------------------------------------------
(* Type correctness.                                                       *)

\* Every step keeps the types, the rule for the message in hand and the mutual
\* exclusion of the sections on crit_.
LEMMA TypeStep == TypeOK /\ [Next]_vars => TypeOK'
  \* The cast to int yields an integer.
  <1>ToIntType. \A x \in Int : ToInt(x) \in Int
    BY QueueAssumption DEF ToInt
  \* Erasing one element of a sequence, as ClearInternal does in its loop.
  <1>RemoveType.
    ASSUME NEW S, NEW s \in Seq(S), NEW i \in 1..Len(s)
    PROVE  SubSeq(s, 1, i - 1) \o SubSeq(s, i + 1, Len(s)) \in Seq(S)
    <2> USE <1>RemoveType
    <2>1. SubSeq(s, 1, i - 1) \in Seq(S)
      BY SubSeqProperties
    <2>2. SubSeq(s, i + 1, Len(s)) \in Seq(S)
      BY SubSeqProperties
    <2> QED
      BY <2>1, <2>2
  \* The locals of a Get that has not begun have their types.
  <1>NoGetType. NoGet \in Gets
    BY DEF NoGet, Gets, kForever
  \* The updates that Peek, the end of the timers' pass and the end of a wait
  \* make to those locals keep their types.
  <1>GetForPeek.
    ASSUME NEW g \in Gets, NEW c \in Int
    PROVE  [g EXCEPT !.cmsWait = c, !.peeking = TRUE] \in Gets
    BY <1>GetForPeek DEF Gets
  <1>GetAfterFire.
    ASSUME NEW g \in Gets, NEW c \in Int
    PROVE  [g EXCEPT !.firstPass = FALSE, !.cmsDelayNext = c] \in Gets
    BY <1>GetAfterFire DEF Gets
  <1>GetAfterWait.
    ASSUME NEW g \in Gets, NEW n \in Nat, NEW d \in Int, NEW c \in Int
    PROVE  [g EXCEPT !.msCurrent = n, !.deadline = d,
                     !.cmsDelayNext = c, !.firstPass = TRUE] \in Gets
    BY <1>GetAfterWait DEF Gets
  <1>ForeverType. kForever \in Int
    BY DEF kForever
  \* The head of ClearInternal keeps the types of the history.
  <1>ClearBeginHistory.
    ASSUME TypeOK, NEW t, NEW h, NEW collect, ClearBegin(t, h, collect)
    PROVE  HistoryTypes'
    <2> USE <1>ClearBeginHistory
    <2>1. CASE fPeekKeep_ /\ Match(msgPeek_, h)
      <3>1. msgPeek_ \in Messages
        BY <2>1 DEF TypeOK, QueueTypes, InHand
      <3>2. CASE collect
        BY <2>1, <3>1, <3>2
        DEF ClearBegin, Discard, TypeOK, HistoryTypes, handlers
      <3>3. CASE ~collect
        <4>1. deletes \in [Messages -> Nat]
          BY DEF TypeOK, HistoryTypes
        <4>2. deletes' = [deletes EXCEPT ![msgPeek_] = @ + 1]
          BY <2>1, <3>3 DEF ClearBegin, Discard, Delete
        <4>3. deletes' \in [Messages -> Nat]
          BY <3>1, <4>1, <4>2
        <4> QED
          BY <2>1, <3>3, <4>3
          DEF ClearBegin, Discard, TypeOK, HistoryTypes, handlers
      <3> QED
        BY <3>2, <3>3
    <2>2. CASE ~(fPeekKeep_ /\ Match(msgPeek_, h))
      BY <2>2 DEF ClearBegin, TypeOK, HistoryTypes, handlers
    <2> QED
      BY <2>1, <2>2
  <1> SUFFICES ASSUME TypeOK, [Next]_vars PROVE TypeOK'
    OBVIOUS
  <1> USE QueueAssumption DEF TypeOK, lists, peek, owner, handlers, history
  <1>1. ASSUME NEW t \in Threads, NEW m \in Messages, NEW next \in Calls,
               next.op \in {"post", "delaypost"}, PostBegin(t, m, next)
        PROVE  TypeOK'
    <2>0. t = Worker => wpc = "dispatch"
      BY <1>1 DEF PostBegin, CanCall
    <2>1. (call \in [Threads -> Calls])'
      <3>1. CASE stop_
        BY <1>1, <3>1 DEF PostBegin
      <3>2. CASE ~stop_
        BY <1>1, <3>2 DEF PostBegin, Goto
      <3> QED
        BY <3>1, <3>2
    <2>2. HistoryTypes'
      <3>1. CASE stop_
        BY <1>1, <3>1 DEF PostBegin, Delete, HistoryTypes
      <3>2. CASE ~stop_
        BY <1>1, <3>2 DEF PostBegin, HistoryTypes
      <3> QED
        BY <3>1, <3>2
    <2>3. Locked'
      <3>1. CASE stop_
        BY <1>1, <3>1 DEF PostBegin, Locked
      <3>2. CASE ~stop_
        <4>1. next.op # "clear" /\ call[t].op # "clear"
          BY <1>1 DEF PostBegin, CanCall, Idle
        <4>2. call' = [call EXCEPT ![t] = next]
          BY <1>1, <3>2 DEF PostBegin, Goto
        <4>3. \A u \in Threads : call'[u].op = "clear" <=> call[u].op = "clear"
          BY <4>1, <4>2
        <4>4. call'[Worker] # Idle => wpc = "dispatch"
          BY <2>0, <4>2 DEF Locked
        <4> QED
          BY <1>1, <4>3, <4>4 DEF PostBegin, Locked
      <3> QED
        BY <3>1, <3>2
    <2> QED
      BY <1>1, <2>1, <2>2, <2>3 DEF PostBegin, QueueTypes, OwnerTypes, InHand
  <1>2. ASSUME NEW t \in Threads, Quit(t)
        PROVE  TypeOK'
    <2>1. QueueTypes'
      BY <1>2 DEF Quit, QueueTypes
    <2>2. (call \in [Threads -> Calls])'
      BY <1>2 DEF Quit, Goto, Calls
    <2>3. Locked'
      BY <1>2 DEF Quit, CanCall, Goto, Wake, Idle, Locked
    <2> QED
      BY <1>2, <2>1, <2>2, <2>3 DEF Quit, OwnerTypes, HistoryTypes, InHand
  <1>3. ASSUME NEW t \in Threads, Restart(t)
        PROVE  TypeOK'
    <2>1. QueueTypes'
      BY <1>3 DEF Restart, QueueTypes
    <2>2. OwnerTypes'
      BY <1>3 DEF Restart, OwnerTypes, OwnerSteps
    <2>3. InHand'
      BY <1>3 DEF Restart, InHand
    <2>4. Locked'
      BY <1>3 DEF Restart, CanCall, Locked
    <2> QED
      BY <1>3, <2>1, <2>2, <2>3, <2>4 DEF Restart, HistoryTypes
  <1>4. ASSUME NEW t \in Threads, Clear(t)
        PROVE  TypeOK'
    <2>1. QueueTypes'
      BY <1>4 DEF Clear, ClearBegin, QueueTypes
    <2>2. (call \in [Threads -> Calls])'
      BY <1>4 DEF Clear, ClearBegin, Goto, Calls
    <2>3. HistoryTypes'
      BY <1>4, <1>ClearBeginHistory DEF Clear
    <2>4. InHand'
      BY <1>4 DEF Clear, ClearBegin, InHand
    <2>5. Locked'
      BY <1>4 DEF Clear, ClearBegin, CanCall, Goto, Wake, Idle, Locked
    <2> QED
      BY <1>4, <2>1, <2>2, <2>3, <2>4, <2>5 DEF Clear, ClearBegin, OwnerTypes
  <1>5. ASSUME NEW t \in Threads, DoDestroy(t)
        PROVE  TypeOK'
    <2>1. QueueTypes'
      BY <1>5 DEF DoDestroy, ClearBegin, QueueTypes
    <2>2. OwnerTypes'
      BY <1>5 DEF DoDestroy, ClearBegin, OwnerTypes, OwnerSteps
    <2>3. (call \in [Threads -> Calls])'
      BY <1>5 DEF DoDestroy, ClearBegin, Goto, Calls
    <2>4. HistoryTypes'
      BY <1>5, <1>ClearBeginHistory DEF DoDestroy
    <2>5. InHand'
      BY <1>5 DEF DoDestroy, ClearBegin, InHand
    <2>6. Locked'
      BY <1>5 DEF DoDestroy, ClearBegin, Goto, Wake, Idle, Locked
    <2> QED
      BY <1>5, <2>1, <2>2, <2>3, <2>4, <2>5, <2>6 DEF DoDestroy, ClearBegin
  <1>6. ASSUME NEW t \in Threads, Enqueue(t)
        PROVE  TypeOK'
    <2>1. QueueTypes'
      BY <1>6 DEF Enqueue, Entered, Calls, Idle, Wake, QueueTypes
    <2>2. (call \in [Threads -> Calls])'
      BY <1>6 DEF Enqueue, Entered, Goto, Calls
    <2>3. Locked'
      BY <1>6 DEF Enqueue, Entered, Goto, Wake, Idle, Locked
    <2> QED
      BY <1>6, <2>1, <2>2, <2>3
      DEF Enqueue, Entered, OwnerTypes, HistoryTypes, InHand
  <1>7. ASSUME NEW t \in Threads, EnqueueDelayed(t)
        PROVE  TypeOK'
    <2>1. QueueTypes'
      BY <1>7
      DEF EnqueueDelayed, Entered, Calls, Idle, Wake, Entries, QueueTypes
    <2>2. (call \in [Threads -> Calls])'
      BY <1>7 DEF EnqueueDelayed, Entered, Goto, Calls
    <2>3. Locked'
      BY <1>7 DEF EnqueueDelayed, Entered, Goto, Wake, Idle, Locked
    <2> QED
      BY <1>7, <2>1, <2>2, <2>3
      DEF EnqueueDelayed, Entered, OwnerTypes, HistoryTypes, InHand
  <1>8. ASSUME NEW t \in Threads, WakeUp(t)
        PROVE  TypeOK'
    <2>1. QueueTypes'
      BY <1>8 DEF WakeUp, SetEvent, QueueTypes
    <2>2. (call \in [Threads -> Calls])'
      BY <1>8 DEF WakeUp, SetEvent, Goto, Calls
    <2>3. Locked'
      BY <1>8 DEF WakeUp, SetEvent, Goto, Wake, Idle, Locked
    <2> QED
      BY <1>8, <2>1, <2>2, <2>3
      DEF WakeUp, SetEvent, OwnerTypes, HistoryTypes, InHand
  <1>9. ASSUME NEW t \in Threads, ClearMessage(t)
        PROVE  TypeOK'
    <2>0. PICK i \in 1..Len(messages_) :
            /\ messages_' = SubSeq(messages_, 1, i - 1)
                              \o SubSeq(messages_, i + 1, Len(messages_))
            /\ Discard(messages_[i], call[t].collect)
      BY <1>9 DEF ClearMessage
    <2>1. QueueTypes'
      BY <1>9, <2>0, <1>RemoveType DEF ClearMessage, QueueTypes
    <2>2. HistoryTypes'
      <3>1. messages_[i] \in Messages
        BY DEF QueueTypes
      <3> QED
        BY <1>9, <2>0, <3>1 DEF ClearMessage, Discard, Delete, HistoryTypes
    <2> QED
      BY <1>9, <2>1, <2>2 DEF ClearMessage, OwnerTypes, InHand, Locked
  <1>10. ASSUME NEW t \in Threads, ClearDelayed(t)
        PROVE  TypeOK'
    <2>1. QueueTypes'
      BY <1>10 DEF ClearDelayed, QueueTypes
    <2>2. HistoryTypes'
      <3>1. PICK d \in delayed_messages_ : Discard(d.msg, call[t].collect)
        BY <1>10 DEF ClearDelayed
      <3>2. d.msg \in Messages
        BY DEF QueueTypes, Entries
      <3> QED
        BY <1>10, <3>1, <3>2 DEF ClearDelayed, Discard, Delete, HistoryTypes
    <2> QED
      BY <1>10, <2>1, <2>2 DEF ClearDelayed, OwnerTypes, InHand, Locked
  <1>11. ASSUME NEW t \in Threads, ClearEnd(t)
        PROVE  TypeOK'
    <2>1. (call \in [Threads -> Calls])'
      BY <1>11 DEF ClearEnd, Goto, Calls
    <2>2. Locked'
      BY <1>11 DEF ClearEnd, Goto, Wake, Idle, Locked
    <2> QED
      BY <1>11, <2>1, <2>2
      DEF ClearEnd, QueueTypes, OwnerTypes, HistoryTypes, InHand
  <1>12. ASSUME NEW cms \in CmsLoops, ProcessMessages(cms)
        PROVE  TypeOK'
    <2>1. OwnerTypes'
      <3>1. get' \in Gets
        BY <1>12, <1>NoGetType DEF ProcessMessages, Gets, kForever
      <3> QED
        BY <1>12, <3>1
        DEF ProcessMessages, OwnerTypes, OwnerSteps, NoLoop, kForever,
            QueueTypes
    <2>2. InHand'
      BY <1>12 DEF ProcessMessages, InHand
    <2>3. Locked'
      BY <1>12 DEF ProcessMessages, Locked
    <2> QED
      BY <1>12, <2>1, <2>2, <2>3 DEF ProcessMessages, QueueTypes, HistoryTypes
  <1>13. ASSUME Peek
        PROVE  TypeOK'
    <2>1. OwnerTypes'
      <3>1. get' \in Gets
        <4>1. 0 \in Int
          OBVIOUS
        <4>2. [NoGet EXCEPT !.cmsWait = 0, !.peeking = TRUE] \in Gets
          BY <4>1, <1>NoGetType, <1>GetForPeek
        <4> QED
          BY <1>13, <4>2 DEF Peek
      <3> QED
        BY <1>13, <3>1 DEF Peek, OwnerTypes, OwnerSteps
    <2>2. InHand'
      BY <1>13 DEF Peek, InHand
    <2>3. Locked'
      BY <1>13 DEF Peek, Locked
    <2> QED
      BY <1>13, <2>1, <2>2, <2>3 DEF Peek, QueueTypes, HistoryTypes
  <1>14. ASSUME GetBegin
        PROVE  TypeOK'
    <2>1. OwnerTypes'
      <3>1. get' \in Gets
        BY <1>14, TypeFacts DEF GetBegin, Gets
      <3> QED
        BY <1>14, <3>1 DEF GetBegin, OwnerTypes, OwnerSteps
    <2>2. InHand'
      BY <1>14 DEF GetBegin, InHand
    <2>3. Locked'
      BY <1>14 DEF GetBegin, Locked
    <2> QED
      BY <1>14, <2>1, <2>2, <2>3 DEF GetBegin, QueueTypes, HistoryTypes
  <1>15. ASSUME GetPeeked
        PROVE  TypeOK'
    <2>1. QueueTypes'
      <3>1. fPeekKeep_' \in BOOLEAN
        BY <1>15 DEF GetPeeked
      <3> QED
        BY <1>15, <3>1 DEF GetPeeked, QueueTypes
    <2>2. OwnerTypes'
      BY <1>15 DEF GetPeeked, QueueTypes, OwnerTypes, OwnerSteps
    <2>3. InHand'
      BY <1>15 DEF GetPeeked, QueueTypes, InHand
    <2>4. Locked'
      BY <1>15 DEF GetPeeked, Locked
    <2> QED
      BY <1>15, <2>1, <2>2, <2>3, <2>4 DEF GetPeeked, HistoryTypes
  <1>16. ASSUME ScanBegin
        PROVE  TypeOK'
    <2>1. OwnerTypes'
      BY <1>16 DEF ScanBegin, OwnerTypes, OwnerSteps
    <2>2. InHand'
      BY <1>16 DEF ScanBegin, InHand
    <2>3. Locked'
      BY <1>16 DEF ScanBegin, Threads, Locked
    <2> QED
      BY <1>16, <2>1, <2>2, <2>3 DEF ScanBegin, QueueTypes, HistoryTypes
  <1>17. ASSUME FireDelayed
        PROVE  TypeOK'
    <2>1. QueueTypes'
      BY <1>17 DEF FireDelayed, IsTop, Entries, QueueTypes
    <2> QED
      BY <1>17, <2>1 DEF FireDelayed, OwnerTypes, HistoryTypes, InHand, Locked
  <1>18. ASSUME FireEnd
        PROVE  TypeOK'
    <2>1. OwnerTypes'
      <3>1. get' \in Gets
        <4>1. CASE delayed_messages_ = {}
          <5>1. get \in Gets /\ now \in Nat
            BY TypeFacts
          <5>2. [get EXCEPT !.firstPass = FALSE, !.cmsDelayNext = kForever]
                  \in Gets
            BY <5>1, <1>GetAfterFire, <1>ForeverType
          <5> QED
            BY <1>18, <4>1, <5>2 DEF FireEnd
        <4>2. ASSUME NEW d \in delayed_messages_,
                     get' = [get EXCEPT !.firstPass = FALSE,
                               !.cmsDelayNext = d.run - get.msCurrent]
              PROVE  get' \in Gets
          <5>1. d.run \in Int
            BY DEF QueueTypes, Entries
          <5>2. get \in Gets /\ now \in Nat /\ get.msCurrent \in Int
            BY TypeFacts DEF Gets
          <5>3. d.run - get.msCurrent \in Int
            BY <5>1, <5>2
          <5> QED
            BY <4>2, <5>2, <5>3, <1>GetAfterFire
        <4> QED
          BY <1>18, <4>1, <4>2 DEF FireEnd
      <3> QED
        BY <1>18, <3>1 DEF FireEnd, OwnerTypes, OwnerSteps
    <2>2. InHand'
      BY <1>18 DEF FireEnd, InHand
    <2>3. Locked'
      BY <1>18 DEF FireEnd, Locked
    <2> QED
      BY <1>18, <2>1, <2>2, <2>3 DEF FireEnd, QueueTypes, HistoryTypes
  <1>19. ASSUME Pull
        PROVE  TypeOK'
    <2>1. QueueTypes'
      BY <1>19 DEF Pull, QueueTypes
    <2>2. OwnerTypes'
      BY <1>19 DEF Pull, QueueTypes, OwnerTypes, OwnerSteps
    <2>3. InHand'
      BY <1>19 DEF Pull, QueueTypes, InHand
    <2>4. Locked'
      <3>1. call[Worker] = Idle /\ crit_ = Worker
        BY <1>19 DEF Pull, Locked, Threads
      <3>2. \A t \in Threads : call[t].op # "clear"
        BY <3>1 DEF Locked, Idle
      <3> QED
        BY <1>19, <3>1, <3>2 DEF Pull, Locked
    <2> QED
      BY <1>19, <2>1, <2>2, <2>3, <2>4 DEF Pull, HistoryTypes
  <1>20. ASSUME PullNothing
        PROVE  TypeOK'
    <2>1. OwnerTypes'
      BY <1>20 DEF PullNothing, OwnerTypes, OwnerSteps
    <2>2. InHand'
      BY <1>20 DEF PullNothing, InHand
    <2>3. Locked'
      <3>1. call[Worker] = Idle /\ crit_ = Worker
        BY <1>20 DEF PullNothing, Locked, Threads
      <3>2. \A t \in Threads : call[t].op # "clear"
        BY <3>1 DEF Locked, Idle
      <3> QED
        BY <1>20, <3>1, <3>2 DEF PullNothing, Locked
    <2> QED
      BY <1>20, <2>1, <2>2, <2>3 DEF PullNothing, QueueTypes, HistoryTypes
  <1>21. ASSUME DisposeMessage
        PROVE  TypeOK'
    <2>1. OwnerTypes'
      BY <1>21 DEF DisposeMessage, OwnerTypes, OwnerSteps
    <2>2. HistoryTypes'
      BY <1>21 DEF DisposeMessage, Delete, InHand, OwnerTypes, HistoryTypes
    <2>3. InHand'
      BY <1>21 DEF DisposeMessage, InHand
    <2>4. Locked'
      BY <1>21 DEF DisposeMessage, Locked
    <2> QED
      BY <1>21, <2>1, <2>2, <2>3, <2>4 DEF DisposeMessage, QueueTypes
  <1>22. ASSUME PeekKeep
        PROVE  TypeOK'
    <2>1. QueueTypes'
      <3>1. pmsg \in Messages
        BY <1>22 DEF PeekKeep, InHand, OwnerTypes
      <3> QED
        BY <1>22, <3>1 DEF PeekKeep, QueueTypes
    <2>2. OwnerTypes'
      <3>1. get' \in Gets
        BY <1>22, <1>NoGetType DEF PeekKeep
      <3> QED
        BY <1>22, <3>1 DEF PeekKeep, OwnerTypes, OwnerSteps
    <2>3. InHand'
      BY <1>22 DEF PeekKeep, InHand
    <2>4. Locked'
      BY <1>22 DEF PeekKeep, Locked
    <2> QED
      BY <1>22, <2>1, <2>2, <2>3, <2>4 DEF PeekKeep, HistoryTypes
  <1>23. ASSUME Dispatch
        PROVE  TypeOK'
    <2>1. OwnerTypes'
      <3>1. get' \in Gets
        BY <1>23, <1>NoGetType DEF Dispatch
      <3> QED
        BY <1>23, <3>1 DEF Dispatch, OwnerTypes, OwnerSteps
    <2>2. HistoryTypes'
      BY <1>23 DEF Dispatch, InHand, OwnerTypes, HistoryTypes
    <2>3. InHand'
      BY <1>23 DEF Dispatch, InHand
    <2>4. Locked'
      BY <1>23 DEF Dispatch, Locked
    <2> QED
      BY <1>23, <2>1, <2>2, <2>3, <2>4 DEF Dispatch, QueueTypes
  <1>24. ASSUME DispatchEnd
        PROVE  TypeOK'
    <2>1. OwnerTypes'
      <3>1. get' \in Gets
        BY <1>24, TypeFacts DEF DispatchEnd, Gets
      <3> QED
        BY <1>24, <3>1
        DEF DispatchEnd, OwnerTypes, OwnerSteps, NoLoop, kForever,
            QueueTypes
    <2>2. InHand'
      BY <1>24 DEF DispatchEnd, InHand
    <2>3. Locked'
      BY <1>24 DEF DispatchEnd, Locked
    <2> QED
      BY <1>24, <2>1, <2>2, <2>3 DEF DispatchEnd, QueueTypes, HistoryTypes
  <1>25. ASSUME WaitBegin
        PROVE  TypeOK'
    <2>1. OwnerTypes'
      <3>1. CmsNext \in Int
        BY TypeFacts DEF CmsNext, Gets, kForever
      <3>2. ToInt(CmsNext) \in Int
        BY <3>1, <1>ToIntType
      <3>3. get' \in Gets
        BY <1>25, <3>2, TypeFacts DEF WaitBegin, Gets, kForever
      <3> QED
        BY <1>25, <3>3 DEF WaitBegin, OwnerTypes, OwnerSteps
    <2>2. InHand'
      BY <1>25 DEF WaitBegin, InHand
    <2>3. Locked'
      BY <1>25 DEF WaitBegin, Locked
    <2> QED
      BY <1>25, <2>1, <2>2, <2>3 DEF WaitBegin, QueueTypes, HistoryTypes
  <1>26. ASSUME GetQuit
        PROVE  TypeOK'
    <2>1. OwnerTypes'
      BY <1>26 DEF GetQuit, OwnerTypes, OwnerSteps
    <2>2. InHand'
      BY <1>26 DEF GetQuit, InHand
    <2>3. Locked'
      BY <1>26 DEF GetQuit, Locked
    <2> QED
      BY <1>26, <2>1, <2>2, <2>3 DEF GetQuit, QueueTypes, HistoryTypes
  <1>27. ASSUME WaitSignaled
        PROVE  TypeOK'
    <2>1. QueueTypes'
      BY <1>27 DEF WaitSignaled, AfterWait, QueueTypes
    <2>2. OwnerTypes'
      <3>1. get' \in Gets
        <4>1. get \in Gets /\ now \in Nat
          BY TypeFacts
        <4>2. [get EXCEPT !.msCurrent = now, !.deadline = kForever,
                 !.cmsDelayNext = kForever, !.firstPass = TRUE] \in Gets
          BY <4>1, <1>GetAfterWait, <1>ForeverType
        <4> QED
          BY <1>27, <4>1, <4>2 DEF WaitSignaled, AfterWait
      <3> QED
        BY <1>27, <3>1 DEF WaitSignaled, AfterWait, OwnerTypes, OwnerSteps
    <2>3. InHand'
      BY <1>27 DEF WaitSignaled, AfterWait, InHand
    <2>4. Locked'
      BY <1>27 DEF WaitSignaled, AfterWait, Locked
    <2> QED
      BY <1>27, <2>1, <2>2, <2>3, <2>4
      DEF WaitSignaled, AfterWait, HistoryTypes
  <1>28. ASSUME WaitTimeout
        PROVE  TypeOK'
    <2>1. OwnerTypes'
      <3>1. get' \in Gets
        <4>1. get \in Gets /\ now \in Nat
          BY TypeFacts
        <4>2. [get EXCEPT !.msCurrent = now, !.deadline = kForever,
                 !.cmsDelayNext = kForever, !.firstPass = TRUE] \in Gets
          BY <4>1, <1>GetAfterWait, <1>ForeverType
        <4> QED
          BY <1>28, <4>1, <4>2 DEF WaitTimeout, AfterWait
      <3> QED
        BY <1>28, <3>1 DEF WaitTimeout, AfterWait, OwnerTypes, OwnerSteps
    <2>2. InHand'
      BY <1>28 DEF WaitTimeout, AfterWait, InHand
    <2>3. Locked'
      BY <1>28 DEF WaitTimeout, AfterWait, Locked
    <2> QED
      BY <1>28, <2>1, <2>2, <2>3
      DEF WaitTimeout, AfterWait, QueueTypes, HistoryTypes
  <1>29. ASSUME GetFalse
        PROVE  TypeOK'
    <2>1. OwnerTypes'
      <3>1. get' \in Gets
        BY <1>29, <1>NoGetType DEF GetFalse
      <3> QED
        BY <1>29, <3>1
        DEF GetFalse, OwnerTypes, OwnerSteps, NoLoop, kForever, QueueTypes
    <2>2. InHand'
      BY <1>29 DEF GetFalse, InHand
    <2>3. Locked'
      BY <1>29 DEF GetFalse, Locked
    <2> QED
      BY <1>29, <2>1, <2>2, <2>3 DEF GetFalse, QueueTypes, HistoryTypes
  <1>30. ASSUME NEW h \in Handlers, DestroyHandler(h)
        PROVE  TypeOK'
    <2>1. HistoryTypes'
      BY <1>30 DEF DestroyHandler, HistoryTypes
    <2> QED
      BY <1>30, <2>1 DEF DestroyHandler, QueueTypes, OwnerTypes, InHand, Locked
  <1>31. ASSUME Tick
        PROVE  TypeOK'
    <2>1. QueueTypes'
      BY <1>31 DEF Tick, QueueTypes
    <2> QED
      BY <1>31, <2>1 DEF Tick, OwnerTypes, HistoryTypes, InHand, Locked
  <1>32. CASE UNCHANGED vars
    BY <1>32 DEF vars, QueueTypes, OwnerTypes, HistoryTypes, InHand, Locked
  <1>33. ASSUME NEW t \in Threads, Post(t) \/ DoDelayPost(t)
        PROVE  TypeOK'
    <2>1. CASE Post(t)
      <3>1. PICK m \in Messages : PostBegin(t, m, [op |-> "post", msg |-> m])
        BY <2>1 DEF Post
      <3>2. [op |-> "post", msg |-> m] \in Calls
        BY DEF Calls
      <3> QED
        BY <1>1, <3>1, <3>2
    <2>2. CASE DoDelayPost(t)
      <3>1. PICK m \in Messages, d \in Delays :
              PostBegin(t, m, [op |-> "delaypost", msg |-> m, run |-> now + d])
        BY <2>2 DEF DoDelayPost
      <3>2. now + d \in Int
        BY TypeFacts
      <3>3. [op |-> "delaypost", msg |-> m, run |-> now + d] \in Calls
        BY <3>2 DEF Calls
      <3> QED
        BY <1>1, <3>1, <3>3
    <2> QED
      BY <1>33, <2>1, <2>2
  <1> QED
    BY <1>2, <1>3, <1>4, <1>5, <1>6, <1>7, <1>8, <1>9, <1>10, <1>11, <1>12,
       <1>13, <1>14, <1>15, <1>16, <1>17, <1>18, <1>19, <1>20, <1>21, <1>22,
       <1>23, <1>24, <1>25, <1>26, <1>27, <1>28, <1>29, <1>30, <1>31, <1>32,
       <1>33
    DEF Next, CallStep, CallBegin, WorkerStep

\* Type correctness of the queue (TypeOK): every variable keeps its type, the
\* owner has a message in hand exactly between taking it and passing it on,
\* and no two threads are ever inside the sections that take crit_.
THEOREM TypeCorrect == Spec => []TypeOK
  \* The initial state has the types.
  <1>TypeInit. Init => TypeOK
    <2> SUFFICES ASSUME Init PROVE TypeOK
      OBVIOUS
    <2> USE QueueAssumption DEF Init
    <2>1. QueueTypes
      <3>1. messages_ \in Seq(Messages)
        OBVIOUS
      <3>2. delayed_next_num_ \in 0..(NumMod - 1) /\ now \in 0..MaxTime
        OBVIOUS
      <3> QED
        BY <3>1, <3>2 DEF QueueTypes
    <2>2. OwnerTypes
      BY DEF OwnerTypes, OwnerSteps, NoLoop, NoGet, Gets, kForever
    <2>3. call \in [Threads -> Calls]
      BY DEF Calls
    <2>4. HistoryTypes
      BY DEF HistoryTypes
    <2>5. InHand
      BY DEF InHand
    <2>6. Locked
      BY DEF Locked, Idle, Threads
    <2> QED
      BY <2>1, <2>2, <2>3, <2>4, <2>5, <2>6 DEF TypeOK
  <1> QED
    BY <1>TypeInit, TypeStep, PTL DEF Spec

-----------------------------------------------------------------------------
(* No wake-up is lost.                                                     *)

\* On the times in play, the cast to int is the identity.
LEMMA ToIntExact ==
  ASSUME TimesFit, NEW x \in -1..MaxTime
  PROVE  ToInt(x) = x
  <1> DEFINE h == IntMod \div 2
  <1>1. h \in Nat /\ 1 <= h /\ MaxTime + h < IntMod
    BY QueueAssumption DEF TimesFit
  <1> HIDE DEF h
  <1>2. (x + h) % IntMod = x + h
    BY <1>1, QueueAssumption
  <1> QED
    BY <1>1, <1>2 DEF ToInt, h

\* Every step keeps the due times within the horizon.
LEMMA DueStep == TypeOK /\ DueTimes /\ [Next]_vars => DueTimes'
  <1> SUFFICES ASSUME TypeOK, DueTimes, [Next]_vars PROVE DueTimes'
    OBVIOUS
  <1> USE DEF TypeOK, lists, peek, owner, handlers, history
  <1>1. ASSUME NEW t \in Threads, Post(t) PROVE DueTimes'
    BY <1>1 DEF Post, PostBegin, DueTimes, Goto, Idle, Wake
  <1>2. ASSUME NEW t \in Threads, DoDelayPost(t) PROVE DueTimes'
    BY <1>2 DEF DoDelayPost, PostBegin, DueTimes, Goto, Idle, Wake
  <1>3. ASSUME NEW t \in Threads, Quit(t) PROVE DueTimes'
    BY <1>3 DEF Quit, DueTimes, Goto, Idle, Wake
  <1>4. ASSUME NEW t \in Threads, Restart(t) PROVE DueTimes'
    BY <1>4 DEF Restart, DueTimes
  <1>5. ASSUME NEW t \in Threads, Clear(t) PROVE DueTimes'
    BY <1>5 DEF Clear, ClearBegin, DueTimes, Goto, Idle, Wake
  <1>6. ASSUME NEW t \in Threads, DoDestroy(t) PROVE DueTimes'
    BY <1>6 DEF DoDestroy, ClearBegin, DueTimes, Goto, Idle, Wake
  <1>7. ASSUME NEW t \in Threads, Enqueue(t) PROVE DueTimes'
    BY <1>7 DEF Enqueue, DueTimes, Goto, Idle, Wake
  <1>8. ASSUME NEW t \in Threads, EnqueueDelayed(t) PROVE DueTimes'
    BY <1>8 DEF EnqueueDelayed, DueTimes, Goto, Idle, Wake
  <1>9. ASSUME NEW t \in Threads, WakeUp(t) PROVE DueTimes'
    BY <1>9 DEF WakeUp, SetEvent, DueTimes, Goto, Idle, Wake
  <1>10. ASSUME NEW t \in Threads, ClearMessage(t) PROVE DueTimes'
    BY <1>10 DEF ClearMessage, DueTimes
  <1>11. ASSUME NEW t \in Threads, ClearDelayed(t) PROVE DueTimes'
    BY <1>11 DEF ClearDelayed, DueTimes
  <1>12. ASSUME NEW t \in Threads, ClearEnd(t) PROVE DueTimes'
    BY <1>12 DEF ClearEnd, DueTimes, Goto, Idle, Wake
  <1>13. ASSUME NEW cms \in CmsLoops, ProcessMessages(cms) PROVE DueTimes'
    BY <1>13 DEF ProcessMessages, DueTimes
  <1>14. ASSUME Peek PROVE DueTimes'
    BY <1>14 DEF Peek, DueTimes
  <1>15. ASSUME GetBegin PROVE DueTimes'
    BY <1>15 DEF GetBegin, DueTimes
  <1>16. ASSUME GetPeeked PROVE DueTimes'
    BY <1>16 DEF GetPeeked, DueTimes
  <1>17. ASSUME ScanBegin PROVE DueTimes'
    BY <1>17 DEF ScanBegin, DueTimes
  <1>18. ASSUME FireDelayed PROVE DueTimes'
    BY <1>18 DEF FireDelayed, DueTimes
  <1>19. ASSUME FireEnd PROVE DueTimes'
    BY <1>19 DEF FireEnd, DueTimes
  <1>20. ASSUME Pull PROVE DueTimes'
    BY <1>20 DEF Pull, DueTimes
  <1>21. ASSUME PullNothing PROVE DueTimes'
    BY <1>21 DEF PullNothing, DueTimes
  <1>22. ASSUME DisposeMessage PROVE DueTimes'
    BY <1>22 DEF DisposeMessage, DueTimes
  <1>23. ASSUME PeekKeep PROVE DueTimes'
    BY <1>23 DEF PeekKeep, DueTimes
  <1>24. ASSUME Dispatch PROVE DueTimes'
    BY <1>24 DEF Dispatch, DueTimes
  <1>25. ASSUME DispatchEnd PROVE DueTimes'
    BY <1>25 DEF DispatchEnd, DueTimes
  <1>26. ASSUME WaitBegin PROVE DueTimes'
    BY <1>26 DEF WaitBegin, DueTimes
  <1>27. ASSUME GetQuit PROVE DueTimes'
    BY <1>27 DEF GetQuit, DueTimes
  <1>28. ASSUME WaitSignaled PROVE DueTimes'
    BY <1>28 DEF WaitSignaled, AfterWait, DueTimes
  <1>29. ASSUME WaitTimeout PROVE DueTimes'
    BY <1>29 DEF WaitTimeout, AfterWait, DueTimes
  <1>30. ASSUME GetFalse PROVE DueTimes'
    BY <1>30 DEF GetFalse, DueTimes
  <1>31. ASSUME NEW h \in Handlers, DestroyHandler(h) PROVE DueTimes'
    BY <1>31 DEF DestroyHandler, DueTimes
  <1>32. ASSUME Tick PROVE DueTimes'
    BY <1>32 DEF Tick, DueTimes
  <1>33. CASE UNCHANGED vars
    BY <1>33 DEF vars, DueTimes
  <1> QED
    BY <1>1, <1>2, <1>3, <1>4, <1>5, <1>6, <1>7, <1>8, <1>9, <1>10, <1>11,
       <1>12, <1>13, <1>14, <1>15, <1>16, <1>17, <1>18, <1>19, <1>20, <1>21,
       <1>22, <1>23, <1>24, <1>25, <1>26, <1>27, <1>28, <1>29, <1>30, <1>31,
       <1>32, <1>33
    DEF Next, CallStep, CallBegin, WorkerStep

\* Every step keeps what Get knows of the time within the horizon.
LEMMA GetStep == TypeOK /\ DueTimes /\ GetTimes /\ [Next]_vars => GetTimes'
  <1> SUFFICES ASSUME TypeOK, DueTimes, GetTimes, [Next]_vars
               PROVE  GetTimes'
    OBVIOUS
  <1> USE QueueAssumption DEF lists, peek, owner, handlers, history
  <1>1. ASSUME NEW t \in Threads, Post(t) PROVE GetTimes'
    BY <1>1 DEF Post, PostBegin, GetTimes
  <1>2. ASSUME NEW t \in Threads, DoDelayPost(t) PROVE GetTimes'
    BY <1>2 DEF DoDelayPost, PostBegin, GetTimes
  <1>3. ASSUME NEW t \in Threads, Quit(t) PROVE GetTimes'
    BY <1>3 DEF Quit, GetTimes
  <1>4. ASSUME NEW t \in Threads, Restart(t) PROVE GetTimes'
    BY <1>4 DEF Restart, GetTimes
  <1>5. ASSUME NEW t \in Threads, Clear(t) PROVE GetTimes'
    BY <1>5 DEF Clear, ClearBegin, GetTimes
  <1>6. ASSUME NEW t \in Threads, DoDestroy(t) PROVE GetTimes'
    BY <1>6 DEF DoDestroy, ClearBegin, GetTimes
  <1>7. ASSUME NEW t \in Threads, Enqueue(t) PROVE GetTimes'
    BY <1>7 DEF Enqueue, GetTimes
  <1>8. ASSUME NEW t \in Threads, EnqueueDelayed(t) PROVE GetTimes'
    BY <1>8 DEF EnqueueDelayed, GetTimes
  <1>9. ASSUME NEW t \in Threads, WakeUp(t) PROVE GetTimes'
    BY <1>9 DEF WakeUp, SetEvent, GetTimes
  <1>10. ASSUME NEW t \in Threads, ClearMessage(t) PROVE GetTimes'
    BY <1>10 DEF ClearMessage, GetTimes
  <1>11. ASSUME NEW t \in Threads, ClearDelayed(t) PROVE GetTimes'
    BY <1>11 DEF ClearDelayed, GetTimes
  <1>12. ASSUME NEW t \in Threads, ClearEnd(t) PROVE GetTimes'
    BY <1>12 DEF ClearEnd, GetTimes
  <1>13. ASSUME NEW cms \in CmsLoops, ProcessMessages(cms) PROVE GetTimes'
    BY <1>13
    DEF ProcessMessages, GetTimes, Gets, NoGet, kForever, TypeOK,
        OwnerTypes, QueueTypes
  <1>14. ASSUME Peek PROVE GetTimes'
    BY <1>14
    DEF Peek, GetTimes, Gets, NoGet, kForever, TypeOK, OwnerTypes,
        QueueTypes
  <1>15. ASSUME GetBegin PROVE GetTimes'
    <2>1. get \in Gets /\ now \in Nat
      BY TypeFacts
    <2>2. CASE fPeekKeep_
      BY <1>15, <2>2 DEF GetBegin, GetTimes
    <2>3. CASE ~fPeekKeep_
      <3>1. get' = [get EXCEPT !.msStart = now, !.msCurrent = now,
                              !.firstPass = TRUE]
        BY <1>15, <2>3 DEF GetBegin
      <3>2. /\ get'.cmsWait = get.cmsWait /\ get'.msStart = now
            /\ get'.msCurrent = now /\ get'.cmsDelayNext = get.cmsDelayNext
        BY <2>1, <3>1 DEF Gets
      <3> QED
        BY <1>15, <2>1, <3>2 DEF GetBegin, GetTimes
    <2> QED
      BY <2>2, <2>3
  <1>16. ASSUME GetPeeked PROVE GetTimes'
    BY <1>16 DEF GetPeeked, GetTimes
  <1>17. ASSUME ScanBegin PROVE GetTimes'
    BY <1>17 DEF ScanBegin, GetTimes
  <1>18. ASSUME FireDelayed PROVE GetTimes'
    BY <1>18 DEF FireDelayed, GetTimes
  <1>19. ASSUME FireEnd PROVE GetTimes'
    <2>1. get \in Gets /\ now \in Nat
      BY TypeFacts
    <2>2. ASSUME NEW e \in delayed_messages_, get.msCurrent < e.run
          PROVE  e.run - get.msCurrent \in 1..MaxTime
      <3>1. e.run \in Int /\ e.run <= MaxTime
        BY DEF TypeOK, QueueTypes, Entries, DueTimes
      <3> QED
        BY <2>1, <2>2, <3>1 DEF Gets
    <2>3. CASE delayed_messages_ = {}
      BY <1>19, <2>1, <2>3 DEF FireEnd, GetTimes, Gets
    <2>4. CASE delayed_messages_ # {}
      <3>1. PICK e \in delayed_messages_ :
              /\ get.msCurrent < e.run
              /\ get' = [get EXCEPT !.firstPass = FALSE,
                                    !.cmsDelayNext = e.run - get.msCurrent]
        BY <1>19, <2>4 DEF FireEnd
      <3>2. /\ get'.cmsWait = get.cmsWait /\ get'.msStart = get.msStart
            /\ get'.msCurrent = get.msCurrent
            /\ get'.cmsDelayNext = e.run - get.msCurrent
        BY <2>1, <3>1 DEF Gets
      <3> QED
        BY <1>19, <2>2, <3>1, <3>2 DEF FireEnd, GetTimes
    <2> QED
      BY <2>3, <2>4
  <1>20. ASSUME Pull PROVE GetTimes'
    BY <1>20 DEF Pull, GetTimes
  <1>21. ASSUME PullNothing PROVE GetTimes'
    BY <1>21 DEF PullNothing, GetTimes
  <1>22. ASSUME DisposeMessage PROVE GetTimes'
    BY <1>22 DEF DisposeMessage, GetTimes
  <1>23. ASSUME PeekKeep PROVE GetTimes'
    BY <1>23
    DEF PeekKeep, GetTimes, Gets, NoGet, kForever, TypeOK, OwnerTypes,
        QueueTypes
  <1>24. ASSUME Dispatch PROVE GetTimes'
    BY <1>24
    DEF Dispatch, GetTimes, Gets, NoGet, kForever, TypeOK, OwnerTypes,
        QueueTypes
  <1>25. ASSUME DispatchEnd PROVE GetTimes'
    <2>1. CASE UNCHANGED get
      BY <1>25, <2>1 DEF DispatchEnd, GetTimes
    <2>2. CASE get' = [get EXCEPT !.cmsWait = loop.msEnd - now]
      <3>1. get \in Gets
        BY TypeFacts
      <3>2. /\ get'.cmsWait = loop.msEnd - now /\ get'.msStart = get.msStart
            /\ get'.msCurrent = get.msCurrent
            /\ get'.cmsDelayNext = get.cmsDelayNext
        BY <2>2, <3>1 DEF Gets
      <3>3. CASE now <= loop.msEnd
        <4>1. loop.msEnd - now \in -1..MaxTime
          BY <3>3 DEF TypeOK, OwnerTypes, QueueTypes
        <4> QED
          BY <1>25, <3>2, <4>1 DEF DispatchEnd, GetTimes
      <3>4. CASE ~(now <= loop.msEnd)
        BY <1>25, <3>4 DEF DispatchEnd, GetTimes
      <3> QED
        BY <3>3, <3>4
    <2> QED
      BY <1>25, <2>1, <2>2 DEF DispatchEnd
  <1>26. ASSUME WaitBegin PROVE GetTimes'
    BY <1>26
    DEF WaitBegin, GetTimes, Gets, NoGet, kForever, TypeOK, OwnerTypes,
        QueueTypes
  <1>27. ASSUME GetQuit PROVE GetTimes'
    BY <1>27 DEF GetQuit, GetTimes
  <1>28. ASSUME WaitSignaled PROVE GetTimes'
    <2>1. get \in Gets /\ now \in Nat
      BY TypeFacts
    <2>2. CASE wpc' = "false"
      BY <1>28, <2>2 DEF WaitSignaled, AfterWait, GetTimes
    <2>3. CASE wpc' = "scan"
      <3>1. get' = [get EXCEPT !.msCurrent = now, !.deadline = kForever,
                      !.cmsDelayNext = kForever, !.firstPass = TRUE]
        BY <1>28, <2>3 DEF WaitSignaled, AfterWait
      <3>2. /\ get'.cmsWait = get.cmsWait /\ get'.msStart = get.msStart
            /\ get'.msCurrent = now /\ get'.cmsDelayNext = kForever
            /\ get.msStart <= now
        BY <2>1, <3>1 DEF GetTimes, Gets
      <3> QED
        BY <1>28, <2>1, <3>2 DEF WaitSignaled, AfterWait, GetTimes
    <2> QED
      BY <1>28, <2>2, <2>3 DEF WaitSignaled, AfterWait
  <1>29. ASSUME WaitTimeout PROVE GetTimes'
    <2>1. get \in Gets /\ now \in Nat
      BY TypeFacts
    <2>2. CASE wpc' = "false"
      BY <1>29, <2>2 DEF WaitTimeout, AfterWait, GetTimes
    <2>3. CASE wpc' = "scan"
      <3>1. get' = [get EXCEPT !.msCurrent = now, !.deadline = kForever,
                      !.cmsDelayNext = kForever, !.firstPass = TRUE]
        BY <1>29, <2>3 DEF WaitTimeout, AfterWait
      <3>2. /\ get'.cmsWait = get.cmsWait /\ get'.msStart = get.msStart
            /\ get'.msCurrent = now /\ get'.cmsDelayNext = kForever
            /\ get.msStart <= now
        BY <2>1, <3>1 DEF GetTimes, Gets
      <3> QED
        BY <1>29, <2>1, <3>2 DEF WaitTimeout, AfterWait, GetTimes
    <2> QED
      BY <1>29, <2>2, <2>3 DEF WaitTimeout, AfterWait
  <1>30. ASSUME GetFalse PROVE GetTimes'
    BY <1>30
    DEF GetFalse, GetTimes, Gets, NoGet, kForever, TypeOK, OwnerTypes,
        QueueTypes
  <1>31. ASSUME NEW h \in Handlers, DestroyHandler(h) PROVE GetTimes'
    BY <1>31 DEF DestroyHandler, GetTimes
  <1>32. ASSUME Tick PROVE GetTimes'
    BY <1>32
    DEF Tick, GetTimes, Gets, NoGet, kForever, TypeOK, OwnerTypes,
        QueueTypes
  <1>33. CASE UNCHANGED vars
    BY <1>33 DEF vars, GetTimes
  <1> QED
    BY <1>1, <1>2, <1>3, <1>4, <1>5, <1>6, <1>7, <1>8, <1>9, <1>10, <1>11,
       <1>12, <1>13, <1>14, <1>15, <1>16, <1>17, <1>18, <1>19, <1>20, <1>21,
       <1>22, <1>23, <1>24, <1>25, <1>26, <1>27, <1>28, <1>29, <1>30, <1>31,
       <1>32, <1>33
    DEF Next, CallStep, CallBegin, WorkerStep

\* Every step keeps the invariant of the sleeping owner, when times fit an int.
LEMMA SleepStep ==
  ASSUME TimesFit, TypeOK, GetTimes, SleepInv, [Next]_vars
  PROVE  SleepInv'
  \* A pending wake-up is lost to nothing but the wait that it ends.
  <1>WakeKept.
    ASSUME TypeOK, [Next]_vars, WakePending
    PROVE  WakePending' \/ (wpc = "wait" /\ wpc' # "wait")
    <2> USE <1>WakeKept
    <2> USE DEF TypeOK, lists, peek, owner, handlers, history
    <2>1. ASSUME NEW t \in Threads, Post(t) PROVE WakePending'
      BY <2>1 DEF Post, PostBegin, WakePending, Goto, Idle, Wake, CanCall
    <2>2. ASSUME NEW t \in Threads, DoDelayPost(t) PROVE WakePending'
      BY <2>2
      DEF DoDelayPost, PostBegin, WakePending, Goto, Idle, Wake, CanCall
    <2>3. ASSUME NEW t \in Threads, Quit(t) PROVE WakePending'
      BY <2>3 DEF Quit, WakePending, Goto, Idle, Wake, CanCall
    <2>4. ASSUME NEW t \in Threads, Restart(t) PROVE WakePending'
      BY <2>4 DEF Restart, WakePending
    <2>5. ASSUME NEW t \in Threads, Clear(t) PROVE WakePending'
      BY <2>5 DEF Clear, ClearBegin, WakePending, Goto, Idle, Wake, CanCall
    <2>6. ASSUME NEW t \in Threads, DoDestroy(t) PROVE WakePending'
      BY <2>6 DEF DoDestroy, ClearBegin, WakePending, Goto, Idle, Wake, CanCall
    <2>7. ASSUME NEW t \in Threads, Enqueue(t) PROVE WakePending'
      BY <2>7 DEF Enqueue, WakePending, Goto, Idle, Wake, CanCall
    <2>8. ASSUME NEW t \in Threads, EnqueueDelayed(t) PROVE WakePending'
      BY <2>8 DEF EnqueueDelayed, WakePending, Goto, Idle, Wake, CanCall
    <2>9. ASSUME NEW t \in Threads, WakeUp(t) PROVE WakePending'
      BY <2>9 DEF WakeUp, SetEvent, WakePending, Goto, Idle, Wake, CanCall
    <2>10. ASSUME NEW t \in Threads, ClearMessage(t) PROVE WakePending'
      BY <2>10 DEF ClearMessage, WakePending
    <2>11. ASSUME NEW t \in Threads, ClearDelayed(t) PROVE WakePending'
      BY <2>11 DEF ClearDelayed, WakePending
    <2>12. ASSUME NEW t \in Threads, ClearEnd(t) PROVE WakePending'
      BY <2>12 DEF ClearEnd, WakePending, Goto, Idle, Wake, CanCall
    <2>13. ASSUME NEW cms \in CmsLoops, ProcessMessages(cms) PROVE WakePending'
      BY <2>13 DEF ProcessMessages, WakePending
    <2>14. ASSUME Peek PROVE WakePending'
      BY <2>14 DEF Peek, WakePending
    <2>15. ASSUME GetBegin PROVE WakePending'
      BY <2>15 DEF GetBegin, WakePending
    <2>16. ASSUME GetPeeked PROVE WakePending'
      BY <2>16 DEF GetPeeked, WakePending
    <2>17. ASSUME ScanBegin PROVE WakePending'
      BY <2>17 DEF ScanBegin, WakePending
    <2>18. ASSUME FireDelayed PROVE WakePending'
      BY <2>18 DEF FireDelayed, WakePending
    <2>19. ASSUME FireEnd PROVE WakePending'
      BY <2>19 DEF FireEnd, WakePending
    <2>20. ASSUME Pull PROVE WakePending'
      BY <2>20 DEF Pull, WakePending
    <2>21. ASSUME PullNothing PROVE WakePending'
      BY <2>21 DEF PullNothing, WakePending
    <2>22. ASSUME DisposeMessage PROVE WakePending'
      BY <2>22 DEF DisposeMessage, WakePending
    <2>23. ASSUME PeekKeep PROVE WakePending'
      BY <2>23 DEF PeekKeep, WakePending
    <2>24. ASSUME Dispatch PROVE WakePending'
      BY <2>24 DEF Dispatch, WakePending
    <2>25. ASSUME DispatchEnd PROVE WakePending'
      BY <2>25 DEF DispatchEnd, WakePending
    <2>26. ASSUME WaitBegin PROVE WakePending'
      BY <2>26 DEF WaitBegin, WakePending
    <2>27. ASSUME GetQuit PROVE WakePending'
      BY <2>27 DEF GetQuit, WakePending
    <2>28. ASSUME WaitTimeout PROVE WakePending'
      BY <2>28 DEF WaitTimeout, AfterWait, WakePending
    <2>29. ASSUME GetFalse PROVE WakePending'
      BY <2>29 DEF GetFalse, WakePending
    <2>30. ASSUME NEW h \in Handlers, DestroyHandler(h) PROVE WakePending'
      BY <2>30 DEF DestroyHandler, WakePending
    <2>31. ASSUME Tick PROVE WakePending'
      BY <2>31 DEF Tick, WakePending
    <2>32. ASSUME WaitSignaled PROVE wpc = "wait" /\ wpc' # "wait"
      BY <2>32 DEF WaitSignaled, AfterWait
    <2>33. CASE UNCHANGED vars
      BY <2>33 DEF vars, WakePending
    <2> QED
      BY <2>1, <2>2, <2>3, <2>4, <2>5, <2>6, <2>7, <2>8, <2>9, <2>10, <2>11,
         <2>12, <2>13, <2>14, <2>15, <2>16, <2>17, <2>18, <2>19, <2>20, <2>21,
         <2>22, <2>23, <2>24, <2>25, <2>26, <2>27, <2>28, <2>29, <2>30, <2>31,
         <2>32, <2>33
      DEF Next, CallStep, CallBegin, WorkerStep
  <1>1. WakePending => WakePending' \/ (wpc = "wait" /\ wpc' # "wait")
    BY <1>WakeKept
  <1> USE DEF lists, peek, owner, handlers, history
  <1>2. ASSUME NEW t \in Threads, Post(t) PROVE SleepInv'
    BY <1>2, <1>1 DEF Post, PostBegin, SleepInv, Looked
  <1>3. ASSUME NEW t \in Threads, DoDelayPost(t) PROVE SleepInv'
    BY <1>3, <1>1 DEF DoDelayPost, PostBegin, SleepInv, Looked
  <1>4. ASSUME NEW t \in Threads, Quit(t) PROVE SleepInv'
    <2>1. WakePending'
      BY <1>4 DEF TypeOK, Quit, Goto, WakePending
    <2> QED
      BY <1>4, <2>1 DEF Quit, SleepInv, Looked
  <1>5. ASSUME NEW t \in Threads, Restart(t) PROVE SleepInv'
    BY <1>5, <1>1 DEF Restart, SleepInv, Looked
  <1>6. ASSUME NEW t \in Threads, Clear(t) PROVE SleepInv'
    BY <1>6, <1>1 DEF Clear, ClearBegin, SleepInv, Looked
  <1>7. ASSUME NEW t \in Threads, DoDestroy(t) PROVE SleepInv'
    BY <1>7, <1>1 DEF DoDestroy, ClearBegin, SleepInv, Looked
  <1>8. ASSUME NEW t \in Threads, Enqueue(t) PROVE SleepInv'
    <2>1. WakePending'
      BY <1>8 DEF TypeOK, Enqueue, Goto, WakePending
    <2> QED
      BY <1>8, <2>1 DEF Enqueue, SleepInv, Looked
  <1>9. ASSUME NEW t \in Threads, EnqueueDelayed(t) PROVE SleepInv'
    <2>1. WakePending'
      BY <1>9 DEF TypeOK, EnqueueDelayed, Goto, WakePending
    <2> QED
      BY <1>9, <2>1 DEF EnqueueDelayed, SleepInv, Looked
  <1>10. ASSUME NEW t \in Threads, WakeUp(t) PROVE SleepInv'
    BY <1>10, <1>1 DEF WakeUp, SetEvent, SleepInv, Looked
  <1>11. ASSUME NEW t \in Threads, ClearMessage(t) PROVE SleepInv'
    BY <1>11, <1>1 DEF ClearMessage, SleepInv, Looked
  <1>12. ASSUME NEW t \in Threads, ClearDelayed(t) PROVE SleepInv'
    BY <1>12, <1>1 DEF ClearDelayed, SleepInv, Looked
  <1>13. ASSUME NEW t \in Threads, ClearEnd(t) PROVE SleepInv'
    BY <1>13, <1>1 DEF ClearEnd, SleepInv, Looked
  <1>14. ASSUME NEW cms \in CmsLoops, ProcessMessages(cms) PROVE SleepInv'
    BY <1>14, <1>1 DEF ProcessMessages, SleepInv, Looked, NoGet
  <1>15. ASSUME Peek PROVE SleepInv'
    BY <1>15, <1>1 DEF Peek, SleepInv, Looked, NoGet
  <1>16. ASSUME GetBegin PROVE SleepInv'
    <2>1. wpc' = "scan" => get'.firstPass
      BY <1>16, TypeFacts DEF GetBegin, Gets
    <2> QED
      BY <1>16, <1>1, <2>1 DEF GetBegin, SleepInv, Looked
  <1>17. ASSUME GetPeeked PROVE SleepInv'
    BY <1>17, <1>1 DEF GetPeeked, SleepInv, Looked
  <1>18. ASSUME ScanBegin PROVE SleepInv'
    BY <1>18, <1>1 DEF ScanBegin, SleepInv, Looked
  <1>19. ASSUME FireDelayed PROVE SleepInv'
    BY <1>19, <1>1 DEF FireDelayed, SleepInv, Looked
  <1>20. ASSUME FireEnd PROVE SleepInv'
    <2>1. ASSUME delayed_messages_ # {}
          PROVE  get'.cmsDelayNext # kForever
      <3>1. PICK e \in delayed_messages_ :
              /\ get.msCurrent < e.run
              /\ get' = [get EXCEPT !.firstPass = FALSE,
                                    !.cmsDelayNext = e.run - get.msCurrent]
        BY <1>20, <2>1 DEF FireEnd
      <3>2. e.run \in Int
        BY DEF TypeOK, QueueTypes, Entries
      <3> QED
        BY <3>1, <3>2, TypeFacts DEF Gets, kForever
    <2> QED
      BY <1>20, <1>1, <2>1 DEF FireEnd, SleepInv, Looked
  <1>21. ASSUME Pull PROVE SleepInv'
    BY <1>21, <1>1 DEF Pull, SleepInv, Looked
  <1>22. ASSUME PullNothing PROVE SleepInv'
    BY <1>22, <1>1 DEF PullNothing, SleepInv, Looked
  <1>23. ASSUME DisposeMessage PROVE SleepInv'
    BY <1>23, <1>1 DEF DisposeMessage, SleepInv, Looked
  <1>24. ASSUME PeekKeep PROVE SleepInv'
    BY <1>24, <1>1 DEF PeekKeep, SleepInv, Looked, NoGet
  <1>25. ASSUME Dispatch PROVE SleepInv'
    BY <1>25, <1>1 DEF Dispatch, SleepInv, Looked, NoGet
  <1>26. ASSUME DispatchEnd PROVE SleepInv'
    BY <1>26, <1>1 DEF DispatchEnd, SleepInv, Looked
  <1>27. ASSUME WaitBegin PROVE SleepInv'
    <2>1. get \in Gets /\ now \in Nat
      BY TypeFacts
    <2>2. /\ CmsNext \in -1..MaxTime
          /\ get.cmsDelayNext # kForever => CmsNext # kForever
      BY <2>1, QueueAssumption DEF CmsNext, GetTimes, Gets, kForever
    <2>3. ToInt(CmsNext) = CmsNext
      BY <2>2, ToIntExact
    <2>4. /\ get'.cmsDelayNext = get.cmsDelayNext
          /\ get.cmsDelayNext # kForever => get'.deadline # kForever
      BY <1>27, <2>1, <2>2, <2>3 DEF WaitBegin, Gets, kForever
    <2> QED
      BY <1>27, <1>1, <2>4 DEF WaitBegin, SleepInv, Looked
  <1>28. ASSUME GetQuit PROVE SleepInv'
    BY <1>28, <1>1 DEF GetQuit, SleepInv, Looked
  <1>29. ASSUME WaitSignaled PROVE SleepInv'
    <2>1. wpc' = "scan" => get'.firstPass
      BY <1>29, TypeFacts DEF WaitSignaled, AfterWait, Gets
    <2> QED
      BY <1>29, <2>1 DEF WaitSignaled, AfterWait, SleepInv, Looked
  <1>30. ASSUME WaitTimeout PROVE SleepInv'
    <2>1. wpc' = "scan" => get'.firstPass
      BY <1>30, TypeFacts DEF WaitTimeout, AfterWait, Gets
    <2> QED
      BY <1>30, <1>1, <2>1 DEF WaitTimeout, AfterWait, SleepInv, Looked
  <1>31. ASSUME GetFalse PROVE SleepInv'
    BY <1>31, <1>1 DEF GetFalse, SleepInv, Looked, NoGet
  <1>32. ASSUME NEW h \in Handlers, DestroyHandler(h) PROVE SleepInv'
    BY <1>32, <1>1 DEF DestroyHandler, SleepInv, Looked
  <1>33. ASSUME Tick PROVE SleepInv'
    BY <1>33, <1>1 DEF Tick, SleepInv, Looked
  <1>34. CASE UNCHANGED vars
    BY <1>34 DEF vars, SleepInv, Looked, WakePending
  <1> QED
    BY <1>2, <1>3, <1>4, <1>5, <1>6, <1>7, <1>8, <1>9, <1>10, <1>11, <1>12,
       <1>13, <1>14, <1>15, <1>16, <1>17, <1>18, <1>19, <1>20, <1>21, <1>22,
       <1>23, <1>24, <1>25, <1>26, <1>27, <1>28, <1>29, <1>30, <1>31, <1>32,
       <1>33, <1>34
    DEF Next, CallStep, CallBegin, WorkerStep

\* No timer is due beyond the horizon, and Get computes with times read
\* before.
LEMMA TimesKept == Spec => [](TypeOK /\ DueTimes /\ GetTimes)
  <1>1. Init => DueTimes /\ GetTimes
    BY QueueAssumption DEF Init, DueTimes, GetTimes, Idle, NoGet, kForever
  <1> QED
    BY <1>1, TypeCorrect, DueStep, GetStep, PTL DEF Spec

\* The sleep invariant, with what it rests on, holds in every state.
LEMMA SleepKept ==
  ASSUME TimesFit
  PROVE  Spec => [](TypeOK /\ DueTimes /\ GetTimes /\ SleepInv)
  <1>1. Init => SleepInv
    BY DEF Init, SleepInv, Looked
  <1> QED
    BY <1>1, TimesKept, SleepStep, PTL DEF Spec

\* The owner never sleeps on a ready message, on Quit or, without a deadline,
\* on a timer (NoLostWakeup), provided that the times in play fit an int: Post
\* and Quit publish before they wake, Get looks before it sleeps, and the
\* event keeps what comes in between (thread.cc:319-451).
THEOREM WakeupsKept ==
  ASSUME TimesFit
  PROVE  Spec => []NoLostWakeup
  <1>1. SleepInv => NoLostWakeup
    BY DEF SleepInv, NoLostWakeup, Looked
  <1> QED
    BY <1>1, SleepKept, PTL

-----------------------------------------------------------------------------
(* Every payload has one owner, as long as no thread but the owner of the   *)
(* queue clears it while it is peeked at.                                   *)

\* Peek is not used, or the owner is the only one that clears.
PeekAlone == UsePeek => Clearers \subseteq {Worker}

-----------------------------------------------------------------------------
(* The invariant.                                                          *)

\* Where a message may be; Peeked is the place in msgPeek_.
Posts(t, m) == call[t].op \in {"post", "delaypost"} /\ call[t].msg = m
InACall(m) == \E t \in Threads : Posts(t, m)
Listed(m) == \E i \in 1..Len(messages_) : messages_[i] = m
Timed(m) == \E d \in delayed_messages_ : d.msg = m
Held(m) == pmsg = m
Delivered(m) == \E i \in 1..Len(delivered) : delivered[i] = m
HandedBack(m) == m \in removed
Deleted(m) == deletes[m] # 0

\* A posted message is in one place, any other in none.
InOnePlace(m) ==
  /\ m \in posted <=>
       \/ InACall(m) \/ Listed(m) \/ Timed(m) \/ Peeked(m) \/ Held(m)
       \/ Delivered(m) \/ HandedBack(m) \/ Deleted(m)
  /\ InACall(m) =>
       ~(\/ Listed(m) \/ Timed(m) \/ Peeked(m) \/ Held(m) \/ Delivered(m)
         \/ HandedBack(m) \/ Deleted(m))
  /\ Listed(m) =>
       ~(\/ Timed(m) \/ Peeked(m) \/ Held(m) \/ Delivered(m)
         \/ HandedBack(m) \/ Deleted(m))
  /\ Timed(m) =>
       ~(\/ Peeked(m) \/ Held(m) \/ Delivered(m) \/ HandedBack(m)
         \/ Deleted(m))
  /\ Peeked(m) => ~(Held(m) \/ Delivered(m) \/ HandedBack(m) \/ Deleted(m))
  /\ Held(m) => ~(Delivered(m) \/ HandedBack(m) \/ Deleted(m))
  /\ Delivered(m) => ~(HandedBack(m) \/ Deleted(m))
  /\ HandedBack(m) => ~Deleted(m)

\* And it is there once.
CallsOnce ==
  \A t, u \in Threads, m \in Messages : Posts(t, m) /\ Posts(u, m) => t = u
ListOnce ==
  \A i, j \in 1..Len(messages_) : messages_[i] = messages_[j] => i = j
TimersOnce == \A d, e \in delayed_messages_ : d.msg = e.msg => d = e
DeliveredOnce ==
  \A i, j \in 1..Len(delivered) : delivered[i] = delivered[j] => i = j
DeletedOnce == \A m \in Messages : deletes[m] \in {0, 1}

\* A peeked message is kept until the owner comes back for it.
PeekKept ==
  /\ get.peeking => UsePeek
  /\ fPeekKeep_ => UsePeek /\ wpc \in {"idle", "get", "takepeek"}
  /\ wpc = "takepeek" => fPeekKeep_

OwnerInv ==
  /\ \A m \in Messages : InOnePlace(m)
  /\ CallsOnce /\ ListOnce /\ TimersOnce /\ DeliveredOnce /\ DeletedOnce
  /\ PeekKept

-----------------------------------------------------------------------------
\* What erasing one element of a list leaves, as ClearInternal does.
LEMMA RemoveIndices ==
  ASSUME NEW s \in Seq(Messages), NEW i \in 1..Len(s)
  PROVE  LET r == SubSeq(s, 1, i - 1) \o SubSeq(s, i + 1, Len(s))
         IN  /\ Len(r) = Len(s) - 1
             /\ \A k \in 1..(Len(s) - 1) :
                  r[k] = IF k < i THEN s[k] ELSE s[k + 1]
<1> DEFINE front == SubSeq(s, 1, i - 1)
           back == SubSeq(s, i + 1, Len(s))
           r == front \o back
<1>1. /\ front \in Seq(Messages)
      /\ Len(front) = i - 1
      /\ \A k \in 1..(i - 1) : front[k] = s[k]
  BY SubSeqProperties
<1>2. /\ back \in Seq(Messages)
      /\ Len(back) = Len(s) - i
      /\ \A k \in 1..(Len(s) - i) : back[k] = s[i + k]
  <2>1. \A k \in (i + 1)..Len(s) : s[k] \in Messages
    OBVIOUS
  <2>2. i + 1 \in Int /\ Len(s) \in Int /\ i \in Int
    OBVIOUS
  <2>3. back \in Seq(Messages)
    BY <2>1, <2>2, SubSeqProperties
  <2>4. Len(back) = Len(s) - i
    BY <2>1, <2>2, SubSeqProperties
  <2>5. \A k \in 1..(Len(s) - (i + 1) + 1) : back[k] = s[(i + 1) + k - 1]
    BY <2>1, <2>2, SubSeqProperties
  <2>6. ASSUME NEW k \in 1..(Len(s) - i) PROVE back[k] = s[i + k]
    <3>1. k \in Int /\ k \in 1..(Len(s) - (i + 1) + 1)
      BY <2>2
    <3>2. back[k] = s[(i + 1) + k - 1]
      BY <2>5, <3>1
    <3>3. (i + 1) + k - 1 = i + k
      BY <2>2, <3>1
    <3> QED
      BY <3>2, <3>3
  <2> QED
    BY <2>3, <2>4, <2>6
<1> HIDE DEF front, back
<1>4. Len(r) = Len(front) + Len(back)
  <2>1. Len(front \o back) = Len(front) + Len(back)
    BY <1>1, <1>2, ConcatProperties
  <2> QED
    BY <2>1
<1>5. \A k \in 1..(Len(front) + Len(back)) :
        r[k] = IF k <= Len(front) THEN front[k] ELSE back[k - Len(front)]
  <2>1. \A k \in 1..(Len(front) + Len(back)) :
          (front \o back)[k] =
            IF k <= Len(front) THEN front[k] ELSE back[k - Len(front)]
    BY <1>1, <1>2, ConcatProperties
  <2> QED
    BY <2>1
<1> HIDE DEF r
<1>6. Len(s) \in Nat /\ i \in 1..Len(s)
  OBVIOUS
<1>7. Len(r) = Len(s) - 1
  BY <1>1, <1>2, <1>4, <1>6
<1>8. ASSUME NEW k \in 1..(Len(s) - 1)
      PROVE  r[k] = IF k < i THEN s[k] ELSE s[k + 1]
  <2>1. r[k] = IF k <= i - 1 THEN front[k] ELSE back[k - (i - 1)]
    BY <1>1, <1>2, <1>5, <1>6
  <2>2. CASE k < i
    BY <1>1, <1>6, <2>1, <2>2
  <2>3. CASE ~(k < i)
    <3>1. k - (i - 1) \in 1..(Len(s) - i)
      BY <1>6, <2>3
    <3>2. back[k - (i - 1)] = s[i + (k - (i - 1))]
      BY <1>2, <3>1
    <3> QED
      BY <2>1, <2>3, <3>2
  <2> QED
    BY <2>2, <2>3
<1> QED
  BY <1>7, <1>8 DEF r, front, back

-----------------------------------------------------------------------------
\* Every step moves a message as a whole from one place to another.
LEMMA OwnerStep ==
  ASSUME PeekAlone, TypeOK, OwnerInv, [Next]_vars
  PROVE  OwnerInv'
<1> USE QueueAssumption
    DEF TypeOK, OwnerInv, lists, peek, owner, handlers, history
(* What leaves a place alone keeps who is there.                           *)
<1>list. ASSUME messages_' = messages_
         PROVE  ListOnce' /\ \A m \in Messages : Listed(m)' <=> Listed(m)
  BY <1>list DEF ListOnce, Listed
<1>timers. ASSUME delayed_messages_' = delayed_messages_
           PROVE  TimersOnce' /\ \A m \in Messages : Timed(m)' <=> Timed(m)
  BY <1>timers DEF TimersOnce, Timed
<1>peek. ASSUME UNCHANGED peek
         PROVE  \A m \in Messages : Peeked(m)' <=> Peeked(m)
  BY <1>peek DEF Peeked
<1>hand. ASSUME pmsg' = pmsg
         PROVE  \A m \in Messages : Held(m)' <=> Held(m)
  BY <1>hand DEF Held
<1>handlers. ASSUME delivered' = delivered
             PROVE  /\ DeliveredOnce'
                    /\ \A m \in Messages : Delivered(m)' <=> Delivered(m)
  BY <1>handlers DEF DeliveredOnce, Delivered
<1>back. ASSUME removed' = removed
         PROVE  \A m \in Messages : HandedBack(m)' <=> HandedBack(m)
  BY <1>back DEF HandedBack
<1>deleted. ASSUME deletes' = deletes
            PROVE  /\ DeletedOnce'
                   /\ \A m \in Messages : Deleted(m)' <=> Deleted(m)
  BY <1>deleted DEF DeletedOnce, Deleted
<1>same. ASSUME call' = call
         PROVE  /\ CallsOnce'
                /\ \A m \in Messages : InACall(m)' <=> InACall(m)
  BY <1>same DEF CallsOnce, InACall, Posts
<1>calls. ASSUME NEW t \in Threads, NEW c \in {Idle, Wake} \cup
                   [op : {"clear"}, handler : Handlers \cup {AnyHandler},
                    collect : BOOLEAN],
                 call' = [call EXCEPT ![t] = c],
                 call[t].op \notin {"post", "delaypost"}
          PROVE  /\ CallsOnce'
                 /\ \A m \in Messages : InACall(m)' <=> InACall(m)
  <2>1. c.op \notin {"post", "delaypost"}
    BY <1>calls DEF Idle, Wake
  <2>2. \A u \in Threads, m \in Messages : Posts(u, m)' <=> Posts(u, m)
    BY <1>calls, <2>1 DEF Posts
  <2> HIDE DEF Posts
  <2> QED
    BY <2>2 DEF CallsOnce, InACall
<1>still. ASSUME UNCHANGED <<messages_, delayed_messages_, peek, pmsg, posted,
                             deletes, removed, delivered>>,
                 CallsOnce',
                 \A m \in Messages : InACall(m)' <=> InACall(m),
                 PeekKept'
          PROVE  OwnerInv'
  <2>1. \A m \in Messages : InOnePlace(m)'
    BY <1>still, <1>list, <1>timers, <1>peek, <1>hand, <1>handlers, <1>back,
       <1>deleted DEF InOnePlace
  <2> QED
    BY <1>still, <2>1, <1>list, <1>timers, <1>handlers, <1>deleted
(* The steps that move no message.                                         *)
<1>1. CASE UNCHANGED vars
  BY <1>1, <1>still, <1>same DEF vars, PeekKept
<1>2. ASSUME NEW t \in Threads, WakeUp(t) PROVE OwnerInv'
  <2>1. call[t].op \notin {"post", "delaypost"}
    BY <1>2 DEF WakeUp, Wake
  <2>2. PeekKept'
    BY <1>2 DEF WakeUp, PeekKept
  <2> QED
    BY <1>2, <1>still, <1>calls, <2>1, <2>2 DEF WakeUp, Goto
<1>3. ASSUME NEW t \in Threads, Quit(t) PROVE OwnerInv'
  <2>1. call[t].op \notin {"post", "delaypost"}
    BY <1>3 DEF Quit, CanCall, Idle
  <2>2. PeekKept'
    BY <1>3 DEF Quit, PeekKept
  <2> QED
    BY <1>3, <1>still, <1>calls, <2>1, <2>2 DEF Quit, Goto
<1>4. ASSUME NEW t \in Threads, Restart(t) PROVE OwnerInv'
  <2>1. PeekKept'
    BY <1>4 DEF Restart, PeekKept
  <2> QED
    BY <1>4, <1>still, <1>same, <2>1 DEF Restart
<1>5. ASSUME NEW t \in Threads, NEW h \in Handlers \cup {AnyHandler},
             NEW collect \in BOOLEAN, ClearBegin(t, h, collect),
             call[t] = Idle, ~fPeekKeep_, PeekKept'
      PROVE  OwnerInv'
  <2>1. call[t].op \notin {"post", "delaypost"}
    BY <1>5 DEF Idle
  <2> QED
    BY <1>5, <1>still, <1>calls, <2>1 DEF ClearBegin, Goto
<1>6. ASSUME NEW t \in Threads, Clear(t) PROVE OwnerInv'
  <2>1. ~fPeekKeep_
    <3>1. CASE UsePeek
      <4>1. t = Worker /\ wpc = "dispatch"
        BY <1>6, <3>1 DEF Clear, CanCall, PeekAlone
      <4> QED
        BY <4>1 DEF PeekKept
    <3>2. CASE ~UsePeek
      BY <3>2 DEF PeekKept
    <3> QED
      BY <3>1, <3>2
  <2>2. PeekKept'
    BY <1>6, <2>1 DEF Clear, ClearBegin, PeekKept
  <2> QED
    BY <1>5, <1>6, <2>1, <2>2 DEF Clear, CanCall
<1>7. ASSUME NEW t \in Threads, DoDestroy(t) PROVE OwnerInv'
  <2>1. ~fPeekKeep_
    BY <1>7 DEF DoDestroy, PeekKept
  <2>2. PeekKept'
    BY <1>7, <2>1 DEF DoDestroy, ClearBegin, PeekKept
  <2> QED
    BY <1>5, <1>7, <2>1, <2>2 DEF DoDestroy
<1>8. ASSUME NEW t \in Threads, ClearEnd(t) PROVE OwnerInv'
  <2>1. call[t].op \notin {"post", "delaypost"}
    BY <1>8 DEF ClearEnd
  <2>2. PeekKept'
    BY <1>8 DEF ClearEnd, PeekKept
  <2> QED
    BY <1>8, <1>still, <1>calls, <2>1, <2>2 DEF ClearEnd, Goto
<1>9. ASSUME NEW h \in Handlers, DestroyHandler(h) PROVE OwnerInv'
  <2>1. PeekKept'
    BY <1>9 DEF DestroyHandler, PeekKept
  <2> QED
    BY <1>9, <1>still, <1>same, <2>1 DEF DestroyHandler
<1>10. ASSUME NEW cms \in CmsLoops, ProcessMessages(cms) PROVE OwnerInv'
  <2>1. PeekKept'
    BY <1>10 DEF ProcessMessages, NoGet, PeekKept
  <2> QED
    BY <1>10, <1>still, <1>same, <2>1 DEF ProcessMessages
<1>11. CASE Peek
  <2>1. PeekKept'
    BY <1>11 DEF Peek, PeekKept
  <2> QED
    BY <1>11, <1>still, <1>same, <2>1 DEF Peek
<1>12. CASE GetBegin
  <2>1. get \in Gets
    BY TypeFacts
  <2>2. PeekKept'
    BY <1>12, <2>1 DEF GetBegin, Gets, PeekKept
  <2> QED
    BY <1>12, <1>still, <1>same, <2>2 DEF GetBegin
<1>13. CASE ScanBegin
  <2>1. PeekKept'
    BY <1>13 DEF ScanBegin, PeekKept
  <2> QED
    BY <1>13, <1>still, <1>same, <2>1 DEF ScanBegin
<1>14. CASE FireEnd
  <2>1. get \in Gets
    BY TypeFacts
  <2>2. PeekKept'
    BY <1>14, <2>1 DEF FireEnd, Gets, PeekKept
  <2> QED
    BY <1>14, <1>still, <1>same, <2>2 DEF FireEnd
<1>15. CASE PullNothing
  <2>1. PeekKept'
    BY <1>15 DEF PullNothing, PeekKept
  <2> QED
    BY <1>15, <1>still, <1>same, <2>1 DEF PullNothing
<1>16. CASE DispatchEnd
  <2>1. get \in Gets
    BY TypeFacts
  <2>2. PeekKept'
    BY <1>16, <2>1 DEF DispatchEnd, Gets, PeekKept
  <2> QED
    BY <1>16, <1>still, <1>same, <2>2 DEF DispatchEnd
<1>17. CASE WaitBegin
  <2>1. get \in Gets
    BY TypeFacts
  <2>2. PeekKept'
    BY <1>17, <2>1 DEF WaitBegin, Gets, PeekKept
  <2> QED
    BY <1>17, <1>still, <1>same, <2>2 DEF WaitBegin
<1>18. CASE GetQuit
  <2>1. PeekKept'
    BY <1>18 DEF GetQuit, PeekKept
  <2> QED
    BY <1>18, <1>still, <1>same, <2>1 DEF GetQuit
<1>19. CASE WaitSignaled \/ WaitTimeout
  <2>1. get \in Gets
    BY TypeFacts
  <2>2. /\ get'.peeking = get.peeking /\ fPeekKeep_' = fPeekKeep_
        /\ wpc = "wait" /\ wpc' \in {"false", "scan"}
    BY <1>19, <2>1 DEF WaitSignaled, WaitTimeout, AfterWait, Gets
  <2>3. PeekKept'
    BY <2>2 DEF PeekKept
  <2> QED
    BY <1>19, <1>still, <1>same, <2>3 DEF WaitSignaled, WaitTimeout, AfterWait
<1>20. CASE GetFalse
  <2>1. PeekKept'
    BY <1>20 DEF GetFalse, NoGet, PeekKept
  <2> QED
    BY <1>20, <1>still, <1>same, <2>1 DEF GetFalse
<1>21. CASE Tick
  <2>1. PeekKept'
    BY <1>21 DEF Tick, PeekKept
  <2> QED
    BY <1>21, <1>still, <1>same, <2>1 DEF Tick
(* The steps that move one.                                                *)
<1>discard. ASSUME NEW m \in Messages, NEW collect \in BOOLEAN,
                   Discard(m, collect), ~Deleted(m), ~HandedBack(m)
            PROVE  /\ DeletedOnce'
                   /\ \A n \in Messages \ {m} :
                        /\ HandedBack(n)' <=> HandedBack(n)
                        /\ Deleted(n)' <=> Deleted(n)
                   /\ HandedBack(m)' <=> ~Deleted(m)'
  <2>1. deletes \in [Messages -> Nat]
    BY DEF HistoryTypes
  <2>2. CASE collect
    BY <1>discard, <1>deleted, <2>2 DEF Discard, HandedBack
  <2>3. CASE ~collect
    <3>1. deletes' = [deletes EXCEPT ![m] = @ + 1] /\ removed' = removed
      BY <1>discard, <2>3 DEF Discard, Delete
    <3>2. deletes[m] = 0
      BY <1>discard DEF Deleted
    <3>3. deletes'[m] = 1 /\ \A n \in Messages \ {m} : deletes'[n] = deletes[n]
      BY <2>1, <3>1, <3>2
    <3>4. DeletedOnce'
      BY <3>3 DEF DeletedOnce
    <3> QED
      BY <1>discard, <1>back, <3>1, <3>3, <3>4 DEF Deleted
  <2> QED
    BY <2>2, <2>3
<1>22. ASSUME NEW t \in Threads, NEW m \in Messages, NEW next \in Calls,
              next.op \in {"post", "delaypost"}, next.msg = m,
              PostBegin(t, m, next)
       PROVE  OwnerInv'
  <2>1. m \notin posted /\ InOnePlace(m) /\ posted' = posted \cup {m}
    BY <1>22 DEF PostBegin
  <2>2. PeekKept'
    BY <1>22 DEF PostBegin, PeekKept
  <2>3. /\ UNCHANGED <<messages_, delayed_messages_, peek, pmsg, removed,
                       delivered>>
    BY <1>22 DEF PostBegin
  <2>4. CASE stop_
    <3>1. call' = call
      BY <1>22, <2>4 DEF PostBegin
    <3>2. /\ DeletedOnce'
          /\ \A n \in Messages : Deleted(n)' <=> Deleted(n) \/ n = m
      <4>1. deletes' = [deletes EXCEPT ![m] = @ + 1]
        BY <1>22, <2>4 DEF PostBegin, Delete
      <4>2. deletes[m] = 0
        BY <2>1 DEF InOnePlace, Deleted
      <4> QED
        BY <4>1, <4>2 DEF HistoryTypes, DeletedOnce, Deleted
    <3>3. \A n \in Messages : InOnePlace(n)'
      BY <2>1, <2>3, <3>1, <3>2, <1>same, <1>list, <1>timers, <1>peek,
         <1>hand, <1>handlers, <1>back DEF InOnePlace
    <3> QED
      BY <2>2, <2>3, <3>1, <3>2, <3>3, <1>same, <1>list, <1>timers,
         <1>handlers
  <2>5. CASE ~stop_
    <3>1. call' = [call EXCEPT ![t] = next] /\ deletes' = deletes
      BY <1>22, <2>5 DEF PostBegin, Goto
    <3>2. CallsOnce' /\ \A n \in Messages : InACall(n)' <=> InACall(n) \/ n = m
      <4>1. \A u \in Threads, n \in Messages :
              Posts(u, n)' <=> IF u = t THEN n = m ELSE Posts(u, n)
        BY <1>22, <3>1 DEF Posts
      <4>2. \A n \in Messages : ~Posts(t, n)
        BY <1>22 DEF PostBegin, CanCall, Idle, Posts
      <4>3. \A u \in Threads : ~Posts(u, m)
        BY <2>1 DEF InOnePlace, InACall
      <4> HIDE DEF Posts
      <4> QED
        BY <4>1, <4>2, <4>3 DEF CallsOnce, InACall
    <3>3. \A n \in Messages : InOnePlace(n)'
      BY <2>1, <2>3, <3>1, <3>2, <1>list, <1>timers, <1>peek, <1>hand,
         <1>handlers, <1>back, <1>deleted DEF InOnePlace
    <3> QED
      BY <2>2, <2>3, <3>1, <3>2, <3>3, <1>list, <1>timers, <1>handlers,
         <1>deleted
  <2> QED
    BY <2>4, <2>5
<1>leaves. ASSUME NEW t \in Threads, NEW m \in Messages, Posts(t, m),
                  call' = [call EXCEPT ![t] = Wake]
           PROVE  /\ CallsOnce'
                  /\ InACall(m)
                  /\ \A n \in Messages : InACall(n)' <=> InACall(n) /\ n # m
  <2>1. \A u \in Threads, n \in Messages :
          Posts(u, n)' <=> u # t /\ Posts(u, n)
    BY <1>leaves DEF Posts, Wake
  <2>2. \A n \in Messages : Posts(t, n) => n = m
    BY <1>leaves DEF Posts
  <2> HIDE DEF Posts
  <2> QED
    BY <1>leaves, <2>1, <2>2 DEF CallsOnce, InACall
<1>23. ASSUME NEW t \in Threads, Enqueue(t) PROVE OwnerInv'
  <2> DEFINE m == call[t].msg
  <2>1. m \in Messages /\ Posts(t, m)
    BY <1>23 DEF Enqueue, Calls, Idle, Wake, Posts
  <2>2. /\ messages_' = Append(messages_, m) /\ messages_ \in Seq(Messages)
        /\ call' = [call EXCEPT ![t] = Wake]
    BY <1>23 DEF Enqueue, Goto, QueueTypes
  <2>3. /\ UNCHANGED <<delayed_messages_, peek, pmsg, posted, deletes,
                       removed, delivered>>
        /\ PeekKept'
    BY <1>23 DEF Enqueue, Entered, PeekKept
  <2> HIDE DEF m
  <2>4. /\ CallsOnce' /\ InACall(m)
        /\ \A n \in Messages : InACall(n)' <=> InACall(n) /\ n # m
    BY <2>1, <2>2, <1>leaves
  <2>5. ~Listed(m)
    BY <2>1, <2>4 DEF InOnePlace
  <2>6. ListOnce' /\ \A n \in Messages : Listed(n)' <=> Listed(n) \/ n = m
    BY <2>1, <2>2, <2>5 DEF ListOnce, Listed
  <2>7. \A n \in Messages : InOnePlace(n)'
    BY <2>1, <2>3, <2>4, <2>6, <1>timers, <1>peek, <1>hand, <1>handlers,
       <1>back, <1>deleted DEF InOnePlace
  <2> QED
    BY <2>3, <2>4, <2>6, <2>7, <1>timers, <1>handlers, <1>deleted
<1>24. ASSUME NEW t \in Threads, EnqueueDelayed(t) PROVE OwnerInv'
  <2> DEFINE m == call[t].msg
             d == [run |-> call[t].run, num |-> delayed_next_num_, msg |-> m]
  <2>1. m \in Messages /\ Posts(t, m) /\ d.msg = m
    BY <1>24 DEF EnqueueDelayed, Calls, Idle, Wake, Posts
  <2>2. /\ delayed_messages_' = delayed_messages_ \cup {d}
        /\ call' = [call EXCEPT ![t] = Wake]
    BY <1>24 DEF EnqueueDelayed, Goto
  <2>3. /\ UNCHANGED <<messages_, peek, pmsg, posted, deletes, removed,
                       delivered>>
        /\ PeekKept'
    BY <1>24 DEF EnqueueDelayed, Entered, PeekKept
  <2> HIDE DEF m, d
  <2>4. /\ CallsOnce' /\ InACall(m)
        /\ \A n \in Messages : InACall(n)' <=> InACall(n) /\ n # m
    BY <2>1, <2>2, <1>leaves
  <2>5. ~Timed(m)
    BY <2>1, <2>4 DEF InOnePlace
  <2>6. TimersOnce' /\ \A n \in Messages : Timed(n)' <=> Timed(n) \/ n = m
    BY <2>1, <2>2, <2>5 DEF TimersOnce, Timed
  <2>7. \A n \in Messages : InOnePlace(n)'
    BY <2>1, <2>3, <2>4, <2>6, <1>list, <1>peek, <1>hand, <1>handlers,
       <1>back, <1>deleted DEF InOnePlace
  <2> QED
    BY <2>3, <2>4, <2>6, <2>7, <1>list, <1>handlers, <1>deleted
<1>25. ASSUME NEW t \in Threads, ClearMessage(t) PROVE OwnerInv'
  <2>1. PICK i \in 1..Len(messages_) :
          /\ messages_' = SubSeq(messages_, 1, i - 1)
                            \o SubSeq(messages_, i + 1, Len(messages_))
          /\ call[t].op = "clear"
          /\ Discard(messages_[i], call[t].collect)
    BY <1>25 DEF ClearMessage, Clears
  <2>2. messages_ \in Seq(Messages)
    BY DEF QueueTypes
  <2>in. PICK m \in Messages : m = messages_[i]
    <3>1. messages_[i] \in Messages
      BY <2>2
    <3> QED
      BY <3>1
  <2>bool. call[t].collect \in BOOLEAN
    <3>1. call[t].op = "clear" /\ call[t] \in Calls
      BY <2>1
    <3> QED
      BY <3>1 DEF Calls, Idle, Wake
  <2>3. /\ UNCHANGED <<delayed_messages_, peek, pmsg, posted, delivered, call>>
        /\ PeekKept'
    BY <1>25 DEF ClearMessage, PeekKept
  <2>4. /\ Len(messages_') = Len(messages_) - 1
        /\ \A k \in 1..(Len(messages_) - 1) :
             messages_'[k] = IF k < i THEN messages_[k] ELSE messages_[k + 1]
    <3>1. messages_' = SubSeq(messages_, 1, i - 1)
                         \o SubSeq(messages_, i + 1, Len(messages_))
      BY <2>1
    <3> QED
      BY <2>2, <3>1, RemoveIndices, Zenon
  <2>5. Len(messages_) \in Nat
    BY <2>2
  <2>6. ListOnce' /\ \A n \in Messages : Listed(n)' <=> Listed(n) /\ n # m
    <3>1. ListOnce'
      BY <2>4, <2>5 DEF ListOnce
    <3>2. ASSUME NEW n \in Messages, Listed(n)' PROVE Listed(n) /\ n # m
      BY <2>in, <2>4, <2>5, <3>2 DEF ListOnce, Listed
    <3>3. ASSUME NEW n \in Messages, Listed(n), n # m PROVE Listed(n)'
      <4>1. PICK j \in 1..Len(messages_) : messages_[j] = n
        BY <3>3 DEF Listed
      <4>2. CASE j < i
        BY <2>4, <2>5, <4>1, <4>2 DEF Listed
      <4>3. CASE ~(j < i)
        <5>1. j > i /\ j - 1 \in 1..(Len(messages_) - 1) /\ ~(j - 1 < i)
          BY <2>in, <2>5, <3>3, <4>1, <4>3
        <5>2. messages_'[j - 1] = n
          BY <2>4, <4>1, <5>1
        <5> QED
          BY <2>4, <5>1, <5>2 DEF Listed
      <4> QED
        BY <4>2, <4>3
    <3> QED
      BY <3>1, <3>2, <3>3
  <2>7. Listed(m)
    BY <2>in DEF Listed
  <2>8. Discard(m, call[t].collect)
    BY <2>1, <2>in
  <2>9. /\ DeletedOnce'
        /\ \A n \in Messages \ {m} :
             /\ HandedBack(n)' <=> HandedBack(n)
             /\ Deleted(n)' <=> Deleted(n)
        /\ HandedBack(m)' <=> ~Deleted(m)'
    <3>1. ~Deleted(m) /\ ~HandedBack(m)
      BY <2>in, <2>7 DEF InOnePlace
    <3> QED
      BY <2>in, <2>bool, <2>8, <3>1, <1>discard
  <2>10. \A n \in Messages : InOnePlace(n)'
    BY <2>in, <2>3, <2>6, <2>7, <2>9, <1>same, <1>timers, <1>peek, <1>hand,
       <1>handlers DEF InOnePlace
  <2> QED
    BY <2>3, <2>6, <2>9, <2>10, <1>same, <1>timers, <1>handlers
<1>26. ASSUME NEW t \in Threads, call[t].op = "clear", ClearDelayed(t)
       PROVE  OwnerInv'
  <2>1. PICK d \in delayed_messages_ :
          /\ delayed_messages_' = delayed_messages_ \ {d}
          /\ Discard(d.msg, call[t].collect)
    BY <1>26 DEF ClearDelayed
  <2> DEFINE m == d.msg
  <2>2. m \in Messages /\ call[t].collect \in BOOLEAN
    BY <1>26 DEF QueueTypes, Entries, Calls, Idle, Wake
  <2>3. /\ UNCHANGED <<messages_, peek, pmsg, posted, delivered, call>>
        /\ PeekKept'
    BY <1>26 DEF ClearDelayed, PeekKept
  <2>4. /\ TimersOnce' /\ Timed(m)
        /\ \A n \in Messages : Timed(n)' <=> Timed(n) /\ n # m
    BY <2>1 DEF TimersOnce, Timed
  <2>5. Discard(m, call[t].collect)
    BY <2>1
  <2> HIDE DEF m
  <2>6. /\ DeletedOnce'
        /\ \A n \in Messages \ {m} :
             /\ HandedBack(n)' <=> HandedBack(n)
             /\ Deleted(n)' <=> Deleted(n)
        /\ HandedBack(m)' <=> ~Deleted(m)'
    BY <2>2, <2>4, <2>5, <1>discard DEF InOnePlace
  <2>7. \A n \in Messages : InOnePlace(n)'
    BY <2>2, <2>3, <2>4, <2>6, <1>same, <1>list, <1>peek, <1>hand,
       <1>handlers DEF InOnePlace
  <2> QED
    BY <2>3, <2>4, <2>6, <2>7, <1>same, <1>list, <1>handlers
<1>27. CASE GetPeeked
  <2>1. /\ fPeekKeep_ /\ fPeekKeep_' = FALSE
        /\ msgPeek_ \in Messages /\ pmsg' = msgPeek_
    BY <1>27 DEF GetPeeked, PeekKept, InHand, QueueTypes
  <2>2. \A n \in Messages : ~Held(n)
    BY <1>27 DEF GetPeeked, InHand, Held
  <2>3. /\ UNCHANGED <<messages_, delayed_messages_, posted, deletes, removed,
                       delivered, call>>
        /\ PeekKept'
    BY <1>27 DEF GetPeeked, PeekKept
  <2>4. \A n \in Messages : (Held(n)' <=> Peeked(n)) /\ ~Peeked(n)'
    BY <2>1 DEF Held, Peeked
  <2>5. \A n \in Messages : InOnePlace(n)'
    BY <2>2, <2>3, <2>4, <1>same, <1>list, <1>timers, <1>handlers, <1>back,
       <1>deleted DEF InOnePlace
  <2> QED
    BY <2>3, <2>5, <1>same, <1>list, <1>timers, <1>handlers, <1>deleted
<1>28. CASE FireDelayed
  <2>1. PICK d \in delayed_messages_ :
          /\ messages_' = Append(messages_, d.msg)
          /\ delayed_messages_' = delayed_messages_ \ {d}
    BY <1>28 DEF FireDelayed
  <2> DEFINE m == d.msg
  <2>2. messages_ \in Seq(Messages) /\ m \in Messages
    BY DEF QueueTypes, Entries
  <2>3. /\ UNCHANGED <<peek, pmsg, posted, deletes, removed, delivered, call>>
        /\ PeekKept'
    BY <1>28 DEF FireDelayed, PeekKept
  <2>4. /\ TimersOnce' /\ Timed(m)
        /\ \A n \in Messages : Timed(n)' <=> Timed(n) /\ n # m
    BY <2>1 DEF TimersOnce, Timed
  <2>5. messages_' = Append(messages_, m)
    BY <2>1
  <2> HIDE DEF m
  <2>6. ~Listed(m)
    BY <2>2, <2>4 DEF InOnePlace
  <2>7. ListOnce' /\ \A n \in Messages : Listed(n)' <=> Listed(n) \/ n = m
    BY <2>2, <2>5, <2>6 DEF ListOnce, Listed
  <2>8. \A n \in Messages : InOnePlace(n)'
    BY <2>2, <2>3, <2>4, <2>7, <1>same, <1>peek, <1>hand, <1>handlers,
       <1>back, <1>deleted DEF InOnePlace
  <2> QED
    BY <2>3, <2>4, <2>7, <2>8, <1>same, <1>handlers, <1>deleted
<1>29. CASE Pull
  <2> DEFINE m == Head(messages_)
  <2>1. /\ messages_ \in Seq(Messages) /\ messages_ # <<>> /\ m \in Messages
        /\ m = messages_[1] /\ messages_' = Tail(messages_) /\ pmsg' = m
    BY <1>29 DEF Pull, QueueTypes
  <2>2. \A n \in Messages : ~Held(n)
    BY <1>29 DEF Pull, InHand, Held
  <2>3. /\ UNCHANGED <<delayed_messages_, peek, posted, deletes, removed,
                       delivered, call>>
        /\ PeekKept'
    BY <1>29 DEF Pull, PeekKept
  <2> HIDE DEF m
  <2>4. /\ Len(messages_) \in Nat \ {0}
        /\ Len(messages_') = Len(messages_) - 1
        /\ \A k \in 1..(Len(messages_) - 1) : messages_'[k] = messages_[k + 1]
    BY <2>1
  <2>5. /\ ListOnce' /\ Listed(m)
        /\ \A n \in Messages : Listed(n)' <=> Listed(n) /\ n # m
    <3>1. ListOnce' /\ Listed(m)
      BY <2>1, <2>4 DEF ListOnce, Listed
    <3>2. ASSUME NEW n \in Messages, Listed(n)' PROVE Listed(n) /\ n # m
      BY <2>1, <2>4, <3>2 DEF ListOnce, Listed
    <3>3. ASSUME NEW n \in Messages, Listed(n), n # m PROVE Listed(n)'
      <4>1. PICK j \in 1..Len(messages_) : messages_[j] = n
        BY <3>3 DEF Listed
      <4>2. j - 1 \in 1..(Len(messages_) - 1)
        BY <2>1, <2>4, <3>3, <4>1
      <4>3. messages_'[j - 1] = n
        BY <2>4, <4>1, <4>2
      <4> QED
        BY <2>4, <4>2, <4>3 DEF Listed
    <3> QED
      BY <3>1, <3>2, <3>3
  <2>6. \A n \in Messages : Held(n)' <=> n = m
    BY <2>1 DEF Held
  <2>7. \A n \in Messages : InOnePlace(n)'
    BY <2>1, <2>2, <2>3, <2>5, <2>6, <1>same, <1>timers, <1>peek, <1>handlers,
       <1>back, <1>deleted DEF InOnePlace
  <2> QED
    BY <2>3, <2>5, <2>7, <1>same, <1>timers, <1>handlers, <1>deleted
<1>30. CASE DisposeMessage
  <2>1. pmsg \in Messages
    BY <1>30 DEF DisposeMessage, InHand, OwnerTypes
  <2>2. /\ UNCHANGED <<messages_, delayed_messages_, peek, posted, removed,
                       delivered, call>>
        /\ PeekKept'
    BY <1>30 DEF DisposeMessage, PeekKept
  <2>3. Held(pmsg) /\ \A n \in Messages : ~Held(n)' /\ (Held(n) <=> n = pmsg)
    BY <1>30 DEF DisposeMessage, Held
  <2>4. DeletedOnce'
        /\ \A n \in Messages : Deleted(n)' <=> Deleted(n) \/ n = pmsg
    <3>1. deletes' = [deletes EXCEPT ![pmsg] = @ + 1]
      BY <1>30 DEF DisposeMessage, Delete
    <3>2. deletes[pmsg] = 0
      BY <2>1, <2>3 DEF InOnePlace, Deleted
    <3> QED
      BY <2>1, <3>1, <3>2 DEF HistoryTypes, DeletedOnce, Deleted
  <2>5. \A n \in Messages : InOnePlace(n)'
    BY <2>1, <2>2, <2>3, <2>4, <1>same, <1>list, <1>timers, <1>peek,
       <1>handlers, <1>back DEF InOnePlace
  <2> QED
    BY <2>2, <2>4, <2>5, <1>same, <1>list, <1>timers, <1>handlers
<1>31. CASE PeekKeep
  <2>1. /\ pmsg \in Messages /\ ~fPeekKeep_
        /\ fPeekKeep_' = TRUE /\ msgPeek_' = pmsg /\ pmsg' = NoMsg
    BY <1>31 DEF PeekKeep, PeekKept, InHand, OwnerTypes
  <2>2. UNCHANGED <<messages_, delayed_messages_, posted, deletes, removed,
                    delivered, call>>
    BY <1>31 DEF PeekKeep
  <2>3. PeekKept'
    BY <1>31 DEF PeekKeep, PeekKept, NoGet
  <2>4. \A n \in Messages : (Peeked(n)' <=> Held(n)) /\ ~Held(n)' /\ ~Peeked(n)
    BY <2>1 DEF Held, Peeked
  <2>5. \A n \in Messages : InOnePlace(n)'
    BY <2>2, <2>4, <1>same, <1>list, <1>timers, <1>handlers, <1>back,
       <1>deleted DEF InOnePlace
  <2> QED
    BY <2>2, <2>3, <2>5, <1>same, <1>list, <1>timers, <1>handlers, <1>deleted
<1>32. CASE Dispatch
  <2>1. /\ pmsg \in Messages /\ delivered \in Seq(Messages)
        /\ delivered' = Append(delivered, pmsg)
    BY <1>32 DEF Dispatch, InHand, OwnerTypes, HistoryTypes
  <2>2. UNCHANGED <<messages_, delayed_messages_, peek, posted, deletes,
                    removed, call>>
    BY <1>32 DEF Dispatch
  <2>3. PeekKept'
    BY <1>32 DEF Dispatch, PeekKept, NoGet
  <2>4. Held(pmsg) /\ \A n \in Messages : ~Held(n)' /\ (Held(n) <=> n = pmsg)
    BY <1>32 DEF Dispatch, Held
  <2>5. ~Delivered(pmsg)
    BY <2>1, <2>4 DEF InOnePlace
  <2>6. /\ DeliveredOnce'
        /\ \A n \in Messages : Delivered(n)' <=> Delivered(n) \/ n = pmsg
    BY <2>1, <2>5 DEF DeliveredOnce, Delivered
  <2>7. \A n \in Messages : InOnePlace(n)'
    BY <2>1, <2>2, <2>4, <2>6, <1>same, <1>list, <1>timers, <1>peek, <1>back,
       <1>deleted DEF InOnePlace
  <2> QED
    BY <2>2, <2>3, <2>6, <2>7, <1>same, <1>list, <1>timers, <1>deleted
<1>33. ASSUME NEW t \in Threads, Post(t) \/ DoDelayPost(t) PROVE OwnerInv'
  <2>1. CASE Post(t)
    BY <1>22, <2>1 DEF Post, Calls
  <2>2. CASE DoDelayPost(t)
    <3>1. PICK m \in Messages, d \in Delays :
            PostBegin(t, m, [op |-> "delaypost", msg |-> m, run |-> now + d])
      BY <2>2 DEF DoDelayPost
    <3>2. now + d \in Int
      BY TypeFacts
    <3>3. [op |-> "delaypost", msg |-> m, run |-> now + d] \in Calls
      BY <3>2 DEF Calls
    <3> QED
      BY <1>22, <3>1, <3>3
  <2> QED
    BY <1>33, <2>1, <2>2
<1>34. ASSUME NEW t \in Threads, CallStep(t) \/ CallBegin(t) PROVE OwnerInv'
  <2>1. ClearDelayed(t) => call[t].op = "clear"
    BY DEF ClearDelayed, Clears
  <2> QED
    BY <1>2, <1>3, <1>4, <1>6, <1>7, <1>8, <1>23, <1>24, <1>25, <1>26, <1>33,
       <1>34, <2>1 DEF CallStep, CallBegin
<1>35. CASE WorkerStep
  BY <1>10, <1>12, <1>13, <1>14, <1>15, <1>16, <1>17, <1>18, <1>19, <1>20,
     <1>27, <1>28, <1>29, <1>30, <1>31, <1>32, <1>35 DEF WorkerStep
<1> QED
  BY <1>1, <1>9, <1>11, <1>21, <1>34, <1>35 DEF Next

-----------------------------------------------------------------------------
\* The invariant holds in every state.
LEMMA OwnerKept ==
  ASSUME PeekAlone
  PROVE  Spec => [](TypeOK /\ OwnerInv)
<1>1. Init => OwnerInv
  <2> USE QueueAssumption
      DEF Init, Posts, InACall, Listed, Timed, Peeked, Held, Delivered,
          HandedBack, Deleted
  <2>1. ASSUME Init, NEW m \in Messages PROVE InOnePlace(m)
    BY <2>1 DEF InOnePlace, Idle
  <2>2. Init => CallsOnce /\ TimersOnce
    BY DEF CallsOnce, TimersOnce, Idle
  <2>3. Init => ListOnce /\ DeliveredOnce /\ DeletedOnce /\ PeekKept
    BY DEF ListOnce, DeliveredOnce, DeletedOnce, PeekKept, NoGet
  <2> QED
    BY <2>1, <2>2, <2>3 DEF OwnerInv
<1>2. TypeOK /\ OwnerInv /\ [Next]_vars => OwnerInv'
  BY OwnerStep
<1> QED
  BY <1>1, <1>2, TypeCorrect, PTL DEF Spec

\* A payload given to Post has exactly one owner at all times (thread.cc:
\* 299-552).
THEOREM PayloadsHaveOneOwner ==
  ASSUME PeekAlone
  PROVE  Spec => []OneOwner
<1>1. TypeOK /\ OwnerInv => OneOwner
  <2> SUFFICES ASSUME TypeOK, OwnerInv, NEW m \in Messages
               PROVE  Owners(m) = AsCount(m \in posted)
    BY DEF OneOwner
  <2>1. \A S : Cardinality({}) = 0 /\ (\A x : Cardinality({x}) = 1)
    BY FS_EmptySet, FS_Singleton
  <2>2. Cardinality(InCall(m)) = AsCount(InACall(m))
    <3>1. CASE InACall(m)
      <4>1. PICK t \in Threads : Posts(t, m)
        BY <3>1 DEF InACall
      <4>2. InCall(m) = {t}
        BY <4>1 DEF OwnerInv, CallsOnce, InCall, Posts
      <4> QED
        BY <2>1, <3>1, <4>2 DEF AsCount
    <3>2. CASE ~InACall(m)
      <4>1. InCall(m) = {}
        BY <3>2 DEF InACall, InCall, Posts
      <4> QED
        BY <2>1, <3>2, <4>1 DEF AsCount
    <3> QED
      BY <3>1, <3>2
  <2>3. Cardinality(InList(m)) = AsCount(Listed(m))
    <3>1. DOMAIN messages_ = 1..Len(messages_)
      BY DEF TypeOK, QueueTypes
    <3>2. CASE Listed(m)
      <4>1. PICK i \in 1..Len(messages_) : messages_[i] = m
        BY <3>2 DEF Listed
      <4>2. InList(m) = {i}
        BY <3>1, <4>1 DEF OwnerInv, ListOnce, InList
      <4> QED
        BY <2>1, <3>2, <4>2 DEF AsCount
    <3>3. CASE ~Listed(m)
      <4>1. InList(m) = {}
        BY <3>1, <3>3 DEF Listed, InList
      <4> QED
        BY <2>1, <3>3, <4>1 DEF AsCount
    <3> QED
      BY <3>2, <3>3
  <2>4. Cardinality(InTimers(m)) = AsCount(Timed(m))
    <3>1. CASE Timed(m)
      <4>1. PICK d \in delayed_messages_ : d.msg = m
        BY <3>1 DEF Timed
      <4>2. InTimers(m) = {d}
        BY <4>1 DEF OwnerInv, TimersOnce, InTimers
      <4> QED
        BY <2>1, <3>1, <4>2 DEF AsCount
    <3>2. CASE ~Timed(m)
      <4>1. InTimers(m) = {}
        BY <3>2 DEF Timed, InTimers
      <4> QED
        BY <2>1, <3>2, <4>1 DEF AsCount
    <3> QED
      BY <3>1, <3>2
  <2>5. Cardinality(Deliveries(m)) = AsCount(Delivered(m))
    <3>1. DOMAIN delivered = 1..Len(delivered)
      BY DEF TypeOK, HistoryTypes
    <3>2. CASE Delivered(m)
      <4>1. PICK i \in 1..Len(delivered) : delivered[i] = m
        BY <3>2 DEF Delivered
      <4>2. Deliveries(m) = {i}
        BY <3>1, <4>1 DEF OwnerInv, DeliveredOnce, Deliveries
      <4> QED
        BY <2>1, <3>2, <4>2 DEF AsCount
    <3>3. CASE ~Delivered(m)
      <4>1. Deliveries(m) = {}
        BY <3>1, <3>3 DEF Delivered, Deliveries
      <4> QED
        BY <2>1, <3>3, <4>1 DEF AsCount
    <3> QED
      BY <3>2, <3>3
  <2>6. deletes[m] = AsCount(Deleted(m))
    BY DEF OwnerInv, DeletedOnce, Deleted, AsCount
  <2>7. /\ AsCount(pmsg = m) = AsCount(Held(m))
        /\ AsCount(m \in removed) = AsCount(HandedBack(m))
    BY DEF Held, HandedBack
  <2>8. InOnePlace(m)
    BY DEF OwnerInv
  <2> QED
    BY <2>2, <2>3, <2>4, <2>5, <2>6, <2>7, <2>8
    DEF Owners, InOnePlace, AsCount
<1> QED
  BY <1>1, OwnerKept, PTL

-----------------------------------------------------------------------------
(* Handlers that were destroyed.                                           *)

\* The owner's steps can bring a message to its handler.
Queued(m) == Listed(m) \/ Timed(m) \/ Peeked(m) \/ Held(m)

\* Messages in posts and in the queue are for live handlers, and none in the
\* queue is for a handler that was cleared.
HandlersLive ==
  /\ \A m \in Messages : InACall(m) => HandlerOf[m] \in alive \cup {NoHandler}
  /\ \A m \in Messages : Queued(m) => HandlerOf[m] \in alive \cup {NoHandler}
  /\ \A m \in Messages : Queued(m) => HandlerOf[m] \notin cleared

\* Every step keeps it, when handlers are cleared before they are destroyed.
LEMMA HandlersStep ==
  ASSUME ClearFirst, PeekAlone, TypeOK, OwnerInv, HandlersLive, [Next]_vars
  PROVE  HandlersLive'
<1> USE QueueAssumption DEF lists, peek, owner, handlers, history
<1>places. ASSUME UNCHANGED <<messages_, delayed_messages_, peek, pmsg>>
           PROVE  \A m \in Messages : Queued(m)' <=> Queued(m)
  BY <1>places DEF Queued, Listed, Timed, Peeked, Held
<1>calls. ASSUME NEW t \in Threads, NEW c, c.op \notin {"post", "delaypost"},
                 call' = [call EXCEPT ![t] = c]
          PROVE  \A m \in Messages : InACall(m)' => InACall(m)
  BY <1>calls DEF InACall, Posts, TypeOK
<1>same. ASSUME call' = call
         PROVE  \A m \in Messages : InACall(m)' => InACall(m)
  BY <1>same DEF InACall, Posts
<1>kept. ASSUME alive' = alive, cleared' \subseteq cleared,
                \A m \in Messages : InACall(m)' => InACall(m),
                \A m \in Messages : Queued(m)' => Queued(m)
         PROVE  HandlersLive'
  BY <1>kept DEF HandlersLive
(* The steps that begin and end calls.                                     *)
<1>1. CASE UNCHANGED vars
  BY <1>1, <1>kept, <1>places, <1>same DEF vars
<1>2. ASSUME NEW t \in Threads, NEW m \in Messages, NEW next \in Calls,
             next.msg = m, PostBegin(t, m, next)
      PROVE  HandlersLive'
  <2>1. ASSUME NEW n \in Messages, InACall(n)'
        PROVE  InACall(n) \/ n = m
    BY <1>2, <2>1 DEF PostBegin, Goto, InACall, Posts, TypeOK
  <2>2. \A n \in Messages : Queued(n)' <=> Queued(n)
    BY <1>2, <1>places DEF PostBegin
  <2>3. UNCHANGED handlers /\ HandlerOf[m] \in alive \cup {NoHandler}
    BY <1>2 DEF PostBegin
  <2> QED
    BY <2>1, <2>2, <2>3 DEF HandlersLive
<1>3. ASSUME NEW t \in Threads, Post(t) \/ DoDelayPost(t) PROVE HandlersLive'
  <2>1. CASE Post(t)
    BY <1>2, <2>1 DEF Post, Calls
  <2>2. CASE DoDelayPost(t)
    <3>1. PICK m \in Messages, d \in Delays :
            PostBegin(t, m, [op |-> "delaypost", msg |-> m, run |-> now + d])
      BY <2>2 DEF DoDelayPost
    <3>2. now + d \in Int
      BY TypeFacts
    <3>3. [op |-> "delaypost", msg |-> m, run |-> now + d] \in Calls
      BY <3>2 DEF Calls
    <3> QED
      BY <1>2, <3>1, <3>3
  <2> QED
    BY <1>3, <2>1, <2>2
<1>4. ASSUME NEW t \in Threads, WakeUp(t) \/ Quit(t) PROVE HandlersLive'
  BY <1>4, <1>kept, <1>places, <1>calls DEF WakeUp, Quit, Goto, Idle, Wake
<1>5. ASSUME NEW t \in Threads, Restart(t) PROVE HandlersLive'
  BY <1>5, <1>kept, <1>places, <1>same DEF Restart
<1>6. ASSUME NEW t \in Threads, Clear(t) \/ DoDestroy(t) PROVE HandlersLive'
  <2>1. PICK h \in Handlers \cup {AnyHandler}, collect \in BOOLEAN :
          ClearBegin(t, h, collect)
    BY <1>6 DEF Clear, DoDestroy
  <2>2. \A m \in Messages : InACall(m)' => InACall(m)
    BY <2>1, <1>calls DEF ClearBegin, Goto
  <2>3. \A m \in Messages : Queued(m)' => Queued(m)
    BY <2>1 DEF ClearBegin, Queued, Listed, Timed, Peeked, Held
  <2> QED
    BY <2>1, <2>2, <2>3, <1>kept DEF ClearBegin
<1>leaves. ASSUME NEW t \in Threads, NEW m \in Messages, Posts(t, m),
                  call' = [call EXCEPT ![t] = Wake], alive' = alive,
                  cleared' = cleared \ {HandlerOf[m]},
                  \A n \in Messages : Queued(n)' => Queued(n) \/ n = m
           PROVE  HandlersLive'
  <2>1. InACall(m) /\ \A n \in Messages : InACall(n)' => InACall(n)
    BY <1>leaves, <1>calls DEF InACall, Wake
  <2> QED
    BY <1>leaves, <2>1 DEF HandlersLive
<1>7. ASSUME NEW t \in Threads, Enqueue(t) PROVE HandlersLive'
  <2> DEFINE m == call[t].msg
  <2>1. /\ m \in Messages /\ Posts(t, m) /\ messages_ \in Seq(Messages)
        /\ messages_' = Append(messages_, m)
    BY <1>7 DEF Enqueue, Calls, Idle, Wake, Posts, TypeOK, QueueTypes
  <2> HIDE DEF m
  <2>2. \A n \in Messages : Listed(n)' => Listed(n) \/ n = m
    BY <2>1 DEF Listed
  <2>3. \A n \in Messages : Queued(n)' => Queued(n) \/ n = m
    BY <1>7, <2>2 DEF Enqueue, Queued, Timed, Peeked, Held
  <2> QED
    BY <1>7, <2>1, <2>3, <1>leaves DEF Enqueue, Entered, Goto, m
<1>8. ASSUME NEW t \in Threads, EnqueueDelayed(t) PROVE HandlersLive'
  <2> DEFINE m == call[t].msg
  <2>1. m \in Messages /\ Posts(t, m)
    BY <1>8 DEF EnqueueDelayed, Calls, Idle, Wake, Posts, TypeOK
  <2>2. \A n \in Messages : Timed(n)' => Timed(n) \/ n = m
    BY <1>8 DEF EnqueueDelayed, Timed
  <2> HIDE DEF m
  <2>3. \A n \in Messages : Queued(n)' => Queued(n) \/ n = m
    BY <1>8, <2>2 DEF EnqueueDelayed, Queued, Listed, Peeked, Held
  <2> QED
    BY <1>8, <2>1, <2>3, <1>leaves DEF EnqueueDelayed, Entered, Goto, m
<1>9. ASSUME NEW t \in Threads, ClearMessage(t) PROVE HandlersLive'
  <2>1. PICK i \in 1..Len(messages_) :
          messages_' = SubSeq(messages_, 1, i - 1)
                            \o SubSeq(messages_, i + 1, Len(messages_))
    BY <1>9 DEF ClearMessage
  <2>2. messages_ \in Seq(Messages) /\ Len(messages_) \in Nat
    BY DEF TypeOK, QueueTypes
  <2>3. /\ Len(messages_') = Len(messages_) - 1
        /\ \A k \in 1..(Len(messages_) - 1) :
             messages_'[k] = IF k < i THEN messages_[k] ELSE messages_[k + 1]
    BY <2>1, <2>2, RemoveIndices, Zenon
  <2>4. \A n \in Messages : Listed(n)' => Listed(n)
    BY <2>2, <2>3 DEF Listed
  <2>5. \A n \in Messages : Queued(n)' => Queued(n)
    BY <1>9, <2>4 DEF ClearMessage, Queued, Timed, Peeked, Held
  <2> QED
    BY <1>9, <2>5, <1>kept, <1>same DEF ClearMessage
<1>10. ASSUME NEW t \in Threads, ClearDelayed(t) PROVE HandlersLive'
  <2>1. \A n \in Messages : Queued(n)' => Queued(n)
    BY <1>10 DEF ClearDelayed, Queued, Listed, Timed, Peeked, Held
  <2> QED
    BY <1>10, <2>1, <1>kept, <1>same DEF ClearDelayed
<1>11. ASSUME NEW t \in Threads, ClearEnd(t) PROVE HandlersLive'
  <2>1. /\ alive' = alive
        /\ \A m \in Messages : InACall(m)' => InACall(m)
        /\ \A m \in Messages : Queued(m)' <=> Queued(m)
    BY <1>11, <1>places, <1>calls DEF ClearEnd, Goto, Idle
  <2>2. CASE t = Worker
    <3>1. cleared' = cleared \cup {call[t].handler} /\ call[t].op = "clear"
      BY <1>11, <2>2 DEF ClearEnd
    <3>2. ASSUME NEW m \in Messages, Queued(m)
          PROVE  HandlerOf[m] # call[t].handler
      <4>1. ~Peeked(m) /\ ~Held(m)
        <5>1. wpc = "dispatch"
          BY <2>2, <3>1 DEF TypeOK, Locked, Idle
        <5> QED
          BY <5>1 DEF TypeOK, InHand, OwnerInv, PeekKept, Peeked, Held
      <4>2. \A i \in 1..Len(messages_) :
              HandlerOf[messages_[i]] # call[t].handler
        BY <1>11 DEF ClearEnd, NoneInList, Clears, Match
      <4>3. \A d \in delayed_messages_ : HandlerOf[d.msg] # call[t].handler
        BY <1>11 DEF ClearEnd, Clears, Match
      <4> QED
        BY <3>2, <4>1, <4>2, <4>3 DEF Queued, Listed, Timed
    <3> QED
      BY <2>1, <3>1, <3>2 DEF HandlersLive
  <2>3. CASE t # Worker
    BY <1>11, <2>1, <2>3, <1>kept DEF ClearEnd
  <2> QED
    BY <2>2, <2>3
<1>12. ASSUME NEW h \in Handlers, DestroyHandler(h) PROVE HandlersLive'
  <2>1. /\ h \in cleared /\ alive' = alive \ {h}
        /\ cleared' = cleared
        /\ \A m \in Messages : InACall(m) => HandlerOf[m] # h
    BY <1>12 DEF DestroyHandler, InACall, Posts
  <2>2. \A m \in Messages : InACall(m)' => InACall(m)
    BY <1>12, <1>same DEF DestroyHandler
  <2>3. \A m \in Messages : Queued(m)' <=> Queued(m)
    BY <1>12, <1>places DEF DestroyHandler
  <2> QED
    BY <2>1, <2>2, <2>3 DEF HandlersLive
(* The owner's steps move messages within the queue, or out of it.         *)
<1>13. CASE GetPeeked
  <2>1. fPeekKeep_ /\ pmsg' = msgPeek_
    BY <1>13 DEF GetPeeked, OwnerInv, PeekKept
  <2>2. \A m \in Messages : Queued(m)' => Queued(m)
    BY <1>13, <2>1 DEF GetPeeked, Queued, Listed, Timed, Peeked, Held
  <2> QED
    BY <1>13, <2>2, <1>kept, <1>same DEF GetPeeked
<1>14. CASE FireDelayed
  <2>1. PICK d \in delayed_messages_ :
          /\ messages_' = Append(messages_, d.msg)
          /\ delayed_messages_' = delayed_messages_ \ {d}
    BY <1>14 DEF FireDelayed
  <2>2. messages_ \in Seq(Messages) /\ d.msg \in Messages
    BY DEF TypeOK, QueueTypes, Entries
  <2>3. \A m \in Messages : Listed(m)' => Listed(m) \/ Timed(m)
    BY <2>1, <2>2 DEF Listed, Timed
  <2>4. \A m \in Messages : Queued(m)' => Queued(m)
    BY <1>14, <2>1, <2>3 DEF FireDelayed, Queued, Timed, Peeked, Held
  <2> QED
    BY <1>14, <2>4, <1>kept, <1>same DEF FireDelayed
<1>15. CASE Pull
  <2>1. /\ messages_ \in Seq(Messages) /\ messages_ # <<>>
        /\ messages_' = Tail(messages_) /\ pmsg' = messages_[1]
    BY <1>15 DEF Pull, TypeOK, QueueTypes
  <2>2. /\ Len(messages_) \in Nat \ {0}
        /\ Len(messages_') = Len(messages_) - 1
        /\ \A k \in 1..(Len(messages_) - 1) : messages_'[k] = messages_[k + 1]
    BY <2>1
  <2>3. \A m \in Messages : Listed(m)' \/ Held(m)' => Listed(m)
    BY <2>1, <2>2 DEF Listed, Held
  <2>4. \A m \in Messages : Queued(m)' => Queued(m)
    BY <1>15, <2>3 DEF Pull, Queued, Timed, Peeked
  <2> QED
    BY <1>15, <2>4, <1>kept, <1>same DEF Pull
<1>16. CASE DisposeMessage
  <2>1. \A m \in Messages : Queued(m)' => Queued(m)
    BY <1>16 DEF DisposeMessage, Queued, Listed, Timed, Peeked, Held
  <2> QED
    BY <1>16, <2>1, <1>kept, <1>same DEF DisposeMessage
<1>17. CASE Dispatch
  <2>1. \A m \in Messages : Queued(m)' => Queued(m)
    BY <1>17 DEF Dispatch, Queued, Listed, Timed, Peeked, Held
  <2> QED
    BY <1>17, <2>1, <1>kept, <1>same DEF Dispatch
<1>18. CASE PeekKeep
  <2>1. \A m \in Messages : Queued(m)' => Queued(m)
    BY <1>18 DEF PeekKeep, Queued, Listed, Timed, Peeked, Held
  <2> QED
    BY <1>18, <2>1, <1>kept, <1>same DEF PeekKeep
<1>19. CASE \/ \E cms \in CmsLoops : ProcessMessages(cms)
            \/ Peek \/ GetBegin \/ ScanBegin \/ FireEnd \/ PullNothing
  BY <1>19, <1>kept, <1>places, <1>same
  DEF ProcessMessages, Peek, GetBegin, ScanBegin, FireEnd, PullNothing
<1>20. CASE \/ DispatchEnd \/ WaitBegin \/ GetQuit \/ GetFalse
            \/ WaitSignaled \/ WaitTimeout \/ Tick
  BY <1>20, <1>kept, <1>places, <1>same
  DEF DispatchEnd, WaitBegin, GetQuit, GetFalse, WaitSignaled, WaitTimeout,
      AfterWait, Tick
<1> QED
  BY <1>1, <1>3, <1>4, <1>5, <1>6, <1>7, <1>8, <1>9, <1>10, <1>11, <1>12,
     <1>13, <1>14, <1>15, <1>16, <1>17, <1>18, <1>19, <1>20
  DEF Next, CallStep, CallBegin, WorkerStep

\* A handler that the owner cleared and destroyed is not called again
\* (Thread::Clear, thread.cc:502-549; message_handler.cc).
THEOREM DeadAreNotCalled ==
  ASSUME ClearFirst, PeekAlone
  PROVE  Spec => DispatchToLive
<1>1. Init => HandlersLive
  BY QueueAssumption DEF Init, HandlersLive, Queued, Listed, Timed, Peeked,
     Held, InACall, Posts, Idle
<1>2. TypeOK /\ OwnerInv /\ HandlersLive /\ [Next]_vars => HandlersLive'
  BY HandlersStep
<1> DEFINE Called ==
      \A i \in DOMAIN delivered' :
        i > Len(delivered) => HandlerOf[delivered'[i]] \in alive
<1>3. TypeOK /\ HandlersLive /\ [Next]_vars => [Called]_vars
  <2> SUFFICES ASSUME TypeOK, HandlersLive, Next PROVE Called
    BY DEF vars
  <2>0. delivered \in Seq(Messages)
    BY DEF TypeOK, HistoryTypes
  <2>1. CASE Dispatch
    <3>1. /\ pmsg \in Messages /\ HandlerOf[pmsg] # NoHandler /\ Held(pmsg)
          /\ delivered' = Append(delivered, pmsg)
      BY <2>1 DEF Dispatch, TypeOK, InHand, OwnerTypes, Held
    <3>2. HandlerOf[pmsg] \in alive
      BY <3>1 DEF HandlersLive, Queued
    <3> QED
      BY <2>0, <3>1, <3>2
  <2>2. CASE ~Dispatch
    <3>1. delivered' = delivered
      BY <2>2 DEF Next, CallStep, CallBegin, WorkerStep, Post, DoDelayPost,
         PostBegin, Enqueue, EnqueueDelayed, Entered, WakeUp, Quit, Restart,
         Clear, DoDestroy, ClearBegin, ClearMessage, ClearDelayed, ClearEnd,
         DestroyHandler, ProcessMessages, Peek, GetBegin, GetPeeked,
         ScanBegin, FireDelayed, FireEnd, Pull, PullNothing, DisposeMessage,
         PeekKeep, DispatchEnd, WaitBegin, GetQuit, WaitSignaled,
         WaitTimeout, AfterWait, GetFalse, Tick, history
    <3> QED
      BY <2>0, <3>1
  <2> QED
    BY <2>1, <2>2
<1> QED
  BY <1>1, <1>2, <1>3, OwnerKept, PTL DEF Spec, DispatchToLive

-----------------------------------------------------------------------------
(* What is left when Get returns false.                                    *)

Records == [msg : Messages, timed : BOOLEAN, run : Int, late : BOOLEAN]

\* The log has every message that entered the queue once, with its time.
Late(m) == \E i \in 1..Len(log) : log[i].msg = m /\ log[i].late
LogTypes == log \in Seq(Records)
LogOnce == \A i, j \in 1..Len(log) : log[i].msg = log[j].msg => i = j
LogEntered ==
  \A i \in 1..Len(log) : log[i].msg \in posted /\ ~InACall(log[i].msg)
TimersLogged ==
  \A d \in delayed_messages_ :
    \E i \in 1..Len(log) : log[i].msg = d.msg /\ log[i].run = d.run

\* A blocking Get is about to return false.
QuitFalse == wpc = "false" /\ get.cmsWait = kForever

\* The owner has found the list empty, and the timers not due, with stop_ set:
\* what is there now came after the flag.
ListLate ==
  wpc = "quitcheck" \/ QuitFalse =>
    (stop_ => \A m \in Messages : Listed(m) => Late(m))
TimersLate ==
  Looked \/ QuitFalse =>
    (stop_ => \A d \in delayed_messages_ :
                get.msCurrent < d.run \/ Late(d.msg))
FalseStops == QuitFalse => stop_
PeekHandled ==
  fPeekKeep_ \/ wpc = "takepeek" => HandlerOf[msgPeek_] # NoHandler

QuitInv ==
  /\ LogTypes /\ LogOnce /\ LogEntered /\ TimersLogged
  /\ ListLate /\ TimersLate /\ FalseStops /\ PeekHandled

\* Every step keeps it, when Quit is called by the owner.
LEMMA QuitStep ==
  ASSUME Quitters \subseteq {Worker}, PeekAlone,
         TypeOK, OwnerInv, QuitInv, [Next]_vars
  PROVE  QuitInv'
<1> USE QueueAssumption DEF lists, peek, owner, handlers, history
<1>get. get \in Gets
  BY TypeFacts
<1>record. /\ log \in Seq(Records) /\ Len(log) \in Nat
           /\ \A i \in 1..Len(log) : log[i] \in Records
           /\ \A i \in 1..Len(log) : log[i].msg \in Messages
  <2>1. log \in Seq(Records) /\ Len(log) \in Nat
    BY DEF QuitInv, LogTypes
  <2>2. \A i \in 1..Len(log) : log[i] \in Records
    BY <2>1
  <2> QED
    BY <2>1, <2>2 DEF Records
(* The log stays.                                                          *)
<1>log. ASSUME log' = log, posted \subseteq posted',
               \A m \in Messages :
                 InACall(m)' => InACall(m) \/ m \notin posted,
               \A d \in delayed_messages_' : d \in delayed_messages_
        PROVE  /\ LogTypes' /\ LogOnce' /\ LogEntered' /\ TimersLogged'
               /\ \A m \in Messages : Late(m)' <=> Late(m)
  <2>1. \A i \in 1..Len(log) : log[i].msg \in Messages
    BY <1>record
  <2>2. LogEntered'
    BY <1>log, <2>1 DEF QuitInv, LogEntered
  <2> QED
    BY <1>log, <2>2 DEF QuitInv, LogTypes, LogOnce, TimersLogged, Late
<1>calls. ASSUME NEW t \in Threads, NEW c, c.op \notin {"post", "delaypost"},
                 call' = [call EXCEPT ![t] = c]
          PROVE  \A m \in Messages : InACall(m)' => InACall(m)
  BY <1>calls DEF InACall, Posts, TypeOK
<1>same. ASSUME call' = call
         PROVE  \A m \in Messages : InACall(m)' => InACall(m)
  BY <1>same DEF InACall, Posts
\* A step of another thread that adds nothing to the queue.
<1>away. ASSUME UNCHANGED <<wpc, get, pmsg, stop_, log>>,
                posted \subseteq posted', PeekHandled',
                \A m \in Messages :
                 InACall(m)' => InACall(m) \/ m \notin posted,
                \A m \in Messages : Listed(m)' => Listed(m),
                \A d \in delayed_messages_' : d \in delayed_messages_
         PROVE  QuitInv'
  <2>1. /\ LogTypes' /\ LogOnce' /\ LogEntered' /\ TimersLogged'
        /\ \A m \in Messages : Late(m)' <=> Late(m)
    BY <1>away, <1>log
  <2>2. /\ QuitFalse' <=> QuitFalse
        /\ Looked' <=> Looked
    BY <1>away DEF QuitFalse, Looked
  <2>3. \A d \in delayed_messages_ : d.msg \in Messages
    BY DEF TypeOK, QueueTypes, Entries
  <2>4. ListLate'
    BY <1>away, <2>1, <2>2 DEF QuitInv, ListLate
  <2>5. TimersLate'
    BY <1>away, <2>1, <2>2, <2>3 DEF QuitInv, TimersLate
  <2>6. FalseStops'
    BY <1>away, <2>2 DEF QuitInv, FalseStops
  <2> QED
    BY <1>away, <2>1, <2>4, <2>5, <2>6 DEF QuitInv
<1>owner. ASSUME log' = log, posted' = posted, call' = call,
                 \A d \in delayed_messages_' : d \in delayed_messages_,
                 ListLate', TimersLate', FalseStops', PeekHandled'
          PROVE  QuitInv'
  BY <1>owner, <1>log, <1>same DEF QuitInv
\* Where neither has been looked at, nothing is claimed.
<1>elsewhere. ASSUME \/ wpc' \in {"idle", "get", "takepeek", "fire",
                                  "dispatch", "exited", "destroyed"}
                     \/ wpc' = "scan" /\ get'.firstPass
              PROVE  ListLate' /\ TimersLate' /\ FalseStops'
  BY <1>elsewhere DEF ListLate, TimersLate, FalseStops, Looked, QuitFalse
\* What was seen of the timers is still so.
<1>seen. ASSUME UNCHANGED <<delayed_messages_, log, stop_>>,
                get'.msCurrent = get.msCurrent,
                Looked' \/ QuitFalse' => Looked \/ QuitFalse
         PROVE  TimersLate'
  <2>1. \A m \in Messages : Late(m)' <=> Late(m)
    BY <1>seen DEF Late
  <2>2. \A d \in delayed_messages_ : d.msg \in Messages
    BY DEF TypeOK, QueueTypes, Entries
  <2> QED
    BY <1>seen, <2>1, <2>2 DEF QuitInv, TimersLate
(* The callers.                                                            *)
<1>1. CASE UNCHANGED vars
  BY <1>1, <1>away, <1>same DEF vars, QuitInv, PeekHandled, Listed
<1>2. ASSUME NEW t \in Threads, NEW m \in Messages, NEW next \in Calls,
             next.msg = m, PostBegin(t, m, next)
      PROVE  QuitInv'
  <2>1. ASSUME NEW n \in Messages, InACall(n)'
        PROVE  InACall(n) \/ n \notin posted
    BY <1>2, <2>1 DEF PostBegin, Goto, InACall, Posts, TypeOK
  <2>2. PeekHandled'
    BY <1>2 DEF PostBegin, QuitInv, PeekHandled
  <2>3. posted \subseteq posted' /\ \A n \in Messages : Listed(n)' => Listed(n)
    BY <1>2 DEF PostBegin, Listed
  <2> QED
    BY <1>2, <2>1, <2>2, <2>3, <1>away DEF PostBegin
<1>3. ASSUME NEW t \in Threads, Post(t) \/ DoDelayPost(t) PROVE QuitInv'
  <2>1. CASE Post(t)
    BY <1>2, <2>1 DEF Post, Calls
  <2>2. CASE DoDelayPost(t)
    <3>1. PICK m \in Messages, d \in Delays :
            PostBegin(t, m, [op |-> "delaypost", msg |-> m, run |-> now + d])
      BY <2>2 DEF DoDelayPost
    <3>2. now + d \in Int
      BY TypeFacts
    <3>3. [op |-> "delaypost", msg |-> m, run |-> now + d] \in Calls
      BY <3>2 DEF Calls
    <3> QED
      BY <1>2, <3>1, <3>3
  <2> QED
    BY <1>3, <2>1, <2>2
<1>4. ASSUME NEW t \in Threads, WakeUp(t) PROVE QuitInv'
  <2>1. \A m \in Messages : InACall(m)' => InACall(m)
    BY <1>4, <1>calls DEF WakeUp, Goto, Idle
  <2> QED
    BY <1>4, <2>1, <1>away DEF WakeUp, QuitInv, PeekHandled, Listed
<1>5. ASSUME NEW t \in Threads, Quit(t) PROVE QuitInv'
  <2>1. \A m \in Messages : InACall(m)' => InACall(m)
    BY <1>5, <1>calls DEF Quit, Goto, Wake
  <2>2. wpc' = "dispatch" /\ log' = log /\ posted' = posted
    BY <1>5 DEF Quit, CanCall
  <2>3. ListLate' /\ TimersLate' /\ FalseStops'
    BY <2>2, <1>elsewhere
  <2>4. LogTypes' /\ LogOnce' /\ LogEntered' /\ TimersLogged'
    BY <1>5, <2>1, <2>2, <1>log DEF Quit
  <2> QED
    BY <1>5, <2>3, <2>4 DEF Quit, QuitInv, PeekHandled
<1>6. ASSUME NEW t \in Threads, Restart(t) PROVE QuitInv'
  BY <1>6, <1>owner, <1>elsewhere DEF Restart, QuitInv, PeekHandled
<1>7. ASSUME NEW t \in Threads, Clear(t) PROVE QuitInv'
  <2>1. PICK h \in Handlers, collect \in BOOLEAN : ClearBegin(t, h, collect)
    BY <1>7 DEF Clear
  <2>2. \A m \in Messages : InACall(m)' => InACall(m)
    BY <2>1, <1>calls DEF ClearBegin, Goto
  <2>3. PeekHandled' /\ wpc' = wpc
    BY <1>7, <2>1 DEF Clear, ClearBegin, QuitInv, PeekHandled
  <2> QED
    BY <2>1, <2>2, <2>3, <1>away DEF ClearBegin, Listed
<1>8. ASSUME NEW t \in Threads, DoDestroy(t) PROVE QuitInv'
  <2>1. ClearBegin(t, AnyHandler, FALSE) /\ wpc' = "destroyed"
    BY <1>8 DEF DoDestroy
  <2>2. \A m \in Messages : InACall(m)' => InACall(m)
    BY <2>1, <1>calls DEF ClearBegin, Goto
  <2>3. PeekHandled'
    BY <2>1 DEF ClearBegin, QuitInv, PeekHandled
  <2>4. ListLate' /\ TimersLate' /\ FalseStops'
    BY <2>1, <1>elsewhere
  <2>5. LogTypes' /\ LogOnce' /\ LogEntered' /\ TimersLogged'
    BY <2>1, <2>2, <1>log DEF ClearBegin
  <2> QED
    BY <2>3, <2>4, <2>5 DEF QuitInv
<1>enters. ASSUME NEW t \in Threads, NEW m \in Messages, Posts(t, m),
                  call' = [call EXCEPT ![t] = Wake],
                  NEW timed \in BOOLEAN, NEW run \in Int,
                  log' = Append(log, [msg |-> m, timed |-> timed,
                                      run |-> run, late |-> stop_]),
                  UNCHANGED <<posted, wpc, get, pmsg, stop_, peek>>,
                  \A n \in Messages : Listed(n)' => Listed(n) \/ n = m,
                  \A d \in delayed_messages_' :
                    \/ d \in delayed_messages_
                    \/ d.msg = m /\ d.run = run
           PROVE  QuitInv'
  <2>0. log \in Seq(Records) /\ Len(log) \in Nat
    BY DEF QuitInv, LogTypes
  <2> DEFINE e == [msg |-> m, timed |-> timed, run |-> run, late |-> stop_]
  <2>1. e \in Records /\ e.msg = m /\ e.run = run /\ e.late = stop_
    BY DEF Records, TypeOK, QueueTypes
  <2>2. log' = Append(log, e)
    BY <1>enters
  <2> HIDE DEF e
  <2>3. /\ Len(log') = Len(log) + 1 /\ log'[Len(log) + 1] = e
        /\ \A i \in 1..Len(log) : log'[i] = log[i]
        /\ log' \in Seq(Records)
    BY <2>0, <2>1, <2>2
  <2>4. /\ InACall(m) /\ m \in posted /\ ~InACall(m)'
        /\ \A n \in Messages : InACall(n)' => InACall(n)
    <3>1. InACall(m)
      BY <1>enters DEF InACall
    <3>2. m \in posted
      BY <3>1 DEF OwnerInv, InOnePlace
    <3>3. \A n \in Messages : InACall(n)' => InACall(n)
      BY <1>enters, <1>calls DEF Wake
    <3>4. ~InACall(m)'
      <4>1. \A u \in Threads : Posts(u, m) => u = t
        BY <1>enters DEF OwnerInv, CallsOnce
      <4>2. \A u \in Threads : ~Posts(u, m)'
        BY <1>enters, <4>1 DEF Posts, Wake, TypeOK
      <4> QED
        BY <4>2 DEF InACall
    <3> QED
      BY <3>1, <3>2, <3>3, <3>4
  <2>5. \A i \in 1..Len(log) : log[i].msg # m /\ log[i].msg \in Messages
    BY <1>record, <2>4 DEF QuitInv, LogEntered
  <2>6. LogTypes' /\ LogOnce'
    BY <2>0, <2>1, <2>3, <2>5 DEF QuitInv, LogTypes, LogOnce
  <2>7. LogEntered'
    BY <1>enters, <2>0, <2>1, <2>3, <2>4, <2>5 DEF QuitInv, LogEntered
  <2>8. TimersLogged'
    <3> SUFFICES ASSUME NEW d \in delayed_messages_'
                 PROVE  \E i \in 1..Len(log') : /\ log'[i].msg = d.msg
                                               /\ log'[i].run = d.run
      BY DEF TimersLogged
    <3>1. CASE d \in delayed_messages_
      <4>1. PICK i \in 1..Len(log) : log[i].msg = d.msg /\ log[i].run = d.run
        BY <3>1 DEF QuitInv, TimersLogged
      <4> QED
        BY <2>0, <2>3, <4>1
    <3>2. CASE d.msg = m /\ d.run = run
      BY <2>0, <2>1, <2>3, <3>2
    <3> QED
      BY <1>enters, <3>1, <3>2
  <2>9. \A n \in Messages : Late(n) => Late(n)'
    BY <2>0, <2>3 DEF Late
  <2>10. ASSUME stop_ PROVE Late(m)'
    <3>1. log'[Len(log) + 1].late
      BY <2>1, <2>3, <2>10, Zenon
    <3>2. Len(log) + 1 \in 1..Len(log') /\ log'[Len(log) + 1].msg = m
      BY <2>0, <2>1, <2>3
    <3> QED
      BY <3>1, <3>2, Zenon DEF Late
  <2>11. (QuitFalse' <=> QuitFalse) /\ (Looked' <=> Looked)
    BY <1>enters DEF QuitFalse, Looked
  <2>12. ListLate'
    BY <1>enters, <2>9, <2>10, <2>11 DEF QuitInv, ListLate
  <2>13. TimersLate'
    <3>1. \A d \in delayed_messages_ : d.msg \in Messages
      BY DEF TypeOK, QueueTypes, Entries
    <3> QED
      BY <1>enters, <2>9, <2>10, <2>11, <3>1 DEF QuitInv, TimersLate
  <2>14. FalseStops' /\ PeekHandled'
    BY <1>enters, <2>11 DEF QuitInv, FalseStops, PeekHandled
  <2> QED
    BY <2>6, <2>7, <2>8, <2>12, <2>13, <2>14 DEF QuitInv
<1>9. ASSUME NEW t \in Threads, Enqueue(t) PROVE QuitInv'
  <2> DEFINE m == call[t].msg
  <2>1. /\ m \in Messages /\ Posts(t, m) /\ messages_ \in Seq(Messages)
        /\ messages_' = Append(messages_, m)
    BY <1>9 DEF Enqueue, Calls, Idle, Wake, Posts, TypeOK, QueueTypes
  <2>2. /\ call' = [call EXCEPT ![t] = Wake]
        /\ log' = Append(log, [msg |-> m, timed |-> FALSE, run |-> 0,
                               late |-> stop_])
        /\ UNCHANGED <<delayed_messages_, posted, wpc, get, pmsg, stop_, peek>>
    BY <1>9 DEF Enqueue, Entered, Goto
  <2> HIDE DEF m
  <2>3. \A n \in Messages : Listed(n)' => Listed(n) \/ n = m
    BY <2>1 DEF Listed
  <2>4. \A d \in delayed_messages_' : \/ d \in delayed_messages_
                                      \/ d.msg = m /\ d.run = 0
    BY <2>2
  <2>5. FALSE \in BOOLEAN /\ 0 \in Int
    OBVIOUS
  <2> QED
    BY <2>1, <2>2, <2>3, <2>4, <2>5, <1>enters
<1>10. ASSUME NEW t \in Threads, EnqueueDelayed(t) PROVE QuitInv'
  <2> DEFINE m == call[t].msg
             run == call[t].run
  <2>1. m \in Messages /\ run \in Int /\ Posts(t, m)
    BY <1>10 DEF EnqueueDelayed, Calls, Idle, Wake, Posts, TypeOK
  <2>2. /\ call' = [call EXCEPT ![t] = Wake]
        /\ log' = Append(log, [msg |-> m, timed |-> TRUE, run |-> run,
                               late |-> stop_])
        /\ UNCHANGED <<messages_, posted, wpc, get, pmsg, stop_, peek>>
        /\ delayed_messages_' = delayed_messages_ \cup
             {[run |-> run, num |-> delayed_next_num_, msg |-> m]}
    BY <1>10 DEF EnqueueDelayed, Entered, Goto
  <2> HIDE DEF m, run
  <2>3. \A n \in Messages : Listed(n)' => Listed(n) \/ n = m
    BY <2>2 DEF Listed
  <2>4. \A d \in delayed_messages_' : \/ d \in delayed_messages_
                                      \/ d.msg = m /\ d.run = run
    BY <2>2
  <2> QED
    BY <2>1, <2>2, <2>3, <2>4, <1>enters
<1>11. ASSUME NEW t \in Threads, ClearMessage(t) PROVE QuitInv'
  <2>1. PICK i \in 1..Len(messages_) :
          messages_' = SubSeq(messages_, 1, i - 1)
                            \o SubSeq(messages_, i + 1, Len(messages_))
    BY <1>11 DEF ClearMessage
  <2>2. messages_ \in Seq(Messages) /\ Len(messages_) \in Nat
    BY DEF TypeOK, QueueTypes
  <2>3. /\ Len(messages_') = Len(messages_) - 1
        /\ \A k \in 1..(Len(messages_) - 1) :
             messages_'[k] = IF k < i THEN messages_[k] ELSE messages_[k + 1]
    BY <2>1, <2>2, RemoveIndices, Zenon
  <2>4. \A n \in Messages : Listed(n)' => Listed(n)
    BY <2>2, <2>3 DEF Listed
  <2> QED
    BY <1>11, <2>4, <1>away, <1>same DEF ClearMessage, QuitInv, PeekHandled
<1>12. ASSUME NEW t \in Threads, ClearDelayed(t) PROVE QuitInv'
  BY <1>12, <1>away, <1>same
  DEF ClearDelayed, QuitInv, PeekHandled, Listed
<1>13. ASSUME NEW t \in Threads, ClearEnd(t) PROVE QuitInv'
  <2>1. \A m \in Messages : InACall(m)' => InACall(m)
    BY <1>13, <1>calls DEF ClearEnd, Goto, Idle
  <2> QED
    BY <1>13, <2>1, <1>away DEF ClearEnd, QuitInv, PeekHandled, Listed
<1>14. ASSUME NEW h \in Handlers, DestroyHandler(h) PROVE QuitInv'
  BY <1>14, <1>away, <1>same
  DEF DestroyHandler, QuitInv, PeekHandled, Listed
<1>15. CASE Tick
  BY <1>15, <1>away, <1>same DEF Tick, QuitInv, PeekHandled, Listed
(* The owner.                                                              *)
<1>16. ASSUME NEW cms \in CmsLoops, ProcessMessages(cms) PROVE QuitInv'
  BY <1>16, <1>owner, <1>elsewhere DEF ProcessMessages, QuitInv, PeekHandled
<1>17. CASE Peek
  BY <1>17, <1>owner, <1>elsewhere DEF Peek, QuitInv, PeekHandled
<1>18. CASE GetBegin
  <2>1. \/ wpc' = "takepeek" /\ fPeekKeep_
        \/ wpc' = "scan" /\ get'.firstPass
    BY <1>18, <1>get DEF GetBegin, Gets
  <2>2. PeekHandled'
    BY <1>18 DEF GetBegin, QuitInv, PeekHandled
  <2>3. ListLate' /\ TimersLate' /\ FalseStops'
    BY <2>1, <1>elsewhere
  <2> QED
    BY <1>18, <2>2, <2>3, <1>owner DEF GetBegin
<1>19. CASE GetPeeked
  <2>1. wpc' = "got" /\ HandlerOf[pmsg'] # NoHandler
    BY <1>19 DEF GetPeeked, QuitInv, PeekHandled
  <2>2. ListLate' /\ TimersLate' /\ FalseStops'
    BY <2>1 DEF ListLate, TimersLate, FalseStops, Looked, QuitFalse
  <2> QED
    BY <1>19, <2>2, <1>owner DEF GetPeeked, QuitInv, PeekHandled
<1>20. CASE ScanBegin
  <2>1. Looked' => Looked
    BY <1>20 DEF ScanBegin, Looked
  <2>2. ListLate' /\ FalseStops' /\ ~QuitFalse'
    BY <1>20 DEF ScanBegin, ListLate, FalseStops, QuitFalse
  <2>3. TimersLate'
    BY <1>20, <2>1, <2>2, <1>seen DEF ScanBegin
  <2> QED
    BY <1>20, <2>2, <2>3, <1>owner DEF ScanBegin, QuitInv, PeekHandled
<1>21. CASE FireDelayed
  BY <1>21, <1>owner, <1>elsewhere DEF FireDelayed, QuitInv, PeekHandled
<1>22. CASE FireEnd
  <2>1. wpc' = "pull" /\ get'.msCurrent = get.msCurrent
    BY <1>22, <1>get DEF FireEnd, Gets
  <2>2. \A d \in delayed_messages_ : get.msCurrent < d.run
    <3>1. CASE delayed_messages_ = {}
      BY <3>1
    <3>2. CASE delayed_messages_ # {}
      <4>1. PICK top \in delayed_messages_ :
              IsTop(top) /\ get.msCurrent < top.run
        BY <1>22, <3>2 DEF FireEnd, IsTop
      <4>2. /\ get.msCurrent \in Int
            /\ \A d \in delayed_messages_ : d.run \in Int /\ d.num \in Int
        BY <1>get DEF TypeOK, QueueTypes, Entries, Gets
      <4>3. \A d \in delayed_messages_ : top.run <= d.run
        BY <4>1, <4>2 DEF IsTop, Before
      <4> QED
        BY <4>1, <4>2, <4>3
    <3> QED
      BY <3>1, <3>2
  <2>3. TimersLate'
    BY <1>22, <2>1, <2>2 DEF FireEnd, TimersLate
  <2>4. ListLate' /\ FalseStops'
    BY <2>1 DEF ListLate, FalseStops, QuitFalse
  <2> QED
    BY <1>22, <2>3, <2>4, <1>owner DEF FireEnd, QuitInv, PeekHandled
<1>23. CASE Pull
  <2>1. Looked /\ wpc' = "got"
    BY <1>23 DEF Pull, Looked
  <2>2. TimersLate'
    BY <1>23, <2>1, <1>seen DEF Pull
  <2>3. ListLate' /\ FalseStops'
    BY <2>1 DEF ListLate, FalseStops, QuitFalse
  <2> QED
    BY <1>23, <2>2, <2>3, <1>owner DEF Pull, QuitInv, PeekHandled
<1>24. CASE PullNothing
  <2>1. Looked /\ wpc' = "quitcheck" /\ messages_' = <<>>
    BY <1>24 DEF PullNothing, Looked
  <2>2. TimersLate'
    BY <1>24, <2>1, <1>seen DEF PullNothing
  <2>3. ListLate' /\ FalseStops'
    BY <2>1 DEF ListLate, FalseStops, QuitFalse, Listed
  <2> QED
    BY <1>24, <2>2, <2>3, <1>owner DEF PullNothing, QuitInv, PeekHandled
<1>25. CASE DisposeMessage
  <2>1. Looked /\ wpc' = "scan"
    BY <1>25 DEF DisposeMessage, Looked
  <2>2. TimersLate'
    BY <1>25, <2>1, <1>seen DEF DisposeMessage
  <2>3. ListLate' /\ FalseStops'
    BY <2>1 DEF ListLate, FalseStops, QuitFalse
  <2> QED
    BY <1>25, <2>2, <2>3, <1>owner DEF DisposeMessage, QuitInv, PeekHandled
<1>26. CASE PeekKeep
  BY <1>26, <1>owner, <1>elsewhere DEF PeekKeep, QuitInv, PeekHandled
<1>27. CASE Dispatch
  BY <1>27, <1>owner, <1>elsewhere DEF Dispatch, QuitInv, PeekHandled
<1>28. CASE DispatchEnd
  BY <1>28, <1>owner, <1>elsewhere DEF DispatchEnd, QuitInv, PeekHandled
<1>29. CASE WaitBegin
  <2>1. Looked /\ wpc' = "wait" /\ get'.msCurrent = get.msCurrent
    BY <1>29, <1>get DEF WaitBegin, Looked, Gets
  <2>2. TimersLate'
    BY <1>29, <2>1, <1>seen DEF WaitBegin
  <2>3. ListLate' /\ FalseStops'
    BY <2>1 DEF ListLate, FalseStops, QuitFalse
  <2> QED
    BY <1>29, <2>2, <2>3, <1>owner DEF WaitBegin, QuitInv, PeekHandled
<1>30. CASE GetQuit
  <2>1. Looked /\ wpc' = "false" /\ stop_'
    BY <1>30 DEF GetQuit, Looked
  <2>2. TimersLate'
    BY <1>30, <2>1, <1>seen DEF GetQuit
  <2>3. FalseStops'
    BY <2>1 DEF FalseStops
  <2>4. ListLate'
    BY <1>30 DEF GetQuit, QuitInv, ListLate, QuitFalse, Listed, Late
  <2> QED
    BY <1>30, <2>2, <2>3, <2>4, <1>owner DEF GetQuit, QuitInv, PeekHandled
<1>31. CASE WaitSignaled \/ WaitTimeout
  <2>1. \/ wpc' = "false" /\ get'.cmsWait # kForever
        \/ wpc' = "scan" /\ get'.firstPass
    BY <1>31, <1>get DEF WaitSignaled, WaitTimeout, AfterWait, Gets
  <2>2. ListLate' /\ TimersLate' /\ FalseStops'
    BY <2>1 DEF ListLate, TimersLate, FalseStops, Looked, QuitFalse
  <2> QED
    BY <1>31, <2>1, <2>2, <1>owner
    DEF WaitSignaled, WaitTimeout, AfterWait, QuitInv, PeekHandled
<1>32. CASE GetFalse
  BY <1>32, <1>owner, <1>elsewhere DEF GetFalse, QuitInv, PeekHandled
<1> QED
  BY <1>1, <1>3, <1>4, <1>5, <1>6, <1>7, <1>8, <1>9, <1>10, <1>11, <1>12,
     <1>13, <1>14, <1>15, <1>16, <1>17, <1>18, <1>19, <1>20, <1>21, <1>22,
     <1>23, <1>24, <1>25, <1>26, <1>27, <1>28, <1>29, <1>30, <1>31, <1>32
  DEF Next, CallStep, CallBegin, WorkerStep

\* When Quit comes from a handler, Get returns false only after every message
\* that entered before it was taken (thread.h:176-181, thread.cc:319-451).
THEOREM ReadyGoFirst ==
  ASSUME Quitters \subseteq {Worker}, PeekAlone
  PROVE  Spec => []QuitDrains
<1>1. Init => QuitInv
  BY DEF Init, QuitInv, LogTypes, LogOnce, LogEntered, TimersLogged,
     ListLate, TimersLate, FalseStops, PeekHandled, Looked, QuitFalse
<1>2. TypeOK /\ OwnerInv /\ QuitInv /\ [Next]_vars => QuitInv'
  BY QuitStep
<1>3. TypeOK /\ OwnerInv /\ QuitInv => QuitDrains
  <2> SUFFICES ASSUME TypeOK, OwnerInv, QuitInv, QuitFalse,
                      NEW i \in DOMAIN log, ~log[i].late,
                      log[i].run <= get.msCurrent, Pending(log[i].msg)
               PROVE  FALSE
    BY DEF QuitDrains, QuitFalse
  <2> DEFINE m == log[i].msg
  <2>1. /\ i \in 1..Len(log) /\ m \in Messages /\ log[i].run \in Int
        /\ get.msCurrent \in Int
    <3>1. log \in Seq(Records) /\ get \in Gets
      BY TypeFacts DEF QuitInv, LogTypes
    <3>2. i \in 1..Len(log) /\ log[i] \in Records
      BY <3>1
    <3> QED
      BY <3>1, <3>2 DEF Records, Gets
  <2>2. ~Late(m) /\ stop_
    BY <2>1 DEF QuitInv, LogOnce, Late, FalseStops
  <2>3. ~Peeked(m) /\ pmsg # m
    BY <2>1, QueueAssumption
    DEF QuitFalse, OwnerInv, PeekKept, Peeked, TypeOK, InHand
  <2>4. InList(m) = {}
    BY <2>1, <2>2
    DEF QuitInv, ListLate, Listed, InList, TypeOK, QueueTypes
  <2>5. InTimers(m) = {}
    <3> SUFFICES ASSUME NEW d \in delayed_messages_, d.msg = m PROVE FALSE
      BY DEF InTimers
    <3>1. get.msCurrent < d.run
      BY <2>1, <2>2 DEF QuitInv, TimersLate
    <3>2. PICK j \in 1..Len(log) : log[j].msg = m /\ log[j].run = d.run
      BY DEF QuitInv, TimersLogged
    <3>3. j = i
      BY <2>1, <3>2 DEF QuitInv, LogOnce
    <3> QED
      BY <2>1, <3>1, <3>2, <3>3
  <2> QED
    BY <2>3, <2>4, <2>5 DEF Pending
<1> QED
  BY <1>1, <1>2, <1>3, OwnerKept, PTL DEF Spec

-----------------------------------------------------------------------------
(* The queue is a mailbox.                                                 *)

\* No more messages are ever posted than delayed_next_num_ has values.
NumbersLast == IsFiniteSet(Messages) /\ Cardinality(Messages) < NumMod

\* The messages whose Post has entered them, or refused them.
Past == {m \in posted : ~InACall(m)}

\* Each number was given to one of them.
NumInv == delayed_next_num_ <= Cardinality(Past)

\* What Post is done with it never has in its hands again.
LEMMA PastGrows ==
  ASSUME TypeOK, [Next]_vars
  PROVE  Past \subseteq Past'
<1> USE QueueAssumption DEF lists, peek, owner, handlers, history
<1>still. ASSUME call' = call, posted' = posted PROVE Past \subseteq Past'
  BY <1>still DEF Past, InACall, Posts
<1>goes. ASSUME NEW t \in Threads, NEW c, c.op \notin {"post", "delaypost"},
                call' = [call EXCEPT ![t] = c], posted' = posted
         PROVE  Past \subseteq Past'
  BY <1>goes DEF Past, InACall, Posts, TypeOK
<1>begins. ASSUME NEW t \in Threads, NEW m \in Messages, NEW next,
                  next.msg = m, PostBegin(t, m, next)
           PROVE  Past \subseteq Past'
  BY <1>begins DEF PostBegin, Goto, Past, InACall, Posts, TypeOK
<1>1. ASSUME NEW t \in Threads, Post(t) \/ DoDelayPost(t)
      PROVE  Past \subseteq Past'
  BY <1>1, <1>begins DEF Post, DoDelayPost
<1>2. ASSUME NEW t \in Threads, Enqueue(t) \/ EnqueueDelayed(t)
      PROVE  Past \subseteq Past'
  BY <1>2, <1>goes DEF Enqueue, EnqueueDelayed, Entered, Goto, Wake
<1>3. ASSUME NEW t \in Threads, WakeUp(t) \/ ClearEnd(t)
      PROVE  Past \subseteq Past'
  BY <1>3, <1>goes DEF WakeUp, ClearEnd, Goto, Idle
<1>4. ASSUME NEW t \in Threads, Quit(t) PROVE Past \subseteq Past'
  BY <1>4, <1>goes DEF Quit, Goto, Wake
<1>5. ASSUME NEW t \in Threads, Clear(t) \/ DoDestroy(t)
      PROVE  Past \subseteq Past'
  <2>1. PICK h, collect : ClearBegin(t, h, collect)
    BY <1>5 DEF Clear, DoDestroy
  <2> QED
    BY <2>1, <1>goes DEF ClearBegin, Goto
<1>6. ASSUME NEW t \in Threads, ClearMessage(t) \/ ClearDelayed(t)
      PROVE  Past \subseteq Past'
  BY <1>6, <1>still DEF ClearMessage, ClearDelayed
<1>7. ASSUME NEW t \in Threads, Restart(t) PROVE Past \subseteq Past'
  BY <1>7, <1>still DEF Restart
<1>8. CASE WorkerStep
  BY <1>8, <1>still
  DEF WorkerStep, ProcessMessages, GetBegin, GetPeeked, ScanBegin, FireDelayed,
      FireEnd, Pull, PullNothing, DisposeMessage, PeekKeep, Dispatch,
      DispatchEnd, WaitBegin, GetQuit, WaitSignaled, WaitTimeout, AfterWait,
      GetFalse
<1>9. CASE Peek \/ Tick \/ UNCHANGED vars
  BY <1>9, <1>still DEF Peek, Tick, vars
<1>10. ASSUME NEW h \in Handlers, DestroyHandler(h) PROVE Past \subseteq Past'
  BY <1>10, <1>still DEF DestroyHandler
<1> QED
  BY <1>1, <1>2, <1>3, <1>4, <1>5, <1>6, <1>7, <1>8, <1>9, <1>10
  DEF Next, CallStep, CallBegin

\* A delayed post finds a number that was never given.
LEMMA NumberLeft ==
  ASSUME NumbersLast, TypeOK, OwnerInv, NumInv,
         NEW t \in Threads, EnqueueDelayed(t)
  PROVE  /\ delayed_next_num_' = delayed_next_num_ + 1
         /\ delayed_next_num_' <= Cardinality(Past')
<1> USE QueueAssumption
<1>0. PICK m \in Messages : Posts(t, m)
  BY DEF EnqueueDelayed, Posts, TypeOK, Calls, Idle, Wake
<1>1. Posts(t, m) /\ m \in posted
  BY <1>0 DEF OwnerInv, InOnePlace, InACall
<1>call. call' = [call EXCEPT ![t] = Wake] /\ posted' = posted
  BY DEF EnqueueDelayed, Goto
<1>2. m \notin Past
  BY <1>1 DEF Past, InACall
<1>3. m \in Past'
  <2>1. \A u \in Threads : Posts(u, m) => u = t
    BY <1>1 DEF OwnerInv, CallsOnce
  <2>2. \A u \in Threads : ~Posts(u, m)'
    BY <1>call, <2>1 DEF Wake, Posts, TypeOK
  <2> QED
    BY <1>1, <1>call, <2>2 DEF Past, InACall
<1>4. Past \subseteq Messages /\ Past' \subseteq Messages
  BY DEF TypeOK, HistoryTypes, EnqueueDelayed, Past
<1>5. IsFiniteSet(Past) /\ IsFiniteSet(Past') /\ IsFiniteSet(Past \cup {m})
  BY <1>4, FS_Subset, FS_AddElement DEF NumbersLast
<1>6. Past \cup {m} \subseteq Past'
  <2>1. [Next]_vars
    BY DEF Next, CallStep
  <2> QED
    BY <1>3, <2>1, PastGrows
<1>7. Cardinality(Past \cup {m}) = Cardinality(Past) + 1
  BY <1>2, <1>5, FS_AddElement
<1>8. /\ Cardinality(Past \cup {m}) <= Cardinality(Past')
      /\ Cardinality(Past') <= Cardinality(Messages)
  BY <1>4, <1>5, <1>6, FS_Subset DEF NumbersLast
<1>9. /\ Cardinality(Past) \in Nat /\ Cardinality(Past') \in Nat
      /\ Cardinality(Messages) \in Nat
  BY <1>5, FS_CardinalityType DEF NumbersLast
<1>10. delayed_next_num_ \in Nat /\ NumMod \in Nat
  BY DEF TypeOK, QueueTypes
<1>11. delayed_next_num_ + 1 < NumMod
  BY <1>7, <1>8, <1>9, <1>10 DEF NumInv, NumbersLast
<1>12. delayed_next_num_' = (delayed_next_num_ + 1) % NumMod
  BY DEF EnqueueDelayed
<1>13. delayed_next_num_' = delayed_next_num_ + 1
  BY <1>10, <1>11, <1>12
<1> QED
  BY <1>7, <1>8, <1>9, <1>10, <1>13 DEF NumInv

\* Every step keeps the count.
LEMMA NumStep ==
  ASSUME NumbersLast, TypeOK, OwnerInv, NumInv, [Next]_vars, TypeOK'
  PROVE  NumInv'
<1>1. ASSUME NEW t \in Threads, EnqueueDelayed(t) PROVE NumInv'
  BY <1>1, NumberLeft DEF NumInv
<1>2. ASSUME delayed_next_num_' = delayed_next_num_ PROVE NumInv'
  <2>1. Past \subseteq Past'
    BY PastGrows
  <2>2. Past \subseteq Messages /\ Past' \subseteq Messages
    BY DEF TypeOK, HistoryTypes, Past
  <2>3. IsFiniteSet(Past) /\ IsFiniteSet(Past')
    BY <2>2, FS_Subset DEF NumbersLast
  <2>4. Cardinality(Past) \in Nat /\ Cardinality(Past') \in Nat
    BY <2>3, FS_CardinalityType
  <2>5. Cardinality(Past) <= Cardinality(Past')
    BY <2>1, <2>3, FS_Subset
  <2>6. delayed_next_num_ \in Int
    BY QueueAssumption DEF TypeOK, QueueTypes
  <2> QED
    BY <1>2, <2>4, <2>5, <2>6 DEF NumInv
<1> USE DEF lists
<1>3. ASSUME NEW t \in Threads,
             \/ CallStep(t) /\ ~EnqueueDelayed(t)
             \/ CallBegin(t)
      PROVE  delayed_next_num_' = delayed_next_num_
  BY <1>3
  DEF CallStep, CallBegin, Enqueue, WakeUp, ClearMessage, ClearDelayed,
      ClearEnd, Post, DoDelayPost, PostBegin, Quit, Restart, Clear, DoDestroy,
      ClearBegin
<1>4. ASSUME WorkerStep PROVE delayed_next_num_' = delayed_next_num_
  BY <1>4
  DEF WorkerStep, ProcessMessages, GetBegin, GetPeeked, ScanBegin, FireDelayed,
      FireEnd, Pull, PullNothing, DisposeMessage, PeekKeep, Dispatch,
      DispatchEnd, WaitBegin, GetQuit, WaitSignaled, WaitTimeout, AfterWait,
      GetFalse
<1>5. ASSUME \/ Peek \/ Tick \/ UNCHANGED vars
             \/ \E h \in Handlers : DestroyHandler(h)
      PROVE  delayed_next_num_' = delayed_next_num_
  BY <1>5 DEF Peek, Tick, vars, DestroyHandler
<1> QED
  BY <1>1, <1>2, <1>3, <1>4, <1>5 DEF Next, CallStep

\* A sequence without its element i, as ClearInternal and Drop leave it.
Without(s, i) == SubSeq(s, 1, i - 1) \o SubSeq(s, i + 1, Len(s))

\* Erasing an element of the list erases one of the inbox, whose head h is.
LEMMA DropBehind ==
  ASSUME NEW h \in Seq(Messages), NEW s \in Seq(Messages), NEW i \in 1..Len(s)
  PROVE  /\ Len(h) + i \in DOMAIN (h \o s)
         /\ (h \o s)[Len(h) + i] = s[i]
         /\ Without(h \o s, Len(h) + i) = h \o Without(s, i)
<1> DEFINE b == h \o s
           k == Len(h) + i
           without == SubSeq(s, 1, i - 1) \o SubSeq(s, i + 1, Len(s))
           left == SubSeq(b, 1, k - 1) \o SubSeq(b, k + 1, Len(b))
           right == h \o without
<1>erased. ASSUME NEW u \in Seq(Messages), NEW n \in 1..Len(u)
           PROVE  SubSeq(u, 1, n - 1) \o SubSeq(u, n + 1, Len(u))
                    \in Seq(Messages)
  <2>1. SubSeq(u, 1, n - 1) \in Seq(Messages)
    BY SubSeqProperties
  <2>2. \A j \in (n + 1)..Len(u) : u[j] \in Messages
    OBVIOUS
  <2>3. n + 1 \in Int /\ Len(u) \in Int
    OBVIOUS
  <2>4. SubSeq(u, n + 1, Len(u)) \in Seq(Messages)
    BY <2>2, <2>3, SubSeqProperties
  <2> QED
    BY <2>1, <2>4, ConcatProperties
<1>1. /\ b \in Seq(Messages) /\ Len(b) = Len(h) + Len(s)
      /\ \A j \in 1..(Len(h) + Len(s)) :
           b[j] = IF j <= Len(h) THEN h[j] ELSE s[j - Len(h)]
  BY ConcatProperties
<1> HIDE DEF b
<1>2. Len(h) \in Nat /\ Len(s) \in Nat /\ i \in Int
  OBVIOUS
<1>3. k \in 1..Len(b) /\ k \in Int /\ DOMAIN b = 1..Len(b) /\ b[k] = s[i]
  BY <1>1, <1>2
<1>4. /\ without \in Seq(Messages) /\ Len(without) = Len(s) - 1
      /\ \A j \in 1..(Len(s) - 1) :
           without[j] = IF j < i THEN s[j] ELSE s[j + 1]
  BY <1>erased, RemoveIndices
<1>5. /\ left \in Seq(Messages) /\ Len(left) = Len(b) - 1
      /\ \A j \in 1..(Len(b) - 1) :
           left[j] = IF j < k THEN b[j] ELSE b[j + 1]
  <2> HIDE DEF k
  <2> QED
    BY <1>1, <1>3, <1>erased, RemoveIndices
<1> HIDE DEF without, left
<1>6. /\ right \in Seq(Messages) /\ Len(right) = Len(h) + Len(without)
      /\ \A j \in 1..(Len(h) + Len(without)) :
           right[j] = IF j <= Len(h) THEN h[j] ELSE without[j - Len(h)]
  BY <1>4, ConcatProperties
<1> HIDE DEF right
<1>7. Len(left) = Len(right) /\ Len(left) = Len(h) + Len(s) - 1
  BY <1>1, <1>2, <1>4, <1>5, <1>6
<1>8. ASSUME NEW j \in 1..Len(left) PROVE left[j] = right[j]
  <2>1. j \in Int /\ j \in 1..(Len(h) + Len(s) - 1)
    BY <1>2, <1>7
  <2>2. left[j] = IF j < k THEN b[j] ELSE b[j + 1]
    BY <1>1, <1>2, <1>5, <2>1
  <2>3. right[j] = IF j <= Len(h) THEN h[j] ELSE without[j - Len(h)]
    BY <1>2, <1>4, <1>6, <2>1
  <2>4. CASE j <= Len(h)
    BY <1>1, <1>2, <2>1, <2>2, <2>3, <2>4
  <2>5. CASE ~(j <= Len(h))
    <3>1. j - Len(h) \in 1..(Len(s) - 1)
      BY <1>2, <2>1, <2>5
    <3>2. right[j] = IF j - Len(h) < i THEN s[j - Len(h)]
                                       ELSE s[j - Len(h) + 1]
      BY <1>4, <2>3, <2>5, <3>1
    <3>3. CASE j < k
      <4>1. left[j] = s[j - Len(h)]
        BY <1>1, <1>2, <2>1, <2>2, <2>5, <3>3
      <4> QED
        BY <1>2, <2>1, <3>2, <3>3, <4>1
    <3>4. CASE ~(j < k)
      <4>1. /\ j + 1 \in 1..(Len(h) + Len(s)) /\ ~(j + 1 <= Len(h))
            /\ j + 1 - Len(h) = j - Len(h) + 1
        BY <1>2, <2>1, <2>5
      <4>2. left[j] = s[j - Len(h) + 1]
        BY <1>1, <2>2, <3>4, <4>1
      <4> QED
        BY <1>2, <2>1, <3>2, <3>4, <4>2
    <3> QED
      BY <3>3, <3>4
  <2> QED
    BY <2>4, <2>5
<1>9. left = right
  BY <1>5, <1>6, <1>7, <1>8, SeqEqual
<1> QED
  BY <1>3, <1>9 DEF b, left, right, without, Without

\* Taking the first.
LEMMA DropFirst ==
  ASSUME NEW m \in Messages, NEW s \in Seq(Messages)
  PROVE  LET b == <<m>> \o s
         IN  /\ b # <<>> /\ 1 \in DOMAIN b /\ b[1] = m
             /\ Head(b) = m /\ Tail(b) = s
             /\ SubSeq(b, 1, 0) \o SubSeq(b, 2, Len(b)) = s
<1> DEFINE b == <<m>> \o s
<1>1. <<m>> \in Seq(Messages) /\ Len(<<m>>) = 1 /\ <<m>>[1] = m
  OBVIOUS
<1>2. /\ b \in Seq(Messages) /\ Len(b) = 1 + Len(s) /\ Len(s) \in Nat
      /\ \A j \in 1..(1 + Len(s)) :
           b[j] = IF j <= 1 THEN <<m>>[j] ELSE s[j - 1]
  BY <1>1, ConcatProperties
<1> HIDE DEF b
<1>3. b # <<>> /\ 1 \in DOMAIN b /\ b[1] = m /\ Head(b) = m
  BY <1>1, <1>2
<1>4. /\ Tail(b) \in Seq(Messages) /\ Len(Tail(b)) = Len(b) - 1
      /\ \A j \in 1..Len(Tail(b)) : Tail(b)[j] = b[j + 1]
  BY <1>2, <1>3, HeadTailProperties
<1>5. Tail(b) = s
  <2>1. \A j \in 1..Len(Tail(b)) : Tail(b)[j] = s[j]
    BY <1>2, <1>4
  <2> QED
    BY <1>2, <1>4, <2>1, SeqEqual
<1>6. SubSeq(b, 1, 0) = <<>>
  BY SubSeqEmpty
<1>7. SubSeq(b, 2, Len(b)) = Tail(b)
  BY <1>2, <1>3, TailIsSubSeq
<1>8. <<>> \o s = s
  BY ConcatEmptySeq
<1> QED
  BY <1>3, <1>5, <1>6, <1>7, <1>8 DEF b

\* The mailbox knows a message only when Post is done with it.
LEMMA KnownIsPast ==
  ASSUME TypeOK, OwnerInv, NEW m \in Messages, Box!Known(m)
  PROVE  m \in posted /\ ~InACall(m)
<1> USE QueueAssumption
<1>1. /\ Front \in Seq(Messages) /\ Kept \in Seq(Messages)
      /\ messages_ \in Seq(Messages)
  BY DEF Front, Kept, TypeOK, QueueTypes, OwnerTypes, InHand
<1>2. Front \o Kept \in Seq(Messages)
  BY <1>1, ConcatProperties
<1>3. ASSUME NEW i \in DOMAIN (Front \o Kept \o messages_),
             (Front \o Kept \o messages_)[i] = m
      PROVE  Held(m) \/ Peeked(m) \/ Listed(m)
  <2> DEFINE h == Front \o Kept
             b == h \o messages_
  <2>1. /\ Len(b) = Len(h) + Len(messages_) /\ DOMAIN b = 1..Len(b)
        /\ \A j \in 1..(Len(h) + Len(messages_)) :
             b[j] = IF j <= Len(h) THEN h[j] ELSE messages_[j - Len(h)]
    <3> HIDE DEF h
    <3>1. h \in Seq(Messages)
      BY <1>2 DEF h
    <3>2. b \in Seq(Messages)
      BY <1>1, <3>1, ConcatProperties
    <3>3. /\ Len(b) = Len(h) + Len(messages_)
          /\ \A j \in 1..(Len(h) + Len(messages_)) :
               b[j] = IF j <= Len(h) THEN h[j] ELSE messages_[j - Len(h)]
      BY <1>1, <3>1, ConcatProperties
    <3>4. DOMAIN b = 1..Len(b)
      BY <3>2, LenProperties
    <3> QED
      BY <3>3, <3>4
  <2>2. /\ Len(h) = Len(Front) + Len(Kept)
        /\ \A j \in 1..(Len(Front) + Len(Kept)) :
             h[j] = IF j <= Len(Front) THEN Front[j] ELSE Kept[j - Len(Front)]
    BY <1>1, ConcatProperties
  <2>3. i \in 1..Len(b) /\ b[i] = m
    BY <1>3, <2>1
  <2> HIDE DEF h, b
  <2>4. /\ Len(Front) \in Nat /\ Len(Kept) \in Nat /\ Len(messages_) \in Nat
        /\ \A j \in 1..Len(Front) : Front[j] = pmsg
        /\ \A j \in 1..Len(Kept) : Kept[j] = msgPeek_ /\ fPeekKeep_
    BY <1>1 DEF Front, Kept
  <2>5. CASE i <= Len(Front)
    BY <2>1, <2>2, <2>3, <2>4, <2>5 DEF Held
  <2>6. CASE ~(i <= Len(Front)) /\ i <= Len(h)
    <3>1. i - Len(Front) \in 1..Len(Kept) /\ m = Kept[i - Len(Front)]
      BY <2>1, <2>2, <2>3, <2>4, <2>6
    <3> QED
      BY <2>4, <3>1 DEF Peeked
  <2>7. CASE ~(i <= Len(h))
    <3>1. i - Len(h) \in 1..Len(messages_) /\ m = messages_[i - Len(h)]
      BY <2>1, <2>2, <2>3, <2>4, <2>7
    <3> QED
      BY <3>1 DEF Listed
  <2> QED
    BY <2>5, <2>6, <2>7
<1>4. \/ Held(m) \/ Peeked(m) \/ Listed(m) \/ Timed(m) \/ Delivered(m)
      \/ HandedBack(m) \/ Deleted(m)
  <2>1. delivered \in Seq(Messages) /\ DOMAIN delivered = 1..Len(delivered)
    BY DEF TypeOK, HistoryTypes
  <2> QED
    BY <1>3, <2>1 DEF Box!Known, Timed, Delivered, HandedBack, Deleted
<1> QED
  BY <1>4 DEF OwnerInv, InOnePlace

\* Every step is one of the mailbox, or moves a message within the inbox.
LEMMA MailboxStep ==
  ASSUME PeekAlone, NumbersLast, TypeOK, OwnerInv, GetTimes, NumInv,
         [Next]_vars
  PROVE  [Box!Next]_(Box!boxVars)
<1> USE QueueAssumption DEF lists, peek, owner, handlers, history
<1> DEFINE Gone == removed \cup {m \in Messages : deletes[m] > 0}
<1>seqs. /\ Front \in Seq(Messages) /\ Kept \in Seq(Messages)
         /\ messages_ \in Seq(Messages) /\ Front \o Kept \in Seq(Messages)
  <2>1. /\ Front \in Seq(Messages) /\ Kept \in Seq(Messages)
        /\ messages_ \in Seq(Messages)
    BY DEF Front, Kept, TypeOK, QueueTypes, OwnerTypes, InHand
  <2> QED
    BY <2>1, ConcatProperties
<1>head. ASSUME UNCHANGED <<pmsg, peek>>
         PROVE  Front' = Front /\ Kept' = Kept
  BY <1>head DEF Front, Kept
<1>still. ASSUME UNCHANGED <<lists, peek, pmsg, delivered, removed, deletes,
                             now>>
          PROVE  UNCHANGED Box!boxVars
  BY <1>still DEF Box!boxVars, Front, Kept
\* A message that goes nowhere.
<1>deleted. ASSUME NEW m \in Messages, Delete(m), removed' = removed
            PROVE  Gone' = Gone \cup {m}
  BY <1>deleted DEF Delete, TypeOK, HistoryTypes
<1>discarded. ASSUME NEW m \in Messages, NEW collect \in BOOLEAN,
                     Discard(m, collect)
              PROVE  Gone' = Gone \cup {m}
  BY <1>discarded, <1>deleted DEF Discard
\* One more at the end of the list.
<1>append. ASSUME NEW m \in Messages, messages_' = Append(messages_, m),
                  UNCHANGED <<pmsg, peek>>
           PROVE  (Front \o Kept \o messages_)'
                    = Append(Front \o Kept \o messages_, m)
  <2> DEFINE h == Front \o Kept
  <2>1. (Front \o Kept \o messages_)' = h \o Append(messages_, m)
    BY <1>append, <1>head
  <2>2. h \in Seq(Messages) /\ <<m>> \in Seq(Messages)
    BY <1>seqs
  <2> HIDE DEF h
  <2>3. h \o messages_ \in Seq(Messages)
    BY <1>seqs, <2>2, ConcatProperties
  <2>4. Append(messages_, m) = messages_ \o <<m>>
    BY <1>seqs, AppendIsConcat
  <2>5. Append(h \o messages_, m) = (h \o messages_) \o <<m>>
    BY <2>3, AppendIsConcat
  <2>6. h \o (messages_ \o <<m>>) = (h \o messages_) \o <<m>>
    BY <1>seqs, <2>2, ConcatAssociative
  <2>7. h \o Append(messages_, m) = Append(h \o messages_, m)
    BY <2>4, <2>5, <2>6
  <2> QED
    BY <2>1, <2>7 DEF h
(* The callers.                                                            *)
<1>1. ASSUME NEW t \in Threads, NEW m \in Messages, NEW next,
             PostBegin(t, m, next)
      PROVE  Box!Next \/ UNCHANGED Box!boxVars
  <2>1. CASE stop_
    <3>1. ~Box!Known(m)
      BY <1>1, KnownIsPast DEF PostBegin
    <3>2. Gone' = Gone \cup {m}
      BY <1>1, <1>deleted, <2>1 DEF PostBegin
    <3>3. Box!Refuse(m)
      BY <1>1, <1>head, <3>1, <3>2 DEF Box!Refuse, PostBegin
    <3> QED
      BY <3>3 DEF Box!Next
  <2>2. CASE ~stop_
    BY <1>1, <1>still, <2>2 DEF PostBegin
  <2> QED
    BY <2>1, <2>2
<1>2. ASSUME NEW t \in Threads, Post(t) \/ DoDelayPost(t)
      PROVE  Box!Next \/ UNCHANGED Box!boxVars
  BY <1>1, <1>2 DEF Post, DoDelayPost
<1>3. ASSUME NEW t \in Threads, Enqueue(t) PROVE Box!Next
  <2>1. PICK m \in Messages : Posts(t, m) /\ m = call[t].msg
    BY <1>3 DEF Enqueue, Posts, TypeOK, Calls, Idle, Wake
  <2>2. ~Box!Known(m)
    BY <2>1, KnownIsPast DEF InACall
  <2>3. (Front \o Kept \o messages_)' = Append(Front \o Kept \o messages_, m)
    BY <1>3, <1>append, <2>1 DEF Enqueue
  <2>4. Box!Accept(m)
    BY <1>3, <2>2, <2>3 DEF Box!Accept, Enqueue
  <2> QED
    BY <2>4 DEF Box!Next
<1>4. ASSUME NEW t \in Threads, EnqueueDelayed(t) PROVE Box!Next
  <2>1. PICK m \in Messages : Posts(t, m) /\ m = call[t].msg
    BY <1>4 DEF EnqueueDelayed, Posts, TypeOK, Calls, Idle, Wake
  <2>2. ~Box!Known(m)
    BY <2>1, KnownIsPast DEF InACall
  <2>3. delayed_next_num_' = delayed_next_num_ + 1
    BY <1>4, NumberLeft
  <2> DEFINE d == [run |-> call[t].run, num |-> delayed_next_num_, msg |-> m]
  <2>4. delayed_messages_' = delayed_messages_ \cup {d}
    BY <1>4, <2>1 DEF EnqueueDelayed
  <2>5. Box!AcceptTimer(m, d.run)
    BY <1>4, <1>head, <2>2, <2>3, <2>4 DEF Box!AcceptTimer, EnqueueDelayed
  <2> HIDE DEF d
  <2> QED
    BY <2>4, <2>5 DEF Box!Next
<1>5. ASSUME NEW t \in Threads,
             WakeUp(t) \/ Quit(t) \/ Restart(t) \/ ClearEnd(t)
      PROVE  UNCHANGED Box!boxVars
  BY <1>5, <1>still DEF WakeUp, Quit, Restart, ClearEnd
\* A message is peeked at only while nobody clears.
<1>6. ASSUME NEW t \in Threads, Clear(t) \/ DoDestroy(t)
      PROVE  UNCHANGED Box!boxVars
  <2>1. ~fPeekKeep_
    BY <1>6 DEF Clear, DoDestroy, CanCall, OwnerInv, PeekKept, PeekAlone
  <2>2. PICK h, collect : ClearBegin(t, h, collect)
    BY <1>6 DEF Clear, DoDestroy
  <2> QED
    BY <1>still, <2>1, <2>2 DEF ClearBegin
<1>clearing. ASSUME NEW t \in Threads, NEW m, Clears(t, m)
             PROVE  call[t].collect \in BOOLEAN
  BY <1>clearing DEF Clears, TypeOK, Calls, Idle, Wake
<1>7. ASSUME NEW t \in Threads, ClearMessage(t) PROVE Box!Next
  <2>1. PICK i \in 1..Len(messages_) :
          /\ Clears(t, messages_[i])
          /\ messages_' = SubSeq(messages_, 1, i - 1)
                            \o SubSeq(messages_, i + 1, Len(messages_))
          /\ Discard(messages_[i], call[t].collect)
    BY <1>7 DEF ClearMessage
  <2>2. messages_[i] \in Messages
    BY <1>seqs
  <2>3. Gone' = Gone \cup {messages_[i]}
    BY <1>discarded, <1>clearing, <2>1, <2>2
  <2> DEFINE h == Front \o Kept
             b == Front \o Kept \o messages_
  <2>4. h \in Seq(Messages) /\ b = h \o messages_
    BY <1>seqs
  <2>5. b' = h \o Without(messages_, i)
    BY <1>7, <1>head, <2>1 DEF ClearMessage, Without
  <2> HIDE DEF h, b
  <2>6. PICK k : k = Len(h) + i
    OBVIOUS
  <2>7. /\ k \in DOMAIN b /\ b[k] = messages_[i]
        /\ Without(b, k) = h \o Without(messages_, i)
    <3>1. ASSUME NEW g \in Seq(Messages), NEW s \in Seq(Messages),
                 NEW j \in 1..Len(s)
          PROVE  /\ Len(g) + j \in DOMAIN (g \o s)
                 /\ (g \o s)[Len(g) + j] = s[j]
                 /\ Without(g \o s, Len(g) + j) = g \o Without(s, j)
      BY DropBehind
    <3>2. messages_ \in Seq(Messages) /\ i \in 1..Len(messages_)
      BY <1>seqs
    <3>3. /\ Len(h) + i \in DOMAIN (h \o messages_)
          /\ (h \o messages_)[Len(h) + i] = messages_[i]
          /\ Without(h \o messages_, Len(h) + i)
               = h \o Without(messages_, i)
      BY <2>4, <3>1, <3>2
    <3> QED
      BY <2>4, <2>6, <3>3
  <2>8. /\ b' = SubSeq(b, 1, k - 1) \o SubSeq(b, k + 1, Len(b))
        /\ Gone' = Gone \cup {b[k]}
    BY <2>3, <2>5, <2>7 DEF Without
  <2>9. UNCHANGED <<delayed_messages_, delayed_next_num_, delivered, now>>
    BY <1>7 DEF ClearMessage
  <2>10. Box!Drop(k) /\ k \in DOMAIN (Front \o Kept \o messages_)
    BY <2>7, <2>8, <2>9, Zenon DEF Box!Drop, b
  <2> QED
    BY <2>10, Zenon DEF Box!Next
<1>8. ASSUME NEW t \in Threads, ClearDelayed(t) PROVE Box!Next
  <2>1. PICK d \in delayed_messages_ :
          /\ Clears(t, d.msg)
          /\ delayed_messages_' = delayed_messages_ \ {d}
          /\ Discard(d.msg, call[t].collect)
    BY <1>8 DEF ClearDelayed
  <2>2. d.msg \in Messages
    BY DEF TypeOK, QueueTypes, Entries
  <2>3. Gone' = Gone \cup {d.msg}
    BY <1>discarded, <1>clearing, <2>1, <2>2
  <2>4. Box!DropTimer(d)
    BY <1>8, <1>head, <2>1, <2>3 DEF Box!DropTimer, ClearDelayed
  <2> QED
    BY <2>4 DEF Box!Next
<1>9. ASSUME NEW h \in Handlers, DestroyHandler(h)
      PROVE  UNCHANGED Box!boxVars
  BY <1>9, <1>still DEF DestroyHandler
<1>10. CASE Tick
  <2>1. Box!TimePasses
    BY <1>10, <1>head DEF Box!TimePasses, Tick
  <2> QED
    BY <2>1 DEF Box!Next
(* The owner.                                                              *)
<1>11. ASSUME \/ \E cms \in CmsLoops : ProcessMessages(cms)
              \/ Peek \/ GetBegin \/ ScanBegin \/ FireEnd \/ PullNothing
              \/ DispatchEnd \/ WaitBegin \/ GetQuit \/ WaitSignaled
              \/ WaitTimeout \/ GetFalse
       PROVE  UNCHANGED Box!boxVars
  BY <1>11, <1>still
  DEF ProcessMessages, Peek, GetBegin, ScanBegin, FireEnd, PullNothing,
      DispatchEnd, WaitBegin, GetQuit, WaitSignaled, WaitTimeout, AfterWait,
      GetFalse
<1>12. CASE FireDelayed
  <2>1. PICK d \in delayed_messages_ :
          /\ IsTop(d) /\ d.run <= get.msCurrent
          /\ messages_' = Append(messages_, d.msg)
          /\ delayed_messages_' = delayed_messages_ \ {d}
    BY <1>12 DEF FireDelayed
  <2>2. d.msg \in Messages /\ d.run \in Int
    BY DEF TypeOK, QueueTypes, Entries
  <2>3. d.run <= now
    BY <2>1, <2>2, TypeFacts DEF GetTimes, Gets
  <2>4. \A e \in delayed_messages_ : ~Box!Earlier(e, d)
    BY <2>1 DEF IsTop, Before, Box!Earlier
  <2>5. (Front \o Kept \o messages_)'
          = Append(Front \o Kept \o messages_, d.msg)
    BY <1>12, <1>append, <2>1, <2>2 DEF FireDelayed
  <2>6. Box!Fire(d)
    BY <1>12, <2>1, <2>3, <2>4, <2>5 DEF Box!Fire, FireDelayed
  <2> QED
    BY <2>6 DEF Box!Next
\* A message comes to the owner's hand, from the peek or from the list, or
\* goes to the peek: the inbox stays.
<1>13. CASE GetPeeked
  <2>1. fPeekKeep_ /\ pmsg = NoMsg /\ msgPeek_ \in Messages
    BY <1>13
    DEF GetPeeked, OwnerInv, PeekKept, TypeOK, InHand, QueueTypes
  <2>2. Front \o Kept = <<msgPeek_>> /\ Front' \o Kept' = <<msgPeek_>>
    BY <1>13, <2>1, ConcatEmptySeq DEF GetPeeked, Front, Kept
  <2> QED
    BY <1>13, <2>2 DEF GetPeeked, Box!boxVars
<1>14. CASE Pull
  <2>1. ~fPeekKeep_ /\ pmsg = NoMsg
    BY <1>14 DEF Pull, OwnerInv, PeekKept, TypeOK, InHand
  <2>2. /\ Head(messages_) \in Messages /\ Tail(messages_) \in Seq(Messages)
        /\ messages_ = <<Head(messages_)>> \o Tail(messages_)
    <3>1. messages_ # <<>> /\ Len(messages_) \in Nat \ {0}
      BY <1>14, <1>seqs, EmptySeq DEF Pull
    <3>2. Head(messages_) \in Messages /\ Tail(messages_) \in Seq(Messages)
      BY <1>seqs, <3>1, HeadTailProperties
    <3>3. messages_ = SubSeq(messages_, 1, Len(messages_))
      BY <1>seqs, SubSeqFull
    <3>4. SubSeq(messages_, 1, Len(messages_))
            = <<messages_[1]>> \o SubSeq(messages_, 2, Len(messages_))
      BY <1>seqs, <3>1, SubSeqRecursiveFirst
    <3>5. Tail(messages_) = SubSeq(messages_, 2, Len(messages_))
      BY <1>seqs, <3>1, TailIsSubSeq
    <3>6. Head(messages_) = messages_[1]
      BY <1>seqs, <3>1
    <3> QED
      BY <3>2, <3>3, <3>4, <3>5, <3>6
  <2>3. Front \o Kept \o messages_ = messages_
    <3>1. Front \o Kept = <<>>
      BY <2>1 DEF Front, Kept
    <3> QED
      BY <1>seqs, <3>1, ConcatEmptySeq
  <2>4. (Front \o Kept \o messages_)' = <<Head(messages_)>> \o Tail(messages_)
    <3>1. Front' \o Kept' = <<Head(messages_)>>
      BY <1>14, <2>1, <2>2, ConcatEmptySeq DEF Pull, Front, Kept
    <3> QED
      BY <1>14, <3>1 DEF Pull
  <2> QED
    BY <1>14, <2>2, <2>3, <2>4 DEF Pull, Box!boxVars
<1>15. CASE PeekKeep
  <2>1. ~fPeekKeep_ /\ pmsg \in Messages
    BY <1>15
    DEF PeekKeep, OwnerInv, PeekKept, TypeOK, InHand, OwnerTypes
  <2>2. Front \o Kept = <<pmsg>> /\ Front' \o Kept' = <<pmsg>>
    BY <1>15, <2>1, ConcatEmptySeq DEF PeekKeep, Front, Kept
  <2> QED
    BY <1>15, <2>2 DEF PeekKeep, Box!boxVars
\* A message leaves the front.
<1>first. ASSUME wpc = "got", pmsg' = NoMsg, UNCHANGED <<peek, messages_>>
          PROVE  LET b == Front \o Kept \o messages_
                 IN  /\ pmsg \in Messages
                     /\ b # <<>> /\ 1 \in DOMAIN b /\ b[1] = pmsg
                     /\ Head(b) = pmsg
                     /\ Tail(b) = (Front \o Kept \o messages_)'
                     /\ SubSeq(b, 1, 0) \o SubSeq(b, 2, Len(b))
                          = (Front \o Kept \o messages_)'
  <2>1. ~fPeekKeep_ /\ pmsg \in Messages
    BY <1>first DEF OwnerInv, PeekKept, TypeOK, InHand, OwnerTypes
  <2>2. Front \o Kept = <<pmsg>> /\ Front' \o Kept' = <<>>
    BY <1>first, <2>1, ConcatEmptySeq DEF Front, Kept
  <2>3. (Front \o Kept \o messages_)' = messages_
    BY <1>first, <1>seqs, <2>2, ConcatEmptySeq
  <2> QED
    BY <1>seqs, <2>1, <2>2, <2>3, DropFirst
<1>16. CASE DisposeMessage
  <2>1. Gone' = Gone \cup {pmsg}
    BY <1>16, <1>first, <1>deleted DEF DisposeMessage
  <2>2. Box!Drop(1)
    BY <1>16, <1>first, <2>1 DEF DisposeMessage, Box!Drop
  <2> QED
    BY <1>16, <1>first, <2>2 DEF DisposeMessage, Box!Next
<1>17. CASE Dispatch
  <2>1. Box!Deliver
    BY <1>17, <1>first DEF Dispatch, Box!Deliver
  <2> QED
    BY <2>1 DEF Box!Next
<1>18. CASE UNCHANGED vars
  BY <1>18, <1>still DEF vars
<1> QED
  BY <1>2, <1>3, <1>4, <1>5, <1>6, <1>7, <1>8, <1>9, <1>10, <1>11, <1>12,
     <1>13, <1>14, <1>15, <1>16, <1>17, <1>18
  DEF Next, CallStep, CallBegin, WorkerStep

\* Through its lock, its unlocked reads and its peek buffer the queue is a
\* mailbox: messages are delivered in the order in which they were accepted
\* or became due, timers by time and then in the order of their posts, and
\* nothing leaves but to a handler, by Clear or at the end
\* (thread.cc:307-552).
THEOREM QueueIsMailbox ==
  ASSUME PeekAlone, NumbersLast
  PROVE  Spec => ImplementsMailbox
<1>1. Init => Box!Init
  BY ConcatEmptySeq DEF Init, Box!Init, Front, Kept
<1>2. Init => NumInv
  <2> SUFFICES ASSUME Init PROVE NumInv
    OBVIOUS
  <2>1. Past = {}
    BY DEF Init, Past
  <2> QED
    BY <2>1, FS_EmptySet DEF Init, NumInv
<1>3. TypeOK /\ OwnerInv /\ NumInv /\ [Next]_vars /\ TypeOK' => NumInv'
  BY NumStep
<1>4. TypeOK /\ OwnerInv /\ GetTimes /\ NumInv /\ [Next]_vars
        => [Box!Next]_(Box!boxVars)
  BY MailboxStep
<1> QED
  BY <1>1, <1>2, <1>3, <1>4, OwnerKept, TimesKept, PTL
  DEF Spec, ImplementsMailbox, Box!Spec

=============================================================================
