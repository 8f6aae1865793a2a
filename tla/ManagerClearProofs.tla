-------------------------- MODULE ManagerClearProofs --------------------------
(* Theorems about ManagerClear, and their proofs. *)
EXTENDS ManagerClear, FiniteSetTheorems, SequenceTheorems, TLAPS

-----------------------------------------------------------------------------
(* The stacks.                                                             *)

ManagerSteps == {"enter manager", "queues"}
LoopSteps == {"clear", "list", "erase", "timers"}
Steps == {"add", "remove", "enter queue"} \cup ManagerSteps \cup LoopSteps

Records ==
  [at : Steps, call : Calls \cup {Nil}, h : Handlers \cup {Nil},
   q : Queues \cup {Nil}, locked : BOOLEAN, m : Messages \cup {Nil},
   i : Nat \ {0}, n : Nat \ {0}]
Frames == {f \in Records : f.n <= f.i}

\* The outermost call of t, with the list mq of queues and the calls in
\* progress.
OfCall(t, f, mq, open) ==
  LET c == f.call
  IN /\ c \in open /\ By[c] = t
     /\ Kind[c] = "clearall" => f.at \in ManagerSteps /\ f.h = For[c]
     /\ Kind[c] # "clearall" => f.q = About[c]
     /\ Kind[c] = "clear" =>
          f.at \in {"enter queue"} \cup LoopSteps /\ f.locked /\ f.h = For[c]
     /\ Kind[c] = "destroy" =>
          \/ f.at = "remove"
          \/ /\ f.at \in LoopSteps /\ ~f.locked /\ f.h = Nil
             /\ f.q \notin ToSet(mq)
     /\ Kind[c] = "add" => f.at = "add"

\* A call f that g has made.
CalledBy(f, g, mq) ==
  /\ f.call = Nil
  /\ \/ /\ g.at = "queues"
        /\ f.at \in {"enter queue"} \cup LoopSteps
        /\ f.locked /\ f.h = g.h
        /\ g.i - 1 \in DOMAIN mq /\ f.q = mq[g.i - 1]
     \/ /\ g.at \in {"erase", "timers"}
        /\ f.at \in ManagerSteps /\ f.h \in Handlers

Shape(t, s, mq, open) ==
  \A j \in 1..Len(s) :
    IF j = Len(s) THEN OfCall(t, s[j], mq, open)
    ELSE CalledBy(s[j], s[j + 1], mq)

\* A lock is counted.
LockOK(c) ==
  /\ c \in [owner : Threads \cup {Nil}, recursion_count_ : Nat]
  /\ c.owner = Nil <=> c.recursion_count_ = 0

Present(q) == q \in ToSet(message_queues_)

\* A queue comes into the list once, and leaves it when it is destroyed.
Listing ==
  /\ message_queues_ \in Seq(Queues) /\ IsInjective(message_queues_)
  /\ \A c \in Calls :
       Kind[c] = "add" /\ c \notin returned => ~Present(About[c])
  /\ \A c, d \in Calls :
       /\ Kind[d] = "destroy" /\ d \in begun
       /\ Kind[c] \in {"add", "clear"} /\ About[c] = About[d]
       => c \in returned

Counted ==
  /\ processing_ = mcrit.recursion_count_
  /\ LockOK(mcrit)
  /\ \A t \in Threads : HeldBy(mcrit, t, ManagerCalls(stack[t]))
  /\ qcrit = [q \in Queues |-> qcrit[q]]
  /\ \A q \in Queues :
       /\ LockOK(qcrit[q])
       /\ \A t \in Threads : HeldBy(qcrit[q], t, QueueCalls(stack[t], q))

StackInv ==
  /\ stack \in [Threads -> Seq(Frames)]
  /\ messages_ \in [Queues -> Seq(Messages)]
  /\ timers \in [Queues -> Seq(Messages)]
  /\ deleted \in [Messages -> Nat]
  /\ returned \subseteq begun /\ begun \subseteq Calls
  /\ Listing
  /\ Counted
  /\ \A t \in Threads :
       Shape(t, stack[t], message_queues_, begun \ returned)

-----------------------------------------------------------------------------
(* The loops.                                                              *)

\* The elements of s before the i-th do not match h.
KeptBefore(s, i, h) == \A j \in 1..(i - 1) : ~Match(s[j], h)

\* m is in s, and nothing that matches before it.
Reaches(s, m, h) ==
  \E i \in 1..Len(s) : s[i] = m /\ KeptBefore(s, i, h)

LoopOK(f, ms, ts) ==
  LET s == ms[f.q]
      r == ts[f.q]
  IN /\ f.at \in {"remove", "enter manager", "enter queue", "clear", "list",
                 "erase"} => f.i = 1 /\ f.n = 1
     /\ f.at = "list" =>
          \/ f.m = Nil /\ KeptBefore(s, Len(s) + 1, f.h)
          \/ f.m \in Messages /\ Reaches(s, f.m, f.h)
     /\ f.at = "erase" =>
          f.m \in Messages /\ Match(f.m, f.h) /\ Reaches(s, f.m, f.h)
     /\ f.at = "timers" =>
          /\ KeptBefore(s, Len(s) + 1, f.h)
          /\ f.n <= f.i /\ f.i <= Len(r) + 1
          /\ KeptBefore(r, f.n, f.h)

OkFrames(ms, ts) == {f \in Frames : LoopOK(f, ms, ts)}

\* A call that clears h, above those of s: the ones that are deleting a payload
\* clear handlers of a higher rank.
Above(h, s, rank) ==
  \A k \in 1..Len(s) :
    /\ s[k].at # "timers"
    /\ s[k].at = "erase" =>
         h \in Handlers /\ rank[h] < rank[HandlerOf[s[k].m]]

Chain(s, rank) ==
  \A j \in 1..Len(s) :
    \A k \in 1..Len(s) : j < k =>
      /\ s[k].at # "timers"
      /\ s[k].at = "erase" =>
           s[j].h \in Handlers /\ rank[s[j].h] < rank[HandlerOf[s[k].m]]

\* A timer that TimersEnd will not throw away, for all that this stack says.
Spared(s, q, k) ==
  s # <<>> /\ s[1].at = "timers" /\ s[1].q = q => k < s[1].n \/ s[1].i <= k

Live(q) ==
  {k \in DOMAIN timers[q] : \A t \in Threads : Spared(stack[t], q, k)}

\* The messages whose payloads these calls are deleting.
ErasedBy(s) == {s[j].m : j \in {j \in 1..Len(s) : s[j].at = "erase"}}
BeingErased(m) == \E t \in Threads : m \in ErasedBy(stack[t])

\* A message is in its queue once, and its payload is there.
Places ==
  \A q \in Queues :
    /\ ToSet(messages_[q]) \subseteq ToSet(Ready[q])
    /\ ToSet(timers[q]) \subseteq ToSet(Timers[q])
    /\ IsInjective(messages_[q])
    /\ \A m \in ToSet(messages_[q]) : deleted[m] = 0 \/ BeingErased(m)
    /\ \A i, j \in Live(q) : timers[q][i] = timers[q][j] => i = j
    /\ \A i \in Live(q) : deleted[timers[q][i]] = 0

LoopInv(rank) ==
  /\ \A t \in Threads : /\ stack[t] \in Seq(OkFrames(messages_, timers))
                        /\ Chain(stack[t], rank)
  /\ Places
  /\ DeletedOnce

-----------------------------------------------------------------------------
(* What has been cleared.                                                  *)

Clean(q, h, ms, ts) ==
  \A m \in ToSet(ms[q]) \cup ToSet(ts[q]) : HandlerOf[m] # h

\* ThreadManager::Clear has cleared the first n queues of the list.
Cleared(f, n, mq, ms, ts) ==
  f.at = "queues" =>
    \A k \in 1..n : k \in DOMAIN mq => Clean(mq[k], f.h, ms, ts)

\* The calls that have made another one: the last queue is being cleared.
Waiting(mq, ms, ts) == {f \in Frames : Cleared(f, f.i - 2, mq, ms, ts)}

QueuesClean(s, mq, ms, ts) ==
  s # <<>> => /\ Cleared(s[1], s[1].i - 1, mq, ms, ts)
              /\ Tail(s) \in Seq(Waiting(mq, ms, ts))

CleanInv ==
  /\ ClearsAll
  /\ \A t \in Threads :
       QueuesClean(stack[t], message_queues_, messages_, timers)

-----------------------------------------------------------------------------
(* A call on top of a stack.                                               *)

LEMMA OnTop ==
  ASSUME NEW f \in Frames, NEW r \in Seq(Frames)
  PROVE  LET s == <<f>> \o r
         IN  /\ s \in Seq(Frames) /\ s # <<>> /\ Len(s) = Len(r) + 1
             /\ s[1] = f /\ Tail(s) = r
             /\ \A j \in 1..Len(r) : s[j + 1] = r[j]
OBVIOUS

LEMMA ElementsIn ==
  ASSUME NEW S, NEW s \in Seq(S)
  PROVE  /\ DOMAIN s = 1..Len(s) /\ Len(s) \in Nat
         /\ \A k \in 1..Len(s) : s[k] \in S
OBVIOUS

\* A new call is one of the frames.
LEMMA NewCallType ==
  ASSUME NEW c \in Calls \cup {Nil}, NEW h \in Handlers \cup {Nil},
         NEW q \in Queues \cup {Nil}
  PROVE  \A at \in Steps : NewCall(at, c, h, q) \in Frames
BY DEF NewCall, Frames, Records

LEMMA ManagerCallType ==
  ASSUME NEW h \in Handlers
  PROVE  NewCall("enter manager", Nil, h, Nil) \in Frames
<1>1. \A at \in Steps : NewCall(at, Nil, h, Nil) \in Frames
  BY NewCallType
<1>2. "enter manager" \in Steps
  BY DEF Steps, ManagerSteps
<1> QED
  BY <1>1, <1>2

LEMMA QueueCallType ==
  ASSUME NEW h \in Handlers, NEW q \in Queues
  PROVE  NewCall("enter queue", Nil, h, q) \in Frames
<1>1. \A at \in Steps : NewCall(at, Nil, h, q) \in Frames
  BY NewCallType
<1>2. "enter queue" \in Steps
  BY DEF Steps
<1> QED
  BY <1>1, <1>2

LEMMA TopAndRest ==
  ASSUME NEW S, NEW s \in Seq(S), s # <<>>
  PROVE  /\ s[1] \in S /\ Tail(s) \in Seq(S) /\ s = <<s[1]>> \o Tail(s)
OBVIOUS

LEMMA ConcatTwo ==
  ASSUME NEW f \in Frames, NEW g \in Frames, NEW r \in Seq(Frames)
  PROVE  <<g, f>> \o r = <<g>> \o (<<f>> \o r)
OBVIOUS

\* A call that is put on top of the others fits in with them.
Fits(t, f, r, mq, open) ==
  IF r = <<>> THEN OfCall(t, f, mq, open) ELSE CalledBy(f, r[1], mq)

LEMMA ShapeOnTop ==
  ASSUME NEW t, NEW f \in Frames, NEW r \in Seq(Frames), NEW mq, NEW open
  PROVE  Shape(t, <<f>> \o r, mq, open) <=>
           Fits(t, f, r, mq, open) /\ Shape(t, r, mq, open)
<1> DEFINE s == <<f>> \o r
<1>1. /\ s \in Seq(Frames) /\ Len(s) = Len(r) + 1 /\ Len(r) \in Nat
      /\ s[1] = f /\ \A j \in 1..Len(r) : s[j + 1] = r[j]
  BY OnTop
<1> DEFINE Ok(j) == IF j = Len(s) THEN OfCall(t, s[j], mq, open)
                    ELSE CalledBy(s[j], s[j + 1], mq)
           Was(j) == IF j = Len(r) THEN OfCall(t, r[j], mq, open)
                     ELSE CalledBy(r[j], r[j + 1], mq)
<1>2. \A j \in 1..Len(r) : Ok(j + 1) <=> Was(j)
  <2> SUFFICES ASSUME NEW j \in 1..Len(r) PROVE Ok(j + 1) <=> Was(j)
    OBVIOUS
  <2>1. s[j + 1] = r[j] /\ (j + 1 = Len(s) <=> j = Len(r))
    BY <1>1
  <2>2. CASE j = Len(r)
    BY <2>1, <2>2
  <2>3. CASE j # Len(r)
    <3>1. j + 1 \in 1..Len(r)
      BY <1>1, <2>3
    <3>2. s[(j + 1) + 1] = r[j + 1]
      BY <1>1, <3>1
    <3> QED
      BY <2>1, <2>3, <3>2
  <2> QED
    BY <2>2, <2>3
<1>3. Ok(1) <=> Fits(t, f, r, mq, open)
  <2>1. CASE r = <<>>
    BY <1>1, <2>1 DEF Fits
  <2>2. CASE r # <<>>
    <3>1. 1 \in 1..Len(r) /\ Len(s) # 1
      BY <1>1, <2>2
    <3> QED
      BY <1>1, <2>2, <3>1 DEF Fits
  <2> QED
    BY <2>1, <2>2
<1> HIDE DEF s, Ok, Was
<1>4. (\A j \in 1..Len(s) : Ok(j)) <=> Ok(1) /\ \A j \in 1..Len(r) : Was(j)
  <2>1. \A j \in 1..Len(s) : j # 1 => j - 1 \in 1..Len(r) /\ (j - 1) + 1 = j
    BY <1>1
  <2>2. 1 \in 1..Len(s) /\ \A j \in 1..Len(r) : j + 1 \in 1..Len(s)
    BY <1>1
  <2>3. ASSUME Ok(1), \A j \in 1..Len(r) : Was(j), NEW j \in 1..Len(s)
        PROVE  Ok(j)
    <3>1. CASE j = 1
      BY <2>3, <3>1
    <3>2. CASE j # 1
      <4>1. Ok((j - 1) + 1)
        BY <1>2, <2>1, <2>3, <3>2
      <4> QED
        BY <2>1, <3>2, <4>1
    <3> QED
      BY <3>1, <3>2
  <2>4. ASSUME \A j \in 1..Len(s) : Ok(j)
        PROVE  Ok(1) /\ \A j \in 1..Len(r) : Was(j)
    BY <1>2, <2>2, <2>4
  <2> QED
    BY <2>3, <2>4
<1> QED
  BY <1>3, <1>4 DEF Shape, s, Ok, Was

\* Counting the calls of a stack, from the top.
LEMMA CountOnTop ==
  ASSUME NEW n \in Nat, NEW A, A \subseteq 1..n,
         NEW B, B \subseteq 1..(n + 1),
         \A j \in 1..n : j + 1 \in B <=> j \in A
  PROVE  /\ Cardinality(A) \in Nat /\ Cardinality(B) \in Nat
         /\ Cardinality(B) = Cardinality(A) + (IF 1 \in B THEN 1 ELSE 0)
<1> DEFINE C == B \ {1}
           up == [j \in A |-> j + 1]
<1>1. IsFiniteSet(A) /\ IsFiniteSet(B)
  <2>1. IsFiniteSet(1..n) /\ IsFiniteSet(1..(n + 1))
    BY FS_Interval
  <2> QED
    BY <2>1, FS_Subset
<1>2. up \in Bijection(A, C)
  <2>1. \A j \in A : up[j] \in C /\ j \in Nat
    OBVIOUS
  <2>2. up \in [A -> C]
    BY <2>1
  <2>3. \A j, k \in A : up[j] = up[k] => j = k
    BY <2>1
  <2>4. \A k \in C : \E j \in A : up[j] = k
    <3> SUFFICES ASSUME NEW k \in C PROVE \E j \in A : up[j] = k
      OBVIOUS
    <3>1. k - 1 \in 1..n /\ (k - 1) + 1 = k
      OBVIOUS
    <3>2. k - 1 \in A
      BY <3>1
    <3> QED
      BY <3>1, <3>2
  <2> QED
    BY <2>2, <2>3, <2>4 DEF Bijection, Injection, Surjection, IsInjective
<1>3. Cardinality(A) = Cardinality(C)
  BY <1>1, <1>2, FS_Bijection DEF ExistsBijection
<1>4. /\ Cardinality(A) \in Nat /\ Cardinality(B) \in Nat
      /\ Cardinality(C) = IF 1 \in B THEN Cardinality(B) - 1
                          ELSE Cardinality(B)
  BY <1>1, FS_CardinalityType, FS_RemoveElement
<1> QED
  BY <1>3, <1>4

One(b) == IF b THEN 1 ELSE 0

LEMMA CallsCounted ==
  ASSUME NEW f \in Frames, NEW r \in Seq(Frames)
  PROVE  LET s == <<f>> \o r
         IN  /\ Cardinality(ManagerCalls(r)) \in Nat
             /\ Cardinality(ManagerCalls(s)) =
                  Cardinality(ManagerCalls(r)) + One(InManager(f))
             /\ \A q : Cardinality(QueueCalls(r, q)) \in Nat
             /\ \A q : Cardinality(QueueCalls(s, q)) =
                  Cardinality(QueueCalls(r, q)) +
                    One(InQueue(f) /\ f.q = q /\ f.locked)
<1> DEFINE s == <<f>> \o r
<1>1. /\ s \in Seq(Frames) /\ Len(s) = Len(r) + 1 /\ Len(r) \in Nat
      /\ s[1] = f /\ \A j \in 1..Len(r) : s[j + 1] = r[j]
      /\ DOMAIN s = 1..(Len(r) + 1) /\ DOMAIN r = 1..Len(r)
      /\ 1 \in 1..(Len(r) + 1)
      /\ \A j \in 1..Len(r) : j + 1 \in 1..(Len(r) + 1)
  BY OnTop
<1> HIDE DEF s
<1>2. LET A == ManagerCalls(r)
          B == ManagerCalls(s)
      IN  /\ A \subseteq 1..Len(r) /\ B \subseteq 1..(Len(r) + 1)
          /\ \A j \in 1..Len(r) : j + 1 \in B <=> j \in A
          /\ 1 \in B <=> InManager(f)
  BY <1>1 DEF ManagerCalls
<1>3. ASSUME NEW q
      PROVE  LET A == QueueCalls(r, q)
                 B == QueueCalls(s, q)
             IN  /\ A \subseteq 1..Len(r) /\ B \subseteq 1..(Len(r) + 1)
                 /\ \A j \in 1..Len(r) : j + 1 \in B <=> j \in A
                 /\ 1 \in B <=> InQueue(f) /\ f.q = q /\ f.locked
  BY <1>1 DEF QueueCalls
<1>4. /\ Cardinality(ManagerCalls(r)) \in Nat
      /\ Cardinality(ManagerCalls(s)) =
           Cardinality(ManagerCalls(r)) + One(InManager(f))
  BY <1>1, <1>2, CountOnTop DEF One
<1>5. ASSUME NEW q
      PROVE  /\ Cardinality(QueueCalls(r, q)) \in Nat
             /\ Cardinality(QueueCalls(s, q)) =
                  Cardinality(QueueCalls(r, q)) +
                    One(InQueue(f) /\ f.q = q /\ f.locked)
  BY <1>1, <1>3, CountOnTop DEF One
<1> QED
  BY <1>4, <1>5 DEF s

-----------------------------------------------------------------------------
(* What the invariant says of the topmost call.                            *)

open == begun \ returned

LEMMA FitsQueue ==
  ASSUME NEW t, NEW f \in Frames, NEW r \in Seq(Frames),
         NEW mq \in Seq(Queues), NEW o \in SUBSET Calls, Fits(t, f, r, mq, o),
         f.at \in {"enter queue"} \cup LoopSteps
  PROVE  f.q \in Queues
<1>1. CASE r = <<>>
  BY <1>1, ManagerClearAssumption
  DEF Fits, OfCall, ManagerSteps, LoopSteps
<1>2. CASE r # <<>>
  <2>1. CalledBy(f, r[1], mq)
    BY <1>2 DEF Fits
  <2>2. f.at \notin ManagerSteps
    BY DEF ManagerSteps, LoopSteps
  <2>3. r[1].i - 1 \in DOMAIN mq /\ f.q = mq[r[1].i - 1]
    BY <2>1, <2>2 DEF CalledBy
  <2>4. \A k \in DOMAIN mq : mq[k] \in Queues
    BY ElementsIn
  <2> QED
    BY <2>3, <2>4
<1> QED
  BY <1>1, <1>2

LEMMA TopFacts ==
  ASSUME StackInv, NEW t \in Threads, stack[t] # <<>>
  PROVE  LET f == Top(t)
             r == Tail(stack[t])
         IN  /\ f \in Frames /\ r \in Seq(Frames) /\ stack[t] = <<f>> \o r
             /\ Fits(t, f, r, message_queues_, open)
             /\ Shape(t, r, message_queues_, open)
             /\ f.at \in {"enter queue"} \cup LoopSteps => f.q \in Queues
<1> DEFINE f == Top(t)
           r == Tail(stack[t])
<1>1. /\ stack[t] \in Seq(Frames) /\ open \in SUBSET Calls
      /\ Shape(t, stack[t], message_queues_, open)
      /\ message_queues_ \in Seq(Queues)
  BY DEF StackInv, open, Listing
<1>2. f \in Frames /\ r \in Seq(Frames) /\ stack[t] = <<f>> \o r
  BY <1>1, TopAndRest DEF Top
<1> HIDE DEF f, r
<1>3. Fits(t, f, r, message_queues_, open) /\ Shape(t, r, message_queues_, open)
  BY <1>1, <1>2, ShapeOnTop
<1>4. f.at \in {"enter queue"} \cup LoopSteps => f.q \in Queues
  BY <1>1, <1>2, <1>3, FitsQueue
<1> QED
  BY <1>2, <1>3, <1>4 DEF f, r

\* The calls that other threads are in do not depend on what one thread begins
\* or returns from, nor on the list while it may be changed.
LEMMA ShapeKept ==
  ASSUME NEW t, NEW s \in Seq(Frames), NEW mq, NEW o, NEW mq2, NEW o2,
         Shape(t, s, mq, o),
         \A c \in o : By[c] = t => c \in o2,
         mq2 = mq \/ ManagerCalls(s) = {},
         \A c \in o : Kind[c] = "destroy" /\ About[c] \in ToSet(mq2) =>
           About[c] \in ToSet(mq)
  PROVE  Shape(t, s, mq2, o2)
<1> SUFFICES ASSUME NEW j \in 1..Len(s)
             PROVE  IF j = Len(s) THEN OfCall(t, s[j], mq2, o2)
                    ELSE CalledBy(s[j], s[j + 1], mq2)
  BY DEF Shape
<1>1. CASE j = Len(s)
  <2>1. OfCall(t, s[j], mq, o)
    BY <1>1 DEF Shape
  <2> QED
    BY <1>1, <2>1 DEF OfCall
<1>2. CASE j # Len(s)
  <2>1. CalledBy(s[j], s[j + 1], mq)
    BY <1>2 DEF Shape
  <2>2. j + 1 \in DOMAIN s
    BY <1>2
  <2>3. mq2 = mq \/ s[j + 1].at # "queues"
    BY <2>2 DEF ManagerCalls, InManager
  <2> QED
    BY <1>2, <2>1, <2>3 DEF CalledBy
<1> QED
  BY <1>1, <1>2

\* What a step of t does to a lock of which it has a calls before it, b after
\* it.
Goes(c, c2, t, a, b) ==
  \/ c2 = c /\ b = a
  \/ CanEnter(c, t) /\ c2 = Entered(c, t) /\ b = a + 1
  \/ c2 = Left(c) /\ a = b + 1

\* Entering and leaving are counted.
LEMMA LockCounts ==
  ASSUME NEW c, LockOK(c), NEW c2, NEW t \in Threads,
         NEW A, Cardinality(A) \in Nat, HeldBy(c, t, A),
         NEW B, Cardinality(B) \in Nat,
         Goes(c, c2, t, Cardinality(A), Cardinality(B))
  PROVE  /\ LockOK(c2) /\ HeldBy(c2, t, B)
         /\ \A u \in Threads : \A C :
              u # t /\ HeldBy(c, u, C) => HeldBy(c2, u, C)
<1>1. /\ c \in [owner : Threads \cup {Nil}, recursion_count_ : Nat]
      /\ c.owner \in Threads \cup {Nil} /\ c.recursion_count_ \in Nat
      /\ c.owner = Nil <=> c.recursion_count_ = 0
  BY DEF LockOK
<1>2. Nil \notin Threads
  BY ManagerClearAssumption
<1>3. CASE c2 = c /\ Cardinality(B) = Cardinality(A)
  BY <1>3 DEF HeldBy
<1>4. CASE CanEnter(c, t) /\ c2 = Entered(c, t)
           /\ Cardinality(B) = Cardinality(A) + 1
  <2>1. c2.owner = t /\ c2.recursion_count_ = c.recursion_count_ + 1
    BY <1>4 DEF Entered
  <2>2. LockOK(c2)
    BY <1>1, <1>2, <1>4 DEF LockOK, Entered
  <2>3. HeldBy(c2, t, B)
    BY <1>1, <1>2, <1>4, <2>1 DEF HeldBy, CanEnter
  <2>4. \A u \in Threads : \A C : u # t /\ HeldBy(c, u, C) => HeldBy(c2, u, C)
    BY <1>1, <1>2, <1>4, <2>1 DEF HeldBy, CanEnter
  <2> QED
    BY <2>2, <2>3, <2>4
<1>5. CASE c2 = Left(c) /\ Cardinality(A) = Cardinality(B) + 1
  <2>1. c.owner = t /\ c.recursion_count_ = Cardinality(B) + 1
    BY <1>5 DEF HeldBy
  <2>2. CASE c.recursion_count_ = 1
    <3>1. c2 = Unlocked /\ c2.owner = Nil /\ c2.recursion_count_ = 0
      BY <1>5, <2>2 DEF Left, Unlocked
    <3>2. LockOK(c2)
      BY <3>1 DEF LockOK, Unlocked
    <3> QED
      BY <1>2, <2>1, <2>2, <3>1, <3>2 DEF HeldBy
  <2>3. CASE c.recursion_count_ # 1
    <3>1. /\ c2 = [c EXCEPT !.recursion_count_ = c.recursion_count_ - 1]
          /\ c.recursion_count_ - 1 \in Nat \ {0}
      BY <1>1, <1>5, <2>1, <2>3 DEF Left
    <3>2. c2.owner = t /\ c2.recursion_count_ = Cardinality(B)
      BY <1>1, <2>1, <3>1
    <3>3. LockOK(c2)
      BY <1>1, <1>2, <2>1, <3>1, <3>2 DEF LockOK
    <3> QED
      BY <1>2, <2>1, <3>2, <3>3 DEF HeldBy
  <2> QED
    BY <2>2, <2>3
<1> QED
  BY <1>3, <1>4, <1>5 DEF Goes

\* Nil is in the manager's section.
LEMMA NobodyInManager ==
  ASSUME StackInv, processing_ = 0, NEW u \in Threads
  PROVE  ManagerCalls(stack[u]) = {}
<1>1. /\ stack[u] \in Seq(Frames)
      /\ Cardinality(ManagerCalls(stack[u])) = 0
  BY DEF StackInv, Counted, LockOK, HeldBy
<1>2. IsFiniteSet(1..Len(stack[u]))
  BY <1>1, FS_Interval
<1>3. ManagerCalls(stack[u]) \in SUBSET (1..Len(stack[u]))
  BY <1>1 DEF ManagerCalls
<1> QED
  BY <1>1, <1>2, <1>3, FS_Subset, FS_EmptySet

-----------------------------------------------------------------------------
(* Steps that keep the list of queues and the locks.                       *)

Typed ==
  /\ messages_ \in [Queues -> Seq(Messages)]
  /\ timers \in [Queues -> Seq(Messages)]
  /\ deleted \in [Messages -> Nat]

SameCounts(X, Y) ==
  /\ Cardinality(ManagerCalls(X)) = Cardinality(ManagerCalls(Y))
  /\ \A q \in Queues : Cardinality(QueueCalls(X, q)) =
                         Cardinality(QueueCalls(Y, q))

LEMMA CountsKept ==
  ASSUME Counted, UNCHANGED <<processing_, mcrit, qcrit>>,
         \A u \in Threads : SameCounts(stack'[u], stack[u])
  PROVE  Counted'
BY DEF Counted, HeldBy, SameCounts

LEMMA QuietStep ==
  ASSUME StackInv, NEW t \in Threads, NEW X \in Seq(Frames),
         stack' = [stack EXCEPT ![t] = X],
         UNCHANGED <<message_queues_, processing_, locks, begun, returned>>,
         Typed',
         Shape(t, X, message_queues_, open),
         SameCounts(X, stack[t])
  PROVE  StackInv'
<1> USE DEF locks
<1>1. stack \in [Threads -> Seq(Frames)]
  BY DEF StackInv
<1>2. /\ stack' \in [Threads -> Seq(Frames)] /\ stack'[t] = X
      /\ \A u \in Threads : u # t => stack'[u] = stack[u]
  BY <1>1
<1>3. Listing'
  BY DEF StackInv, Listing, Present
<1>4. Counted'
  <2>1. \A u \in Threads : SameCounts(stack'[u], stack[u])
    BY <1>2 DEF SameCounts
  <2> QED
    BY <2>1, CountsKept DEF StackInv
<1>5. \A u \in Threads : Shape(u, stack'[u], message_queues_, open)
  BY <1>2 DEF StackInv, open
<1> QED
  BY <1>2, <1>3, <1>4, <1>5 DEF StackInv, Typed, open

\* A call that goes on in its loop counts as before, one that waits for a
\* section does not count.
LEMMA LoopCounts ==
  ASSUME NEW f \in Frames, NEW g \in Frames, NEW r \in Seq(Frames),
         (f.at \in LoopSteps /\ g.at \in LoopSteps) \/ f.at = g.at,
         f.q = g.q, f.locked = g.locked
  PROVE  SameCounts(<<f>> \o r, <<g>> \o r)
<1>1. One(InManager(f)) = One(InManager(g))
  BY DEF InManager, LoopSteps, One
<1>2. \A q : One(InQueue(f) /\ f.q = q /\ f.locked) =
               One(InQueue(g) /\ g.q = q /\ g.locked)
  BY DEF InQueue, LoopSteps, One
<1> DEFINE X == <<f>> \o r
           Y == <<g>> \o r
<1>3. /\ Cardinality(ManagerCalls(X)) =
           Cardinality(ManagerCalls(r)) + One(InManager(f))
      /\ \A q : Cardinality(QueueCalls(X, q)) =
           Cardinality(QueueCalls(r, q)) +
             One(InQueue(f) /\ f.q = q /\ f.locked)
  BY CallsCounted
<1>4. /\ Cardinality(ManagerCalls(Y)) =
           Cardinality(ManagerCalls(r)) + One(InManager(g))
      /\ \A q : Cardinality(QueueCalls(Y, q)) =
           Cardinality(QueueCalls(r, q)) +
             One(InQueue(g) /\ g.q = q /\ g.locked)
  BY CallsCounted
<1> HIDE DEF X, Y
<1> QED
  BY <1>1, <1>2, <1>3, <1>4 DEF SameCounts, X, Y

LEMMA WaitingCounts ==
  ASSUME NEW f \in Frames, NEW r \in Seq(Frames),
         f.at # "queues", f.at \in LoopSteps => ~f.locked
  PROVE  SameCounts(<<f>> \o r, r)
<1>1. One(InManager(f)) = 0
  BY DEF InManager, One
<1>2. \A q : One(InQueue(f) /\ f.q = q /\ f.locked) = 0
  BY DEF InQueue, LoopSteps, One
<1> DEFINE X == <<f>> \o r
<1>3. /\ Cardinality(ManagerCalls(X)) =
           Cardinality(ManagerCalls(r)) + One(InManager(f))
      /\ Cardinality(ManagerCalls(r)) \in Nat
      /\ \A q : Cardinality(QueueCalls(r, q)) \in Nat
      /\ \A q : Cardinality(QueueCalls(X, q)) =
           Cardinality(QueueCalls(r, q)) +
             One(InQueue(f) /\ f.q = q /\ f.locked)
  BY CallsCounted
<1> HIDE DEF X
<1>4. Cardinality(ManagerCalls(X)) = Cardinality(ManagerCalls(r))
  BY <1>1, <1>3
<1>5. ASSUME NEW q
      PROVE  Cardinality(QueueCalls(X, q)) = Cardinality(QueueCalls(r, q))
  <2>1. One(InQueue(f) /\ f.q = q /\ f.locked) = 0
    BY <1>2
  <2>2. Cardinality(QueueCalls(r, q)) \in Nat
    BY <1>3
  <2> QED
    BY <1>3, <2>1, <2>2
<1> QED
  BY <1>4, <1>5 DEF SameCounts, X

\* A loop that begins or goes on fits in as before.
LEMMA LoopFits ==
  ASSUME NEW t, NEW f \in Frames, NEW g \in Frames, NEW r \in Seq(Frames),
         NEW mq, NEW o \in SUBSET Calls, Fits(t, f, r, mq, o),
         f.at \in {"enter queue"} \cup LoopSteps, g.at \in LoopSteps,
         g.call = f.call, g.h = f.h, g.q = f.q, g.locked = f.locked
  PROVE  Fits(t, g, r, mq, o)
<1>1. f.at \notin ManagerSteps /\ g.at \notin ManagerSteps
  BY DEF ManagerSteps, LoopSteps
<1>2. f.at \notin {"add", "remove"}
  BY DEF LoopSteps
<1>3. CASE r = <<>>
  <2>1. OfCall(t, f, mq, o)
    BY <1>3 DEF Fits
  <2>2. OfCall(t, g, mq, o)
    BY <1>1, <1>2, <2>1 DEF OfCall
  <2> QED
    BY <1>3, <2>2 DEF Fits
<1>4. CASE r # <<>>
  <2>1. CalledBy(f, r[1], mq)
    BY <1>4 DEF Fits
  <2>2. CalledBy(g, r[1], mq)
    BY <1>1, <2>1 DEF CalledBy
  <2> QED
    BY <1>4, <2>2 DEF Fits
<1> QED
  BY <1>3, <1>4

\* A call that f makes fits in.
LEMMA CallFits ==
  ASSUME NEW t, NEW f \in Frames, NEW g \in Frames, NEW r \in Seq(Frames),
         NEW mq, NEW o, Shape(t, <<f>> \o r, mq, o), CalledBy(g, f, mq),
         g.at # "queues", g.at \notin LoopSteps
  PROVE  LET X == <<f>> \o r
         IN  /\ <<g, f>> \o r \in Seq(Frames)
             /\ Shape(t, <<g, f>> \o r, mq, o)
             /\ SameCounts(<<g, f>> \o r, X)
<1> DEFINE X == <<f>> \o r
<1>1. X \in Seq(Frames) /\ X # <<>> /\ X[1] = f
  BY OnTop
<1>2. <<g, f>> \o r = <<g>> \o X
  BY ConcatTwo
<1> HIDE DEF X
<1>3. Shape(t, X, mq, o) /\ Fits(t, g, X, mq, o)
  BY <1>1 DEF Fits, X
<1>4. Shape(t, <<g>> \o X, mq, o)
  BY <1>1, <1>3, ShapeOnTop
<1>5. SameCounts(<<g>> \o X, X)
  BY <1>1, WaitingCounts
<1>6. <<g>> \o X \in Seq(Frames)
  BY <1>1, OnTop
<1> QED
  BY <1>2, <1>4, <1>5, <1>6 DEF X

\* Within the loops, with or without another call.
LEMMA LoopStep ==
  ASSUME StackInv, NEW t \in Threads, stack[t] # <<>>,
         Top(t).at \in LoopSteps,
         NEW f \in Frames, f.at \in LoopSteps, f.call = Top(t).call,
         f.h = Top(t).h, f.q = Top(t).q, f.locked = Top(t).locked,
         UNCHANGED <<message_queues_, processing_, locks, begun, returned>>,
         Typed',
         \/ GoesOn(t, f)
         \/ \E h \in Handlers :
              /\ f.at \in {"erase", "timers"}
              /\ CallsIn(t, f, NewCall("enter manager", Nil, h, Nil))
  PROVE  StackInv'
<1> DEFINE f0 == Top(t)
           r == Tail(stack[t])
           X == <<f>> \o r
<1>1. /\ f0 \in Frames /\ r \in Seq(Frames) /\ stack[t] = <<f0>> \o r
      /\ Fits(t, f0, r, message_queues_, open)
      /\ Shape(t, r, message_queues_, open)
  BY TopFacts
<1>2. open \in SUBSET Calls
  BY DEF StackInv, open
<1>3. Fits(t, f, r, message_queues_, open)
  BY <1>1, <1>2, LoopFits
<1>4. Shape(t, X, message_queues_, open) /\ X \in Seq(Frames)
  BY <1>1, <1>3, ShapeOnTop, OnTop
<1>5. SameCounts(X, stack[t])
  BY <1>1, LoopCounts
<1>6. CASE GoesOn(t, f)
  <2> HIDE DEF X
  <2>1. stack' = [stack EXCEPT ![t] = X]
    BY <1>6 DEF GoesOn, X
  <2> QED
    BY <1>4, <1>5, <2>1, QuietStep
<1>7. ASSUME NEW h \in Handlers, f.at \in {"erase", "timers"},
             CallsIn(t, f, NewCall("enter manager", Nil, h, Nil))
      PROVE  StackInv'
  <2> DEFINE Y == <<NewCall("enter manager", Nil, h, Nil), f>> \o r
  <2>1. /\ Y \in Seq(Frames) /\ Shape(t, Y, message_queues_, open)
        /\ SameCounts(Y, X)
    <3> DEFINE g == NewCall("enter manager", Nil, h, Nil)
    <3>1. g \in Frames
      BY <1>7, ManagerCallType
    <3>2. g.at = "enter manager" /\ g.call = Nil /\ g.h = h
      BY DEF NewCall
    <3> HIDE DEF g, r
    <3>3. CalledBy(g, f, message_queues_)
      BY <1>7, <3>2 DEF CalledBy, ManagerSteps
    <3>4. g.at # "queues" /\ g.at \notin LoopSteps
      BY <3>2 DEF LoopSteps
    <3>5. Shape(t, <<f>> \o r, message_queues_, open)
      BY <1>4
    <3> HIDE DEF X
    <3>6. LET Z == <<g, f>> \o r
          IN  /\ Z \in Seq(Frames) /\ Shape(t, Z, message_queues_, open)
              /\ SameCounts(Z, <<f>> \o r)
      BY <1>1, <3>1, <3>3, <3>4, <3>5, CallFits
    <3> QED
      BY <3>6 DEF g, X
  <2> HIDE DEF X, Y
  <2>2. stack' = [stack EXCEPT ![t] = Y]
    BY <1>7 DEF CallsIn, Y
  <2>3. SameCounts(Y, stack[t])
    BY <1>5, <2>1 DEF SameCounts
  <2> QED
    BY <2>1, <2>2, <2>3, QuietStep
<1> QED
  BY <1>6, <1>7

-----------------------------------------------------------------------------
(* Removing an element.                                                    *)

LEMMA RemovedAt ==
  ASSUME NEW S, NEW s \in Seq(S), NEW i \in 1..Len(s)
  PROVE  LET z == RemoveAt(s, i)
         IN  /\ z \in Seq(S) /\ Len(z) = Len(s) - 1 /\ Len(z) \in Nat
             /\ \A j \in 1..Len(z) : z[j] = IF j < i THEN s[j] ELSE s[j + 1]
<1> DEFINE a == SubSeq(s, 1, i - 1)
           b == SubSeq(s, i + 1, Len(s))
<1>1. /\ a \in Seq(S) /\ Len(a) = i - 1
      /\ \A j \in 1..(i - 1) : a[j] = s[j]
  OBVIOUS
<1>2. /\ b \in Seq(S) /\ Len(b) = Len(s) - i
      /\ \A j \in 1..(Len(s) - i) : b[j] = s[i + j]
  OBVIOUS
<1>3. RemoveAt(s, i) = a \o b
  BY DEF RemoveAt
<1> HIDE DEF a, b
<1>4. /\ a \o b \in Seq(S) /\ Len(a \o b) = Len(s) - 1 /\ Len(s) - 1 \in Nat
      /\ \A j \in 1..(Len(s) - 1) :
           (a \o b)[j] = IF j < i THEN a[j] ELSE b[j - (i - 1)]
  <2>1. /\ i - 1 \in Nat /\ Len(s) - i \in Nat /\ Len(s) - 1 \in Nat
        /\ (i - 1) + (Len(s) - i) = Len(s) - 1
    OBVIOUS
  <2>2. /\ a \o b \in Seq(S) /\ Len(a \o b) = Len(a) + Len(b)
        /\ \A j \in 1..(Len(a) + Len(b)) :
             (a \o b)[j] = IF j <= Len(a) THEN a[j] ELSE b[j - Len(a)]
    BY <1>1, <1>2, ConcatProperties
  <2>3. \A j \in 1..(Len(s) - 1) : j <= i - 1 <=> j < i
    BY <2>1
  <2> QED
    BY <1>1, <1>2, <2>1, <2>2, <2>3
<1>5. \A j \in 1..(Len(s) - 1) :
        (a \o b)[j] = IF j < i THEN s[j] ELSE s[j + 1]
  <2> SUFFICES ASSUME NEW j \in 1..(Len(s) - 1)
               PROVE  (a \o b)[j] = IF j < i THEN s[j] ELSE s[j + 1]
    OBVIOUS
  <2>1. CASE j < i
    <3>1. j \in 1..(i - 1)
      BY <2>1
    <3> QED
      BY <1>1, <1>4, <2>1, <3>1
  <2>2. CASE ~(j < i)
    <3>1. j - (i - 1) \in 1..(Len(s) - i) /\ i + (j - (i - 1)) = j + 1
      BY <2>2
    <3>2. b[j - (i - 1)] = s[j + 1]
      BY <1>2, <3>1
    <3> QED
      BY <1>4, <2>2, <3>2
  <2> QED
    BY <2>1, <2>2
<1> QED
  BY <1>3, <1>4, <1>5

LEMMA RemovedOnce ==
  ASSUME NEW S, NEW s \in Seq(S), IsInjective(s), NEW i \in 1..Len(s)
  PROVE  LET z == RemoveAt(s, i)
         IN  /\ z \in Seq(S) /\ IsInjective(z)
             /\ ToSet(z) = ToSet(s) \ {s[i]}
<1> DEFINE z == RemoveAt(s, i)
           e == s[i]
<1>1. DOMAIN s = 1..Len(s) /\ Len(s) \in Nat
  OBVIOUS
<1>2. /\ z \in Seq(S) /\ Len(z) = Len(s) - 1 /\ Len(z) \in Nat
      /\ \A j \in 1..Len(z) : z[j] = IF j < i THEN s[j] ELSE s[j + 1]
  BY RemovedAt
<1>3. DOMAIN z = 1..Len(z)
  BY <1>2
<1> HIDE DEF z
<1>4. IsInjective(z)
  <2> SUFFICES ASSUME NEW j \in 1..Len(z), NEW k \in 1..Len(z), z[j] = z[k]
               PROVE  j = k
    BY <1>3 DEF IsInjective
  <2> DEFINE J == IF j < i THEN j ELSE j + 1
             K == IF k < i THEN k ELSE k + 1
  <2>1. z[j] = s[J] /\ z[k] = s[K]
    BY <1>2
  <2>2. J \in 1..Len(s) /\ K \in 1..Len(s)
    BY <1>1, <1>2
  <2>3. J = K => j = k
    BY <1>1, <1>2
  <2> HIDE DEF J, K
  <2>4. J = K
    BY <1>1, <2>1, <2>2 DEF IsInjective
  <2> QED
    BY <2>3, <2>4
<1>5. ASSUME NEW j \in 1..Len(z) PROVE z[j] \in ToSet(s) \ {e}
  <2>1. z[j] = s[IF j < i THEN j ELSE j + 1]
    BY <1>2
  <2>2. (IF j < i THEN j ELSE j + 1) \in 1..Len(s) \ {i}
    BY <1>1, <1>2
  <2> QED
    BY <1>1, <2>1, <2>2 DEF ToSet, IsInjective
<1>6. ASSUME NEW j \in 1..Len(s), s[j] # e PROVE s[j] \in ToSet(z)
  <2>1. j # i
    BY <1>6
  <2>2. CASE j < i
    <3>1. j \in 1..Len(z) /\ z[j] = s[j]
      BY <1>1, <1>2, <2>2
    <3> QED
      BY <1>3, <3>1 DEF ToSet
  <2>3. CASE j > i
    <3>1. j - 1 \in 1..Len(z) /\ (j - 1) + 1 = j /\ ~(j - 1 < i)
      BY <1>1, <1>2, <2>3
    <3>2. z[j - 1] = s[j]
      BY <1>2, <3>1
    <3> QED
      BY <1>3, <3>1, <3>2 DEF ToSet
  <2> QED
    BY <2>1, <2>2, <2>3
<1> QED
  BY <1>1, <1>2, <1>3, <1>4, <1>5, <1>6 DEF ToSet, z

LEMMA RemovedFirst ==
  ASSUME NEW S, NEW s \in Seq(S), IsInjective(s), NEW e
  PROVE  LET z == RemoveFirst(s, e)
         IN  /\ z \in Seq(S) /\ IsInjective(z)
             /\ ToSet(z) = ToSet(s) \ {e}
<1> DEFINE z == RemoveFirst(s, e)
<1>1. DOMAIN s = 1..Len(s) /\ Len(s) \in Nat
  OBVIOUS
<1>2. CASE \A i \in 1..Len(s) : s[i] # e
  <2>1. z = s
    BY <1>2 DEF RemoveFirst
  <2>2. e \notin ToSet(s)
    BY <1>1, <1>2 DEF ToSet
  <2> QED
    BY <2>1, <2>2
<1>3. ASSUME NEW i \in 1..Len(s), s[i] = e
      PROVE  z \in Seq(S) /\ IsInjective(z) /\ ToSet(z) = ToSet(s) \ {e}
  <2>1. {j \in 1..Len(s) : s[j] = e} = {i}
    BY <1>1, <1>3 DEF IsInjective
  <2>2. Min({i}) = i
    BY DEF Min
  <2>3. SelectInSeq(s, LAMBDA v : v = e) = i
    BY <2>1, <2>2 DEF SelectInSeq
  <2>4. z = RemoveAt(s, i)
    BY <1>3, <2>3 DEF RemoveFirst
  <2> HIDE DEF z
  <2> QED
    BY <1>3, <2>4, RemovedOnce
<1> QED
  BY <1>2, <1>3

-----------------------------------------------------------------------------
(* The invariant of the stacks is kept.                                    *)

\* A call that goes on in ThreadManager::Clear fits in as before.
LEMMA ManagerFits ==
  ASSUME NEW t, NEW f \in Frames, NEW g \in Frames, NEW r \in Seq(Frames),
         NEW mq, NEW o \in SUBSET Calls, Fits(t, f, r, mq, o),
         f.at \in ManagerSteps, g.at \in ManagerSteps,
         g.call = f.call, g.h = f.h, g.q = f.q
  PROVE  Fits(t, g, r, mq, o) /\ f.h \in Handlers
<1>1. f.at \notin LoopSteps /\ f.at \notin {"add", "remove", "enter queue"}
  BY DEF ManagerSteps, LoopSteps
<1>2. CASE r = <<>>
  <2>1. OfCall(t, f, mq, o)
    BY <1>2 DEF Fits
  <2>2. Kind[f.call] = "clearall"
    BY <1>1, <2>1, ManagerClearAssumption DEF OfCall
  <2>3. OfCall(t, g, mq, o)
    BY <2>1, <2>2 DEF OfCall
  <2>4. f.h \in Handlers
    BY <2>1, <2>2, ManagerClearAssumption DEF OfCall
  <2> QED
    BY <1>2, <2>3, <2>4 DEF Fits
<1>3. CASE r # <<>>
  <2>1. CalledBy(f, r[1], mq)
    BY <1>3 DEF Fits
  <2>2. CalledBy(g, r[1], mq) /\ f.h \in Handlers
    BY <1>1, <2>1 DEF CalledBy
  <2> QED
    BY <1>3, <2>2 DEF Fits
<1> QED
  BY <1>2, <1>3

\* A call about one queue is one of the program's, not made by another one.
LEMMA AloneOnStack ==
  ASSUME NEW t, NEW f \in Frames, NEW r \in Seq(Frames),
         NEW mq, NEW o \in SUBSET Calls, Fits(t, f, r, mq, o),
         f.at \in {"add", "remove"}
  PROVE  /\ r = <<>> /\ OfCall(t, f, mq, o) /\ f.call \in Calls
         /\ Kind[f.call] = IF f.at = "add" THEN "add" ELSE "destroy"
         /\ f.q = About[f.call]
<1>1. f.at \notin {"enter queue"} \cup LoopSteps \cup ManagerSteps
  BY DEF LoopSteps, ManagerSteps
<1>2. r = <<>>
  BY <1>1 DEF Fits, CalledBy
<1>3. OfCall(t, f, mq, o)
  BY <1>2 DEF Fits
<1>4. f.call \in Calls
  BY <1>3 DEF OfCall
<1>5. Kind[f.call] \in {"clearall", "clear", "destroy", "add"}
  BY <1>4, ManagerClearAssumption
<1> QED
  BY <1>1, <1>2, <1>3, <1>4, <1>5 DEF OfCall

LEMMA BeginStep ==
  ASSUME StackInv, NEW t \in Threads, NEW c \in Calls, NEW at \in Steps,
         Begin(t, c), Starts(t, c, at), at \notin {"queues"} \cup LoopSteps,
         OfCall(t, NewCall(at, c, For[c], About[c]), message_queues_, {c}),
         Kind[c] = "destroy" =>
           /\ About[c] \in ToSet(message_queues_)
           /\ \A d \in Calls : Kind[d] = "clear" /\ About[d] = About[c] =>
                d \in returned
  PROVE  StackInv'
<1> DEFINE g == NewCall(at, c, For[c], About[c])
           X == <<g>> \o <<>>
<1>1. /\ c \notin begun /\ begun' = begun \cup {c} /\ By[c] = t
      /\ stack[t] = <<>> /\ returned' = returned
      /\ returned \subseteq begun /\ begun \subseteq Calls
  BY DEF Begin, StackInv
<1>2. g \in Frames /\ g.at = at
  <2>1. For[c] \in Handlers \cup {Nil} /\ About[c] \in Queues \cup {Nil}
    BY ManagerClearAssumption
  <2>2. g \in Frames
    BY <2>1, NewCallType
  <2> QED
    BY <2>2 DEF NewCall
<1>3. X = <<g>> /\ X \in Seq(Frames) /\ <<>> \in Seq(Frames)
  BY <1>2
<1>4. stack' = [stack EXCEPT ![t] = X]
  BY <1>3 DEF Starts
<1>5. Shape(t, X, message_queues_, {c})
  <2>1. Shape(t, <<>>, message_queues_, {c})
    BY DEF Shape
  <2>2. Fits(t, g, <<>>, message_queues_, {c})
    BY DEF Fits
  <2> HIDE DEF g
  <2> QED
    BY <1>2, <1>3, <2>1, <2>2, ShapeOnTop
<1>6. SameCounts(X, <<>>)
  <2> HIDE DEF g
  <2> QED
    BY <1>2, <1>3, WaitingCounts
<1> HIDE DEF X, g
<1>7. open' = open \cup {c}
  BY <1>1 DEF open
<1>8. /\ stack \in [Threads -> Seq(Frames)]
      /\ stack' \in [Threads -> Seq(Frames)]
      /\ stack'[t] = X
      /\ \A u \in Threads : u # t => stack'[u] = stack[u]
  <2>1. stack \in [Threads -> Seq(Frames)]
    BY DEF StackInv
  <2> QED
    BY <1>3, <1>4, <2>1
<1>9. Listing'
  <2> USE DEF Begin
  <2>1. ASSUME NEW b \in Calls, Kind[b] \in {"add", "clear"},
               Kind[c] = "destroy",
               About[b] = About[c]
        PROVE  b \in returned
    BY <2>1 DEF StackInv, Listing, Present
  <2> QED
    BY <1>1, <2>1 DEF StackInv, Listing, Present
<1>10. Counted'
  <2>1. UNCHANGED <<processing_, mcrit, qcrit>>
    BY DEF Begin, locks
  <2>2. SameCounts(X, stack[t])
    BY <1>1, <1>6
  <2>3. \A u \in Threads : SameCounts(stack'[u], stack[u])
    BY <1>8, <2>2 DEF SameCounts
  <2> QED
    BY <2>1, <2>3, CountsKept DEF StackInv
<1>11. ASSUME NEW u \in Threads
       PROVE  Shape(u, stack'[u], message_queues_, open')
  <2>1. CASE u = t
    <3>1. \A d \in {c} : d \in open'
      BY <1>7
    <3> QED
      BY <1>3, <1>5, <1>8, <2>1, <3>1, ShapeKept
  <2>2. CASE u # t
    <3>1. stack[u] \in Seq(Frames) /\ Shape(u, stack[u], message_queues_, open)
      BY <1>8 DEF StackInv, open
    <3>2. Shape(u, stack[u], message_queues_, open')
      BY <1>7, <3>1, ShapeKept
    <3> QED
      BY <1>8, <2>2, <3>2
  <2> QED
    BY <2>1, <2>2
<1> QED
  BY <1>1, <1>8, <1>9, <1>10, <1>11 DEF StackInv, open, Begin, contents

\* A call returns to the one that made it, or it was one of the program's.
LEMMA PopStep ==
  ASSUME StackInv, NEW t \in Threads, stack[t] # <<>>, Pops(t),
         UNCHANGED <<message_queues_, begun>>
  PROVE  /\ stack' \in [Threads -> Seq(Frames)]
         /\ stack'[t] = Tail(stack[t])
         /\ \A u \in Threads : u # t => stack'[u] = stack[u]
         /\ returned' \subseteq begun'
         /\ Listing'
         /\ \A u \in Threads :
              Shape(u, stack'[u], message_queues_, begun' \ returned')
<1> DEFINE f == Top(t)
           r == Tail(stack[t])
<1>1. /\ f \in Frames /\ r \in Seq(Frames) /\ stack[t] = <<f>> \o r
      /\ Fits(t, f, r, message_queues_, open)
      /\ Shape(t, r, message_queues_, open)
  BY TopFacts
<1>2. /\ stack' = [stack EXCEPT ![t] = r]
      /\ returned' = returned \cup ({f.call} \ {Nil})
  BY DEF Pops
<1> HIDE DEF f, r
<1>3. /\ stack \in [Threads -> Seq(Frames)]
      /\ returned \subseteq begun /\ begun \subseteq Calls
  BY DEF StackInv
<1>4. /\ stack' \in [Threads -> Seq(Frames)] /\ stack'[t] = r
      /\ \A u \in Threads : u # t => stack'[u] = stack[u]
  BY <1>1, <1>2, <1>3
<1>5. CASE r = <<>>
  <2>1. f.call \in open /\ By[f.call] = t
    BY <1>1, <1>5 DEF Fits, OfCall
  <2>2. f.call \in Calls /\ returned' = returned \cup {f.call}
    BY <1>2, <1>3, <2>1, ManagerClearAssumption DEF open
  <2>3. returned' \subseteq begun'
    BY <1>3, <2>1, <2>2 DEF open
  <2>4. Listing'
    BY <2>2 DEF StackInv, Listing, Present
  <2>5. ASSUME NEW u \in Threads
        PROVE  Shape(u, stack'[u], message_queues_, begun' \ returned')
    <3>1. CASE u = t
      BY <1>4, <1>5, <3>1 DEF Shape
    <3>2. CASE u # t
      <4>1. /\ stack[u] \in Seq(Frames)
            /\ Shape(u, stack[u], message_queues_, open)
        BY <1>3 DEF StackInv, open
      <4>2. \A d \in open : By[d] = u => d \in begun' \ returned'
        BY <2>1, <2>2, <3>2 DEF open
      <4>3. Shape(u, stack[u], message_queues_, begun' \ returned')
        BY <4>1, <4>2, ShapeKept
      <4> QED
        BY <1>4, <3>2, <4>3
    <3> QED
      BY <3>1, <3>2
  <2> QED
    BY <1>4, <2>3, <2>4, <2>5 DEF r
<1>6. CASE r # <<>>
  <2>1. returned' = returned
    BY <1>1, <1>2, <1>6 DEF Fits, CalledBy
  <2>2. Listing'
    BY <2>1 DEF StackInv, Listing, Present
  <2>3. \A u \in Threads :
          Shape(u, stack'[u], message_queues_, begun' \ returned')
    BY <1>1, <1>4, <2>1 DEF StackInv, open
  <2> QED
    BY <1>3, <1>4, <2>1, <2>2, <2>3 DEF r
<1> QED
  BY <1>5, <1>6

-----------------------------------------------------------------------------
(* Elements of sequences.                                                  *)

LEMMA Replaced ==
  ASSUME NEW S, NEW s \in Seq(S), NEW n \in Nat \ {0}, NEW v \in S
  PROVE  LET z == [s EXCEPT ![n] = v]
         IN  /\ z \in Seq(S) /\ Len(z) = Len(s)
             /\ \A j \in 1..Len(s) : z[j] = IF j = n THEN v ELSE s[j]
<1> DEFINE z == [s EXCEPT ![n] = v]
<1>1. s \in [1..Len(s) -> S] /\ Len(s) \in Nat
  OBVIOUS
<1>2. /\ z \in [1..Len(s) -> S]
      /\ \A j \in 1..Len(s) : z[j] = IF j = n THEN v ELSE s[j]
  BY <1>1
<1> HIDE DEF z
<1>3. z \in Seq(S) /\ Len(z) = Len(s)
  BY <1>1, <1>2, IsASeq, LenProperties
<1> QED
  BY <1>2, <1>3 DEF z

LEMMA Reheaping ==
  ASSUME NEW S, NEW s \in Seq(S), NEW z \in Reheaped(s)
  PROVE  /\ z \in Seq(S) /\ Len(z) = Len(s)
         /\ \E p \in [1..Len(s) -> 1..Len(s)] :
              /\ \A j \in 1..Len(s) : z[j] = s[p[j]]
              /\ \A j, k \in 1..Len(s) : p[j] = p[k] => j = k
<1> DEFINE D == 1..Len(s)
<1>1. PICK p \in Bijection(DOMAIN s, DOMAIN s) :
              z = [j \in DOMAIN s |-> s[p[j]]]
  BY DEF Reheaped
<1>2. D = DOMAIN s /\ Len(s) \in Nat
  OBVIOUS
<1>3. p \in [D -> D] /\ \A j, k \in D : p[j] = p[k] => j = k
  BY <1>1, <1>2 DEF Bijection, Injection, IsInjective
<1>8. z \in [D -> S] /\ \A j \in D : z[j] = s[p[j]]
  BY <1>1, <1>2, <1>3, ElementsIn
<1>9. z \in Seq(S) /\ Len(z) = Len(s)
  BY <1>2, <1>8, IsASeq, LenProperties
<1> QED
  BY <1>3, <1>8, <1>9

LEMMA HeadPart ==
  ASSUME NEW S, NEW s \in Seq(S), NEW n \in Nat \ {0}, n <= Len(s) + 1
  PROVE  LET z == SubSeq(s, 1, n - 1)
         IN  /\ z \in Seq(S) /\ Len(z) = n - 1
             /\ \A j \in 1..(n - 1) : z[j] = s[j]
OBVIOUS

\* A call as it goes on.
LEMMA FrameFields ==
  ASSUME NEW f \in Frames
  PROVE  /\ f.at \in Steps /\ f.call \in Calls \cup {Nil}
         /\ f.h \in Handlers \cup {Nil} /\ f.q \in Queues \cup {Nil}
         /\ f.locked \in BOOLEAN /\ f.m \in Messages \cup {Nil}
         /\ f.i \in Nat \ {0} /\ f.n \in Nat \ {0} /\ f.n <= f.i
BY DEF Frames, Records

LEMMA FrameSteps ==
  ASSUME NEW f \in Frames, NEW at \in Steps
  PROVE  LET g == [f EXCEPT !.at = at]
         IN  /\ g \in Frames /\ g.at = at /\ g.m = f.m
             /\ g.call = f.call /\ g.h = f.h /\ g.q = f.q
             /\ g.locked = f.locked /\ g.i = f.i /\ g.n = f.n
BY DEF Frames, Records

LEMMA FrameAdvances ==
  ASSUME NEW f \in Frames
  PROVE  LET g == [f EXCEPT !.i = @ + 1]
         IN  /\ g \in Frames /\ g.at = f.at /\ g.m = f.m
             /\ g.call = f.call /\ g.h = f.h /\ g.q = f.q
             /\ g.locked = f.locked /\ g.i = f.i + 1 /\ g.n = f.n
BY DEF Frames, Records

LEMMA FrameKeeps ==
  ASSUME NEW f \in Frames
  PROVE  LET g == [f EXCEPT !.i = @ + 1, !.n = @ + 1]
         IN  /\ g \in Frames /\ g.at = f.at /\ g.m = f.m
             /\ g.call = f.call /\ g.h = f.h /\ g.q = f.q
             /\ g.locked = f.locked /\ g.i = f.i + 1 /\ g.n = f.n + 1
<1> DEFINE g == [f EXCEPT !.i = @ + 1, !.n = @ + 1]
<1>1. f \in Records /\ f.n <= f.i /\ f.n \in Nat \ {0} /\ f.i \in Nat \ {0}
  BY DEF Frames, Records
<1>2. f.i + 1 \in Nat \ {0} /\ f.n + 1 \in Nat \ {0} /\ f.n + 1 <= f.i + 1
  BY <1>1
<1>3. g = [f EXCEPT !.i = f.i + 1, !.n = f.n + 1]
  OBVIOUS
<1>4. /\ g \in Records /\ g.at = f.at /\ g.m = f.m
      /\ g.call = f.call /\ g.h = f.h /\ g.q = f.q
      /\ g.locked = f.locked /\ g.i = f.i + 1 /\ g.n = f.n + 1
  BY <1>1, <1>2, <1>3 DEF Records
<1> QED
  BY <1>1, <1>2, <1>4 DEF Frames

LEMMA FrameRemoves ==
  ASSUME NEW f \in Frames
  PROVE  LET g == [f EXCEPT !.at = "clear", !.h = Nil, !.locked = FALSE]
         IN  /\ g \in Frames /\ g.at = "clear" /\ g.m = f.m
             /\ g.call = f.call /\ g.h = Nil /\ g.q = f.q
             /\ g.locked = FALSE /\ g.i = f.i /\ g.n = f.n
BY DEF Frames, Records, Steps, LoopSteps

-----------------------------------------------------------------------------
(* Every step keeps the invariant of the stacks.                           *)

\* Steps within the loops of Thread::ClearInternal.
LEMMA StepsOfLoops ==
  ASSUME StackInv, NEW t \in Threads,
         \/ ClearList(t) \/ ListSkip(t) \/ ListDelete(t) \/ ListErase(t)
         \/ ListEnd(t) \/ TimerDelete(t) \/ TimerKeep(t)
  PROVE  StackInv'
<1> DEFINE f == Top(t)
           s == messages_[f.q]
           z == timers[f.q]
<1>1. stack[t] # <<>> /\ f.at \in LoopSteps
  BY DEF ClearList, ListSkip, ListDelete, ListErase, ListEnd, TimerDelete,
     TimerKeep, At, LoopSteps
<1>2. f \in Frames /\ f.q \in Queues
  BY <1>1, TopFacts
<1>3. /\ messages_ \in [Queues -> Seq(Messages)]
      /\ timers \in [Queues -> Seq(Messages)]
      /\ deleted \in [Messages -> Nat] /\ Typed
  BY DEF StackInv, Typed
<1>4. s \in Seq(Messages) /\ z \in Seq(Messages)
  BY <1>2, <1>3
<1>5. /\ LoopSteps \subseteq Steps
      /\ {"clear", "list", "erase", "timers"} = LoopSteps
      /\ f.i \in Nat \ {0} /\ f.n \in Nat \ {0}
  BY <1>2, FrameFields DEF LoopSteps, Steps
<1> HIDE DEF f, s, z
<1>6. ASSUME NEW g \in Frames, g.at \in LoopSteps, g.call = f.call,
             g.h = f.h, g.q = f.q, g.locked = f.locked,
             UNCHANGED <<message_queues_, processing_, locks, begun, returned>>,
             Typed', GoesOn(t, g)
      PROVE  StackInv'
  BY <1>1, <1>6, LoopStep DEF f
<1>7. ASSUME NEW g \in Frames, g.at \in {"erase", "timers"}, g.call = f.call,
             g.h = f.h, g.q = f.q, g.locked = f.locked,
             UNCHANGED <<message_queues_, processing_, locks, contents, begun,
                         returned>>,
             NEW m \in Messages, DeletePayload(t, g, m)
      PROVE  StackInv'
  <2>1. deleted' \in [Messages -> Nat]
    <3>1. deleted' = [deleted EXCEPT ![m] = @ + 1]
      BY <1>7 DEF DeletePayload
    <3> QED
      BY <1>3, <3>1
  <2>2. Typed'
    BY <1>3, <1>7, <2>1 DEF Typed, contents
  <2>3. g.at \in LoopSteps
    BY <1>7 DEF LoopSteps
  <2>4. CASE Reenters[m] = Nil
    BY <1>6, <1>7, <2>2, <2>3, <2>4 DEF DeletePayload
  <2>5. CASE Reenters[m] # Nil
    <3>1. Reenters[m] \in Handlers
      BY <2>5, ManagerClearAssumption
    <3>2. CallsIn(t, g, NewCall("enter manager", Nil, Reenters[m], Nil))
      BY <1>7, <2>5 DEF DeletePayload
    <3> QED
      BY <1>1, <1>7, <2>2, <2>3, <3>1, <3>2, LoopStep DEF f
  <2> QED
    BY <2>4, <2>5
<1>8. CASE ClearList(t)
  <2>1. PICK x \in Messages \cup {Nil} : x = First(s)
    BY <1>4 DEF First
  <2> DEFINE g == [f EXCEPT !.at = "list", !.m = x]
  <2>2. /\ g \in Frames /\ g.at = "list" /\ g.call = f.call
        /\ g.h = f.h /\ g.q = f.q /\ g.locked = f.locked
    BY <1>2, <1>5 DEF Frames, Records
  <2>3. GoesOn(t, g)
    BY <1>8, <2>1 DEF ClearList, f, s
  <2> HIDE DEF g
  <2>4. /\ UNCHANGED <<message_queues_, processing_, locks, begun, returned>>
        /\ Typed'
    BY <1>3, <1>8 DEF ClearList, contents, Typed
  <2> QED
    BY <1>5, <1>6, <2>2, <2>3, <2>4
<1>9. CASE ListSkip(t)
  <2>1. PICK i \in DOMAIN s : GoesOn(t, [f EXCEPT !.m = After(s, i)])
    BY <1>9 DEF ListSkip, f, s
  <2>2. PICK x \in Messages \cup {Nil} : x = After(s, i)
    BY <1>4, ElementsIn DEF After
  <2> DEFINE g == [f EXCEPT !.at = f.at, !.m = x]
  <2>3. /\ g \in Frames /\ g.at = f.at /\ g.call = f.call
        /\ g.h = f.h /\ g.q = f.q /\ g.locked = f.locked
    <3>1. f.at \in Steps
      BY <1>2, FrameFields
    <3> QED
      BY <1>2, <3>1 DEF Frames, Records
  <2>4. g = [f EXCEPT !.m = After(s, i)]
    BY <1>2, <2>2 DEF Frames, Records
  <2> HIDE DEF g
  <2>5. /\ UNCHANGED <<message_queues_, processing_, locks, begun, returned>>
        /\ Typed'
    BY <1>3, <1>9 DEF ListSkip, contents, Typed
  <2> QED
    BY <1>1, <1>6, <2>1, <2>3, <2>4, <2>5
<1>10. CASE ListDelete(t)
  <2> DEFINE g == [f EXCEPT !.at = "erase"]
  <2>1. f.m \in Messages /\ DeletePayload(t, g, f.m)
    BY <1>4, <1>10 DEF ListDelete, f, s, ToSet
  <2>2. /\ g \in Frames /\ g.at = "erase" /\ g.call = f.call
        /\ g.h = f.h /\ g.q = f.q /\ g.locked = f.locked
    BY <1>2, <1>5, FrameSteps
  <2> HIDE DEF g
  <2>3. UNCHANGED <<message_queues_, processing_, locks, contents, begun,
                    returned>>
    BY <1>10 DEF ListDelete
  <2> QED
    BY <1>7, <2>1, <2>2, <2>3
<1>11. CASE ListErase(t)
  <2>1. PICK i \in DOMAIN s :
           /\ messages_' = [messages_ EXCEPT ![f.q] = RemoveAt(s, i)]
           /\ GoesOn(t, [f EXCEPT !.at = "list", !.m = After(s, i)])
    BY <1>11 DEF ListErase, f, s
  <2>2. PICK x \in Messages \cup {Nil} : x = After(s, i)
    BY <1>4, ElementsIn DEF After
  <2> DEFINE g == [f EXCEPT !.at = "list", !.m = x]
  <2>3. /\ g \in Frames /\ g.at = "list" /\ g.call = f.call
        /\ g.h = f.h /\ g.q = f.q /\ g.locked = f.locked
    BY <1>2, <1>5 DEF Frames, Records
  <2> HIDE DEF g
  <2>4. RemoveAt(s, i) \in Seq(Messages)
    <3>1. i \in 1..Len(s)
      BY <1>4
    <3> QED
      BY <1>4, <3>1, RemovedAt
  <2>5. messages_' \in [Queues -> Seq(Messages)]
    BY <1>3, <2>1, <2>4
  <2>6. /\ UNCHANGED <<message_queues_, processing_, locks, begun, returned>>
        /\ Typed'
    BY <1>3, <1>11, <2>5 DEF ListErase, Typed
  <2>7. GoesOn(t, g)
    BY <2>1, <2>2 DEF g
  <2> QED
    BY <1>5, <1>6, <2>3, <2>6, <2>7
<1>12. CASE ListEnd(t)
  <2> DEFINE g == [f EXCEPT !.at = "timers"]
  <2>1. /\ g \in Frames /\ g.at = "timers" /\ g.call = f.call
        /\ g.h = f.h /\ g.q = f.q /\ g.locked = f.locked
    BY <1>2, <1>5, FrameSteps
  <2>2. GoesOn(t, g)
    BY <1>12 DEF ListEnd, f
  <2> HIDE DEF g
  <2>3. /\ UNCHANGED <<message_queues_, processing_, locks, begun, returned>>
        /\ Typed'
    BY <1>3, <1>12 DEF ListEnd, contents, Typed
  <2> QED
    BY <1>5, <1>6, <2>1, <2>2, <2>3
<1>13. CASE TimerDelete(t)
  <2> DEFINE g == [f EXCEPT !.i = @ + 1]
  <2>1. f.i \in 1..Len(z) /\ DeletePayload(t, g, z[f.i]) /\ f.at = "timers"
    BY <1>5, <1>13 DEF TimerDelete, f, z, At
  <2>2. z[f.i] \in Messages
    BY <1>4, <2>1, ElementsIn
  <2>3. /\ g \in Frames /\ g.at = f.at /\ g.call = f.call
        /\ g.h = f.h /\ g.q = f.q /\ g.locked = f.locked
    BY <1>2, FrameAdvances
  <2> HIDE DEF g
  <2>4. UNCHANGED <<message_queues_, processing_, locks, contents, begun,
                    returned>>
    BY <1>13 DEF TimerDelete
  <2> QED
    BY <1>7, <2>1, <2>2, <2>3, <2>4
<1>14. CASE TimerKeep(t)
  <2> DEFINE g == [f EXCEPT !.i = @ + 1, !.n = @ + 1]
             y == [z EXCEPT ![f.n] = z[f.i]]
  <2>1. /\ f.i \in 1..Len(z) /\ GoesOn(t, g)
        /\ timers' = [timers EXCEPT ![f.q] = y]
    BY <1>5, <1>14 DEF TimerKeep, f, z
  <2>2. z[f.i] \in Messages
    BY <1>4, <2>1, ElementsIn
  <2>3. y \in Seq(Messages)
    BY <1>4, <1>5, <2>2, Replaced
  <2>4. /\ g \in Frames /\ g.at = f.at /\ g.call = f.call
        /\ g.h = f.h /\ g.q = f.q /\ g.locked = f.locked
    BY <1>2, FrameKeeps
  <2> HIDE DEF g, y
  <2>5. timers' \in [Queues -> Seq(Messages)]
    BY <1>3, <2>1, <2>3
  <2>6. /\ UNCHANGED <<message_queues_, processing_, locks, begun, returned>>
        /\ Typed'
    BY <1>3, <1>14, <2>5 DEF TimerKeep, Typed
  <2> QED
    BY <1>1, <1>6, <2>1, <2>4, <2>6
<1> QED
  BY <1>8, <1>9, <1>10, <1>11, <1>12, <1>13, <1>14

\* Entering or leaving one of the sections.
LEMMA EnterStep ==
  ASSUME StackInv, NEW t \in Threads, stack[t] # <<>>, NEW g \in Frames,
         GoesOn(t, g),
         Fits(t, g, Tail(stack[t]), message_queues_, open),
         UNCHANGED <<message_queues_, begun, returned>>, Typed'
  PROVE  /\ stack' \in [Threads -> Seq(Frames)]
         /\ stack'[t] = <<g>> \o Tail(stack[t])
         /\ \A u \in Threads : u # t => stack'[u] = stack[u]
         /\ Counted' => StackInv'
<1> DEFINE r == Tail(stack[t])
           X == <<g>> \o r
<1>1. r \in Seq(Frames) /\ Shape(t, r, message_queues_, open)
  BY TopFacts
<1>2. stack' = [stack EXCEPT ![t] = X]
  BY DEF GoesOn
<1> HIDE DEF r
<1>3. X \in Seq(Frames) /\ Shape(t, X, message_queues_, open)
  BY <1>1, OnTop, ShapeOnTop DEF r
<1> HIDE DEF X
<1>4. stack \in [Threads -> Seq(Frames)]
  BY DEF StackInv
<1>5. /\ stack' \in [Threads -> Seq(Frames)] /\ stack'[t] = X
      /\ \A u \in Threads : u # t => stack'[u] = stack[u]
  BY <1>2, <1>3, <1>4
<1>6. Listing'
  BY DEF StackInv, Listing, Present
<1>7. \A u \in Threads : Shape(u, stack'[u], message_queues_, open)
  BY <1>3, <1>5 DEF StackInv, open
<1>8. Counted' => StackInv'
  BY <1>5, <1>6, <1>7 DEF StackInv, Typed, open
<1> QED
  BY <1>5, <1>8 DEF X, r

\* What the counts of the topmost call are.
LEMMA TopCounts ==
  ASSUME StackInv, NEW t \in Threads, stack[t] # <<>>
  PROVE  LET f == Top(t)
             r == Tail(stack[t])
         IN  /\ Cardinality(ManagerCalls(r)) \in Nat
             /\ Cardinality(ManagerCalls(stack[t])) =
                  Cardinality(ManagerCalls(r)) + One(InManager(f))
             /\ \A q : Cardinality(QueueCalls(r, q)) \in Nat
             /\ \A q : Cardinality(QueueCalls(stack[t], q)) =
                  Cardinality(QueueCalls(r, q)) +
                    One(InQueue(f) /\ f.q = q /\ f.locked)
<1>1. /\ Top(t) \in Frames /\ Tail(stack[t]) \in Seq(Frames)
      /\ stack[t] = <<Top(t)>> \o Tail(stack[t])
  BY TopFacts
<1> DEFINE f == Top(t)
           r == Tail(stack[t])
           X == <<f>> \o r
<1> HIDE DEF f, r
<1>2. /\ Cardinality(ManagerCalls(r)) \in Nat
      /\ Cardinality(ManagerCalls(X)) =
           Cardinality(ManagerCalls(r)) + One(InManager(f))
      /\ \A q : Cardinality(QueueCalls(r, q)) \in Nat
      /\ \A q : Cardinality(QueueCalls(X, q)) =
           Cardinality(QueueCalls(r, q)) +
             One(InQueue(f) /\ f.q = q /\ f.locked)
  BY <1>1, CallsCounted DEF f, r
<1>3. stack[t] = X
  BY <1>1 DEF f, r
<1> QED
  BY <1>2, <1>3 DEF f, r

LEMMA CountsNat ==
  ASSUME NEW s \in Seq(Frames)
  PROVE  /\ Cardinality(ManagerCalls(s)) \in Nat
         /\ \A q : Cardinality(QueueCalls(s, q)) \in Nat
<1>1. IsFiniteSet(1..Len(s)) /\ DOMAIN s = 1..Len(s)
  BY FS_Interval
<1>2. /\ IsFiniteSet(ManagerCalls(s))
      /\ \A q : IsFiniteSet(QueueCalls(s, q))
  <2>1. ManagerCalls(s) \in SUBSET (1..Len(s))
    BY <1>1 DEF ManagerCalls
  <2>2. \A q : QueueCalls(s, q) \in SUBSET (1..Len(s))
    BY <1>1 DEF QueueCalls
  <2> QED
    BY <1>1, <2>1, <2>2, FS_Subset
<1> QED
  BY <1>2, FS_CardinalityType

\* The counts of every thread, after a step of one of them.
LEMMA Recounted ==
  ASSUME StackInv, NEW t \in Threads,
         stack' \in [Threads -> Seq(Frames)],
         \A u \in Threads : u # t => stack'[u] = stack[u],
         Goes(mcrit, mcrit', t, Cardinality(ManagerCalls(stack[t])),
              Cardinality(ManagerCalls(stack'[t]))),
         processing_' = mcrit'.recursion_count_,
         qcrit' = [q \in Queues |-> qcrit'[q]],
         \A q \in Queues :
           Goes(qcrit[q], qcrit'[q], t, Cardinality(QueueCalls(stack[t], q)),
                Cardinality(QueueCalls(stack'[t], q)))
  PROVE  Counted'
<1>1. /\ stack[t] \in Seq(Frames) /\ stack'[t] \in Seq(Frames)
      /\ LockOK(mcrit)
      /\ \A u \in Threads : HeldBy(mcrit, u, ManagerCalls(stack[u]))
      /\ \A q \in Queues :
           /\ LockOK(qcrit[q])
           /\ \A u \in Threads : HeldBy(qcrit[q], u, QueueCalls(stack[u], q))
  BY DEF StackInv, Counted
<1>2. /\ Cardinality(ManagerCalls(stack[t])) \in Nat
      /\ Cardinality(ManagerCalls(stack'[t])) \in Nat
      /\ \A q : /\ Cardinality(QueueCalls(stack[t], q)) \in Nat
                /\ Cardinality(QueueCalls(stack'[t], q)) \in Nat
  BY <1>1, CountsNat
<1>3. /\ LockOK(mcrit')
      /\ \A u \in Threads : HeldBy(mcrit', u, ManagerCalls(stack'[u]))
  <2>1. /\ LockOK(mcrit') /\ HeldBy(mcrit', t, ManagerCalls(stack'[t]))
        /\ \A u \in Threads : \A C :
             u # t /\ HeldBy(mcrit, u, C) => HeldBy(mcrit', u, C)
    BY <1>1, <1>2, LockCounts
  <2> QED
    BY <1>1, <2>1
<1>4. ASSUME NEW q \in Queues
      PROVE  /\ LockOK(qcrit'[q])
             /\ \A u \in Threads :
                  HeldBy(qcrit'[q], u, QueueCalls(stack'[u], q))
  <2> DEFINE c == qcrit[q]
             c2 == qcrit'[q]
             A == QueueCalls(stack[t], q)
             B == QueueCalls(stack'[t], q)
  <2>2. /\ LockOK(c) /\ HeldBy(c, t, A) /\ Cardinality(A) \in Nat
        /\ Cardinality(B) \in Nat
        /\ Goes(c, c2, t, Cardinality(A), Cardinality(B))
    BY <1>1, <1>2
  <2> HIDE DEF c, c2, A, B
  <2>3. /\ LockOK(c2) /\ HeldBy(c2, t, B)
        /\ \A u \in Threads : \A C :
             u # t /\ HeldBy(c, u, C) => HeldBy(c2, u, C)
    BY <2>2, LockCounts
  <2>1. /\ LockOK(qcrit'[q]) /\ HeldBy(qcrit'[q], t, QueueCalls(stack'[t], q))
        /\ \A u \in Threads : \A C :
             u # t /\ HeldBy(qcrit[q], u, C) => HeldBy(qcrit'[q], u, C)
    BY <2>3 DEF c, c2, A, B
  <2> QED
    BY <1>1, <2>1
<1> QED
  BY <1>3, <1>4 DEF Counted

\* A call enters or leaves neither section, or one of them.
LEMMA StepsOfSections ==
  ASSUME StackInv, NEW t \in Threads,
         EnterManager(t) \/ EnterQueue(t) \/ ClearAllEnd(t) \/ TimersEnd(t)
  PROVE  StackInv'
<1> DEFINE f == Top(t)
           r == Tail(stack[t])
           Was == Cardinality(ManagerCalls(stack[t]))
           Is == Cardinality(ManagerCalls(stack'[t]))
           WasIn(q) == Cardinality(QueueCalls(stack[t], q))
           IsIn(q) == Cardinality(QueueCalls(stack'[t], q))
<1>1. stack[t] # <<>>
  BY DEF EnterManager, EnterQueue, ClearAllEnd, TimersEnd, At
<1>2. /\ f \in Frames /\ r \in Seq(Frames)
      /\ Fits(t, f, r, message_queues_, open)
      /\ f.at \in {"enter queue"} \cup LoopSteps => f.q \in Queues
  BY <1>1, TopFacts
<1>3. /\ Cardinality(ManagerCalls(r)) \in Nat
      /\ Was = Cardinality(ManagerCalls(r)) + One(InManager(f))
      /\ \A q : Cardinality(QueueCalls(r, q)) \in Nat
      /\ \A q : WasIn(q) = Cardinality(QueueCalls(r, q)) +
                             One(InQueue(f) /\ f.q = q /\ f.locked)
  BY <1>1, TopCounts
<1>4. /\ stack \in [Threads -> Seq(Frames)]
      /\ open \in SUBSET Calls
      /\ processing_ = mcrit.recursion_count_
      /\ mcrit.recursion_count_ \in Nat
      /\ qcrit = [q \in Queues |-> qcrit[q]]
      /\ HeldBy(mcrit, t, ManagerCalls(stack[t]))
  BY DEF StackInv, open, Counted, LockOK
<1>5. /\ messages_ \in [Queues -> Seq(Messages)]
      /\ timers \in [Queues -> Seq(Messages)]
      /\ deleted \in [Messages -> Nat]
  BY DEF StackInv
<1> HIDE DEF f, r
\* The counts of the stack of t when g is on it instead of f.
<1>enters.
    ASSUME NEW g \in Frames, stack'[t] = <<g>> \o r
    PROVE  /\ Is = Cardinality(ManagerCalls(r)) + One(InManager(g))
           /\ \A q : IsIn(q) = Cardinality(QueueCalls(r, q)) +
                                 One(InQueue(g) /\ g.q = q /\ g.locked)
  <2> DEFINE X == <<g>> \o r
  <2>1. /\ Cardinality(ManagerCalls(X)) =
             Cardinality(ManagerCalls(r)) + One(InManager(g))
        /\ \A q : Cardinality(QueueCalls(X, q)) =
             Cardinality(QueueCalls(r, q)) +
               One(InQueue(g) /\ g.q = q /\ g.locked)
    BY <1>2, CallsCounted
  <2> HIDE DEF X
  <2>2. stack'[t] = X
    BY <1>enters DEF X
  <2> QED
    BY <2>1, <2>2
<1> HIDE DEF Was, Is, WasIn, IsIn
\* What is left to say of each of the actions.
<1>counted.
    ASSUME stack' \in [Threads -> Seq(Frames)],
           \A u \in Threads : u # t => stack'[u] = stack[u],
           Goes(mcrit, mcrit', t, Was, Is),
           processing_' = mcrit'.recursion_count_,
           qcrit' = [q \in Queues |-> qcrit'[q]],
           \A q \in Queues : Goes(qcrit[q], qcrit'[q], t, WasIn(q), IsIn(q))
    PROVE  Counted'
  BY <1>counted, Recounted DEF Was, Is, WasIn, IsIn
<1>6. CASE EnterManager(t)
  <2> DEFINE g == [f EXCEPT !.at = "queues"]
  <2>1. /\ f.at = "enter manager" /\ GoesOn(t, g) /\ CanEnter(mcrit, t)
        /\ mcrit' = Entered(mcrit, t) /\ processing_' = processing_ + 1
        /\ UNCHANGED <<message_queues_, qcrit, begun, returned>>
        /\ Typed'
    BY <1>5, <1>6 DEF EnterManager, f, At, Typed, contents
  <2>2. "queues" \in Steps /\ {"enter manager", "queues"} = ManagerSteps
    BY DEF Steps, ManagerSteps
  <2>3. /\ g \in Frames /\ g.at = "queues" /\ g.call = f.call
        /\ g.h = f.h /\ g.q = f.q
    BY <1>2, <2>2, FrameSteps
  <2> HIDE DEF g
  <2>4. Fits(t, g, r, message_queues_, open)
    BY <1>2, <1>4, <2>1, <2>2, <2>3, ManagerFits
  <2>5. /\ stack' \in [Threads -> Seq(Frames)] /\ stack'[t] = <<g>> \o r
        /\ \A u \in Threads : u # t => stack'[u] = stack[u]
        /\ Counted' => StackInv'
    BY <1>1, <2>1, <2>3, <2>4, EnterStep DEF r
  <2>6. /\ Is = Cardinality(ManagerCalls(r)) + One(InManager(g))
        /\ \A q : IsIn(q) = Cardinality(QueueCalls(r, q)) +
                              One(InQueue(g) /\ g.q = q /\ g.locked)
    BY <1>enters, <2>3, <2>5
  <2>7. /\ One(InManager(f)) = 0 /\ One(InManager(g)) = 1
        /\ \A q : One(InQueue(f) /\ f.q = q /\ f.locked) = 0
        /\ \A q : One(InQueue(g) /\ g.q = q /\ g.locked) = 0
    BY <2>1, <2>3 DEF InManager, InQueue, One
  <2>8. Goes(mcrit, mcrit', t, Was, Is)
    <3>1. Is = Was + 1
      BY <1>3, <2>6, <2>7
    <3> QED
      BY <2>1, <3>1 DEF Goes
  <2>9. \A q \in Queues : Goes(qcrit[q], qcrit'[q], t, WasIn(q), IsIn(q))
    BY <1>3, <2>1, <2>6, <2>7 DEF Goes
  <2>10. processing_' = mcrit'.recursion_count_
    BY <1>4, <2>1 DEF Entered
  <2> QED
    BY <1>4, <1>counted, <2>1, <2>5, <2>8, <2>9, <2>10
<1>7. CASE EnterQueue(t)
  <2> DEFINE g == [f EXCEPT !.at = "clear"]
             w == qcrit[f.q]
  <2>1. /\ f.at = "enter queue" /\ GoesOn(t, g) /\ CanEnter(w, t)
        /\ qcrit' = [qcrit EXCEPT ![f.q] = Entered(w, t)]
        /\ UNCHANGED <<message_queues_, processing_, mcrit, begun, returned>>
        /\ Typed'
    BY <1>5, <1>7 DEF EnterQueue, f, At, Typed, contents
  <2>2. "clear" \in Steps /\ "clear" \in LoopSteps
    BY DEF Steps, LoopSteps
  <2>3. /\ g \in Frames /\ g.at = "clear" /\ g.call = f.call
        /\ g.h = f.h /\ g.q = f.q /\ g.locked = f.locked
    BY <1>2, <2>2, FrameSteps
  <2> HIDE DEF g
  <2>4. Fits(t, g, r, message_queues_, open)
    BY <1>2, <1>4, <2>1, <2>2, <2>3, LoopFits
  <2>5. /\ stack' \in [Threads -> Seq(Frames)] /\ stack'[t] = <<g>> \o r
        /\ \A u \in Threads : u # t => stack'[u] = stack[u]
        /\ Counted' => StackInv'
    BY <1>1, <2>1, <2>3, <2>4, EnterStep DEF r
  <2>6. /\ Is = Cardinality(ManagerCalls(r)) + One(InManager(g))
        /\ \A q : IsIn(q) = Cardinality(QueueCalls(r, q)) +
                              One(InQueue(g) /\ g.q = q /\ g.locked)
    BY <1>enters, <2>3, <2>5
  <2>7. f.locked /\ f.q \in Queues
    <3>1. CASE r = <<>>
      <4>1. OfCall(t, f, message_queues_, open)
        BY <1>2, <3>1 DEF Fits
      <4> QED
        BY <1>2, <1>4, <2>1, <4>1, ManagerClearAssumption
        DEF OfCall, ManagerSteps, LoopSteps
    <3>2. CASE r # <<>>
      BY <1>2, <2>1, <3>2 DEF Fits, CalledBy, ManagerSteps
    <3> QED
      BY <3>1, <3>2
  <2>8. /\ One(InManager(f)) = 0 /\ One(InManager(g)) = 0
        /\ \A q : One(InQueue(f) /\ f.q = q /\ f.locked) = 0
        /\ \A q : One(InQueue(g) /\ g.q = q /\ g.locked) = One(q = f.q)
    BY <2>1, <2>3, <2>7 DEF InManager, InQueue, One
  <2>9. Goes(mcrit, mcrit', t, Was, Is)
    BY <1>3, <2>1, <2>6, <2>8 DEF Goes
  <2>10. ASSUME NEW q \in Queues
         PROVE  Goes(qcrit[q], qcrit'[q], t, WasIn(q), IsIn(q))
    <3>1. CASE q = f.q
      <4>1. IsIn(q) = WasIn(q) + 1
        BY <1>3, <2>6, <2>8, <3>1 DEF One
      <4>2. qcrit'[q] = Entered(w, t)
        BY <1>4, <2>1, <2>7, <3>1
      <4> QED
        BY <2>1, <3>1, <4>1, <4>2 DEF Goes
    <3>2. CASE q # f.q
      <4>1. IsIn(q) = WasIn(q)
        BY <1>3, <2>6, <2>8, <3>2 DEF One
      <4>2. qcrit'[q] = qcrit[q]
        BY <1>4, <2>1, <3>2
      <4> QED
        BY <4>1, <4>2 DEF Goes
    <3> QED
      BY <3>1, <3>2
  <2>11. qcrit' = [q \in Queues |-> qcrit'[q]]
    BY <1>4, <2>1
  <2> QED
    BY <1>4, <1>counted, <2>1, <2>5, <2>9, <2>10, <2>11
\* The call returns.
<1>returns.
    ASSUME stack'[t] = r
    PROVE  /\ Is = Cardinality(ManagerCalls(r))
           /\ \A q : IsIn(q) = Cardinality(QueueCalls(r, q))
  BY <1>returns DEF Is, IsIn
<1>pops.
    ASSUME Pops(t), UNCHANGED <<message_queues_, begun>>, Typed'
    PROVE  /\ stack' \in [Threads -> Seq(Frames)] /\ stack'[t] = r
           /\ \A u \in Threads : u # t => stack'[u] = stack[u]
           /\ Counted' => StackInv'
  <2>1. /\ stack' \in [Threads -> Seq(Frames)] /\ stack'[t] = r
        /\ \A u \in Threads : u # t => stack'[u] = stack[u]
        /\ returned' \subseteq begun' /\ Listing'
        /\ \A u \in Threads :
             Shape(u, stack'[u], message_queues_, begun' \ returned')
    BY <1>1, <1>pops, PopStep DEF r
  <2> QED
    BY <1>pops, <2>1 DEF StackInv, Typed
<1>8. CASE ClearAllEnd(t)
  <2>1. /\ f.at = "queues" /\ Pops(t)
        /\ mcrit' = Left(mcrit) /\ processing_' = processing_ - 1
        /\ UNCHANGED <<message_queues_, qcrit, begun>>
        /\ Typed'
    BY <1>5, <1>8 DEF ClearAllEnd, f, At, Typed, contents
  <2>2. /\ stack' \in [Threads -> Seq(Frames)] /\ stack'[t] = r
        /\ \A u \in Threads : u # t => stack'[u] = stack[u]
        /\ Counted' => StackInv'
    BY <2>1, <1>pops
  <2>3. /\ Is = Cardinality(ManagerCalls(r))
        /\ \A q : IsIn(q) = Cardinality(QueueCalls(r, q))
    BY <2>2, <1>returns
  <2>4. /\ One(InManager(f)) = 1
        /\ \A q : One(InQueue(f) /\ f.q = q /\ f.locked) = 0
    BY <2>1 DEF InManager, InQueue, One
  <2>5. Goes(mcrit, mcrit', t, Was, Is)
    <3>1. Was = Is + 1
      BY <1>3, <2>3, <2>4
    <3> QED
      BY <2>1, <3>1 DEF Goes
  <2>6. \A q \in Queues : Goes(qcrit[q], qcrit'[q], t, WasIn(q), IsIn(q))
    <3>1. ASSUME NEW q PROVE IsIn(q) = WasIn(q)
      <4> DEFINE k == Cardinality(QueueCalls(r, q))
                 b == One(InQueue(f) /\ f.q = q /\ f.locked)
      <4>1. IsIn(q) = k /\ WasIn(q) = k + b /\ b = 0 /\ k \in Nat
        BY <1>3, <2>3, <2>4
      <4> HIDE DEF k, b
      <4> QED
        BY <4>1
    <3> QED
      BY <2>1, <3>1 DEF Goes
  <2>7. processing_' = mcrit'.recursion_count_
    <3>1. Was # 0
      BY <1>3, <2>4
    <3>2. mcrit.recursion_count_ # 0
      BY <1>4, <3>1 DEF HeldBy, Was
    <3>3. mcrit \in [owner : Threads \cup {Nil}, recursion_count_ : Nat]
      BY DEF StackInv, Counted, LockOK
    <3>4. CASE mcrit.recursion_count_ = 1
      BY <1>4, <2>1, <3>4 DEF Left, Unlocked
    <3>5. CASE mcrit.recursion_count_ # 1
      BY <1>4, <2>1, <3>2, <3>3, <3>5 DEF Left
    <3> QED
      BY <3>4, <3>5
  <2> QED
    BY <1>4, <1>counted, <2>1, <2>2, <2>5, <2>6, <2>7
<1>9. CASE TimersEnd(t)
  <2> DEFINE z == timers[f.q]
  <2>1. /\ f.at = "timers" /\ Pops(t) /\ f.i = Len(z) + 1 /\ LeaveQueue(f)
        /\ \E y \in Reheaped(SubSeq(z, 1, f.n - 1)) :
             timers' = [timers EXCEPT ![f.q] = y]
        /\ UNCHANGED <<message_queues_, processing_, mcrit, begun, messages_,
                       deleted>>
    BY <1>9 DEF TimersEnd, f, At
  <2>2. f.q \in Queues /\ f.n \in Nat \ {0} /\ f.n <= Len(z) + 1
    BY <1>2, <2>1, FrameFields DEF LoopSteps
  <2>3. SubSeq(z, 1, f.n - 1) \in Seq(Messages)
    <3>1. z \in Seq(Messages)
      BY <1>5, <2>2
    <3> HIDE DEF z
    <3> QED
      BY <2>2, <3>1, HeadPart
  <2>4. Typed'
    <3>1. PICK y \in Reheaped(SubSeq(z, 1, f.n - 1)) :
                 timers' = [timers EXCEPT ![f.q] = y]
      BY <2>1
    <3>2. y \in Seq(Messages)
      BY <2>3, Reheaping
    <3>3. timers' \in [Queues -> Seq(Messages)]
      BY <1>5, <3>1, <3>2
    <3> QED
      BY <1>5, <2>1, <3>3 DEF Typed
  <2>5. /\ stack' \in [Threads -> Seq(Frames)] /\ stack'[t] = r
        /\ \A u \in Threads : u # t => stack'[u] = stack[u]
        /\ Counted' => StackInv'
    BY <2>1, <2>4, <1>pops
  <2>6. /\ Is = Cardinality(ManagerCalls(r))
        /\ \A q : IsIn(q) = Cardinality(QueueCalls(r, q))
    BY <2>5, <1>returns
  <2>7. /\ One(InManager(f)) = 0
        /\ \A q : One(InQueue(f) /\ f.q = q /\ f.locked) =
                    One(q = f.q /\ f.locked)
    BY <2>1 DEF InManager, InQueue, One
  <2>8. Goes(mcrit, mcrit', t, Was, Is)
    BY <1>3, <2>1, <2>6, <2>7 DEF Goes
  <2>9. /\ qcrit' = [q \in Queues |-> qcrit'[q]]
        /\ \A q \in Queues : qcrit'[q] = IF q = f.q /\ f.locked
                                         THEN Left(qcrit[q]) ELSE qcrit[q]
    <3>1. CASE f.locked
      <4>1. qcrit' = [qcrit EXCEPT ![f.q] = Left(qcrit[f.q])]
        BY <2>1, <3>1 DEF LeaveQueue
      <4> QED
        BY <1>4, <3>1, <4>1
    <3>2. CASE ~f.locked
      <4>1. qcrit' = qcrit
        BY <2>1, <3>2 DEF LeaveQueue
      <4> QED
        BY <1>4, <3>2, <4>1
    <3> QED
      BY <3>1, <3>2
  <2>10. ASSUME NEW q \in Queues
         PROVE  Goes(qcrit[q], qcrit'[q], t, WasIn(q), IsIn(q))
    <3>1. CASE q = f.q /\ f.locked
      <4>1. WasIn(q) = IsIn(q) + 1
        BY <1>3, <2>6, <2>7, <3>1 DEF One
      <4> QED
        BY <2>9, <3>1, <4>1 DEF Goes
    <3>2. CASE ~(q = f.q /\ f.locked)
      <4>1. WasIn(q) = IsIn(q)
        BY <1>3, <2>6, <2>7, <3>2 DEF One
      <4>2. qcrit'[q] = qcrit[q]
        BY <2>9, <3>2
      <4> QED
        BY <4>1, <4>2 DEF Goes
    <3> QED
      BY <3>1, <3>2
  <2>11. processing_' = mcrit'.recursion_count_
    BY <1>4, <2>1
  <2> QED
    BY <1>counted, <2>5, <2>8, <2>9, <2>10, <2>11
<1> QED
  BY <1>6, <1>7, <1>8, <1>9

\* The calls begin.
LEMMA StepsOfBegin ==
  ASSUME StackInv, NEW t \in Threads, NEW c \in Calls, CallBegin(t, c)
  PROVE  StackInv'
<1>1. By[c] = t
  BY DEF CallBegin, ClearAllBegin, ClearBegin, DestroyBegin, AddBegin, Begin
<1>2. /\ {"enter manager", "enter queue", "remove", "add"} \subseteq Steps
      /\ \A at \in {"enter manager", "enter queue", "remove", "add"} :
           at \notin {"queues"} \cup LoopSteps
      /\ "enter manager" \in ManagerSteps
  BY DEF Steps, ManagerSteps, LoopSteps
<1>3. ASSUME NEW at \in Steps
      PROVE  LET f == NewCall(at, c, For[c], About[c])
             IN  /\ f.at = at /\ f.call = c /\ f.h = For[c] /\ f.q = About[c]
                 /\ f.locked
  BY DEF NewCall
<1>4. CASE ClearAllBegin(t, c)
  <2> DEFINE f == NewCall("enter manager", c, For[c], About[c])
  <2>1. /\ Kind[c] = "clearall" /\ Begin(t, c)
        /\ Starts(t, c, "enter manager")
    BY <1>4 DEF ClearAllBegin
  <2>2. /\ f.at = "enter manager" /\ f.call = c /\ f.h = For[c]
        /\ f.q = About[c]
    BY <1>2, <1>3
  <2> HIDE DEF f
  <2>3. OfCall(t, f, message_queues_, {c})
    BY <1>1, <1>2, <2>1, <2>2 DEF OfCall
  <2> QED
    BY <1>2, <2>1, <2>3, BeginStep DEF f
<1>5. CASE ClearBegin(t, c)
  <2> DEFINE f == NewCall("enter queue", c, For[c], About[c])
  <2>1. Kind[c] = "clear" /\ Begin(t, c) /\ Starts(t, c, "enter queue")
    BY <1>5 DEF ClearBegin
  <2>2. /\ f.at = "enter queue" /\ f.call = c /\ f.h = For[c]
        /\ f.q = About[c] /\ f.locked
    BY <1>2, <1>3
  <2> HIDE DEF f
  <2>3. OfCall(t, f, message_queues_, {c})
    BY <1>1, <2>1, <2>2 DEF OfCall
  <2> QED
    BY <1>2, <2>1, <2>3, BeginStep DEF f
<1>6. CASE DestroyBegin(t, c)
  <2> DEFINE f == NewCall("remove", c, For[c], About[c])
  <2>1. /\ Kind[c] = "destroy" /\ Begin(t, c) /\ Starts(t, c, "remove")
        /\ About[c] \in ToSet(message_queues_)
        /\ \A d \in Calls : Kind[d] = "clear" /\ About[d] = About[c] =>
             d \in returned
    BY <1>6 DEF DestroyBegin
  <2>2. f.at = "remove" /\ f.call = c /\ f.q = About[c]
    BY <1>2, <1>3
  <2> HIDE DEF f
  <2>3. OfCall(t, f, message_queues_, {c})
    BY <1>1, <2>1, <2>2 DEF OfCall
  <2> QED
    BY <1>2, <2>1, <2>3, BeginStep DEF f
<1>7. CASE AddBegin(t, c)
  <2> DEFINE f == NewCall("add", c, For[c], About[c])
  <2>1. Kind[c] = "add" /\ Begin(t, c) /\ Starts(t, c, "add")
    BY <1>7 DEF AddBegin
  <2>2. f.at = "add" /\ f.call = c /\ f.q = About[c]
    BY <1>2, <1>3
  <2> HIDE DEF f
  <2>3. OfCall(t, f, message_queues_, {c})
    BY <1>1, <2>1, <2>2 DEF OfCall
  <2> QED
    BY <1>2, <2>1, <2>3, BeginStep DEF f
<1> QED
  BY <1>4, <1>5, <1>6, <1>7 DEF CallBegin

\* The list of queues is changed while nobody is in its section.
LEMMA StepsOfList ==
  ASSUME CallsOnce, StackInv, NEW t \in Threads,
         AddInternal(t) \/ RemoveInternal(t)
  PROVE  StackInv'
<1> DEFINE f == Top(t)
           r == Tail(stack[t])
           c == f.call
           mq == message_queues_
           mq2 == message_queues_'
<1>1. stack[t] # <<>> /\ f.at \in {"add", "remove"} /\ processing_ = 0
  BY DEF AddInternal, RemoveInternal, At
<1>2. /\ f \in Frames /\ r \in Seq(Frames) /\ stack[t] = <<f>> \o r
      /\ Fits(t, f, r, mq, open)
  BY <1>1, TopFacts
<1>3. /\ stack \in [Threads -> Seq(Frames)] /\ open \in SUBSET Calls
      /\ mq \in Seq(Queues) /\ IsInjective(mq)
      /\ returned \subseteq begun /\ begun \subseteq Calls
      /\ messages_ \in [Queues -> Seq(Messages)]
      /\ timers \in [Queues -> Seq(Messages)]
      /\ deleted \in [Messages -> Nat]
  BY DEF StackInv, Listing, open
<1> HIDE DEF f, r
<1>4. /\ r = <<>> /\ OfCall(t, f, mq, open) /\ c \in Calls
      /\ Kind[c] = IF f.at = "add" THEN "add" ELSE "destroy"
      /\ f.q = About[c]
  BY <1>1, <1>2, <1>3, AloneOnStack
<1>5. c \in open /\ By[c] = t
  BY <1>4 DEF OfCall
<1>6. f.q \in Queues /\ c # Nil
  BY <1>4, ManagerClearAssumption
<1>7. \A u \in Threads : ManagerCalls(stack[u]) = {}
  BY <1>1, NobodyInManager
<1>8. /\ \A b \in Calls : Kind[b] = "add" /\ b \notin returned =>
                            About[b] \notin ToSet(mq)
      /\ \A b, d \in Calls :
           /\ Kind[d] = "destroy" /\ d \in begun
           /\ Kind[b] \in {"add", "clear"} /\ About[b] = About[d]
           => b \in returned
  BY DEF StackInv, Listing, Present
<1>9. SameCounts(stack[t], r)
  <2>1. f.at # "queues" /\ f.at \notin LoopSteps
    BY <1>1 DEF LoopSteps
  <2>2. SameCounts(<<f>> \o r, r)
    BY <1>2, <2>1, WaitingCounts
  <2> QED
    BY <1>2, <2>2
<1>10. ASSUME UNCHANGED <<processing_, mcrit, qcrit>>,
              NEW X, stack' = [stack EXCEPT ![t] = X], X \in Seq(Frames),
              SameCounts(X, r)
       PROVE  Counted'
  <2> USE <1>10
  <2>1. SameCounts(X, stack[t])
    BY <1>9 DEF SameCounts
  <2>2. \A u \in Threads : SameCounts(stack'[u], stack[u])
    BY <1>3, <2>1 DEF SameCounts
  <2> QED
    BY <2>2, CountsKept DEF StackInv
<1>11. CASE AddInternal(t)
  <2>1. /\ f.at = "add"
        /\ mq2 = Append(mq, f.q) /\ stack' = [stack EXCEPT ![t] = r]
        /\ returned' = returned \cup {c}
        /\ UNCHANGED <<processing_, mcrit, qcrit, messages_, timers, deleted,
                       begun>>
    BY <1>6, <1>11 DEF AddInternal, At, Pops, f, r, locks, contents
  <2>2. Kind[c] = "add" /\ c \notin returned
    BY <1>4, <1>5, <2>1 DEF open
  <2>3. f.q \notin ToSet(mq)
    BY <1>4, <1>8, <2>2
  <2>4. /\ mq2 \in Seq(Queues) /\ IsInjective(mq2)
        /\ ToSet(mq2) = ToSet(mq) \cup {f.q}
    <3>1. /\ mq2 \in Seq(Queues) /\ DOMAIN mq = 1..Len(mq) /\ Len(mq) \in Nat
          /\ DOMAIN mq2 = 1..(Len(mq) + 1)
          /\ mq2[Len(mq) + 1] = f.q
          /\ \A k \in 1..Len(mq) : mq2[k] = mq[k]
      BY <1>3, <1>6, <2>1
    <3> HIDE DEF mq, mq2
    <3>2. IsInjective(mq2)
      <4>1. ASSUME NEW j \in DOMAIN mq2, NEW k \in DOMAIN mq2, mq2[j] = mq2[k],
                   j \in DOMAIN mq
            PROVE  j = k
        <5>1. mq2[j] = mq[j] /\ mq[j] # f.q
          BY <2>3, <3>1, <4>1 DEF ToSet
        <5>2. k \in DOMAIN mq \/ k = Len(mq) + 1
          BY <3>1
        <5>3. k \in DOMAIN mq /\ mq2[k] = mq[k]
          BY <3>1, <4>1, <5>1, <5>2
        <5> QED
          BY <1>3, <4>1, <5>1, <5>3 DEF IsInjective
      <4>2. \A j \in DOMAIN mq2 : j \in DOMAIN mq \/ j = Len(mq) + 1
        BY <3>1
      <4>3. \A j, k \in DOMAIN mq2 : mq2[j] = mq2[k] => j = k
        BY <4>1, <4>2
      <4> QED
        BY <4>3 DEF IsInjective
    <3>3. ToSet(mq2) = ToSet(mq) \cup {f.q}
      <4>1. \A k \in DOMAIN mq : k \in DOMAIN mq2
        BY <3>1
      <4>2. \A k \in DOMAIN mq2 : k \in DOMAIN mq \/ mq2[k] = f.q
        BY <3>1
      <4>3. Len(mq) + 1 \in DOMAIN mq2
        BY <3>1
      <4> QED
        BY <3>1, <4>1, <4>2, <4>3 DEF ToSet
    <3> QED
      BY <3>1, <3>2, <3>3
  <2>5. Listing'
    <3>1. ASSUME NEW b \in Calls, Kind[b] = "add", b \notin returned'
          PROVE  About[b] \notin ToSet(mq2)
      <4>1. b # c /\ b \notin returned
        BY <2>1, <3>1
      <4>2. About[b] # f.q
        BY <1>4, <2>2, <3>1, <4>1 DEF CallsOnce
      <4> QED
        BY <1>8, <2>4, <3>1, <4>1, <4>2
    <3> QED
      BY <1>8, <2>1, <2>4, <3>1 DEF Listing, Present
  <2>6. \A d \in open : d # c => d \in begun' \ returned'
    BY <2>1 DEF open
  <2>7. \A d \in open : Kind[d] = "destroy" /\ About[d] \in ToSet(mq2) =>
                          About[d] \in ToSet(mq)
    <3>1. ASSUME NEW d \in open, Kind[d] = "destroy" PROVE About[d] # f.q
      <4>1. d \in begun /\ d \in Calls
        BY <1>3, <3>1 DEF open
      <4> QED
        BY <1>4, <1>8, <2>2, <3>1, <4>1
    <3> QED
      BY <2>4, <3>1
  <2>8. ASSUME NEW u \in Threads
        PROVE  Shape(u, stack'[u], mq2, begun' \ returned')
    <3>1. CASE u = t
      BY <1>3, <1>4, <2>1, <3>1 DEF Shape
    <3>2. CASE u # t
      <4>1. /\ stack[u] \in Seq(Frames) /\ Shape(u, stack[u], mq, open)
            /\ ManagerCalls(stack[u]) = {}
        BY <1>3, <1>7 DEF StackInv, open
      <4>2. \A d \in open : By[d] = u => d \in begun' \ returned'
        BY <1>5, <2>6, <3>2
      <4>3. Shape(u, stack[u], mq2, begun' \ returned')
        BY <2>7, <4>1, <4>2, ShapeKept
      <4> QED
        BY <1>3, <2>1, <3>2, <4>3
    <3> QED
      BY <3>1, <3>2
  <2>9. Counted'
    <3>1. SameCounts(r, r)
      BY DEF SameCounts
    <3> QED
      BY <1>2, <1>10, <2>1, <3>1
  <2>10. stack' \in [Threads -> Seq(Frames)]
    BY <1>2, <1>3, <2>1
  <2>11. returned' \subseteq begun'
    BY <1>3, <1>5, <2>1 DEF open
  <2> QED
    BY <1>3, <2>1, <2>5, <2>8, <2>9, <2>10, <2>11 DEF StackInv
<1>12. CASE RemoveInternal(t)
  <2> DEFINE g == [f EXCEPT !.at = "clear", !.h = Nil, !.locked = FALSE]
             X == <<g>> \o r
  <2>1. /\ f.at = "remove"
        /\ mq2 = RemoveFirst(mq, f.q) /\ stack' = [stack EXCEPT ![t] = X]
        /\ UNCHANGED <<processing_, mcrit, qcrit, messages_, timers, deleted,
                       begun, returned>>
    BY <1>12 DEF RemoveInternal, At, GoesOn, f, r, locks, contents
  <2>2. /\ g \in Frames /\ g.at = "clear" /\ g.call = c /\ g.h = Nil
        /\ g.q = f.q /\ ~g.locked
    BY <1>2, FrameRemoves
  <2> HIDE DEF g
  <2>3. X \in Seq(Frames)
    BY <1>2, <2>2, OnTop
  <2>4. /\ mq2 \in Seq(Queues) /\ IsInjective(mq2)
        /\ ToSet(mq2) = ToSet(mq) \ {f.q}
    BY <1>3, <2>1, RemovedFirst
  <2>5. Listing'
    BY <1>8, <2>1, <2>4 DEF Listing, Present
  <2>6. SameCounts(X, r)
    <3>1. g.at # "queues"
      BY <2>2
    <3> QED
      BY <1>2, <2>2, <3>1, WaitingCounts
  <2>7. Shape(t, X, mq2, open)
    <3>1. "clear" \in LoopSteps
      BY DEF LoopSteps
    <3>2. OfCall(t, g, mq2, open)
      BY <1>4, <1>5, <2>1, <2>2, <2>4, <3>1 DEF OfCall
    <3>3. Fits(t, g, r, mq2, open) /\ Shape(t, r, mq2, open)
      BY <1>4, <3>2 DEF Fits, Shape
    <3> QED
      BY <1>2, <2>2, <3>3, ShapeOnTop
  <2> HIDE DEF X
  <2>8. ASSUME NEW u \in Threads
        PROVE  Shape(u, stack'[u], mq2, open)
    <3>1. CASE u = t
      BY <1>3, <2>1, <2>7, <3>1
    <3>2. CASE u # t
      <4>1. /\ stack[u] \in Seq(Frames) /\ Shape(u, stack[u], mq, open)
            /\ ManagerCalls(stack[u]) = {}
        BY <1>3, <1>7 DEF StackInv, open
      <4>2. Shape(u, stack[u], mq2, open)
        BY <2>4, <4>1, ShapeKept
      <4> QED
        BY <1>3, <2>1, <3>2, <4>2
    <3> QED
      BY <3>1, <3>2
  <2>9. Counted'
    BY <1>10, <2>1, <2>3, <2>6
  <2>10. stack' \in [Threads -> Seq(Frames)]
    BY <1>3, <2>1, <2>3
  <2> QED
    BY <1>3, <2>1, <2>5, <2>8, <2>9, <2>10 DEF StackInv, open
<1> QED
  BY <1>11, <1>12

\* ThreadManager::Clear goes on to the next queue of the list.
LEMMA StepOfQueues ==
  ASSUME StackInv, NEW t \in Threads, NextQueue(t)
  PROVE  StackInv'
<1> DEFINE f == Top(t)
           r == Tail(stack[t])
           mq == message_queues_
           f2 == [f EXCEPT !.i = @ + 1]
           g == NewCall("enter queue", Nil, f.h, mq[f.i])
           X == <<f2>> \o r
           Y == <<g, f2>> \o r
<1>1. /\ stack[t] # <<>> /\ f.at = "queues" /\ f.i <= Len(mq)
      /\ stack' = [stack EXCEPT ![t] = Y]
      /\ UNCHANGED <<message_queues_, processing_, locks, contents, deleted,
                     begun, returned>>
  BY DEF NextQueue, At, CallsIn
<1>2. /\ f \in Frames /\ r \in Seq(Frames) /\ stack[t] = <<f>> \o r
      /\ Fits(t, f, r, mq, open) /\ Shape(t, r, mq, open)
  BY <1>1, TopFacts
<1>3. mq \in Seq(Queues) /\ open \in SUBSET Calls
  BY DEF StackInv, Listing, open
<1>4. /\ f2 \in Frames /\ f2.at = "queues" /\ f2.call = f.call
      /\ f2.h = f.h /\ f2.q = f.q /\ f2.locked = f.locked
      /\ f2.i = f.i + 1 /\ f.i \in Nat \ {0}
  BY <1>1, <1>2, FrameAdvances, FrameFields
<1> HIDE DEF f, r, f2, mq
<1>5. Fits(t, f2, r, mq, open) /\ f.h \in Handlers
  <2>1. "queues" \in ManagerSteps
    BY DEF ManagerSteps
  <2> QED
    BY <1>1, <1>2, <1>3, <1>4, <2>1, ManagerFits
<1>6. Shape(t, <<f2>> \o r, mq, open)
  BY <1>2, <1>4, <1>5, ShapeOnTop
<1>7. f.i \in DOMAIN mq /\ mq[f.i] \in Queues
  <2>1. /\ DOMAIN mq = 1..Len(mq) /\ Len(mq) \in Nat
        /\ \A k \in 1..Len(mq) : mq[k] \in Queues
    BY <1>3, ElementsIn
  <2>2. f.i \in 1..Len(mq)
    <3>1. f.i \in Nat \ {0} /\ f.i <= Len(mq)
      BY <1>1, <1>4
    <3> QED
      BY <2>1, <3>1
  <2> QED
    BY <2>1, <2>2
<1>8. /\ g \in Frames /\ g.at = "enter queue" /\ g.call = Nil
      /\ g.h = f.h /\ g.q = mq[f.i] /\ g.locked
  BY <1>5, <1>7, QueueCallType DEF NewCall
<1> HIDE DEF g
<1>9. CalledBy(g, f2, mq)
  <2>1. f2.i - 1 = f.i
    BY <1>4
  <2> QED
    BY <1>4, <1>7, <1>8, <2>1 DEF CalledBy
<1>10. Y \in Seq(Frames) /\ Shape(t, Y, mq, open) /\ SameCounts(Y, X)
  <2>1. g.at # "queues" /\ g.at \notin LoopSteps
    BY <1>8 DEF LoopSteps
  <2> QED
    BY <1>2, <1>4, <1>6, <1>8, <1>9, <2>1, CallFits
<1>11. SameCounts(X, <<f>> \o r)
  BY <1>1, <1>2, <1>4, LoopCounts
<1> HIDE DEF X, Y
<1>12. SameCounts(Y, stack[t])
  BY <1>2, <1>10, <1>11 DEF SameCounts
<1>13. Typed'
  BY <1>1 DEF StackInv, Typed, contents
<1> QED
  BY <1>1, <1>10, <1>12, <1>13, QuietStep DEF mq

LEMMA StackStep ==
  ASSUME CallsOnce, StackInv, [Next]_vars
  PROVE  StackInv'
<1>1. ASSUME NEW t \in Threads, Step(t) PROVE StackInv'
  BY <1>1, StepsOfLoops, StepsOfSections, StepsOfList, StepOfQueues DEF Step
<1>2. ASSUME NEW t \in Threads, NEW c \in Calls, CallBegin(t, c)
      PROVE  StackInv'
  BY <1>2, StepsOfBegin
<1>3. CASE UNCHANGED vars
  BY <1>3 DEF vars, locks, contents, StackInv, Listing, Present, Counted
<1> QED
  BY <1>1, <1>2, <1>3 DEF Next

LEMMA StackInit ==
  ASSUME CallsOnce, Init
  PROVE  StackInv
<1> USE DEF Init
<1>1. /\ stack \in [Threads -> Seq(Frames)]
      /\ messages_ \in [Queues -> Seq(Messages)]
      /\ timers \in [Queues -> Seq(Messages)]
      /\ deleted \in [Messages -> Nat]
  BY ManagerClearAssumption
<1>2. Listing
  BY ManagerClearAssumption DEF CallsOnce, Listing, Present
<1>3. \A t \in Threads : Shape(t, stack[t], message_queues_, begun \ returned)
  BY DEF Shape
<1>4. Counted
  <2>1. /\ Cardinality(ManagerCalls(<<>>)) = 0
        /\ \A q : Cardinality(QueueCalls(<<>>, q)) = 0
    <3>1. ManagerCalls(<<>>) = {} /\ \A q : QueueCalls(<<>>, q) = {}
      BY DEF ManagerCalls, QueueCalls
    <3> QED
      BY <3>1, FS_EmptySet
  <2>2. /\ LockOK(Unlocked) /\ Unlocked.owner = Nil
        /\ Unlocked.recursion_count_ = 0
    BY DEF LockOK, Unlocked
  <2>3. \A t \in Threads : stack[t] = <<>>
    OBVIOUS
  <2>4. \A q \in Queues : qcrit[q] = Unlocked
    OBVIOUS
  <2>5. Nil \notin Threads
    BY ManagerClearAssumption
  <2>6. qcrit = [q \in Queues |-> qcrit[q]]
    OBVIOUS
  <2> QED
    BY <2>1, <2>2, <2>3, <2>4, <2>5, <2>6 DEF Counted, HeldBy
<1> QED
  BY <1>1, <1>2, <1>3, <1>4 DEF StackInv

\* The calls of every stack fit in with each other, and the locks are counted.
THEOREM StacksAreSound ==
  ASSUME CallsOnce
  PROVE  Spec => []StackInv
<1>1. Init => StackInv
  BY StackInit
<1>2. StackInv /\ [Next]_vars => StackInv'
  BY StackStep
<1> QED
  BY <1>1, <1>2, PTL DEF Spec

\* Queues are listed once, processing_ is the depth of the calls to
\* ThreadManager::Clear, and the recursion count of each lock that of the
\* calls that its owner is in.
THEOREM TypeCorrect ==
  ASSUME CallsOnce
  PROVE  Spec => []TypeOK
<1>1. StackInv => TypeOK
  <2> SUFFICES ASSUME StackInv PROVE TypeOK
    OBVIOUS
  <2>1. /\ ToSet(message_queues_) \subseteq Queues
        /\ IsInjective(message_queues_)
    BY ElementsIn DEF StackInv, Listing, ToSet
  <2>2. ASSUME NEW q \in Queues
        PROVE  ToSet(messages_[q]) \cup ToSet(timers[q]) \subseteq Messages
    <3>1. messages_[q] \in Seq(Messages) /\ timers[q] \in Seq(Messages)
      BY DEF StackInv
    <3> QED
      BY <3>1, ElementsIn DEF ToSet
  <2> QED
    BY <2>1, <2>2 DEF TypeOK, StackInv, Counted
<1> QED
  BY <1>1, StacksAreSound, PTL

\* The assertions of AddInternal and RemoveInternal hold whenever they are
\* reached: who gets into the manager's section to change the list finds nobody
\* who goes through it (src/thread.cc:81-82, 93-94).
ListNotInUse ==
  \A t \in Threads :
    (At(t, "add") \/ At(t, "remove")) /\ CanEnter(mcrit, t) => processing_ = 0

THEOREM AssertionsHold ==
  ASSUME CallsOnce
  PROVE  Spec => []ListNotInUse
<1>1. StackInv => ListNotInUse
  <2> SUFFICES ASSUME StackInv, NEW t \in Threads, CanEnter(mcrit, t),
                      At(t, "add") \/ At(t, "remove")
               PROVE  processing_ = 0
    BY DEF ListNotInUse
  <2> DEFINE f == Top(t)
             r == Tail(stack[t])
             s == stack[t]
  <2>1. s # <<>> /\ f.at \in {"add", "remove"} /\ f = s[1]
    BY DEF At, Top
  <2>2. /\ f \in Frames /\ r \in Seq(Frames) /\ s = <<f>> \o r
        /\ Fits(t, f, r, message_queues_, open)
    BY <2>1, TopFacts
  <2>3. open \in SUBSET Calls
    BY DEF StackInv, open
  <2> HIDE DEF f, r, s
  <2>4. r = <<>>
    BY <2>1, <2>2, <2>3, AloneOnStack
  <2>5. DOMAIN s = {1}
    BY <2>2, <2>4
  <2>6. ManagerCalls(s) = {}
    BY <2>1, <2>5 DEF ManagerCalls, InManager
  <2>7. HeldBy(mcrit, t, {}) /\ LockOK(mcrit) /\ t # Nil
    BY <2>6, ManagerClearAssumption DEF StackInv, Counted, s
  <2>8. processing_ = mcrit.recursion_count_
    BY DEF StackInv, Counted
  <2> QED
    BY <2>7, <2>8, FS_EmptySet DEF HeldBy, LockOK, CanEnter
<1> QED
  BY <1>1, StacksAreSound, PTL

-----------------------------------------------------------------------------
(* Two threads never work on the contents of one queue.                    *)

\* A call that works on the contents of a queue has its crit_, or its thread
\* is destroying the queue.
LEMMA LoopKinds ==
  ASSUME StackInv, NEW t \in Threads, NEW j \in 1..Len(stack[t]),
         InQueue(stack[t][j])
  PROVE  LET f == stack[t][j]
         IN  /\ f \in Frames /\ f.q \in Queues
             /\ \/ /\ f.locked /\ f.q \in ToSet(message_queues_)
                \/ /\ f.locked /\ f.call \in open /\ f.call \in Calls
                   /\ Kind[f.call] = "clear" /\ About[f.call] = f.q
                \/ /\ ~f.locked /\ f.call \in open /\ f.call \in Calls
                   /\ By[f.call] = t /\ Kind[f.call] = "destroy"
                   /\ About[f.call] = f.q /\ f.q \notin ToSet(message_queues_)
<1> DEFINE f == stack[t][j]
           s == stack[t]
           mq == message_queues_
<1>1. s \in Seq(Frames) /\ open \in SUBSET Calls /\ mq \in Seq(Queues)
  BY DEF StackInv, open, Listing
<1>2. f \in Frames /\ IF j = Len(s) THEN OfCall(t, f, mq, open)
                      ELSE CalledBy(f, s[j + 1], mq)
  BY <1>1, ElementsIn DEF StackInv, Shape, open
<1>3. f.at \in LoopSteps /\ f.at \notin ManagerSteps
      /\ f.at \notin {"add", "remove", "enter queue"}
  BY DEF InQueue, LoopSteps, ManagerSteps
<1> HIDE DEF f, s, mq
<1>4. CASE j = Len(s)
  <2>1. OfCall(t, f, mq, open)
    BY <1>2, <1>4
  <2>2. /\ f.call \in Calls
        /\ Kind[f.call] \in {"clearall", "clear", "destroy", "add"}
        /\ About[f.call] \in Queues
    BY <1>1, <2>1, ManagerClearAssumption DEF OfCall
  <2> QED
    BY <1>2, <1>3, <2>1, <2>2 DEF OfCall, f, mq
<1>5. CASE j # Len(s)
  <2>1. CalledBy(f, s[j + 1], mq)
    BY <1>2, <1>5
  <2>2. /\ f.locked /\ s[j + 1].i - 1 \in DOMAIN mq
        /\ f.q = mq[s[j + 1].i - 1]
    BY <1>3, <2>1 DEF CalledBy
  <2>3. f.q \in ToSet(mq) /\ f.q \in Queues
    BY <1>1, <2>2, ElementsIn DEF ToSet
  <2> QED
    BY <1>2, <2>2, <2>3 DEF f, mq
<1> QED
  BY <1>4, <1>5

LEMMA Excluded ==
  ASSUME CallsOnce, StackInv, NEW t \in Threads, NEW u \in Threads, t # u,
         NEW i \in 1..Len(stack[t]), NEW j \in 1..Len(stack[u]),
         InQueue(stack[t][i]), InQueue(stack[u][j])
  PROVE  stack[t][i].q # stack[u][j].q
<1> DEFINE f == stack[t][i]
           g == stack[u][j]
<1> SUFFICES ASSUME f.q = g.q PROVE FALSE
  OBVIOUS
<1>1. /\ f \in Frames /\ f.q \in Queues
      /\ \/ /\ f.locked /\ f.q \in ToSet(message_queues_)
         \/ /\ f.locked /\ f.call \in open /\ f.call \in Calls
            /\ Kind[f.call] = "clear" /\ About[f.call] = f.q
         \/ /\ ~f.locked /\ f.call \in open /\ f.call \in Calls
            /\ By[f.call] = t /\ Kind[f.call] = "destroy"
            /\ About[f.call] = f.q /\ f.q \notin ToSet(message_queues_)
  BY LoopKinds
<1>2. /\ g \in Frames /\ g.q \in Queues
      /\ \/ /\ g.locked /\ g.q \in ToSet(message_queues_)
         \/ /\ g.locked /\ g.call \in open /\ g.call \in Calls
            /\ Kind[g.call] = "clear" /\ About[g.call] = g.q
         \/ /\ ~g.locked /\ g.call \in open /\ g.call \in Calls
            /\ By[g.call] = u /\ Kind[g.call] = "destroy"
            /\ About[g.call] = g.q /\ g.q \notin ToSet(message_queues_)
  BY LoopKinds
\* Both have the lock: it would have two owners.
<1>3. CASE f.locked /\ g.locked
  <2>1. ASSUME NEW v \in Threads, NEW k \in 1..Len(stack[v]),
               InQueue(stack[v][k]), stack[v][k].locked,
               stack[v][k].q = f.q
        PROVE  qcrit[f.q].owner = v
    <3> DEFINE A == QueueCalls(stack[v], f.q)
    <3>1. stack[v] \in Seq(Frames) /\ HeldBy(qcrit[f.q], v, A)
      BY <1>1 DEF StackInv, Counted
    <3>2. DOMAIN stack[v] = 1..Len(stack[v])
      BY <3>1
    <3>3. k \in A /\ A \in SUBSET (1..Len(stack[v]))
      BY <2>1, <3>2 DEF QueueCalls
    <3>4. IsFiniteSet(A)
      <4>1. IsFiniteSet(1..Len(stack[v]))
        BY <3>1, FS_Interval
      <4> HIDE DEF A
      <4> QED
        BY <3>3, <4>1, FS_Subset
    <3>5. Cardinality(A) # 0
      BY <3>3, <3>4, FS_EmptySet
    <3> QED
      BY <3>1, <3>5 DEF HeldBy
  <2>2. qcrit[f.q].owner = t
    BY <1>3, <2>1
  <2>3. qcrit[f.q].owner = u
    BY <1>3, <2>1
  <2> QED
    BY <2>2, <2>3
\* One of them is destroying the queue.
<1>4. open \in SUBSET begun /\ \A c \in open : c \notin returned
  BY DEF open
<1>5. \A c, d \in Calls : /\ Kind[d] = "destroy" /\ d \in begun
                          /\ Kind[c] \in {"add", "clear"} /\ About[c] = About[d]
                          => c \in returned
  BY DEF StackInv, Listing
<1> HIDE DEF f, g
<1>6. ~(~f.locked /\ ~g.locked)
  BY <1>1, <1>2 DEF CallsOnce
<1>7. ~(~f.locked /\ g.locked)
  BY <1>1, <1>2, <1>4, <1>5
<1>8. ~(f.locked /\ ~g.locked)
  BY <1>1, <1>2, <1>4, <1>5
<1> QED
  BY <1>3, <1>6, <1>7, <1>8

\* A call that has made another one is in ThreadManager::Clear or deletes a
\* payload.
LEMMA Callers ==
  ASSUME StackInv, NEW t \in Threads, NEW j \in 2..Len(stack[t])
  PROVE  stack[t][j].at \in {"queues", "erase", "timers"}
<1>1. stack[t] \in Seq(Frames)
  BY DEF StackInv
<1>2. j - 1 \in 1..Len(stack[t]) /\ j - 1 # Len(stack[t]) /\ (j - 1) + 1 = j
  BY <1>1
<1>3. CalledBy(stack[t][j - 1], stack[t][(j - 1) + 1], message_queues_)
  BY <1>2 DEF StackInv, Shape
<1> QED
  BY <1>2, <1>3 DEF CalledBy

-----------------------------------------------------------------------------
(* The stacks of the loops, from the top.                                  *)

LEMMA SeqOnTop ==
  ASSUME NEW S, NEW f \in S, NEW r \in Seq(S)
  PROVE  <<f>> \o r \in Seq(S)
OBVIOUS

LEMMA SeqSub ==
  ASSUME NEW S, NEW s \in Seq(S), NEW T, \A j \in 1..Len(s) : s[j] \in T
  PROVE  s \in Seq(T)
OBVIOUS

LEMMA ChainOnTop ==
  ASSUME NEW f \in Frames, NEW r \in Seq(Frames), NEW rank
  PROVE  Chain(<<f>> \o r, rank) <=> Above(f.h, r, rank) /\ Chain(r, rank)
<1> DEFINE s == <<f>> \o r
           Ok(h, g) == /\ g.at # "timers"
                       /\ g.at = "erase" =>
                            h \in Handlers /\ rank[h] < rank[HandlerOf[g.m]]
<1>1. /\ s \in Seq(Frames) /\ Len(s) = Len(r) + 1 /\ Len(r) \in Nat
      /\ s[1] = f /\ \A j \in 1..Len(r) : s[j + 1] = r[j]
  BY OnTop
<1>2. Above(f.h, r, rank) <=> \A k \in 1..Len(r) : Ok(f.h, r[k])
  BY DEF Above
<1>3. Chain(r, rank) <=>
        \A j \in 1..Len(r) : \A k \in 1..Len(r) : j < k => Ok(r[j].h, r[k])
  BY DEF Chain
<1>4. Chain(s, rank) <=>
        \A j \in 1..Len(s) : \A k \in 1..Len(s) : j < k => Ok(s[j].h, s[k])
  BY DEF Chain
<1> HIDE DEF s, Ok
<1>5. ASSUME \A j \in 1..Len(s) : \A k \in 1..Len(s) : j < k => Ok(s[j].h, s[k])
      PROVE  /\ \A k \in 1..Len(r) : Ok(f.h, r[k])
             /\ \A j \in 1..Len(r) : \A k \in 1..Len(r) :
                  j < k => Ok(r[j].h, r[k])
  <2>1. ASSUME NEW k \in 1..Len(r) PROVE Ok(f.h, r[k])
    <3>1. 1 \in 1..Len(s) /\ k + 1 \in 1..Len(s) /\ 1 < k + 1
      BY <1>1
    <3>2. Ok(s[1].h, s[k + 1])
      BY <1>5, <3>1
    <3> QED
      BY <1>1, <3>2
  <2>2. ASSUME NEW j \in 1..Len(r), NEW k \in 1..Len(r), j < k
        PROVE  Ok(r[j].h, r[k])
    <3>1. j + 1 \in 1..Len(s) /\ k + 1 \in 1..Len(s) /\ j + 1 < k + 1
      BY <1>1, <2>2
    <3>2. Ok(s[j + 1].h, s[k + 1])
      BY <1>5, <3>1
    <3> QED
      BY <1>1, <3>2
  <2> QED
    BY <2>1, <2>2
<1>6. ASSUME \A k \in 1..Len(r) : Ok(f.h, r[k]),
             \A j \in 1..Len(r) : \A k \in 1..Len(r) :
               j < k => Ok(r[j].h, r[k]),
             NEW j \in 1..Len(s), NEW k \in 1..Len(s), j < k
      PROVE  Ok(s[j].h, s[k])
  <2>1. k - 1 \in 1..Len(r) /\ (k - 1) + 1 = k
    BY <1>1, <1>6
  <2>2. s[k] = r[k - 1]
    BY <1>1, <2>1
  <2>3. CASE j = 1
    BY <1>1, <1>6, <2>1, <2>2, <2>3
  <2>4. CASE j # 1
    <3>1. j - 1 \in 1..Len(r) /\ (j - 1) + 1 = j /\ j - 1 < k - 1
      BY <1>1, <1>6, <2>1, <2>4
    <3>2. s[j] = r[j - 1]
      BY <1>1, <3>1
    <3>3. Ok(r[j - 1].h, r[k - 1])
      BY <1>6, <2>1, <3>1
    <3> QED
      BY <2>2, <3>2, <3>3
  <2> QED
    BY <2>3, <2>4
<1> QED
  BY <1>2, <1>3, <1>4, <1>5, <1>6 DEF s

LEMMA AboveOnTop ==
  ASSUME NEW f \in Frames, NEW r \in Seq(Frames), NEW rank, NEW h
  PROVE  Above(h, <<f>> \o r, rank) <=>
           /\ Above(h, r, rank)
           /\ f.at # "timers"
           /\ f.at = "erase" =>
                h \in Handlers /\ rank[h] < rank[HandlerOf[f.m]]
<1> DEFINE s == <<f>> \o r
           Ok(g) == /\ g.at # "timers"
                    /\ g.at = "erase" =>
                         h \in Handlers /\ rank[h] < rank[HandlerOf[g.m]]
<1>1. /\ s \in Seq(Frames) /\ Len(s) = Len(r) + 1 /\ Len(r) \in Nat
      /\ s[1] = f /\ \A j \in 1..Len(r) : s[j + 1] = r[j]
  BY OnTop
<1>2. Above(h, r, rank) <=> \A k \in 1..Len(r) : Ok(r[k])
  BY DEF Above
<1>3. Above(h, s, rank) <=> \A k \in 1..Len(s) : Ok(s[k])
  BY DEF Above
<1> HIDE DEF s
<1>4. \A k \in 1..Len(r) : k + 1 \in 1..Len(s)
  BY <1>1
<1>5. \A k \in 1..Len(s) : k = 1 \/ (k - 1 \in 1..Len(r) /\ (k - 1) + 1 = k)
  BY <1>1
<1>6. 1 \in 1..Len(s)
  BY <1>1
<1>7. (\A k \in 1..Len(s) : Ok(s[k])) <=> Ok(f) /\ \A k \in 1..Len(r) : Ok(r[k])
  <2> HIDE DEF Ok
  <2>1. ASSUME \A k \in 1..Len(s) : Ok(s[k])
        PROVE  Ok(f) /\ \A k \in 1..Len(r) : Ok(r[k])
    BY <1>1, <1>4, <1>6, <2>1
  <2>2. ASSUME Ok(f), \A k \in 1..Len(r) : Ok(r[k]), NEW k \in 1..Len(s)
        PROVE  Ok(s[k])
    <3>1. CASE k = 1
      BY <1>1, <2>2, <3>1
    <3>2. CASE k # 1
      <4>1. k - 1 \in 1..Len(r) /\ s[(k - 1) + 1] = r[k - 1] /\ (k - 1) + 1 = k
        BY <1>1, <1>5, <3>2
      <4> QED
        BY <2>2, <4>1
    <3> QED
      BY <3>1, <3>2
  <2> QED
    BY <2>1, <2>2
<1> QED
  BY <1>2, <1>3, <1>7 DEF s

LEMMA ErasedOnTop ==
  ASSUME NEW f \in Frames, NEW r \in Seq(Frames), NEW m
  PROVE  m \in ErasedBy(<<f>> \o r) <=>
           m \in ErasedBy(r) \/ (f.at = "erase" /\ f.m = m)
<1> DEFINE s == <<f>> \o r
<1>1. /\ s \in Seq(Frames) /\ Len(s) = Len(r) + 1 /\ Len(r) \in Nat
      /\ s[1] = f /\ \A j \in 1..Len(r) : s[j + 1] = r[j]
  BY OnTop
<1> HIDE DEF s
<1>2. ASSUME m \in ErasedBy(s)
      PROVE  m \in ErasedBy(r) \/ (f.at = "erase" /\ f.m = m)
  <2>1. PICK j \in 1..Len(s) : s[j].at = "erase" /\ s[j].m = m
    BY <1>2 DEF ErasedBy
  <2>2. CASE j = 1
    BY <1>1, <2>1, <2>2
  <2>3. CASE j # 1
    <3>1. j - 1 \in 1..Len(r) /\ (j - 1) + 1 = j
      BY <1>1, <2>3
    <3>2. s[j] = r[j - 1]
      BY <1>1, <3>1
    <3> QED
      BY <2>1, <3>1, <3>2 DEF ErasedBy
  <2> QED
    BY <2>2, <2>3
<1>3. ASSUME m \in ErasedBy(r) PROVE m \in ErasedBy(s)
  <2>1. PICK j \in 1..Len(r) : r[j].at = "erase" /\ r[j].m = m
    BY <1>3 DEF ErasedBy
  <2>2. j + 1 \in 1..Len(s) /\ s[j + 1] = r[j]
    BY <1>1
  <2> QED
    BY <2>1, <2>2 DEF ErasedBy
<1>4. ASSUME f.at = "erase", f.m = m PROVE m \in ErasedBy(s)
  <2>1. 1 \in 1..Len(s) /\ s[1] = f
    BY <1>1
  <2> QED
    BY <1>4, <2>1 DEF ErasedBy
<1> QED
  BY <1>2, <1>3, <1>4 DEF s

-----------------------------------------------------------------------------
(* Steps that leave the contents alone keep the invariant of the loops.    *)

LEMMA LoopTop ==
  ASSUME NEW rank, StackInv, LoopInv(rank), NEW t \in Threads, stack[t] # <<>>
  PROVE  LET f == Top(t)
             r == Tail(stack[t])
             Ok == OkFrames(messages_, timers)
         IN  /\ f \in Frames /\ r \in Seq(Frames) /\ stack[t] = <<f>> \o r
             /\ f \in Ok /\ r \in Seq(Ok)
             /\ Above(f.h, r, rank) /\ Chain(r, rank)
<1> DEFINE f == Top(t)
           r == Tail(stack[t])
           Ok == OkFrames(messages_, timers)
<1>1. stack[t] \in Seq(Ok) /\ Chain(stack[t], rank)
  BY DEF LoopInv
<1>2. f \in Frames /\ r \in Seq(Frames) /\ stack[t] = <<f>> \o r
  BY TopFacts
<1>3. f \in Ok /\ r \in Seq(Ok)
  BY <1>1, TopAndRest DEF Top
<1> HIDE DEF f, r
<1>4. Above(f.h, r, rank) /\ Chain(r, rank)
  BY <1>1, <1>2, ChainOnTop
<1> QED
  BY <1>2, <1>3, <1>4 DEF f, r

LEMMA QuietLoops ==
  ASSUME NEW rank, StackInv, LoopInv(rank), NEW t \in Threads,
         stack[t] # <<>> => Top(t).at # "timers",
         NEW X \in Seq(OkFrames(messages_, timers)), Chain(X, rank),
         stack' = [stack EXCEPT ![t] = X],
         UNCHANGED <<contents, deleted>>,
         \A m : m \in ErasedBy(stack[t]) => m \in ErasedBy(X)
  PROVE  LoopInv(rank)'
<1>1. stack \in [Threads -> Seq(Frames)]
  BY DEF StackInv
<1>2. stack'[t] = X /\ \A u \in Threads : u # t => stack'[u] = stack[u]
  BY <1>1
<1>3. UNCHANGED <<messages_, timers, deleted>>
  BY DEF contents
<1>4. \A m : BeingErased(m) => BeingErased(m)'
  <2> SUFFICES ASSUME NEW m, NEW u \in Threads, m \in ErasedBy(stack[u])
               PROVE  m \in ErasedBy(stack'[u])
    BY DEF BeingErased
  <2> QED
    BY <1>2
<1>5. ASSUME NEW q \in Queues PROVE Live(q)' \subseteq Live(q)
  <2>1. \A k : Spared(stack[t], q, k)
    BY DEF Spared, Top
  <2> SUFFICES ASSUME NEW k \in DOMAIN timers[q],
                      \A u \in Threads : Spared(stack'[u], q, k),
                      NEW u \in Threads
               PROVE  Spared(stack[u], q, k)
    BY <1>3 DEF Live
  <2> QED
    BY <1>2, <2>1
<1>6. Places'
  <2> SUFFICES ASSUME NEW q \in Queues
               PROVE  /\ ToSet(messages_[q]) \subseteq ToSet(Ready[q])
                      /\ ToSet(timers[q]) \subseteq ToSet(Timers[q])
                      /\ IsInjective(messages_[q])
                      /\ \A m \in ToSet(messages_[q]) :
                           deleted[m] = 0 \/ BeingErased(m)'
                      /\ \A i, j \in Live(q)' :
                           timers[q][i] = timers[q][j] => i = j
                      /\ \A i \in Live(q)' : deleted[timers[q][i]] = 0
    BY <1>3 DEF Places
  <2> QED
    BY <1>4, <1>5 DEF LoopInv, Places
<1>7. DeletedOnce'
  BY <1>3 DEF LoopInv, DeletedOnce
<1>8. \A u \in Threads : /\ stack'[u] \in Seq(OkFrames(messages_, timers))
                         /\ Chain(stack'[u], rank)
  BY <1>2 DEF LoopInv
<1> QED
  BY <1>3, <1>6, <1>7, <1>8 DEF LoopInv

\* The topmost call goes on, with the same handler if another one made it,
\* makes a call, or returns.
LEMMA QuietTop ==
  ASSUME NEW rank, StackInv, LoopInv(rank), NEW t \in Threads, stack[t] # <<>>,
         Top(t).at \notin {"erase", "timers"},
         UNCHANGED <<contents, deleted>>,
         \/ Pops(t)
         \/ \E g \in OkFrames(messages_, timers) :
              /\ g.h = Top(t).h \/ Tail(stack[t]) = <<>>
              /\ \/ GoesOn(t, g)
                 \/ /\ g.at = "queues"
                    /\ \E e \in OkFrames(messages_, timers) :
                         e.h = g.h /\ CallsIn(t, g, e)
  PROVE  LoopInv(rank)'
<1> DEFINE f == Top(t)
           r == Tail(stack[t])
           Ok == OkFrames(messages_, timers)
<1>1. /\ f \in Frames /\ r \in Seq(Frames) /\ stack[t] = <<f>> \o r
      /\ f \in Ok /\ r \in Seq(Ok)
      /\ Above(f.h, r, rank) /\ Chain(r, rank)
  BY LoopTop
<1>2. Ok \in SUBSET Frames /\ f.at \notin {"erase", "timers"}
  BY DEF OkFrames
<1> HIDE DEF f, r, Ok
<1>3. \A m : m \in ErasedBy(stack[t]) => m \in ErasedBy(r)
  BY <1>1, <1>2, ErasedOnTop
<1>4. ASSUME NEW X \in Seq(Ok), Chain(X, rank),
             stack' = [stack EXCEPT ![t] = X],
             \A m : m \in ErasedBy(r) => m \in ErasedBy(X)
      PROVE  LoopInv(rank)'
  BY <1>2, <1>3, <1>4, QuietLoops DEF f, Ok
<1>5. CASE Pops(t)
  <2>1. stack' = [stack EXCEPT ![t] = r]
    BY <1>5 DEF Pops, r
  <2> QED
    BY <1>1, <1>4, <2>1
<1>6. ASSUME NEW g \in Ok, g.h = f.h \/ r = <<>>
      PROVE  LET X == <<g>> \o r
             IN  /\ X \in Seq(Ok) /\ X \in Seq(Frames)
                 /\ Above(g.h, r, rank) /\ Chain(X, rank)
                 /\ \A m : m \in ErasedBy(r) => m \in ErasedBy(X)
  <2>1. g \in Frames
    BY <1>2
  <2>2. Above(g.h, r, rank)
    <3>1. CASE r = <<>>
      BY <3>1 DEF Above
    <3>2. CASE r # <<>>
      BY <1>1, <1>6, <3>2
    <3> QED
      BY <3>1, <3>2
  <2> QED
    BY <1>1, <2>1, <2>2, SeqOnTop, ChainOnTop, ErasedOnTop
<1>7. ASSUME NEW g \in Ok, g.h = f.h \/ r = <<>>, GoesOn(t, g)
      PROVE  LoopInv(rank)'
  <2> DEFINE X == <<g>> \o r
  <2>1. /\ X \in Seq(Ok) /\ Chain(X, rank)
        /\ \A m : m \in ErasedBy(r) => m \in ErasedBy(X)
    BY <1>6, <1>7
  <2>2. stack' = [stack EXCEPT ![t] = X]
    BY <1>7 DEF GoesOn, r
  <2> HIDE DEF X
  <2> QED
    BY <1>4, <2>1, <2>2
<1>8. ASSUME NEW g \in Ok, g.h = f.h \/ r = <<>>, g.at = "queues",
             NEW e \in Ok, e.h = g.h, CallsIn(t, g, e)
      PROVE  LoopInv(rank)'
  <2> DEFINE X == <<g>> \o r
             Y == <<e>> \o X
  <2>1. /\ X \in Seq(Ok) /\ X \in Seq(Frames) /\ Chain(X, rank)
        /\ Above(g.h, r, rank)
        /\ \A m : m \in ErasedBy(r) => m \in ErasedBy(X)
    BY <1>6, <1>8
  <2>2. g \in Frames /\ e \in Frames
    BY <1>2
  <2>3. Above(e.h, X, rank)
    BY <1>1, <1>8, <2>1, <2>2, AboveOnTop
  <2>4. <<e, g>> \o r = Y
    BY <1>1, <2>2, ConcatTwo
  <2> HIDE DEF X
  <2>5. /\ Y \in Seq(Ok) /\ Chain(Y, rank)
        /\ \A m : m \in ErasedBy(X) => m \in ErasedBy(Y)
    BY <2>1, <2>2, <2>3, SeqOnTop, ChainOnTop, ErasedOnTop
  <2> HIDE DEF Y
  <2>6. stack' = [stack EXCEPT ![t] = Y]
    BY <1>8, <2>4 DEF CallsIn, r
  <2> QED
    BY <1>4, <2>1, <2>5, <2>6
<1> QED
  BY <1>5, <1>7, <1>8 DEF f, r, Ok

\* A call at its beginning has no iterator to lose.
LEMMA NewCallOk ==
  ASSUME NEW c \in Calls \cup {Nil}, NEW h \in Handlers \cup {Nil},
         NEW q \in Queues \cup {Nil}, NEW ms, NEW ts,
         NEW at \in Steps, at \notin {"list", "erase", "timers"}
  PROVE  NewCall(at, c, h, q) \in OkFrames(ms, ts)
<1> DEFINE g == NewCall(at, c, h, q)
<1>1. g \in Frames
  BY NewCallType
<1>2. g.at = at /\ g.i = 1 /\ g.n = 1
  BY DEF NewCall
<1> HIDE DEF g
<1>3. LoopOK(g, ms, ts)
  BY <1>2 DEF LoopOK
<1> QED
  BY <1>1, <1>3 DEF OkFrames, g

LEMMA QuietSteps ==
  ASSUME NEW rank, StackInv, LoopInv(rank), NEW t \in Threads,
         \/ AddInternal(t) \/ RemoveInternal(t) \/ EnterManager(t)
         \/ NextQueue(t) \/ ClearAllEnd(t) \/ EnterQueue(t)
         \/ ClearList(t) \/ ListSkip(t) \/ ListEnd(t)
  PROVE  LoopInv(rank)'
<1> DEFINE f == Top(t)
           r == Tail(stack[t])
           Ok == OkFrames(messages_, timers)
           s == messages_[f.q]
           z == timers[f.q]
<1>1. /\ stack[t] # <<>> /\ f.at \notin {"erase", "timers"}
      /\ UNCHANGED <<contents, deleted>>
  BY DEF AddInternal, RemoveInternal, EnterManager, NextQueue, ClearAllEnd,
     EnterQueue, ClearList, ListSkip, ListEnd, At
<1>2. /\ f \in Frames /\ f \in Ok /\ r \in Seq(Frames)
      /\ Fits(t, f, r, message_queues_, open)
      /\ f.at \in LoopSteps => f.q \in Queues
  BY <1>1, LoopTop, TopFacts
<1>3. /\ messages_ \in [Queues -> Seq(Messages)]
      /\ timers \in [Queues -> Seq(Messages)]
      /\ open \in SUBSET Calls /\ message_queues_ \in Seq(Queues)
  BY DEF StackInv, open, Listing
<1>4. LoopOK(f, messages_, timers)
  BY <1>2 DEF OkFrames
<1>5. /\ f.at \in Steps /\ f.call \in Calls \cup {Nil}
      /\ f.h \in Handlers \cup {Nil} /\ f.q \in Queues \cup {Nil}
      /\ f.m \in Messages \cup {Nil} /\ f.i \in Nat \ {0}
  BY <1>2, FrameFields
<1>6. /\ {"queues", "clear", "list", "timers"} \subseteq Steps
      /\ "list" \in LoopSteps /\ "clear" \in LoopSteps
      /\ "queues" \in ManagerSteps /\ "enter queue" \in Steps
  BY DEF Steps, LoopSteps, ManagerSteps
<1> HIDE DEF f, r, Ok
<1>7. ASSUME NEW g \in Frames, LoopOK(g, messages_, timers),
             g.h = f.h \/ r = <<>>, GoesOn(t, g)
      PROVE  LoopInv(rank)'
  <2>1. g \in OkFrames(messages_, timers)
    BY <1>7 DEF OkFrames
  <2> QED
    BY <1>1, <1>7, <2>1, QuietTop DEF f, r
<1>8. CASE Pops(t)
  BY <1>1, <1>8, QuietTop DEF f
<1>9. CASE RemoveInternal(t)
  <2> DEFINE g == [f EXCEPT !.at = "clear", !.h = Nil, !.locked = FALSE]
  <2>1. GoesOn(t, g) /\ f.at = "remove"
    BY <1>9 DEF RemoveInternal, At, f
  <2>2. g \in Frames /\ g.at = "clear" /\ g.i = f.i /\ g.n = f.n
    BY <1>2, FrameRemoves
  <2> HIDE DEF g
  <2>3. r = <<>>
    BY <1>2, <1>3, <2>1, AloneOnStack
  <2>4. LoopOK(g, messages_, timers)
    BY <1>4, <2>1, <2>2 DEF LoopOK
  <2> QED
    BY <1>7, <2>1, <2>2, <2>3, <2>4
<1>10. CASE EnterManager(t)
  <2> DEFINE g == [f EXCEPT !.at = "queues"]
  <2>1. GoesOn(t, g)
    BY <1>10 DEF EnterManager, f
  <2>2. g \in Frames /\ g.at = "queues" /\ g.h = f.h
    BY <1>2, <1>6, FrameSteps
  <2> HIDE DEF g
  <2>3. LoopOK(g, messages_, timers)
    BY <2>2 DEF LoopOK
  <2> QED
    BY <1>7, <2>1, <2>2, <2>3
<1>11. CASE NextQueue(t)
  <2> DEFINE g == [f EXCEPT !.i = @ + 1]
             e == NewCall("enter queue", Nil, f.h, message_queues_[f.i])
  <2>1. CallsIn(t, g, e) /\ f.at = "queues" /\ f.i <= Len(message_queues_)
    BY <1>11 DEF NextQueue, At, f
  <2>2. g \in Frames /\ g.at = "queues" /\ g.h = f.h
    BY <1>2, <2>1, FrameAdvances
  <2>3. message_queues_[f.i] \in Queues
    <3>1. f.i \in 1..Len(message_queues_)
      <4>1. f.i \in Nat \ {0} /\ f.i <= Len(message_queues_)
        BY <1>5, <2>1
      <4>2. Len(message_queues_) \in Nat
        BY <1>3
      <4> QED
        BY <4>1, <4>2
    <3> QED
      BY <1>3, <3>1, ElementsIn
  <2>4. e \in OkFrames(messages_, timers)
    <3>1. \A at \in Steps : at \notin {"list", "erase", "timers"} =>
            NewCall(at, Nil, f.h, message_queues_[f.i]) \in
              OkFrames(messages_, timers)
      BY <1>5, <2>3, NewCallOk
    <3> QED
      BY <1>6, <3>1
  <2>5. e.h = f.h
    BY DEF NewCall
  <2> HIDE DEF e, g
  <2>6. g \in OkFrames(messages_, timers)
    BY <2>2 DEF LoopOK, OkFrames
  <2> QED
    BY <1>1, <2>1, <2>2, <2>4, <2>5, <2>6, QuietTop DEF f
<1>12. CASE EnterQueue(t)
  <2> DEFINE g == [f EXCEPT !.at = "clear"]
  <2>1. GoesOn(t, g) /\ f.at = "enter queue"
    BY <1>12 DEF EnterQueue, At, f
  <2>2. /\ g \in Frames /\ g.at = "clear" /\ g.h = f.h
        /\ g.i = f.i /\ g.n = f.n
    BY <1>2, <1>6, FrameSteps
  <2> HIDE DEF g
  <2>3. LoopOK(g, messages_, timers)
    BY <1>4, <2>1, <2>2 DEF LoopOK
  <2> QED
    BY <1>7, <2>1, <2>2, <2>3
\* The steps of the loops.
<1>13. ASSUME f.at \in LoopSteps
       PROVE  s \in Seq(Messages) /\ z \in Seq(Messages)
  BY <1>2, <1>3, <1>13
<1>14. ASSUME NEW x \in Messages \cup {Nil}
       PROVE  LET g == [f EXCEPT !.at = "list", !.m = x]
              IN  /\ g \in Frames /\ g.at = "list" /\ g.m = x
                  /\ g.h = f.h /\ g.q = f.q /\ g.i = f.i /\ g.n = f.n
  BY <1>2, <1>6 DEF Frames, Records
<1>15. CASE ClearList(t)
  <2>1. f.at = "clear" /\ GoesOn(t, [f EXCEPT !.at = "list", !.m = First(s)])
    BY <1>15 DEF ClearList, At, f
  <2>2. s \in Seq(Messages)
    BY <1>6, <1>13, <2>1
  <2>3. PICK x \in Messages \cup {Nil} : x = First(s)
    BY <2>2 DEF First
  <2> DEFINE g == [f EXCEPT !.at = "list", !.m = x]
  <2>4. /\ g \in Frames /\ g.at = "list" /\ g.m = x
        /\ g.h = f.h /\ g.q = f.q /\ g.i = f.i /\ g.n = f.n
    BY <1>14
  <2> HIDE DEF g
  <2>5. LoopOK(g, messages_, timers)
    <3>1. f.i = 1 /\ f.n = 1
      BY <1>4, <2>1 DEF LoopOK
    <3>2. CASE s = <<>>
      <4>1. x = Nil /\ KeptBefore(s, Len(s) + 1, f.h)
        BY <2>3, <3>2 DEF First, KeptBefore
      <4> QED
        BY <2>4, <3>1, <4>1 DEF LoopOK
    <3>3. CASE s # <<>>
      <4>1. 1 \in 1..Len(s) /\ x = s[1] /\ KeptBefore(s, 1, f.h)
        BY <2>2, <2>3, <3>3 DEF First, KeptBefore
      <4>2. x \in Messages /\ Reaches(s, x, f.h)
        BY <2>2, <4>1 DEF Reaches
      <4> QED
        BY <2>4, <3>1, <4>2 DEF LoopOK
    <3> QED
      BY <3>2, <3>3
  <2> QED
    BY <1>7, <2>1, <2>3, <2>4, <2>5 DEF g
<1>16. CASE ListSkip(t)
  <2>1. PICK k \in DOMAIN s : /\ f.at = "list" /\ s[k] = f.m
                              /\ ~Match(f.m, f.h)
                              /\ GoesOn(t, [f EXCEPT !.m = After(s, k)])
    BY <1>16 DEF ListSkip, At, f
  <2>2. s \in Seq(Messages) /\ DOMAIN s = 1..Len(s) /\ Len(s) \in Nat
    <3>1. s \in Seq(Messages)
      BY <1>6, <1>13, <2>1
    <3> QED
      BY <3>1, ElementsIn
  <2>3. PICK x \in Messages \cup {Nil} : x = After(s, k)
    BY <2>2, ElementsIn DEF After
  <2> DEFINE g == [f EXCEPT !.at = "list", !.m = x]
  <2>4. /\ g \in Frames /\ g.at = "list" /\ g.m = x
        /\ g.h = f.h /\ g.q = f.q /\ g.i = f.i /\ g.n = f.n
    BY <1>14
  <2>5. g = [f EXCEPT !.m = After(s, k)]
    BY <1>2, <2>1, <2>3 DEF Frames, Records
  <2> HIDE DEF g
  <2>6. LoopOK(g, messages_, timers)
    <3>1. f.i = 1 /\ f.n = 1
      BY <1>4, <2>1 DEF LoopOK
    <3>2. f.m \in Messages /\ f.m # Nil
      BY <2>1, <2>2, ElementsIn, ManagerClearAssumption
    <3>3. Reaches(s, f.m, f.h)
      BY <1>4, <2>1, <3>2 DEF LoopOK
    <3>4. KeptBefore(s, k + 1, f.h)
      <4>1. PICK j \in 1..Len(s) : s[j] = f.m /\ KeptBefore(s, j, f.h)
        BY <3>3 DEF Reaches
      <4>2. IsInjective(s)
        BY <1>2, <1>6, <2>1 DEF LoopInv, Places
      <4>3. j = k
        BY <2>1, <2>2, <4>1, <4>2 DEF IsInjective
      <4>4. \A l \in 1..((k + 1) - 1) : l \in 1..(k - 1) \/ l = k
        BY <2>1, <2>2
      <4> QED
        BY <2>1, <4>1, <4>3, <4>4 DEF KeptBefore
    <3>5. CASE k = Len(s)
      <4>1. x = Nil /\ KeptBefore(s, Len(s) + 1, f.h)
        BY <2>3, <3>4, <3>5 DEF After
      <4> QED
        BY <2>4, <3>1, <4>1 DEF LoopOK
    <3>6. CASE k # Len(s)
      <4>1. k + 1 \in 1..Len(s) /\ x = s[k + 1]
        BY <2>1, <2>2, <2>3, <3>6 DEF After
      <4>2. x \in Messages
        BY <2>2, <4>1, ElementsIn
      <4>3. Reaches(s, x, f.h)
        BY <3>4, <4>1 DEF Reaches
      <4> QED
        BY <2>4, <3>1, <4>2, <4>3 DEF LoopOK
    <3> QED
      BY <3>5, <3>6
  <2> QED
    BY <1>7, <2>1, <2>4, <2>5, <2>6
<1>17. CASE ListEnd(t)
  <2> DEFINE g == [f EXCEPT !.at = "timers"]
  <2>1. GoesOn(t, g) /\ f.at = "list" /\ f.m = Nil
    BY <1>17 DEF ListEnd, At, f
  <2>2. /\ g \in Frames /\ g.at = "timers" /\ g.h = f.h /\ g.q = f.q
        /\ g.i = f.i /\ g.n = f.n
    BY <1>2, <1>6, FrameSteps
  <2> HIDE DEF g
  <2>3. LoopOK(g, messages_, timers)
    <3>1. f.i = 1 /\ f.n = 1 /\ KeptBefore(s, Len(s) + 1, f.h)
      BY <1>4, <2>1, ManagerClearAssumption DEF LoopOK
    <3>2. z \in Seq(Messages)
      BY <1>6, <1>13, <2>1
    <3>3. 1 <= Len(z) + 1 /\ KeptBefore(z, 1, f.h)
      BY <3>2 DEF KeptBefore
    <3> QED
      BY <2>2, <3>1, <3>3 DEF LoopOK
  <2> QED
    BY <1>7, <2>1, <2>2, <2>3
<1>18. CASE AddInternal(t) \/ ClearAllEnd(t)
  BY <1>8, <1>18 DEF AddInternal, ClearAllEnd
<1> QED
  BY <1>9, <1>10, <1>11, <1>12, <1>15, <1>16, <1>17, <1>18

LEMMA QuietBegin ==
  ASSUME NEW rank, StackInv, LoopInv(rank), NEW t \in Threads, NEW c \in Calls,
         CallBegin(t, c)
  PROVE  LoopInv(rank)'
<1>1. \E at \in {"enter manager", "enter queue", "remove", "add"} :
        Begin(t, c) /\ Starts(t, c, at)
  BY DEF CallBegin, ClearAllBegin, ClearBegin, DestroyBegin, AddBegin
<1>2. PICK at \in Steps : /\ Begin(t, c) /\ Starts(t, c, at)
                          /\ at \notin {"list", "erase", "timers"}
  BY <1>1 DEF Steps, ManagerSteps
<1> DEFINE g == NewCall(at, c, For[c], About[c])
           X == <<g>> \o <<>>
<1>3. g \in OkFrames(messages_, timers)
  <2>1. For[c] \in Handlers \cup {Nil} /\ About[c] \in Queues \cup {Nil}
    BY ManagerClearAssumption
  <2> QED
    BY <1>2, <2>1, NewCallOk
<1>4. g \in Frames
  BY <1>3 DEF OkFrames
<1>5. stack' = [stack EXCEPT ![t] = <<g>>]
  BY <1>2 DEF Starts
<1> HIDE DEF g
<1>6. X = <<g>> /\ <<>> \in Seq(Frames)
      /\ <<>> \in Seq(OkFrames(messages_, timers))
  BY <1>4
<1>7. Above(g.h, <<>>, rank) /\ Chain(<<>>, rank)
  BY DEF Above, Chain
<1>8. X \in Seq(OkFrames(messages_, timers)) /\ Chain(X, rank)
  BY <1>3, <1>4, <1>6, <1>7, SeqOnTop, ChainOnTop
<1>9. stack[t] = <<>> /\ UNCHANGED <<contents, deleted>>
  BY <1>2 DEF Begin
<1>10. \A m : m \notin ErasedBy(stack[t])
  BY <1>9 DEF ErasedBy
<1> QED
  BY <1>5, <1>6, <1>8, <1>9, <1>10, QuietLoops

-----------------------------------------------------------------------------
(* Steps of the loops that delete, erase or move.                          *)

LEMMA OneQueue ==
  ASSUME PayloadsOnce, NEW p \in Queues, NEW q \in Queues, NEW m
  PROVE  /\ m \in ToSet(Ready[p]) /\ m \in ToSet(Ready[q]) => p = q
         /\ m \in ToSet(Timers[p]) /\ m \in ToSet(Timers[q]) => p = q
         /\ ~(m \in ToSet(Ready[p]) /\ m \in ToSet(Timers[q]))
<1>1. ASSUME m \in ToSet(Ready[p]), m \in ToSet(Ready[q]) PROVE p = q
  BY <1>1 DEF PayloadsOnce, ToSet
<1>2. ASSUME m \in ToSet(Timers[p]), m \in ToSet(Timers[q]) PROVE p = q
  BY <1>2 DEF PayloadsOnce, ToSet
<1>3. ~(m \in ToSet(Ready[p]) /\ m \in ToSet(Timers[q]))
  BY DEF PayloadsOnce
<1> QED
  BY <1>1, <1>2, <1>3

\* While t works on the contents of a queue, the loops of the other threads do
\* not look at them.
LEMMA OthersUndisturbed ==
  ASSUME NEW rank, CallsOnce, StackInv, LoopInv(rank), NEW t \in Threads,
         stack[t] # <<>>, Top(t).at \in LoopSteps, NEW ms, NEW ts,
         \A p \in Queues : p # Top(t).q => /\ ms[p] = messages_[p]
                                           /\ ts[p] = timers[p],
         NEW u \in Threads, u # t
  PROVE  /\ stack[u] \in Seq(OkFrames(ms, ts))
         /\ \A k : Spared(stack[u], Top(t).q, k)
<1>1. /\ stack[t] \in Seq(Frames) /\ stack[u] \in Seq(Frames)
      /\ stack[u] \in Seq(OkFrames(messages_, timers))
  BY DEF StackInv, LoopInv
<1>2. 1 \in 1..Len(stack[t]) /\ InQueue(stack[t][1])
  BY <1>1 DEF Top, InQueue, LoopSteps
<1>3. ASSUME NEW j \in 1..Len(stack[u]), InQueue(stack[u][j])
      PROVE  stack[u][j].q \in Queues /\ stack[u][j].q # Top(t).q
  <2>1. stack[u][j].q \in Queues
    BY <1>3, LoopKinds
  <2>2. stack[t][1].q # stack[u][j].q
    BY <1>2, <1>3, Excluded
  <2> QED
    BY <2>1, <2>2 DEF Top
<1>4. ASSUME NEW j \in 1..Len(stack[u])
      PROVE  stack[u][j] \in OkFrames(ms, ts)
  <2> DEFINE g == stack[u][j]
  <2>1. g \in Frames /\ LoopOK(g, messages_, timers)
    BY <1>1, ElementsIn DEF OkFrames
  <2>2. InQueue(g) => g.q \in Queues /\ g.q # Top(t).q
    BY <1>3
  <2> HIDE DEF g
  <2>3. CASE InQueue(g)
    <3>1. ms[g.q] = messages_[g.q] /\ ts[g.q] = timers[g.q]
      BY <2>2, <2>3
    <3>2. LoopOK(g, ms, ts)
      BY <2>1, <3>1 DEF LoopOK
    <3> QED
      BY <2>1, <3>2 DEF OkFrames, g
  <2>4. CASE ~InQueue(g)
    <3>1. LoopOK(g, ms, ts)
      BY <2>1, <2>4 DEF LoopOK, InQueue
    <3> QED
      BY <2>1, <3>1 DEF OkFrames, g
  <2> QED
    BY <2>3, <2>4
<1>5. \A k : Spared(stack[u], Top(t).q, k)
  <2> SUFFICES ASSUME stack[u] # <<>>, stack[u][1].at = "timers"
               PROVE  stack[u][1].q # Top(t).q
    BY DEF Spared
  <2>1. 1 \in 1..Len(stack[u])
    BY <1>1
  <2>2. InQueue(stack[u][1])
    BY DEF InQueue
  <2> QED
    BY <1>3, <2>1, <2>2
<1> QED
  BY <1>1, <1>4, <1>5, SeqSub

\* The calls below the topmost one: they wait in ThreadManager::Clear or delete
\* a payload.
LEMMA CallersBelow ==
  ASSUME NEW rank, StackInv, LoopInv(rank), NEW t \in Threads, stack[t] # <<>>,
         NEW j \in 1..Len(Tail(stack[t]))
  PROVE  LET g == Tail(stack[t])[j]
         IN  /\ g \in Frames /\ g.at \in {"queues", "erase"}
             /\ LoopOK(g, messages_, timers)
             /\ j + 1 \in 1..Len(stack[t]) /\ stack[t][j + 1] = g
             /\ g.at = "erase" =>
                  /\ g.q \in Queues /\ Top(t).h \in Handlers
                  /\ rank[Top(t).h] < rank[HandlerOf[g.m]]
<1> DEFINE f == Top(t)
           r == Tail(stack[t])
           g == r[j]
<1>1. /\ f \in Frames /\ r \in Seq(Frames) /\ stack[t] = <<f>> \o r
      /\ r \in Seq(OkFrames(messages_, timers))
      /\ Above(f.h, r, rank)
  BY LoopTop
<1>2. g \in Frames /\ LoopOK(g, messages_, timers)
  BY <1>1, ElementsIn DEF OkFrames
<1>3. /\ g.at # "timers"
      /\ g.at = "erase" => f.h \in Handlers /\ rank[f.h] < rank[HandlerOf[g.m]]
  BY <1>1 DEF Above
<1> HIDE DEF f, r
<1>4. j + 1 \in 2..Len(stack[t]) /\ stack[t][j + 1] = r[j]
  <2> DEFINE X == <<f>> \o r
  <2>1. Len(X) = Len(r) + 1 /\ Len(r) \in Nat /\ X[j + 1] = r[j]
    BY <1>1, OnTop DEF r
  <2> HIDE DEF X
  <2>2. j \in 1..Len(r)
    BY DEF r
  <2>3. j + 1 \in 2..Len(X)
    BY <2>1, <2>2
  <2> QED
    BY <1>1, <2>1, <2>3 DEF X
<1>5. g.at \in {"queues", "erase"}
  <2>1. stack[t][j + 1].at \in {"queues", "erase", "timers"}
    BY <1>4, Callers
  <2> QED
    BY <1>3, <1>4, <2>1
<1>6. g.at = "erase" => g.q \in Queues
  <2>1. j + 1 \in 1..Len(stack[t])
    BY <1>4
  <2>2. InQueue(stack[t][j + 1]) => stack[t][j + 1].q \in Queues
    BY <2>1, LoopKinds
  <2> QED
    BY <1>4, <2>2 DEF InQueue
<1> QED
  BY <1>2, <1>3, <1>4, <1>5, <1>6 DEF f, r

\* They do not look at the timers.
LEMMA CallersUndisturbed ==
  ASSUME NEW rank, StackInv, LoopInv(rank), NEW t \in Threads, stack[t] # <<>>,
         NEW ts
  PROVE  Tail(stack[t]) \in Seq(OkFrames(messages_, ts))
<1> DEFINE r == Tail(stack[t])
<1>1. r \in Seq(Frames)
  BY TopFacts
<1>2. ASSUME NEW j \in 1..Len(r) PROVE r[j] \in OkFrames(messages_, ts)
  <2> DEFINE g == r[j]
  <2>1. /\ g \in Frames /\ g.at \in {"queues", "erase"}
        /\ LoopOK(g, messages_, timers)
    BY CallersBelow
  <2> HIDE DEF g
  <2>2. LoopOK(g, messages_, ts)
    BY <2>1 DEF LoopOK
  <2> QED
    BY <2>1, <2>2 DEF OkFrames, g
<1> QED
  BY <1>1, <1>2, SeqSub

\* A message that a loop finds to delete is not being deleted.
LEMMA NotErasedYet ==
  ASSUME NEW rank, CallsOnce, PayloadsOnce, Falls(rank), StackInv,
         LoopInv(rank),
         NEW t \in Threads, stack[t] # <<>>, Top(t).at = "list",
         Top(t).m \in ToSet(messages_[Top(t).q]), Match(Top(t).m, Top(t).h)
  PROVE  ~BeingErased(Top(t).m)
<1> DEFINE f == Top(t)
           r == Tail(stack[t])
           m == f.m
<1>1. /\ f \in Frames /\ r \in Seq(Frames) /\ stack[t] = <<f>> \o r
      /\ f.q \in Queues
  BY TopFacts DEF LoopSteps
<1> SUFFICES ASSUME NEW u \in Threads, m \in ErasedBy(stack[u]) PROVE FALSE
  BY DEF BeingErased
<1>2. PICK j \in 1..Len(stack[u]) :
             stack[u][j].at = "erase" /\ stack[u][j].m = m
  BY DEF ErasedBy
<1> DEFINE g == stack[u][j]
<1>3. g \in Frames /\ LoopOK(g, messages_, timers)
  <2>1. stack[u] \in Seq(OkFrames(messages_, timers))
    BY DEF LoopInv
  <2> QED
    BY <2>1, ElementsIn DEF OkFrames
<1>4. InQueue(g) /\ g.q \in Queues
  BY <1>2, LoopKinds DEF InQueue
<1>5. g.q = f.q
  <2>1. m \in ToSet(messages_[g.q])
    <3>1. PICK k \in 1..Len(messages_[g.q]) : messages_[g.q][k] = m
      BY <1>2, <1>3 DEF LoopOK, Reaches
    <3>2. messages_[g.q] \in Seq(Messages)
      BY <1>4 DEF StackInv
    <3> QED
      BY <3>1, <3>2 DEF ToSet
  <2>2. m \in ToSet(Ready[g.q]) /\ m \in ToSet(Ready[f.q])
    BY <1>1, <1>4, <2>1 DEF LoopInv, Places
  <2> QED
    BY <1>1, <1>4, <2>2, OneQueue
<1>6. stack[t] \in Seq(Frames) /\ 1 \in 1..Len(stack[t]) /\ InQueue(stack[t][1])
  BY DEF StackInv, InQueue, Top
<1>7. u = t
  BY <1>4, <1>5, <1>6, Excluded DEF Top
<1>8. j # 1
  BY <1>2, <1>7 DEF Top
<1>9. j - 1 \in 1..Len(r) /\ r[j - 1] = g
  <2> DEFINE X == <<f>> \o r
  <2>1. /\ Len(X) = Len(r) + 1 /\ Len(r) \in Nat
        /\ \A k \in 1..Len(r) : X[k + 1] = r[k]
    BY <1>1, OnTop
  <2>2. X = stack[t]
    BY <1>1
  <2> HIDE DEF X, r
  <2>3. j \in 1..Len(X)
    BY <1>7, <2>2
  <2>4. j - 1 \in 1..Len(r) /\ (j - 1) + 1 = j
    BY <1>8, <2>1, <2>3
  <2> QED
    BY <1>7, <2>1, <2>2, <2>4
<1>10. f.h \in Handlers /\ rank[f.h] < rank[HandlerOf[m]]
  <2> DEFINE h == r[j - 1]
  <2>1. h.at = "erase" => /\ f.h \in Handlers
                          /\ rank[f.h] < rank[HandlerOf[h.m]]
    BY <1>9, CallersBelow
  <2>2. h.at = "erase" /\ h.m = m
    BY <1>2, <1>9
  <2> HIDE DEF h
  <2> QED
    BY <2>1, <2>2
<1>11. HandlerOf[m] = f.h
  BY <1>10, ManagerClearAssumption DEF Match
<1>12. rank[f.h] \in Nat
  BY <1>10 DEF Falls
<1> QED
  BY <1>10, <1>11, <1>12

LEMMA DeleteFromList ==
  ASSUME NEW rank, CallsOnce, PayloadsOnce, Falls(rank), StackInv,
         LoopInv(rank),
         NEW t \in Threads, ListDelete(t)
  PROVE  LoopInv(rank)'
<1> DEFINE f == Top(t)
           r == Tail(stack[t])
           Ok == OkFrames(messages_, timers)
           s == messages_[f.q]
           m == f.m
           g == [f EXCEPT !.at = "erase"]
           X == <<g>> \o r
           e == NewCall("enter manager", Nil, Reenters[m], Nil)
           Y == <<e>> \o X
<1>1. /\ stack[t] # <<>> /\ f.at = "list" /\ m \in ToSet(s) /\ Match(m, f.h)
      /\ DeletePayload(t, g, m)
      /\ UNCHANGED <<messages_, timers>>
  BY DEF ListDelete, At, contents
<1>2. /\ f \in Frames /\ r \in Seq(Frames) /\ stack[t] = <<f>> \o r
      /\ f \in Ok /\ r \in Seq(Ok)
      /\ Above(f.h, r, rank) /\ Chain(r, rank) /\ f.q \in Queues
  BY <1>1, LoopTop, TopFacts DEF LoopSteps
<1>3. m \in Messages
  <2>1. s \in Seq(Messages)
    BY <1>2 DEF StackInv
  <2> QED
    BY <1>1, <2>1, ElementsIn DEF ToSet
<1>4. ~BeingErased(m)
  BY <1>1, NotErasedYet
<1>5. /\ stack \in [Threads -> Seq(Frames)] /\ deleted \in [Messages -> Nat]
      /\ rank \in [Handlers -> Nat] /\ HandlerOf \in [Messages -> Handlers]
  BY ManagerClearAssumption DEF StackInv, Falls
<1>6. deleted[m] = 0
  BY <1>1, <1>2, <1>4 DEF LoopInv, Places
<1>7. /\ g \in Frames /\ g.at = "erase" /\ g.h = f.h /\ g.m = m
      /\ g.q = f.q /\ g.i = f.i /\ g.n = f.n
  <2>1. "erase" \in Steps
    BY DEF Steps, LoopSteps
  <2> QED
    BY <1>2, <2>1, FrameSteps
<1>8. deleted' = [deleted EXCEPT ![m] = @ + 1]
  BY <1>1 DEF DeletePayload
<1>9. /\ Reenters[m] = Nil => stack' = [stack EXCEPT ![t] = X]
      /\ Reenters[m] # Nil => stack' = [stack EXCEPT ![t] = <<e, g>> \o r]
  BY <1>1 DEF DeletePayload, GoesOn, CallsIn
<1>10. LoopOK(f, messages_, timers)
  BY <1>2 DEF OkFrames
<1>11. m \in ToSet(Ready[f.q])
  BY <1>1, <1>2 DEF LoopInv, Places
<1> HIDE DEF f, r, Ok, g, e
<1>12. g \in Ok
  <2>1. LoopOK(g, messages_, timers)
    <3>1. m # Nil
      BY <1>3, ManagerClearAssumption
    <3> QED
      BY <1>1, <1>3, <1>7, <1>10, <3>1 DEF LoopOK
  <2> QED
    BY <1>7, <2>1 DEF OkFrames, Ok
<1>13. /\ X \in Seq(Ok) /\ X \in Seq(Frames) /\ Chain(X, rank)
       /\ m \in ErasedBy(X)
       /\ \A x : x \in ErasedBy(stack[t]) => x \in ErasedBy(X)
       /\ X # <<>> /\ X[1] = g
  <2>1. f.at # "erase"
    BY <1>1
  <2> QED
    BY <1>2, <1>7, <1>12, <2>1, SeqOnTop, ChainOnTop, ErasedOnTop, OnTop
<1>14. ASSUME Reenters[m] # Nil
       PROVE  /\ Y \in Seq(Ok) /\ Y \in Seq(Frames) /\ Chain(Y, rank)
              /\ <<e, g>> \o r = Y
              /\ \A x : x \in ErasedBy(X) => x \in ErasedBy(Y)
              /\ Y # <<>> /\ Y[1] = e /\ e.at = "enter manager"
  <2>1. Reenters[m] \in Handlers
    BY <1>3, <1>14, ManagerClearAssumption
  <2>2. e \in Frames
    BY <2>1, ManagerCallType DEF e
  <2>3. e.h = Reenters[m] /\ e.at = "enter manager" /\ e.i = 1 /\ e.n = 1
    BY DEF e, NewCall
  <2>4. e \in Ok
    <3>1. LoopOK(e, messages_, timers)
      BY <2>3 DEF LoopOK
    <3> QED
      BY <2>2, <3>1 DEF OkFrames, Ok
  <2>5. rank[e.h] < rank[HandlerOf[m]]
    BY <1>3, <1>14, <2>3 DEF Falls
  <2>6. Above(e.h, r, rank)
    <3> SUFFICES ASSUME NEW k \in 1..Len(r)
                 PROVE  /\ r[k].at # "timers"
                        /\ r[k].at = "erase" =>
                             /\ e.h \in Handlers
                             /\ rank[e.h] < rank[HandlerOf[r[k].m]]
      BY DEF Above
    <3>1. r[k].at # "timers"
      BY <1>2 DEF Above
    <3>2. ASSUME r[k].at = "erase"
          PROVE  rank[e.h] < rank[HandlerOf[r[k].m]]
      <4>1. f.h \in Handlers /\ rank[f.h] < rank[HandlerOf[r[k].m]]
        BY <1>2, <3>2 DEF Above
      <4>2. HandlerOf[m] = f.h
        BY <1>1, <4>1, ManagerClearAssumption DEF Match
      <4>3. HandlerOf[r[k].m] \in Handlers
        <5>1. r[k] \in Ok
          BY <1>2, ElementsIn
        <5>2. r[k].m \in Messages
          BY <3>2, <5>1 DEF Ok, OkFrames, LoopOK
        <5> QED
          BY <1>5, <5>2
      <4>4. /\ rank[e.h] \in Nat /\ rank[f.h] \in Nat
            /\ rank[HandlerOf[r[k].m]] \in Nat
        BY <1>5, <2>1, <2>3, <4>1, <4>3
      <4> QED
        BY <2>5, <4>1, <4>2, <4>4
    <3> QED
      BY <2>1, <2>3, <3>1, <3>2
  <2>7. Above(e.h, X, rank)
    BY <1>2, <1>7, <2>1, <2>3, <2>5, <2>6, AboveOnTop
  <2>8. <<e, g>> \o r = Y
    BY <1>2, <1>7, <2>2, ConcatTwo
  <2> HIDE DEF X
  <2> QED
    BY <1>13, <2>2, <2>3, <2>4, <2>7, <2>8, SeqOnTop, ChainOnTop, ErasedOnTop,
       OnTop
<1> HIDE DEF X, Y
<1>15. PICK Z \in Seq(Ok) :
              /\ Z \in Seq(Frames) /\ Chain(Z, rank)
              /\ m \in ErasedBy(Z)
              /\ \A x : x \in ErasedBy(stack[t]) => x \in ErasedBy(Z)
              /\ Z # <<>> /\ Z[1].at # "timers"
              /\ stack' = [stack EXCEPT ![t] = Z]
  <2>1. CASE Reenters[m] = Nil
    <3>1. X[1].at # "timers"
      BY <1>7, <1>13
    <3> QED
      BY <1>9, <1>13, <2>1, <3>1
  <2>2. CASE Reenters[m] # Nil
    <3>1. Y[1].at # "timers"
      BY <1>14, <2>2
    <3> QED
      BY <1>9, <1>13, <1>14, <2>2, <3>1
  <2> QED
    BY <2>1, <2>2
<1>16. stack'[t] = Z /\ \A u \in Threads : u # t => stack'[u] = stack[u]
  BY <1>5, <1>15
<1>17. \A x : x = m \/ BeingErased(x) => BeingErased(x)'
  <2>1. ASSUME NEW x, x = m PROVE x \in ErasedBy(stack'[t])
    BY <1>15, <1>16, <2>1
  <2>2. ASSUME NEW x, NEW u \in Threads, x \in ErasedBy(stack[u])
        PROVE  x \in ErasedBy(stack'[u])
    BY <1>15, <1>16, <2>2
  <2> QED
    BY <2>1, <2>2 DEF BeingErased
<1>18. ASSUME NEW q \in Queues PROVE Live(q)' \subseteq Live(q)
  <2>1. \A k : Spared(stack[t], q, k)
    BY <1>1 DEF Spared, Top, f
  <2> SUFFICES ASSUME NEW k \in DOMAIN timers[q],
                      \A u \in Threads : Spared(stack'[u], q, k),
                      NEW u \in Threads
               PROVE  Spared(stack[u], q, k)
    BY <1>1 DEF Live
  <2> QED
    BY <1>16, <2>1
<1>19. \A x \in Messages : deleted'[x] = IF x = m THEN 1 ELSE deleted[x]
  BY <1>3, <1>5, <1>6, <1>8
<1>20. Places'
  <2> SUFFICES ASSUME NEW q \in Queues
               PROVE  /\ ToSet(messages_[q]) \subseteq ToSet(Ready[q])
                      /\ ToSet(timers[q]) \subseteq ToSet(Timers[q])
                      /\ IsInjective(messages_[q])
                      /\ \A x \in ToSet(messages_[q]) :
                           deleted'[x] = 0 \/ BeingErased(x)'
                      /\ \A i, j \in Live(q)' :
                           timers[q][i] = timers[q][j] => i = j
                      /\ \A i \in Live(q)' : deleted'[timers[q][i]] = 0
    BY <1>1 DEF Places
  <2>1. /\ ToSet(messages_[q]) \subseteq ToSet(Ready[q])
        /\ ToSet(timers[q]) \subseteq ToSet(Timers[q])
        /\ IsInjective(messages_[q])
        /\ \A x \in ToSet(messages_[q]) : deleted[x] = 0 \/ BeingErased(x)
        /\ \A i, j \in Live(q) : timers[q][i] = timers[q][j] => i = j
        /\ \A i \in Live(q) : deleted[timers[q][i]] = 0
    BY DEF LoopInv, Places
  <2>2. messages_[q] \in Seq(Messages) /\ timers[q] \in Seq(Messages)
    BY DEF StackInv
  <2>3. ASSUME NEW x \in ToSet(messages_[q])
        PROVE  deleted'[x] = 0 \/ BeingErased(x)'
    <3>1. x \in Messages
      BY <2>2, ElementsIn DEF ToSet
    <3> QED
      BY <1>17, <1>19, <2>1, <3>1
  <2>4. ASSUME NEW i \in Live(q)' PROVE deleted'[timers[q][i]] = 0
    <3>1. i \in Live(q) /\ i \in DOMAIN timers[q]
      BY <1>18 DEF Live
    <3>2. timers[q][i] \in Messages /\ timers[q][i] \in ToSet(timers[q])
      BY <2>2, <3>1, ElementsIn DEF ToSet
    <3>3. timers[q][i] # m
      BY <1>2, <1>11, <2>1, <3>2, OneQueue
    <3> QED
      BY <1>19, <2>1, <3>1, <3>2, <3>3
  <2> QED
    BY <1>18, <2>1, <2>3, <2>4
<1>21. DeletedOnce'
  BY <1>19 DEF LoopInv, DeletedOnce
<1>22. \A u \in Threads : /\ stack'[u] \in Seq(OkFrames(messages_, timers))
                          /\ Chain(stack'[u], rank)
  BY <1>15, <1>16 DEF LoopInv, Ok
<1> QED
  BY <1>1, <1>20, <1>21, <1>22 DEF LoopInv

\* Erasing an element moves the iterators of nobody else, and the next one is
\* where it is looked for.
LEMMA ReachesStill ==
  ASSUME NEW S, NEW s \in Seq(S), NEW i \in 1..Len(s), NEW x, NEW h,
         Reaches(s, x, h), x # s[i]
  PROVE  Reaches(RemoveAt(s, i), x, h)
<1> DEFINE z == RemoveAt(s, i)
<1>1. /\ Len(z) = Len(s) - 1 /\ Len(z) \in Nat /\ Len(s) \in Nat
      /\ \A j \in 1..Len(z) : z[j] = IF j < i THEN s[j] ELSE s[j + 1]
  BY RemovedAt
<1> HIDE DEF z
<1>2. PICK k \in 1..Len(s) : s[k] = x /\ KeptBefore(s, k, h)
  BY DEF Reaches
<1>3. k # i
  BY <1>2
<1>4. CASE k < i
  <2>1. k \in 1..Len(z) /\ z[k] = x
    BY <1>1, <1>2, <1>4
  <2>2. \A j \in 1..(k - 1) : j \in 1..Len(z) /\ j < i
    BY <1>1, <1>4
  <2>3. KeptBefore(z, k, h)
    BY <1>1, <1>2, <2>2 DEF KeptBefore
  <2> QED
    BY <2>1, <2>3 DEF Reaches, z
<1>5. CASE k > i
  <2>1. k - 1 \in 1..Len(z) /\ (k - 1) + 1 = k /\ ~(k - 1 < i)
    BY <1>1, <1>5
  <2>2. z[k - 1] = x
    BY <1>1, <1>2, <2>1
  <2>3. ASSUME NEW j \in 1..((k - 1) - 1) PROVE ~Match(z[j], h)
    <3>1. j \in 1..Len(z) /\ j \in 1..(k - 1) /\ j + 1 \in 1..(k - 1)
      BY <1>1, <2>1
    <3>2. z[j] = s[j] \/ z[j] = s[j + 1]
      BY <1>1, <3>1
    <3> QED
      BY <1>2, <3>1, <3>2 DEF KeptBefore
  <2> QED
    BY <2>1, <2>2, <2>3 DEF Reaches, KeptBefore, z
<1> QED
  BY <1>3, <1>4, <1>5

LEMMA EraseFromList ==
  ASSUME NEW rank, CallsOnce, PayloadsOnce, Falls(rank), StackInv,
         LoopInv(rank),
         NEW t \in Threads, ListErase(t)
  PROVE  LoopInv(rank)'
<1> DEFINE f == Top(t)
           r == Tail(stack[t])
           q == f.q
           s == messages_[q]
           m == f.m
<1>1. /\ stack[t] # <<>> /\ f.at = "erase"
      /\ UNCHANGED <<timers, deleted>>
  BY DEF ListErase, At
<1>2. /\ f \in Frames /\ r \in Seq(Frames) /\ stack[t] = <<f>> \o r
      /\ f \in OkFrames(messages_, timers)
      /\ Above(f.h, r, rank) /\ Chain(r, rank) /\ q \in Queues
  BY <1>1, LoopTop, TopFacts DEF LoopSteps
<1>3. /\ stack \in [Threads -> Seq(Frames)]
      /\ messages_ \in [Queues -> Seq(Messages)]
      /\ timers \in [Queues -> Seq(Messages)]
      /\ rank \in [Handlers -> Nat] /\ HandlerOf \in [Messages -> Handlers]
  BY ManagerClearAssumption DEF StackInv, Falls
<1>4. /\ s \in Seq(Messages) /\ IsInjective(s)
      /\ ToSet(s) \subseteq ToSet(Ready[q])
  BY <1>2, <1>3 DEF LoopInv, Places
<1>5. /\ m \in Messages /\ Match(m, f.h) /\ Reaches(s, m, f.h)
      /\ f.i = 1 /\ f.n = 1
  BY <1>1, <1>2 DEF OkFrames, LoopOK
<1>6. PICK k \in DOMAIN s :
             /\ s[k] = m
             /\ messages_' = [messages_ EXCEPT ![q] = RemoveAt(s, k)]
             /\ GoesOn(t, [f EXCEPT !.at = "list", !.m = After(s, k)])
  BY DEF ListErase
<1> DEFINE z == RemoveAt(s, k)
<1>7. \A u \in Threads : u # t =>
        \A p \in Queues : p # q =>
          messages_'[p] = messages_[p] /\ timers'[p] = timers[p]
  BY <1>1, <1>3, <1>6
<1>8. ASSUME NEW u \in Threads, u # t
      PROVE  stack[u] \in Seq(OkFrames(messages_', timers'))
  <2>1. f.at \in LoopSteps
    BY <1>1 DEF LoopSteps
  <2> QED
    BY <1>1, <1>7, <1>8, <2>1, OthersUndisturbed
<1>below. ASSUME NEW j \in 1..Len(r)
          PROVE  LET g == r[j]
                 IN  /\ g \in Frames /\ g.at \in {"queues", "erase"}
                     /\ LoopOK(g, messages_, timers)
                     /\ g.at = "erase" =>
                          /\ g.q \in Queues /\ f.h \in Handlers
                          /\ rank[f.h] < rank[HandlerOf[g.m]]
  BY <1>1, CallersBelow
<1> HIDE DEF f, r
<1>9. k \in 1..Len(s) /\ Len(s) \in Nat
  BY <1>4, <1>6, ElementsIn
<1>10. /\ z \in Seq(Messages) /\ IsInjective(z) /\ ToSet(z) = ToSet(s) \ {m}
  BY <1>4, <1>6, <1>9, RemovedOnce
<1>11. /\ Len(z) = Len(s) - 1
       /\ \A j \in 1..Len(z) : z[j] = IF j < k THEN s[j] ELSE s[j + 1]
  BY <1>4, <1>9, RemovedAt
<1>12. /\ messages_'[q] = z
       /\ \A p \in Queues : p # q => messages_'[p] = messages_[p]
  BY <1>2, <1>3, <1>6
<1>13. ASSUME NEW x, NEW h, Reaches(s, x, h), x # m
       PROVE  Reaches(z, x, h)
  <2>1. x # s[k]
    BY <1>6, <1>13
  <2> QED
    BY <1>4, <1>9, <1>13, <2>1, ReachesStill
<1>14. KeptBefore(z, k, f.h)
  <2>1. PICK j \in 1..Len(s) : s[j] = m /\ KeptBefore(s, j, f.h)
    BY <1>5 DEF Reaches
  <2>2. j = k
    BY <1>4, <1>6, <2>1, ElementsIn DEF IsInjective
  <2>3. \A l \in 1..(k - 1) : l \in 1..Len(z) /\ l < k
    BY <1>9, <1>11
  <2> QED
    BY <1>11, <2>1, <2>2, <2>3 DEF KeptBefore
<1>15. PICK x \in Messages \cup {Nil} : x = After(s, k)
  BY <1>4, <1>9, ElementsIn DEF After
<1> DEFINE g == [f EXCEPT !.at = "list", !.m = x]
<1>16. /\ g \in Frames /\ g.at = "list" /\ g.m = x
       /\ g.h = f.h /\ g.q = q /\ g.i = 1 /\ g.n = 1
  <2>1. "list" \in Steps
    BY DEF Steps, LoopSteps
  <2> QED
    BY <1>2, <1>5, <2>1 DEF Frames, Records
<1>17. stack' = [stack EXCEPT ![t] = <<g>> \o r]
  BY <1>6, <1>15 DEF GoesOn, r
<1> HIDE DEF g, z
<1>18. LoopOK(g, messages_', timers')
  <2>1. CASE k = Len(s)
    <3>1. x = Nil /\ Len(z) + 1 = k
      BY <1>9, <1>11, <1>15, <2>1 DEF After
    <3>2. KeptBefore(z, Len(z) + 1, g.h)
      BY <1>14, <1>16, <3>1
    <3> QED
      BY <1>12, <1>16, <3>1, <3>2 DEF LoopOK
  <2>2. CASE k # Len(s)
    <3>1. k \in 1..Len(z) /\ k + 1 \in 1..Len(s) /\ ~(k < k)
      BY <1>9, <1>11, <2>2
    <3>2. x = s[k + 1] /\ z[k] = x /\ x \in Messages
      BY <1>4, <1>11, <1>15, <2>2, <3>1, ElementsIn DEF After
    <3>3. Reaches(z, x, g.h)
      BY <1>14, <1>16, <3>1, <3>2 DEF Reaches
    <3> QED
      BY <1>12, <1>16, <3>2, <3>3 DEF LoopOK
  <2> QED
    BY <2>1, <2>2
<1>19. r \in Seq(OkFrames(messages_', timers'))
  <2>1. ASSUME NEW j \in 1..Len(r)
        PROVE  r[j] \in OkFrames(messages_', timers')
    <3> DEFINE b == r[j]
    <3>1. /\ b \in Frames /\ b.at \in {"queues", "erase"}
          /\ LoopOK(b, messages_, timers)
          /\ b.at = "erase" =>
               /\ b.q \in Queues /\ f.h \in Handlers
               /\ rank[f.h] < rank[HandlerOf[b.m]]
      BY <1>below
    <3> HIDE DEF b
    <3>2. CASE b.at = "queues"
      <4>1. LoopOK(b, messages_', timers')
        BY <3>2 DEF LoopOK
      <4> QED
        BY <3>1, <4>1 DEF OkFrames, b
    <3>3. CASE b.at = "erase"
      <4>1. /\ b.i = 1 /\ b.n = 1 /\ b.m \in Messages /\ Match(b.m, b.h)
            /\ Reaches(messages_[b.q], b.m, b.h)
        BY <3>1, <3>3 DEF LoopOK
      <4>2. b.m # m
        <5>1. HandlerOf[m] = f.h
          BY <1>5, <3>1, <3>3, ManagerClearAssumption DEF Match
        <5>2. rank[f.h] \in Nat /\ rank[f.h] < rank[HandlerOf[b.m]]
          BY <1>3, <3>1, <3>3
        <5> QED
          BY <5>1, <5>2
      <4>3. Reaches(messages_'[b.q], b.m, b.h)
        <5>1. CASE b.q = q
          BY <1>12, <1>13, <4>1, <4>2, <5>1
        <5>2. CASE b.q # q
          BY <1>12, <3>1, <3>3, <4>1, <5>2
        <5> QED
          BY <5>1, <5>2
      <4>4. LoopOK(b, messages_', timers')
        BY <3>3, <4>1, <4>3 DEF LoopOK
      <4> QED
        BY <3>1, <4>4 DEF OkFrames, b
    <3> QED
      BY <3>1, <3>2, <3>3
  <2> QED
    BY <1>2, <2>1, SeqSub
<1> DEFINE X == <<g>> \o r
<1>20. /\ X \in Seq(OkFrames(messages_', timers')) /\ Chain(X, rank)
       /\ X # <<>> /\ X[1] = g
       /\ \A y : y # m /\ y \in ErasedBy(stack[t]) => y \in ErasedBy(X)
  <2>1. g \in OkFrames(messages_', timers')
    BY <1>16, <1>18 DEF OkFrames
  <2>2. X \in Seq(OkFrames(messages_', timers'))
    BY <1>19, <2>1, SeqOnTop
  <2>3. Chain(X, rank)
    BY <1>2, <1>16, ChainOnTop
  <2>4. X # <<>> /\ X[1] = g
    BY <1>2, <1>16, OnTop
  <2>5. ASSUME NEW y, y # m, y \in ErasedBy(stack[t])
        PROVE  y \in ErasedBy(X)
    <3>1. y \in ErasedBy(r)
      BY <1>2, <2>5, ErasedOnTop
    <3> QED
      BY <1>2, <1>16, <3>1, ErasedOnTop
  <2> QED
    BY <2>2, <2>3, <2>4, <2>5
<1> HIDE DEF X
<1>21. stack'[t] = X /\ \A u \in Threads : u # t => stack'[u] = stack[u]
  BY <1>3, <1>17 DEF X
<1>22. \A y : y # m /\ BeingErased(y) => BeingErased(y)'
  <2>1. ASSUME NEW y, y # m, NEW u \in Threads, y \in ErasedBy(stack[u])
        PROVE  y \in ErasedBy(stack'[u])
    BY <1>20, <1>21, <2>1
  <2> QED
    BY <2>1 DEF BeingErased
<1>23. ASSUME NEW p \in Queues PROVE Live(p)' \subseteq Live(p)
  <2>1. \A l : Spared(stack[t], p, l)
    BY <1>1 DEF Spared, Top, f
  <2> SUFFICES ASSUME NEW l \in DOMAIN timers[p],
                      \A u \in Threads : Spared(stack'[u], p, l),
                      NEW u \in Threads
               PROVE  Spared(stack[u], p, l)
    BY <1>1 DEF Live
  <2> QED
    BY <1>21, <2>1
<1>24. Places'
  <2> SUFFICES ASSUME NEW p \in Queues
               PROVE  /\ ToSet(messages_'[p]) \subseteq ToSet(Ready[p])
                      /\ ToSet(timers[p]) \subseteq ToSet(Timers[p])
                      /\ IsInjective(messages_'[p])
                      /\ \A y \in ToSet(messages_'[p]) :
                           deleted[y] = 0 \/ BeingErased(y)'
                      /\ \A i, j \in Live(p)' :
                           timers[p][i] = timers[p][j] => i = j
                      /\ \A i \in Live(p)' : deleted[timers[p][i]] = 0
    BY <1>1 DEF Places
  <2>1. /\ ToSet(messages_[p]) \subseteq ToSet(Ready[p])
        /\ ToSet(timers[p]) \subseteq ToSet(Timers[p])
        /\ IsInjective(messages_[p])
        /\ \A y \in ToSet(messages_[p]) : deleted[y] = 0 \/ BeingErased(y)
        /\ \A i, j \in Live(p) : timers[p][i] = timers[p][j] => i = j
        /\ \A i \in Live(p) : deleted[timers[p][i]] = 0
    BY DEF LoopInv, Places
  <2>2. /\ ToSet(messages_'[p]) \subseteq ToSet(messages_[p])
        /\ IsInjective(messages_'[p])
    <3>1. CASE p = q
      BY <1>10, <1>12, <3>1
    <3>2. CASE p # q
      BY <1>12, <2>1, <3>2
    <3> QED
      BY <3>1, <3>2
  <2>3. m \notin ToSet(messages_'[p])
    <3>1. CASE p = q
      BY <1>10, <1>12, <3>1
    <3>2. CASE p # q
      <4>1. m \in ToSet(Ready[q])
        BY <1>4, <1>6 DEF ToSet
      <4> QED
        BY <1>2, <2>1, <2>2, <3>2, <4>1, OneQueue
    <3> QED
      BY <3>1, <3>2
  <2> QED
    BY <1>22, <1>23, <2>1, <2>2, <2>3
<1>25. DeletedOnce'
  BY <1>1 DEF LoopInv, DeletedOnce
<1>26. \A u \in Threads : /\ stack'[u] \in Seq(OkFrames(messages_', timers'))
                          /\ Chain(stack'[u], rank)
  BY <1>8, <1>20, <1>21 DEF LoopInv
<1> QED
  BY <1>24, <1>25, <1>26 DEF LoopInv

\* The stacks after a step of the loop over the timers.
LEMMA TimerStacks ==
  ASSUME NEW rank, CallsOnce, StackInv, LoopInv(rank), NEW t \in Threads,
         stack[t] # <<>>, Top(t).at = "timers", UNCHANGED messages_,
         \A p \in Queues : p # Top(t).q => timers'[p] = timers[p],
         \/ stack' = [stack EXCEPT ![t] = Tail(stack[t])]
         \/ \E g \in OkFrames(messages_, timers') :
              /\ g.h = Top(t).h /\ g.at = "timers"
              /\ stack' = [stack EXCEPT ![t] = <<g>> \o Tail(stack[t])]
  PROVE  /\ \A u \in Threads : /\ stack'[u] \in Seq(OkFrames(messages_', timers'))
                               /\ Chain(stack'[u], rank)
         /\ \A m : BeingErased(m) => BeingErased(m)'
         /\ \A u \in Threads : u # t =>
              /\ stack'[u] = stack[u]
              /\ \A k : Spared(stack[u], Top(t).q, k)
<1> DEFINE f == Top(t)
           r == Tail(stack[t])
           Ok == OkFrames(messages_, timers')
<1>1. /\ f \in Frames /\ r \in Seq(Frames) /\ stack[t] = <<f>> \o r
      /\ Above(f.h, r, rank) /\ Chain(r, rank)
  BY LoopTop
<1>2. r \in Seq(Ok)
  BY CallersUndisturbed
<1>3. ASSUME NEW u \in Threads, u # t
      PROVE  stack[u] \in Seq(Ok) /\ \A k : Spared(stack[u], f.q, k)
  <2>1. f.at \in LoopSteps
    BY DEF LoopSteps
  <2>2. \A p \in Queues : p # f.q => /\ messages_[p] = messages_[p]
                                     /\ timers'[p] = timers[p]
    OBVIOUS
  <2> QED
    BY <1>3, <2>1, <2>2, OthersUndisturbed
<1>4. f.at = "timers"
  OBVIOUS
<1>5. stack \in [Threads -> Seq(Frames)]
  BY DEF StackInv
<1> HIDE DEF f, r
<1>6. \A m : m \in ErasedBy(stack[t]) => m \in ErasedBy(r)
  BY <1>1, <1>4, ErasedOnTop
<1>7. PICK X \in Seq(Ok) : /\ stack' = [stack EXCEPT ![t] = X]
                           /\ Chain(X, rank)
                           /\ \A m : m \in ErasedBy(r) => m \in ErasedBy(X)
  <2>1. CASE stack' = [stack EXCEPT ![t] = Tail(stack[t])]
    BY <1>1, <1>2, <2>1 DEF r
  <2>2. CASE \E g \in OkFrames(messages_, timers') :
               /\ g.h = Top(t).h /\ g.at = "timers"
               /\ stack' = [stack EXCEPT ![t] = <<g>> \o Tail(stack[t])]
    <3>1. PICK g \in Ok : /\ g.h = f.h
                          /\ stack' = [stack EXCEPT ![t] = <<g>> \o r]
      BY <2>2 DEF f, r
    <3> DEFINE X == <<g>> \o r
    <3>2. g \in Frames
      BY DEF OkFrames
    <3>3. X \in Seq(Ok)
      BY <1>2, SeqOnTop
    <3>4. Chain(X, rank)
      BY <1>1, <3>1, <3>2, ChainOnTop
    <3>5. \A m : m \in ErasedBy(r) => m \in ErasedBy(X)
      BY <1>1, <3>2, ErasedOnTop
    <3>6. stack' = [stack EXCEPT ![t] = X]
      BY <3>1
    <3> HIDE DEF X
    <3> QED
      BY <3>3, <3>4, <3>5, <3>6
  <2> QED
    BY <2>1, <2>2
<1>8. stack'[t] = X /\ \A u \in Threads : u # t => stack'[u] = stack[u]
  BY <1>5, <1>7
<1>9. \A m : BeingErased(m) => BeingErased(m)'
  <2>1. ASSUME NEW m, NEW u \in Threads, m \in ErasedBy(stack[u])
        PROVE  m \in ErasedBy(stack'[u])
    BY <1>6, <1>7, <1>8, <2>1
  <2> QED
    BY <2>1 DEF BeingErased
<1>10. \A u \in Threads : /\ stack'[u] \in Seq(Ok)
                          /\ Chain(stack'[u], rank)
  BY <1>3, <1>7, <1>8 DEF LoopInv
<1> QED
  BY <1>3, <1>8, <1>9, <1>10 DEF f

\* The timers after it: every one that is left was there before.
LEMMA TimerPlaces ==
  ASSUME NEW rank, PayloadsOnce, StackInv, LoopInv(rank), NEW q \in Queues,
         UNCHANGED <<messages_, deleted>>,
         \A m : BeingErased(m) => BeingErased(m)',
         timers' \in [Queues -> Seq(Messages)],
         \A p \in Queues : p # q =>
           timers'[p] = timers[p] /\ Live(p)' \subseteq Live(p),
         ToSet(timers'[q]) \subseteq ToSet(timers[q]),
         \E old \in [Live(q)' -> Live(q)] :
           /\ \A i \in Live(q)' : timers'[q][i] = timers[q][old[i]]
           /\ \A i, j \in Live(q)' : old[i] = old[j] => i = j
  PROVE  Places' /\ DeletedOnce'
<1>1. DeletedOnce'
  BY DEF LoopInv, DeletedOnce
<1>2. Places'
  <2> SUFFICES ASSUME NEW p \in Queues
               PROVE  /\ ToSet(messages_[p]) \subseteq ToSet(Ready[p])
                      /\ ToSet(timers'[p]) \subseteq ToSet(Timers[p])
                      /\ IsInjective(messages_[p])
                      /\ \A m \in ToSet(messages_[p]) :
                           deleted[m] = 0 \/ BeingErased(m)'
                      /\ \A i, j \in Live(p)' :
                           timers'[p][i] = timers'[p][j] => i = j
                      /\ \A i \in Live(p)' : deleted[timers'[p][i]] = 0
    BY DEF Places
  <2>1. /\ ToSet(messages_[p]) \subseteq ToSet(Ready[p])
        /\ ToSet(timers[p]) \subseteq ToSet(Timers[p])
        /\ IsInjective(messages_[p])
        /\ \A m \in ToSet(messages_[p]) : deleted[m] = 0 \/ BeingErased(m)
        /\ \A i, j \in Live(p) : timers[p][i] = timers[p][j] => i = j
        /\ \A i \in Live(p) : deleted[timers[p][i]] = 0
    BY DEF LoopInv, Places
  <2>2. CASE p = q
    <3>1. PICK old \in [Live(q)' -> Live(q)] :
                 /\ \A i \in Live(q)' : timers'[q][i] = timers[q][old[i]]
                 /\ \A i, j \in Live(q)' : old[i] = old[j] => i = j
      OBVIOUS
    <3>2. \A i \in Live(q)' : old[i] \in Live(q)
      BY <3>1
    <3>3. \A i, j \in Live(q)' : timers'[q][i] = timers'[q][j] => i = j
      BY <2>1, <2>2, <3>1, <3>2
    <3>4. \A i \in Live(q)' : deleted[timers'[q][i]] = 0
      BY <2>1, <2>2, <3>1, <3>2
    <3> QED
      BY <2>1, <2>2, <3>3, <3>4
  <2>3. CASE p # q
    BY <2>1, <2>3
  <2> QED
    BY <2>2, <2>3
<1> QED
  BY <1>1, <1>2

LEMMA DeleteTimer ==
  ASSUME NEW rank, CallsOnce, PayloadsOnce, TimersPlain, StackInv,
         LoopInv(rank), NEW t \in Threads, TimerDelete(t)
  PROVE  LoopInv(rank)'
<1> DEFINE f == Top(t)
           r == Tail(stack[t])
<1>queue. PICK q \in Queues : q = f.q
  <2>1. stack[t] # <<>> /\ f.at \in LoopSteps
    BY DEF TimerDelete, At, LoopSteps
  <2> QED
    BY <2>1, TopFacts
<1> DEFINE s == timers[q]
           g == [f EXCEPT !.i = @ + 1]
<1>1. /\ stack[t] # <<>> /\ f.at = "timers" /\ f.i <= Len(s)
      /\ DeletePayload(t, g, s[f.i])
      /\ UNCHANGED <<messages_, timers>>
  BY <1>queue DEF TimerDelete, At, contents
<1>2. /\ f \in Frames /\ r \in Seq(Frames) /\ stack[t] = <<f>> \o r
      /\ f \in OkFrames(messages_, timers) /\ f.q = q
  BY <1>1, <1>queue, LoopTop
<1>3. /\ stack \in [Threads -> Seq(Frames)] /\ deleted \in [Messages -> Nat]
      /\ s \in Seq(Messages)
  BY <1>2 DEF StackInv
<1>4. f.i \in Nat \ {0} /\ f.n \in Nat \ {0} /\ f.n <= f.i
  BY <1>2, FrameFields
<1>5. /\ DOMAIN s = 1..Len(s) /\ Len(s) \in Nat /\ f.i \in 1..Len(s)
  <2>1. DOMAIN s = 1..Len(s) /\ Len(s) \in Nat
    BY <1>3, ElementsIn
  <2> QED
    BY <1>1, <1>4, <2>1
<1>6. PICK m \in Messages : m = s[f.i]
  BY <1>3, <1>5, ElementsIn
<1>7. m \in ToSet(s) /\ m \in ToSet(Timers[q])
  <2>1. m \in ToSet(s)
    BY <1>5, <1>6 DEF ToSet
  <2> QED
    BY <1>2, <2>1 DEF LoopInv, Places
<1>8. Reenters[m] = Nil
  BY <1>2, <1>7 DEF TimersPlain, ToSet
<1>9. deleted' = [deleted EXCEPT ![m] = @ + 1] /\ GoesOn(t, g)
  BY <1>1, <1>6, <1>8 DEF DeletePayload
<1>10. stack' = [stack EXCEPT ![t] = <<g>> \o r]
  BY <1>9 DEF GoesOn
<1>11. /\ g \in Frames /\ g.at = "timers" /\ g.h = f.h /\ g.q = q
       /\ g.i = f.i + 1 /\ g.n = f.n
  BY <1>1, <1>2, <1>queue, FrameAdvances
<1>12. LoopOK(f, messages_, timers)
  BY <1>2 DEF OkFrames
<1> HIDE DEF g
<1>13. LoopOK(g, messages_, timers)
  <2>1. g.i <= Len(s) + 1 /\ g.n <= g.i
    BY <1>4, <1>5, <1>11
  <2> QED
    BY <1>1, <1>2, <1>11, <1>12, <2>1 DEF LoopOK
<1>14. g \in OkFrames(messages_, timers')
  BY <1>1, <1>11, <1>13 DEF OkFrames
<1>15. /\ \A u \in Threads : /\ stack'[u] \in Seq(OkFrames(messages_', timers'))
                             /\ Chain(stack'[u], rank)
       /\ \A x : BeingErased(x) => BeingErased(x)'
       /\ \A u \in Threads : u # t =>
            /\ stack'[u] = stack[u]
            /\ \A k : Spared(stack[u], q, k)
  <2>1. \A p \in Queues : p # q => timers'[p] = timers[p]
    BY <1>1
  <2> QED
    BY <1>1, <1>2, <1>10, <1>11, <1>14, <2>1, TimerStacks
<1>16. stack[t][1] = f /\ stack'[t] # <<>> /\ stack'[t][1] = g
  <2>1. stack'[t] = <<g>> \o r
    BY <1>3, <1>10
  <2> QED
    BY <1>2, <1>11, <2>1, OnTop DEF Top
<1> HIDE DEF f, r
<1>17. ASSUME NEW p \in Queues PROVE Live(p)' \subseteq Live(p)
  <2> SUFFICES ASSUME NEW k \in DOMAIN timers[p],
                      \A u \in Threads : Spared(stack'[u], p, k),
                      NEW u \in Threads
               PROVE  Spared(stack[u], p, k)
    BY <1>1 DEF Live
  <2>1. CASE u = t
    <3>1. k \in Nat
      <4>1. timers[p] \in Seq(Messages)
        BY DEF StackInv
      <4> QED
        BY <4>1
    <3>2. g.q = p => k < g.n \/ g.i <= k
      BY <1>11, <1>16 DEF Spared
    <3>3. f.q = p => k < f.n \/ f.i <= k
      BY <1>2, <1>4, <1>11, <3>1, <3>2
    <3> QED
      BY <1>16, <2>1, <3>3 DEF Spared
  <2>2. CASE u # t
    BY <1>15, <2>2
  <2> QED
    BY <2>1, <2>2
<1>18. f.i \in Live(q)
  <2>1. Spared(stack[t], q, f.i)
    BY <1>4, <1>16 DEF Spared
  <2> QED
    BY <1>5, <1>15, <2>1 DEF Live
<1>19. ASSUME NEW k \in Live(q)' PROVE k # f.i
  <2>1. Spared(stack'[t], q, k)
    BY DEF Live
  <2>2. k < g.n \/ g.i <= k
    BY <1>11, <1>16, <2>1 DEF Spared
  <2> QED
    BY <1>4, <1>11, <2>2
<1>20. deleted[m] = 0
  BY <1>2, <1>6, <1>18 DEF LoopInv, Places
<1>21. \A x \in Messages : deleted'[x] = IF x = m THEN 1 ELSE deleted[x]
  BY <1>3, <1>9, <1>20
<1>22. Places'
  <2> SUFFICES ASSUME NEW p \in Queues
               PROVE  /\ ToSet(messages_[p]) \subseteq ToSet(Ready[p])
                      /\ ToSet(timers[p]) \subseteq ToSet(Timers[p])
                      /\ IsInjective(messages_[p])
                      /\ \A x \in ToSet(messages_[p]) :
                           deleted'[x] = 0 \/ BeingErased(x)'
                      /\ \A i, j \in Live(p)' :
                           timers[p][i] = timers[p][j] => i = j
                      /\ \A i \in Live(p)' : deleted'[timers[p][i]] = 0
    BY <1>1 DEF Places
  <2>1. /\ ToSet(messages_[p]) \subseteq ToSet(Ready[p])
        /\ ToSet(timers[p]) \subseteq ToSet(Timers[p])
        /\ IsInjective(messages_[p])
        /\ \A x \in ToSet(messages_[p]) : deleted[x] = 0 \/ BeingErased(x)
        /\ \A i, j \in Live(p) : timers[p][i] = timers[p][j] => i = j
        /\ \A i \in Live(p) : deleted[timers[p][i]] = 0
    BY DEF LoopInv, Places
  <2>2. messages_[p] \in Seq(Messages) /\ timers[p] \in Seq(Messages)
    BY DEF StackInv
  <2>3. ASSUME NEW x \in ToSet(messages_[p])
        PROVE  deleted'[x] = 0 \/ BeingErased(x)'
    <3>1. x \in Messages
      BY <2>2, ElementsIn DEF ToSet
    <3>2. x # m
      <4>1. x \in ToSet(Ready[p])
        BY <2>1
      <4>2. ~(m \in ToSet(Ready[p]) /\ m \in ToSet(Timers[q]))
        BY OneQueue
      <4> QED
        BY <1>7, <4>1, <4>2
    <3> QED
      BY <1>15, <1>21, <2>1, <3>1, <3>2
  <2>4. ASSUME NEW i \in Live(p)' PROVE deleted'[timers[p][i]] = 0
    <3>1. i \in Live(p) /\ i \in DOMAIN timers[p]
      BY <1>17 DEF Live
    <3>2. timers[p][i] \in Messages /\ timers[p][i] \in ToSet(timers[p])
      BY <2>2, <3>1, ElementsIn DEF ToSet
    <3>3. timers[p][i] # m
      <4>1. CASE p = q
        <5>1. i # f.i
          BY <1>19, <4>1
        <5>2. f.i \in Live(p) /\ m = timers[p][f.i]
          BY <1>6, <1>18, <4>1
        <5> QED
          BY <2>1, <3>1, <5>1, <5>2
      <4>2. CASE p # q
        <5>1. timers[p][i] \in ToSet(Timers[p])
          BY <2>1, <3>2
        <5>2. ~(m \in ToSet(Timers[p]) /\ m \in ToSet(Timers[q]))
          BY <4>2, OneQueue
        <5> QED
          BY <1>7, <5>1, <5>2
      <4> QED
        BY <4>1, <4>2
    <3> QED
      BY <1>21, <2>1, <3>1, <3>2, <3>3
  <2> QED
    BY <1>17, <2>1, <2>3, <2>4
<1>23. DeletedOnce'
  BY <1>21 DEF LoopInv, DeletedOnce
<1> QED
  BY <1>15, <1>22, <1>23 DEF LoopInv

LEMMA KeepTimer ==
  ASSUME NEW rank, CallsOnce, PayloadsOnce, StackInv, LoopInv(rank),
         NEW t \in Threads, TimerKeep(t)
  PROVE  LoopInv(rank)'
<1> DEFINE f == Top(t)
           r == Tail(stack[t])
<1>queue. PICK q \in Queues : q = f.q
  <2>1. stack[t] # <<>> /\ f.at \in LoopSteps
    BY DEF TimerKeep, At, LoopSteps
  <2> QED
    BY <2>1, TopFacts
<1> DEFINE s == timers[q]
           z == [s EXCEPT ![f.n] = s[f.i]]
           g == [f EXCEPT !.i = @ + 1, !.n = @ + 1]
<1>1. /\ stack[t] # <<>> /\ f.at = "timers" /\ f.i <= Len(s)
      /\ ~Match(s[f.i], f.h)
      /\ timers' = [timers EXCEPT ![q] = z] /\ GoesOn(t, g)
      /\ UNCHANGED <<messages_, deleted>>
  BY <1>queue DEF TimerKeep, At
<1>2. /\ f \in Frames /\ r \in Seq(Frames) /\ stack[t] = <<f>> \o r
      /\ f \in OkFrames(messages_, timers) /\ f.q = q
  BY <1>1, <1>queue, LoopTop
<1>3. /\ stack \in [Threads -> Seq(Frames)]
      /\ timers \in [Queues -> Seq(Messages)] /\ s \in Seq(Messages)
  BY <1>2 DEF StackInv
<1>4. f.i \in Nat \ {0} /\ f.n \in Nat \ {0} /\ f.n <= f.i
  BY <1>2, FrameFields
<1>5. DOMAIN s = 1..Len(s) /\ Len(s) \in Nat
  BY <1>3, ElementsIn
<1>6. f.i \in 1..Len(s) /\ f.n \in 1..Len(s)
  BY <1>1, <1>4, <1>5
<1>7. s[f.i] \in Messages
  BY <1>3, <1>6, ElementsIn
<1>8. /\ z \in Seq(Messages) /\ Len(z) = Len(s)
      /\ \A j \in 1..Len(s) : z[j] = IF j = f.n THEN s[f.i] ELSE s[j]
  BY <1>3, <1>4, <1>7, Replaced
<1>9. stack' = [stack EXCEPT ![t] = <<g>> \o r]
  BY <1>1 DEF GoesOn
<1>10. /\ g \in Frames /\ g.at = "timers" /\ g.h = f.h /\ g.q = q
       /\ g.i = f.i + 1 /\ g.n = f.n + 1
  BY <1>1, <1>2, FrameKeeps
<1>11. LoopOK(f, messages_, timers)
  BY <1>2 DEF OkFrames
<1> HIDE DEF g, z
<1>12. /\ timers' \in [Queues -> Seq(Messages)] /\ timers'[q] = z
       /\ \A p \in Queues : p # q => timers'[p] = timers[p]
  BY <1>1, <1>2, <1>3, <1>8
<1>13. LoopOK(g, messages_, timers')
  <2>1. g.i <= Len(z) + 1 /\ g.n <= g.i
    BY <1>4, <1>5, <1>6, <1>8, <1>10
  <2>2. KeptBefore(s, f.n, f.h)
    BY <1>1, <1>2, <1>11 DEF LoopOK
  <2>3. ASSUME NEW j \in 1..(g.n - 1) PROVE ~Match(z[j], f.h)
    <3>1. j \in 1..Len(s) /\ (j = f.n \/ j \in 1..(f.n - 1))
      BY <1>4, <1>6, <1>10
    <3> QED
      BY <1>1, <1>4, <1>8, <2>2, <3>1 DEF KeptBefore
  <2>4. KeptBefore(z, g.n, g.h)
    BY <1>10, <2>3 DEF KeptBefore
  <2>5. KeptBefore(messages_[q], Len(messages_[q]) + 1, g.h)
    BY <1>1, <1>2, <1>10, <1>11 DEF LoopOK
  <2> QED
    BY <1>10, <1>12, <2>1, <2>4, <2>5 DEF LoopOK
<1>14. g \in OkFrames(messages_, timers')
  BY <1>10, <1>13 DEF OkFrames
<1>15. /\ \A u \in Threads : /\ stack'[u] \in Seq(OkFrames(messages_', timers'))
                             /\ Chain(stack'[u], rank)
       /\ \A x : BeingErased(x) => BeingErased(x)'
       /\ \A u \in Threads : u # t =>
            /\ stack'[u] = stack[u]
            /\ \A k : Spared(stack[u], q, k)
  <2>1. \A p \in Queues : p # f.q => timers'[p] = timers[p]
    BY <1>2, <1>12
  <2>2. \E h \in OkFrames(messages_, timers') :
          /\ h.h = f.h /\ h.at = "timers"
          /\ stack' = [stack EXCEPT ![t] = <<h>> \o Tail(stack[t])]
    BY <1>9, <1>10, <1>14
  <2>3. UNCHANGED messages_ /\ stack[t] # <<>> /\ f.at = "timers"
    BY <1>1
  <2>4. /\ \A u \in Threads : /\ stack'[u] \in Seq(OkFrames(messages_', timers'))
                              /\ Chain(stack'[u], rank)
        /\ \A x : BeingErased(x) => BeingErased(x)'
        /\ \A u \in Threads : u # t =>
             /\ stack'[u] = stack[u]
             /\ \A k : Spared(stack[u], f.q, k)
    BY <2>1, <2>2, <2>3, TimerStacks
  <2> QED
    BY <1>2, <2>4
<1>16. stack[t][1] = f /\ stack'[t] # <<>> /\ stack'[t][1] = g
  <2>1. stack'[t] = <<g>> \o r
    BY <1>3, <1>9
  <2> QED
    BY <1>2, <1>10, <2>1, OnTop DEF Top
<1> HIDE DEF f, r
<1>17. ASSUME NEW p \in Queues, p # q PROVE Live(p)' \subseteq Live(p)
  <2> SUFFICES ASSUME NEW k \in DOMAIN timers[p],
                      \A u \in Threads : Spared(stack'[u], p, k),
                      NEW u \in Threads
               PROVE  Spared(stack[u], p, k)
    BY <1>12, <1>17 DEF Live
  <2>1. CASE u = t
    BY <1>2, <1>16, <1>17, <2>1 DEF Spared
  <2>2. CASE u # t
    BY <1>15, <2>2
  <2> QED
    BY <2>1, <2>2
<1>18. ToSet(timers'[q]) \subseteq ToSet(timers[q])
  <2>1. DOMAIN z = 1..Len(s)
    BY <1>8, ElementsIn
  <2>2. \A j \in 1..Len(s) : z[j] \in ToSet(s)
    BY <1>5, <1>6, <1>8 DEF ToSet
  <2> QED
    BY <1>12, <2>1, <2>2 DEF ToSet
\* The new place of the timer that is kept is where it was found.
<1> DEFINE L == Live(q)'
           old == [k \in L |-> IF k = f.n THEN f.i ELSE k]
<1>19. ASSUME NEW k \in L
       PROVE  k \in 1..Len(s) /\ (k <= f.n \/ f.i < k)
  <2>1. k \in DOMAIN z /\ Spared(stack'[t], q, k)
    BY <1>12 DEF Live
  <2>2. k \in 1..Len(s)
    BY <1>8, <2>1, ElementsIn
  <2>3. k < g.n \/ g.i <= k
    BY <1>10, <1>16, <2>1 DEF Spared
  <2> QED
    BY <1>4, <1>10, <2>2, <2>3
<1>20. ASSUME NEW k \in 1..Len(s), k < f.n \/ f.i <= k
       PROVE  k \in Live(q)
  <2>1. Spared(stack[t], q, k)
    BY <1>16, <1>20 DEF Spared
  <2> QED
    BY <1>5, <1>15, <2>1 DEF Live
<1> HIDE DEF L
<1>21. ASSUME NEW k \in L
       PROVE  old[k] \in Live(q) /\ z[k] = s[old[k]]
  <2>1. k \in 1..Len(s) /\ (k <= f.n \/ f.i < k)
    BY <1>19
  <2>2. CASE k = f.n
    BY <1>4, <1>6, <1>8, <1>20, <2>1, <2>2
  <2>3. CASE k # f.n
    <3>1. k < f.n \/ f.i <= k
      BY <1>4, <2>1, <2>3
    <3> QED
      BY <1>8, <1>20, <2>1, <2>3, <3>1
  <2> QED
    BY <2>2, <2>3
<1>22. \A k, l \in L : old[k] = old[l] => k = l
  <2>1. ASSUME NEW k \in L, k # f.n PROVE k # f.i
    <3>1. k \in 1..Len(s) /\ (k <= f.n \/ f.i < k)
      BY <1>19
    <3> QED
      BY <1>4, <2>1, <3>1
  <2> QED
    BY <2>1
<1>23. /\ old \in [L -> Live(q)]
       /\ \A k \in L : timers'[q][k] = timers[q][old[k]]
  BY <1>12, <1>21
<1> HIDE DEF old
<1>24. \E o \in [L -> Live(q)] :
         /\ \A k \in L : timers'[q][k] = timers[q][o[k]]
         /\ \A k, l \in L : o[k] = o[l] => k = l
  BY <1>22, <1>23
<1>25. Places' /\ DeletedOnce'
  <2>1. \A o \in Queues : o # q =>
          timers'[o] = timers[o] /\ Live(o)' \subseteq Live(o)
    BY <1>12, <1>17
  <2>2. \E o \in [Live(q)' -> Live(q)] :
          /\ \A k \in Live(q)' : timers'[q][k] = timers[q][o[k]]
          /\ \A k, l \in Live(q)' : o[k] = o[l] => k = l
    BY <1>24 DEF L
  <2>3. /\ UNCHANGED <<messages_, deleted>>
        /\ \A x : BeingErased(x) => BeingErased(x)'
        /\ timers' \in [Queues -> Seq(Messages)]
        /\ ToSet(timers'[q]) \subseteq ToSet(timers[q])
    BY <1>1, <1>12, <1>15, <1>18
  <2> QED
    BY <2>1, <2>2, <2>3, TimerPlaces
<1> QED
  BY <1>15, <1>25 DEF LoopInv

LEMMA EndTimers ==
  ASSUME NEW rank, CallsOnce, PayloadsOnce, StackInv, LoopInv(rank),
         NEW t \in Threads, TimersEnd(t)
  PROVE  LoopInv(rank)'
<1> DEFINE f == Top(t)
           r == Tail(stack[t])
<1>queue. PICK q \in Queues : q = f.q
  <2>1. stack[t] # <<>> /\ f.at \in LoopSteps
    BY DEF TimersEnd, At, LoopSteps
  <2> QED
    BY <2>1, TopFacts
<1> DEFINE s == timers[q]
           h == SubSeq(s, 1, f.n - 1)
<1>1. /\ stack[t] # <<>> /\ f.at = "timers" /\ f.i = Len(s) + 1
      /\ stack' = [stack EXCEPT ![t] = r]
      /\ UNCHANGED <<messages_, deleted>>
  BY <1>queue DEF TimersEnd, At, Pops
<1>2. PICK y \in Reheaped(h) : timers' = [timers EXCEPT ![q] = y]
  BY <1>queue DEF TimersEnd
<1>3. /\ f \in Frames /\ r \in Seq(Frames) /\ stack[t] = <<f>> \o r
      /\ f.q = q
  BY <1>1, <1>queue, LoopTop
<1>4. /\ stack \in [Threads -> Seq(Frames)]
      /\ timers \in [Queues -> Seq(Messages)] /\ s \in Seq(Messages)
  BY DEF StackInv
<1>5. f.n \in Nat \ {0} /\ f.n <= Len(s) + 1
  BY <1>1, <1>3, FrameFields
<1>6. /\ h \in Seq(Messages) /\ Len(h) = f.n - 1
      /\ \A k \in 1..(f.n - 1) : h[k] = s[k]
  BY <1>4, <1>5, HeadPart
<1> HIDE DEF h
<1>7. y \in Seq(Messages) /\ Len(y) = f.n - 1
  BY <1>6, Reheaping
<1>8. PICK p \in [1..(f.n - 1) -> 1..(f.n - 1)] :
             /\ \A k \in 1..(f.n - 1) : y[k] = h[p[k]]
             /\ \A k, l \in 1..(f.n - 1) : p[k] = p[l] => k = l
  BY <1>6, Reheaping
<1>9. \A k \in 1..(f.n - 1) : p[k] \in 1..(f.n - 1) /\ y[k] = s[p[k]]
  BY <1>6, <1>8
<1>10. DOMAIN y = 1..(f.n - 1) /\ DOMAIN s = 1..Len(s) /\ Len(s) \in Nat
       /\ 1..(f.n - 1) \subseteq 1..Len(s)
  <2>1. DOMAIN y = 1..Len(y) /\ DOMAIN s = 1..Len(s) /\ Len(s) \in Nat
    BY <1>4, <1>7, ElementsIn
  <2>2. 1..(f.n - 1) \subseteq 1..Len(s)
    BY <1>5, <2>1
  <2> QED
    BY <1>7, <2>1, <2>2
<1>11. /\ timers' \in [Queues -> Seq(Messages)] /\ timers'[q] = y
       /\ \A o \in Queues : o # q => timers'[o] = timers[o]
  BY <1>2, <1>4, <1>7
<1>12. /\ \A u \in Threads : /\ stack'[u] \in Seq(OkFrames(messages_', timers'))
                             /\ Chain(stack'[u], rank)
       /\ \A x : BeingErased(x) => BeingErased(x)'
       /\ \A u \in Threads : u # t =>
            /\ stack'[u] = stack[u]
            /\ \A k : Spared(stack[u], f.q, k)
  <2>1. \A o \in Queues : o # f.q => timers'[o] = timers[o]
    BY <1>3, <1>11
  <2> QED
    BY <1>1, <2>1, TimerStacks
<1>13. stack[t][1] = f
  BY DEF Top
<1> HIDE DEF f, r
<1>14. ASSUME NEW o \in Queues, o # q PROVE Live(o)' \subseteq Live(o)
  <2> SUFFICES ASSUME NEW k \in DOMAIN timers[o],
                      \A u \in Threads : Spared(stack'[u], o, k),
                      NEW u \in Threads
               PROVE  Spared(stack[u], o, k)
    BY <1>11, <1>14 DEF Live
  <2>1. CASE u = t
    BY <1>3, <1>13, <1>14, <2>1 DEF Spared
  <2>2. CASE u # t
    BY <1>12, <2>2
  <2> QED
    BY <2>1, <2>2
<1>15. ToSet(timers'[q]) \subseteq ToSet(timers[q])
  <2>1. \A k \in DOMAIN y : p[k] \in DOMAIN s /\ y[k] = s[p[k]]
    BY <1>9, <1>10
  <2> QED
    BY <1>11, <2>1 DEF ToSet
\* Only the timers before new_end are left, in some order.
<1> DEFINE L == Live(q)'
           old == [k \in L |-> p[k]]
<1>16. \A k \in L : k \in 1..(f.n - 1)
  BY <1>10, <1>11 DEF Live
<1>17. ASSUME NEW k \in 1..(f.n - 1) PROVE k \in Live(q)
  <2>1. Spared(stack[t], q, k)
    BY <1>5, <1>13 DEF Spared
  <2>2. \A u \in Threads : u # t => Spared(stack[u], q, k)
    BY <1>3, <1>12
  <2> QED
    BY <1>10, <2>1, <2>2 DEF Live
<1> HIDE DEF L
<1>18. ASSUME NEW k \in L PROVE old[k] \in Live(q) /\ y[k] = s[old[k]]
  BY <1>9, <1>16, <1>17
<1>19. \A k, l \in L : old[k] = old[l] => k = l
  BY <1>8, <1>16
<1>20. /\ old \in [L -> Live(q)]
       /\ \A k \in L : timers'[q][k] = timers[q][old[k]]
  BY <1>11, <1>18
<1> HIDE DEF old
<1>21. \E o \in [L -> Live(q)] :
         /\ \A k \in L : timers'[q][k] = timers[q][o[k]]
         /\ \A k, l \in L : o[k] = o[l] => k = l
  BY <1>19, <1>20
<1>22. Places' /\ DeletedOnce'
  <2>1. \A o \in Queues : o # q =>
          timers'[o] = timers[o] /\ Live(o)' \subseteq Live(o)
    BY <1>11, <1>14
  <2>2. \E o \in [Live(q)' -> Live(q)] :
          /\ \A k \in Live(q)' : timers'[q][k] = timers[q][o[k]]
          /\ \A k, l \in Live(q)' : o[k] = o[l] => k = l
    BY <1>21 DEF L
  <2>3. /\ UNCHANGED <<messages_, deleted>>
        /\ \A x : BeingErased(x) => BeingErased(x)'
        /\ timers' \in [Queues -> Seq(Messages)]
        /\ ToSet(timers'[q]) \subseteq ToSet(timers[q])
    BY <1>1, <1>11, <1>12, <1>15
  <2> QED
    BY <2>1, <2>2, <2>3, TimerPlaces
<1> QED
  BY <1>12, <1>22 DEF LoopInv

LEMMA LoopInit ==
  ASSUME NEW rank, PayloadsOnce, Init
  PROVE  LoopInv(rank)
<1> USE DEF Init
<1>1. \A t \in Threads : /\ stack[t] \in Seq(OkFrames(messages_, timers))
                         /\ Chain(stack[t], rank)
  BY DEF Chain
<1>2. DeletedOnce
  BY DEF DeletedOnce
<1>3. Places
  <2> SUFFICES ASSUME NEW q \in Queues
               PROVE  /\ IsInjective(messages_[q])
                      /\ \A m \in ToSet(messages_[q]) : deleted[m] = 0
                      /\ \A i, j \in Live(q) :
                           timers[q][i] = timers[q][j] => i = j
                      /\ \A i \in Live(q) : deleted[timers[q][i]] = 0
    BY DEF Places
  <2>1. Ready[q] \in Seq(Messages) /\ Timers[q] \in Seq(Messages)
    BY ManagerClearAssumption
  <2>2. IsInjective(messages_[q])
    BY DEF PayloadsOnce, IsInjective
  <2>3. \A m \in ToSet(messages_[q]) : deleted[m] = 0
    <3>1. \A m \in ToSet(Ready[q]) : m \in Messages
      BY <2>1, ElementsIn DEF ToSet
    <3> QED
      BY <3>1
  <2>4. \A i \in Live(q) : i \in DOMAIN Timers[q] /\ Timers[q][i] \in Messages
    BY <2>1, ElementsIn DEF Live
  <2>5. \A i, j \in Live(q) : timers[q][i] = timers[q][j] => i = j
    BY <2>4 DEF PayloadsOnce
  <2>6. \A i \in Live(q) : deleted[timers[q][i]] = 0
    BY <2>4
  <2> QED
    BY <2>2, <2>3, <2>5, <2>6
<1> QED
  BY <1>1, <1>2, <1>3 DEF LoopInv

LEMMA LoopsStep ==
  ASSUME NEW rank, CallsOnce, PayloadsOnce, TimersPlain, Falls(rank),
         StackInv, LoopInv(rank), [Next]_vars
  PROVE  LoopInv(rank)'
<1>1. ASSUME NEW t \in Threads, Step(t) PROVE LoopInv(rank)'
  <2>1. CASE \/ AddInternal(t) \/ RemoveInternal(t) \/ EnterManager(t)
             \/ NextQueue(t) \/ ClearAllEnd(t) \/ EnterQueue(t)
             \/ ClearList(t) \/ ListSkip(t) \/ ListEnd(t)
    BY <2>1, QuietSteps
  <2>2. CASE ListDelete(t)
    BY <2>2, DeleteFromList
  <2>3. CASE ListErase(t)
    BY <2>3, EraseFromList
  <2>4. CASE TimerDelete(t)
    BY <2>4, DeleteTimer
  <2>5. CASE TimerKeep(t)
    BY <2>5, KeepTimer
  <2>6. CASE TimersEnd(t)
    BY <2>6, EndTimers
  <2> QED
    BY <1>1, <2>1, <2>2, <2>3, <2>4, <2>5, <2>6 DEF Step
<1>2. ASSUME NEW t \in Threads, NEW c \in Calls, CallBegin(t, c)
      PROVE  LoopInv(rank)'
  BY <1>2, QuietBegin
<1>3. CASE UNCHANGED vars
  BY <1>3 DEF vars, contents, LoopInv, Places, Live, BeingErased, DeletedOnce
<1> QED
  BY <1>1, <1>2, <1>3 DEF Next

\* The loops find their iterators where they were, and every payload that is
\* still in its place has not been deleted.
THEOREM LoopsAreSound ==
  ASSUME NEW rank, CallsOnce, PayloadsOnce, TimersPlain, Falls(rank)
  PROVE  Spec => [](StackInv /\ LoopInv(rank))
<1>1. Init => StackInv /\ LoopInv(rank)
  BY StackInit, LoopInit
<1>2. StackInv /\ LoopInv(rank) /\ [Next]_vars => StackInv' /\ LoopInv(rank)'
  BY StackStep, LoopsStep
<1> QED
  BY <1>1, <1>2, PTL DEF Spec

\* No payload is deleted twice, whatever handlers its destructor clears, as
\* long as they do not clear each other in a circle, and the payloads of timers
\* clear nothing.
THEOREM PayloadsDeletedOnce ==
  ASSUME NEW rank, CallsOnce, PayloadsOnce, TimersPlain, Falls(rank)
  PROVE  Spec => []DeletedOnce
<1>1. LoopInv(rank) => DeletedOnce
  BY DEF LoopInv
<1> QED
  BY <1>1, LoopsAreSound, PTL

\* Two threads never work on the contents of one queue, and a loop that goes on
\* after a payload was deleted finds its iterator where it was.
THEOREM LoopsGoOn ==
  ASSUME NEW rank, CallsOnce, PayloadsOnce, TimersPlain, Falls(rank)
  PROVE  Spec => []LoopsUndisturbed
<1>1. StackInv /\ LoopInv(rank) => LoopsUndisturbed
  <2> SUFFICES ASSUME StackInv, LoopInv(rank) PROVE LoopsUndisturbed
    OBVIOUS
  <2>1. ASSUME NEW t \in Threads, NEW u \in Threads, t # u,
               NEW i \in DOMAIN stack[t], NEW j \in DOMAIN stack[u],
               InQueue(stack[t][i]), InQueue(stack[u][j])
        PROVE  stack[t][i].q # stack[u][j].q
    <3>1. stack[t] \in Seq(Frames) /\ stack[u] \in Seq(Frames)
      BY DEF StackInv
    <3>2. i \in 1..Len(stack[t]) /\ j \in 1..Len(stack[u])
      BY <3>1
    <3> QED
      BY <2>1, <3>2, Excluded
  <2>2. ASSUME NEW t \in Threads, stack[t] # <<>>
        PROVE  LET f == Top(t)
               IN  /\ f.at \in {"list", "erase"} /\ f.m # Nil =>
                        f.m \in ToSet(messages_[f.q])
                   /\ f.at = "timers" =>
                        f.n <= f.i /\ f.i <= Len(timers[f.q]) + 1
    <3> DEFINE f == Top(t)
    <3>1. /\ LoopOK(f, messages_, timers)
          /\ f.at \in LoopSteps => f.q \in Queues
      BY <2>2, LoopTop, TopFacts DEF OkFrames
    <3> HIDE DEF f
    <3>2. ASSUME f.at \in {"list", "erase"}, f.m # Nil
          PROVE  f.m \in ToSet(messages_[f.q])
      <4>1. Reaches(messages_[f.q], f.m, f.h)
        BY <3>1, <3>2 DEF LoopOK
      <4>2. messages_[f.q] \in Seq(Messages)
        BY <3>1, <3>2 DEF StackInv, LoopSteps
      <4>3. DOMAIN messages_[f.q] = 1..Len(messages_[f.q])
        BY <4>2
      <4> QED
        BY <4>1, <4>3 DEF Reaches, ToSet
    <3>3. f.at = "timers" => f.n <= f.i /\ f.i <= Len(timers[f.q]) + 1
      BY <3>1 DEF LoopOK
    <3> QED
      BY <3>2, <3>3 DEF f
  <2> QED
    BY <2>1, <2>2 DEF LoopsUndisturbed
<1> QED
  BY <1>1, LoopsAreSound, PTL

-----------------------------------------------------------------------------
(* What has been cleared stays clean.                                      *)

\* The contents of the queues only shrink.
Shrinks ==
  \A q \in Queues : /\ ToSet(messages_'[q]) \subseteq ToSet(messages_[q])
                    /\ ToSet(timers'[q]) \subseteq ToSet(timers[q])

LEMMA ContentsShrink ==
  ASSUME StackInv, [Next]_vars
  PROVE  Shrinks
<1>1. /\ messages_ \in [Queues -> Seq(Messages)]
      /\ timers \in [Queues -> Seq(Messages)]
  BY DEF StackInv
<1>2. CASE UNCHANGED contents
  BY <1>2 DEF contents, Shrinks
<1>3. ASSUME NEW t \in Threads, ListErase(t) PROVE Shrinks
  <2> DEFINE q == Top(t).q
             s == messages_[q]
  <2>1. PICK k \in DOMAIN s :
               messages_' = [messages_ EXCEPT ![q] = RemoveAt(s, k)]
    BY <1>3 DEF ListErase
  <2>2. q \in Queues /\ timers' = timers
    BY <1>3, TopFacts DEF ListErase, At, LoopSteps
  <2> HIDE DEF q
  <2>3. s \in Seq(Messages) /\ k \in 1..Len(s)
    BY <1>1, <2>1, <2>2, ElementsIn
  <2> DEFINE z == RemoveAt(s, k)
  <2>4. /\ z \in Seq(Messages) /\ Len(z) = Len(s) - 1 /\ Len(z) \in Nat
        /\ \A j \in 1..Len(z) : z[j] = IF j < k THEN s[j] ELSE s[j + 1]
    BY <2>3, RemovedAt
  <2> HIDE DEF z
  <2>5. /\ DOMAIN z = 1..Len(z) /\ DOMAIN s = 1..Len(s)
        /\ \A j \in 1..Len(z) : j \in 1..Len(s) /\ j + 1 \in 1..Len(s)
    BY <2>3, <2>4, ElementsIn
  <2>6. ToSet(z) \subseteq ToSet(s)
    BY <2>4, <2>5 DEF ToSet
  <2>7. \A p \in Queues : messages_'[p] = IF p = q THEN z ELSE messages_[p]
    BY <1>1, <2>1 DEF z
  <2> QED
    BY <2>2, <2>6, <2>7 DEF Shrinks
<1>4. ASSUME NEW t \in Threads, TimerKeep(t) PROVE Shrinks
  <2> DEFINE f == Top(t)
             q == f.q
             s == timers[q]
             z == [s EXCEPT ![f.n] = s[f.i]]
  <2>1. /\ timers' = [timers EXCEPT ![q] = z] /\ messages_' = messages_
        /\ f.i <= Len(s)
    BY <1>4 DEF TimerKeep
  <2>2. q \in Queues /\ f \in Frames
    BY <1>4, TopFacts DEF TimerKeep, At, LoopSteps
  <2>3. f.i \in Nat \ {0} /\ f.n \in Nat \ {0}
    BY <2>2, FrameFields
  <2> HIDE DEF f, q
  <2>4. s \in Seq(Messages) /\ DOMAIN s = 1..Len(s) /\ Len(s) \in Nat
    <3>1. s \in Seq(Messages)
      BY <1>1, <2>2
    <3> QED
      BY <3>1, ElementsIn
  <2>5. f.i \in DOMAIN s
    BY <2>1, <2>3, <2>4
  <2>6. DOMAIN z = DOMAIN s
    OBVIOUS
  <2>7. \A j \in DOMAIN s : z[j] = s[j] \/ z[j] = s[f.i]
    OBVIOUS
  <2> HIDE DEF z
  <2>8. ToSet(z) \subseteq ToSet(s)
    BY <2>5, <2>6, <2>7 DEF ToSet
  <2>9. \A p \in Queues : timers'[p] = IF p = q THEN z ELSE timers[p]
    BY <1>1, <2>1
  <2> QED
    BY <2>1, <2>8, <2>9 DEF Shrinks
<1>5. ASSUME NEW t \in Threads, TimersEnd(t) PROVE Shrinks
  <2> DEFINE f == Top(t)
             q == f.q
             s == timers[q]
             h == SubSeq(s, 1, f.n - 1)
  <2>1. PICK y \in Reheaped(h) : timers' = [timers EXCEPT ![q] = y]
    BY <1>5 DEF TimersEnd
  <2>2. messages_' = messages_ /\ f.i = Len(s) + 1
    BY <1>5 DEF TimersEnd
  <2>3. q \in Queues /\ f \in Frames
    BY <1>5, TopFacts DEF TimersEnd, At, LoopSteps
  <2>4. f.n \in Nat \ {0} /\ f.n <= Len(s) + 1
    BY <2>2, <2>3, FrameFields
  <2> HIDE DEF f, q
  <2>5. s \in Seq(Messages) /\ DOMAIN s = 1..Len(s) /\ Len(s) \in Nat
    <3>1. s \in Seq(Messages)
      BY <1>1, <2>3
    <3> QED
      BY <3>1, ElementsIn
  <2> HIDE DEF s
  <2>6. /\ h \in Seq(Messages) /\ Len(h) = f.n - 1
        /\ \A k \in 1..(f.n - 1) : h[k] = s[k]
    BY <2>4, <2>5, HeadPart
  <2> HIDE DEF h
  <2>7. PICK p \in [1..(f.n - 1) -> 1..(f.n - 1)] :
               \A k \in 1..(f.n - 1) : y[k] = h[p[k]]
    BY <2>6, Reheaping
  <2>8. DOMAIN y = 1..(f.n - 1)
    <3>1. y \in Seq(Messages) /\ Len(y) = f.n - 1
      BY <2>6, Reheaping
    <3> QED
      BY <3>1, ElementsIn
  <2>9. \A k \in DOMAIN y : p[k] \in DOMAIN s /\ y[k] = s[p[k]]
    <3>1. 1..(f.n - 1) \subseteq DOMAIN s
      BY <2>4, <2>5
    <3> QED
      BY <2>6, <2>7, <2>8, <3>1
  <2>10. ToSet(y) \subseteq ToSet(s)
    BY <2>9 DEF ToSet
  <2>11. \A o \in Queues : timers'[o] = IF o = q THEN y ELSE timers[o]
    BY <1>1, <2>1
  <2> QED
    BY <2>2, <2>10, <2>11 DEF Shrinks, s
<1>6. ASSUME NEW t \in Threads, NEW c \in Calls, CallBegin(t, c)
      PROVE  UNCHANGED contents
  BY <1>6 DEF CallBegin, ClearAllBegin, ClearBegin, DestroyBegin, AddBegin,
     Begin
<1>7. ASSUME NEW t \in Threads, Step(t)
      PROVE  \/ UNCHANGED contents
             \/ ListErase(t) \/ TimerKeep(t) \/ TimersEnd(t)
  BY <1>7 DEF Step, AddInternal, RemoveInternal, EnterManager, NextQueue,
     ClearAllEnd, EnterQueue, ClearList, ListSkip, ListDelete, ListEnd,
     TimerDelete
<1>8. CASE UNCHANGED vars
  BY <1>2, <1>8 DEF vars
<1> QED
  BY <1>2, <1>3, <1>4, <1>5, <1>6, <1>7, <1>8 DEF Next

\* A queue that is clean stays clean.
LEMMA ClearedStill ==
  ASSUME StackInv, Shrinks, NEW f \in Frames, NEW n,
         Cleared(f, n, message_queues_, messages_, timers)
  PROVE  Cleared(f, n, message_queues_, messages_', timers')
<1>1. \A k \in DOMAIN message_queues_ : message_queues_[k] \in Queues
  BY ElementsIn DEF StackInv, Listing
<1>2. ASSUME NEW q \in Queues, NEW h, Clean(q, h, messages_, timers)
      PROVE  Clean(q, h, messages_', timers')
  BY <1>2 DEF Clean, Shrinks
<1> QED
  BY <1>1, <1>2 DEF Cleared

LEMMA WaitingStill ==
  ASSUME StackInv, Shrinks,
         NEW r \in Seq(Waiting(message_queues_, messages_, timers))
  PROVE  r \in Seq(Waiting(message_queues_, messages_', timers'))
<1>1. ASSUME NEW j \in 1..Len(r)
      PROVE  r[j] \in Waiting(message_queues_, messages_', timers')
  <2>1. /\ r[j] \in Frames
        /\ Cleared(r[j], r[j].i - 2, message_queues_, messages_, timers)
    BY ElementsIn DEF Waiting
  <2>2. Cleared(r[j], r[j].i - 2, message_queues_, messages_', timers')
    BY <2>1, ClearedStill
  <2> QED
    BY <2>1, <2>2 DEF Waiting
<1> QED
  BY <1>1, SeqSub

LEMMA CleanKept ==
  ASSUME StackInv, CleanInv, Shrinks, NEW t \in Threads, NEW X,
         stack' = [stack EXCEPT ![t] = X],
         UNCHANGED message_queues_,
         QueuesClean(X, message_queues_, messages_', timers'),
         \A c \in returned' \ returned : Kind[c] = "clearall" =>
           \A q \in ToSet(message_queues_) :
             Clean(q, For[c], messages_, timers)
  PROVE  CleanInv'
<1>1. stack \in [Threads -> Seq(Frames)]
  BY DEF StackInv
<1>2. stack'[t] = X /\ \A u \in Threads : u # t => stack'[u] = stack[u]
  BY <1>1
<1>3. \A q \in ToSet(message_queues_) : q \in Queues
  BY ElementsIn DEF StackInv, Listing, ToSet
<1>4. ClearsAll'
  <2> SUFFICES ASSUME NEW c \in returned', Kind[c] = "clearall",
                      NEW q \in ToSet(message_queues_), NEW m \in Messages,
                      HandlerOf[m] = For[c]
               PROVE  m \notin ToSet(messages_'[q]) \cup ToSet(timers'[q])
    BY DEF ClearsAll
  <2>1. m \notin ToSet(messages_[q]) \cup ToSet(timers[q])
    <3>1. CASE c \in returned
      BY <3>1 DEF CleanInv, ClearsAll
    <3>2. CASE c \notin returned
      BY <3>2 DEF Clean
    <3> QED
      BY <3>1, <3>2
  <2> QED
    BY <1>3, <2>1 DEF Shrinks
<1>5. ASSUME NEW u \in Threads
      PROVE  QueuesClean(stack'[u], message_queues_, messages_', timers')
  <2>1. CASE u = t
    BY <1>2, <2>1
  <2>2. CASE u # t
    <3>1. QueuesClean(stack[u], message_queues_, messages_, timers)
      BY DEF CleanInv
    <3>2. QueuesClean(stack[u], message_queues_, messages_', timers')
      <4>1. ASSUME stack[u] # <<>>
            PROVE  stack[u][1] \in Frames
        BY <1>1, <4>1, TopAndRest
      <4> QED
        BY <3>1, <4>1, ClearedStill, WaitingStill DEF QueuesClean
    <3> QED
      BY <1>2, <2>2, <3>2
  <2> QED
    BY <2>1, <2>2
<1> QED
  BY <1>4, <1>5 DEF CleanInv

\* The topmost call of a thread goes on, makes another call, or returns.
LEMMA CleanTail ==
  ASSUME StackInv, CleanInv, Shrinks, NEW t \in Threads, stack[t] # <<>>
  PROVE  LET f == Top(t)
             r == Tail(stack[t])
             mq == message_queues_
         IN  /\ f \in Frames /\ r \in Seq(Frames)
             /\ Cleared(f, f.i - 1, mq, messages_, timers)
             /\ r \in Seq(Waiting(mq, messages_', timers'))
<1> DEFINE f == Top(t)
           r == Tail(stack[t])
           mq == message_queues_
<1>1. f \in Frames /\ r \in Seq(Frames)
  BY TopFacts
<1>2. QueuesClean(stack[t], mq, messages_, timers)
  BY DEF CleanInv
<1>3. /\ Cleared(f, f.i - 1, mq, messages_, timers)
      /\ r \in Seq(Waiting(mq, messages_, timers))
  BY <1>2 DEF QueuesClean, Top
<1>4. r \in Seq(Waiting(mq, messages_', timers'))
  BY <1>3, WaitingStill
<1> QED
  BY <1>1, <1>3, <1>4

LEMMA CleanGoesOn ==
  ASSUME StackInv, CleanInv, Shrinks, NEW t \in Threads, stack[t] # <<>>,
         NEW g \in Frames, GoesOn(t, g),
         UNCHANGED <<message_queues_, returned>>,
         Cleared(g, g.i - 1, message_queues_, messages_', timers')
  PROVE  CleanInv'
<1> DEFINE r == Tail(stack[t])
           mq == message_queues_
           X == <<g>> \o r
<1>1. r \in Seq(Frames) /\ r \in Seq(Waiting(mq, messages_', timers'))
  BY CleanTail
<1>2. stack' = [stack EXCEPT ![t] = X]
  BY DEF GoesOn
<1> HIDE DEF r
<1>3. X # <<>> /\ X[1] = g /\ Tail(X) = r
  BY <1>1, OnTop
<1> HIDE DEF X
<1>4. QueuesClean(X, mq, messages_', timers')
  BY <1>1, <1>3 DEF QueuesClean
<1> QED
  BY <1>2, <1>4, CleanKept

LEMMA CleanCallsIn ==
  ASSUME StackInv, CleanInv, Shrinks, NEW t \in Threads, stack[t] # <<>>,
         NEW g \in Waiting(message_queues_, messages_', timers'),
         NEW e \in Frames, e.at # "queues", CallsIn(t, g, e),
         UNCHANGED <<message_queues_, returned>>
  PROVE  CleanInv'
<1> DEFINE r == Tail(stack[t])
           mq == message_queues_
           W == Waiting(mq, messages_', timers')
           Y == <<g>> \o r
           X == <<e, g>> \o r
<1>1. r \in Seq(Frames) /\ r \in Seq(W) /\ g \in Frames
  BY CleanTail DEF Waiting
<1>2. stack' = [stack EXCEPT ![t] = X]
  BY DEF CallsIn
<1> HIDE DEF r, W
<1>3. g \in W
  BY DEF W
<1>4. Y \in Seq(W) /\ Y \in Seq(Frames) /\ X = <<e>> \o Y
  BY <1>1, <1>3, SeqOnTop, ConcatTwo
<1> HIDE DEF X, Y
<1>5. X # <<>> /\ X[1] = e /\ Tail(X) = Y
  BY <1>4, OnTop
<1>6. QueuesClean(X, mq, messages_', timers')
  BY <1>4, <1>5 DEF QueuesClean, Cleared, W
<1> QED
  BY <1>2, <1>6, CleanKept

LEMMA CleanPops ==
  ASSUME StackInv, CleanInv, Shrinks, NEW t \in Threads, stack[t] # <<>>,
         Pops(t), UNCHANGED message_queues_,
         LET r == Tail(stack[t])
         IN  r # <<>> => Cleared(r[1], r[1].i - 1, message_queues_, messages_',
                                 timers'),
         Top(t).call # Nil /\ Kind[Top(t).call] = "clearall" =>
           \A q \in ToSet(message_queues_) :
             Clean(q, For[Top(t).call], messages_, timers)
  PROVE  CleanInv'
<1> DEFINE r == Tail(stack[t])
           mq == message_queues_
           W == Waiting(mq, messages_', timers')
<1>1. r \in Seq(W)
  BY CleanTail
<1>2. stack' = [stack EXCEPT ![t] = r]
  BY DEF Pops
<1>3. \A c \in returned' \ returned : c = Top(t).call /\ c # Nil
  BY DEF Pops
<1>4. r # <<>> => Cleared(r[1], r[1].i - 1, mq, messages_', timers')
  OBVIOUS
<1> HIDE DEF r, W
<1>5. r # <<>> => Tail(r) \in Seq(W)
  BY <1>1, TopAndRest
<1>6. QueuesClean(r, mq, messages_', timers')
  BY <1>4, <1>5 DEF QueuesClean, W
<1>7. \A c \in returned' \ returned : Kind[c] = "clearall" =>
        \A q \in ToSet(mq) : Clean(q, For[c], messages_, timers)
  BY <1>3
<1> QED
  BY <1>2, <1>6, <1>7, CleanKept

\* Nil is in ThreadManager::Clear.
LEMMA NoneClears ==
  ASSUME NEW s \in Seq(Frames), ManagerCalls(s) = {}, NEW mq, NEW ms, NEW ts
  PROVE  QueuesClean(s, mq, ms, ts)
<1>1. DOMAIN s = 1..Len(s) /\ Len(s) \in Nat
  OBVIOUS
<1>2. \A k \in 1..Len(s) : s[k] \in Frames /\ s[k].at # "queues"
  BY <1>1, ElementsIn DEF ManagerCalls, InManager
<1>3. \A k \in 1..Len(s) : s[k] \in Waiting(mq, ms, ts)
  BY <1>2 DEF Waiting, Cleared
<1>4. s \in Seq(Waiting(mq, ms, ts))
  BY <1>3, SeqSub
<1>5. ASSUME s # <<>>
      PROVE  Tail(s) \in Seq(Waiting(mq, ms, ts))
  BY <1>4, <1>5, TopAndRest
<1>6. ASSUME s # <<>> PROVE Cleared(s[1], s[1].i - 1, mq, ms, ts)
  <2>1. 1 \in 1..Len(s)
    BY <1>6
  <2> QED
    BY <1>2, <2>1 DEF Cleared
<1> QED
  BY <1>5, <1>6 DEF QueuesClean

\* Steps within the loops, and into the sections.
LEMMA CleanLoops ==
  ASSUME StackInv, CleanInv, Shrinks, NEW t \in Threads,
         \/ EnterQueue(t) \/ ClearList(t) \/ ListSkip(t) \/ ListDelete(t)
         \/ ListErase(t) \/ ListEnd(t) \/ TimerDelete(t) \/ TimerKeep(t)
  PROVE  CleanInv'
<1> DEFINE f == Top(t)
           mq == message_queues_
<1>1. /\ stack[t] # <<>> /\ f.at \in {"enter queue"} \cup LoopSteps
      /\ UNCHANGED <<message_queues_, returned>>
  BY DEF EnterQueue, ClearList, ListSkip, ListDelete, ListErase, ListEnd,
     TimerDelete, TimerKeep, At, LoopSteps
<1>2. f \in Frames /\ f.q \in Queues
  BY <1>1, TopFacts
<1>3. /\ messages_ \in [Queues -> Seq(Messages)]
      /\ timers \in [Queues -> Seq(Messages)]
  BY DEF StackInv
<1>4. f.at # "queues" /\ LoopSteps \subseteq Steps
  BY <1>1, <1>2, FrameFields DEF LoopSteps, Steps
<1>5. ASSUME NEW g \in Frames, g.at # "queues", GoesOn(t, g)
      PROVE  CleanInv'
  BY <1>1, <1>5, CleanGoesOn DEF Cleared
<1>6. ASSUME NEW at \in LoopSteps, GoesOn(t, [f EXCEPT !.at = at])
      PROVE  CleanInv'
  <2> DEFINE g == [f EXCEPT !.at = at]
  <2>1. g \in Frames /\ g.at = at
    BY <1>2, <1>4, FrameSteps
  <2>2. g.at # "queues" /\ GoesOn(t, g)
    BY <1>6, <2>1 DEF LoopSteps
  <2> HIDE DEF g
  <2> QED
    BY <1>5, <2>1, <2>2
<1>7. ASSUME NEW at \in LoopSteps, NEW m \in Messages \cup {Nil},
             GoesOn(t, [f EXCEPT !.at = at, !.m = m])
      PROVE  CleanInv'
  <2> DEFINE g == [f EXCEPT !.at = at, !.m = m]
  <2>1. g \in Frames /\ g.at = at
    BY <1>2, <1>4 DEF Frames, Records
  <2>2. g.at # "queues" /\ GoesOn(t, g)
    BY <1>7, <2>1 DEF LoopSteps
  <2> HIDE DEF g
  <2> QED
    BY <1>5, <2>1, <2>2
<1>8. ASSUME NEW g \in Frames, g.at # "queues", NEW m \in Messages,
             DeletePayload(t, g, m)
      PROVE  CleanInv'
  <2>1. CASE Reenters[m] = Nil
    BY <1>5, <1>8, <2>1 DEF DeletePayload
  <2>2. CASE Reenters[m] # Nil
    <3> DEFINE e == NewCall("enter manager", Nil, Reenters[m], Nil)
    <3>1. e \in Frames
      BY <2>2, ManagerCallType, ManagerClearAssumption
    <3>2. e.at # "queues"
      BY DEF NewCall
    <3>3. CallsIn(t, g, e)
      BY <1>8, <2>2 DEF DeletePayload
    <3> HIDE DEF e
    <3>4. g \in Waiting(mq, messages_', timers')
      BY <1>8 DEF Waiting, Cleared
    <3> QED
      BY <1>1, <3>1, <3>2, <3>3, <3>4, CleanCallsIn
  <2> QED
    BY <2>1, <2>2
<1>9. /\ "clear" \in LoopSteps /\ "list" \in LoopSteps
      /\ "erase" \in LoopSteps /\ "timers" \in LoopSteps
  BY DEF LoopSteps
<1>10. /\ messages_[f.q] \in Seq(Messages) /\ timers[f.q] \in Seq(Messages)
       /\ \A k \in DOMAIN messages_[f.q] :
            After(messages_[f.q], k) \in Messages \cup {Nil}
  <2>1. messages_[f.q] \in Seq(Messages) /\ timers[f.q] \in Seq(Messages)
    BY <1>2, <1>3
  <2>2. ASSUME NEW s \in Seq(Messages), NEW k \in DOMAIN s
        PROVE  After(s, k) \in Messages \cup {Nil}
    BY ElementsIn DEF After
  <2> QED
    BY <2>1, <2>2
<1>11. CASE EnterQueue(t)
  BY <1>6, <1>9, <1>11 DEF EnterQueue
<1>12. CASE ClearList(t)
  <2>1. First(messages_[f.q]) \in Messages \cup {Nil}
    BY <1>10 DEF First
  <2> QED
    BY <1>7, <1>9, <1>12, <2>1 DEF ClearList
<1>13. CASE ListSkip(t)
  <2>1. PICK k \in DOMAIN messages_[f.q] :
               GoesOn(t, [f EXCEPT !.m = After(messages_[f.q], k)])
    BY <1>13 DEF ListSkip
  <2> DEFINE m == After(messages_[f.q], k)
  <2>2. m \in Messages \cup {Nil}
    BY <1>10
  <2> HIDE DEF m
  <2>3. [f EXCEPT !.m = m] \in Frames /\ [f EXCEPT !.m = m].at = f.at
    BY <1>2, <2>2 DEF Frames, Records
  <2>4. GoesOn(t, [f EXCEPT !.m = m])
    BY <2>1 DEF m
  <2> QED
    BY <1>4, <1>5, <2>3, <2>4
<1>14. CASE ListDelete(t)
  <2> DEFINE g == [f EXCEPT !.at = "erase"]
  <2>1. g \in Frames /\ g.at = "erase"
    BY <1>2, <1>4, <1>9, FrameSteps
  <2>2. f.m \in Messages
    BY <1>10, <1>14, ElementsIn DEF ListDelete, ToSet
  <2>3. DeletePayload(t, g, f.m)
    BY <1>14 DEF ListDelete
  <2> HIDE DEF g
  <2> QED
    BY <1>8, <2>1, <2>2, <2>3
<1>15. CASE ListErase(t)
  <2>1. PICK k \in DOMAIN messages_[f.q] :
          GoesOn(t, [f EXCEPT !.at = "list", !.m = After(messages_[f.q], k)])
    BY <1>15 DEF ListErase
  <2> QED
    BY <1>7, <1>9, <1>10, <2>1
<1>16. CASE ListEnd(t)
  BY <1>6, <1>9, <1>16 DEF ListEnd
<1>17. CASE TimerDelete(t)
  <2> DEFINE g == [f EXCEPT !.i = @ + 1]
  <2>1. g \in Frames /\ g.at = f.at
    BY <1>2, FrameAdvances
  <2>2. /\ f.i <= Len(timers[f.q])
        /\ DeletePayload(t, g, timers[f.q][f.i])
    BY <1>17 DEF TimerDelete
  <2>3. timers[f.q][f.i] \in Messages
    <3>1. f.i \in 1..Len(timers[f.q])
      BY <1>2, <1>10, <2>2, FrameFields
    <3> QED
      BY <1>10, <3>1, ElementsIn
  <2> HIDE DEF g
  <2> QED
    BY <1>4, <1>8, <2>1, <2>2, <2>3
<1>18. CASE TimerKeep(t)
  <2> DEFINE g == [f EXCEPT !.i = @ + 1, !.n = @ + 1]
  <2>1. g \in Frames /\ g.at = f.at
    BY <1>2, FrameKeeps
  <2>2. GoesOn(t, g)
    BY <1>18 DEF TimerKeep
  <2> HIDE DEF g
  <2> QED
    BY <1>4, <1>5, <2>1, <2>2
<1> QED
  BY <1>11, <1>12, <1>13, <1>14, <1>15, <1>16, <1>17, <1>18

\* A queue that Thread::Clear leaves is clean.
LEMMA CleanTimersEnd ==
  ASSUME NEW rank, StackInv, LoopInv(rank), CleanInv, Shrinks,
         NEW t \in Threads, TimersEnd(t)
  PROVE  CleanInv'
<1> DEFINE f == Top(t)
           r == Tail(stack[t])
           mq == message_queues_
<1>1. /\ stack[t] # <<>> /\ f.at = "timers" /\ Pops(t)
      /\ UNCHANGED <<message_queues_, messages_>>
  BY DEF TimersEnd, At
<1>queue. PICK q \in Queues : q = f.q
  BY <1>1, TopFacts DEF LoopSteps
<1> DEFINE s == timers[q]
           h == SubSeq(s, 1, f.n - 1)
<1>2. /\ f \in Frames /\ r \in Seq(Frames) /\ Fits(t, f, r, mq, open)
      /\ LoopOK(f, messages_, timers)
      /\ r \in Seq(Waiting(mq, messages_', timers'))
  BY <1>1, LoopTop, TopFacts, CleanTail DEF OkFrames
<1>3. f.at \notin ManagerSteps /\ f.at # "queues"
  BY <1>1 DEF ManagerSteps
<1>4. /\ messages_ \in [Queues -> Seq(Messages)]
      /\ timers \in [Queues -> Seq(Messages)]
  BY DEF StackInv
<1>5. Clean(q, f.h, messages_', timers')
  <2>1. PICK y \in Reheaped(h) : timers' = [timers EXCEPT ![q] = y]
    BY <1>queue DEF TimersEnd
  <2>2. f.i = Len(s) + 1
    BY <1>queue DEF TimersEnd
  <2>3. f.n \in Nat \ {0} /\ f.n <= Len(s) + 1
    BY <1>2, <2>2, FrameFields
  <2>4. KeptBefore(messages_[q], Len(messages_[q]) + 1, f.h)
    BY <1>1, <1>2, <1>queue DEF LoopOK
  <2>5. KeptBefore(s, f.n, f.h)
    BY <1>1, <1>2, <1>queue DEF LoopOK
  <2>6. s \in Seq(Messages) /\ messages_[q] \in Seq(Messages)
    BY <1>4
  <2>7. timers'[q] = y
    BY <1>4, <2>1
  <2> HIDE DEF s, f
  <2>8. /\ h \in Seq(Messages) /\ Len(h) = f.n - 1
        /\ \A k \in 1..(f.n - 1) : h[k] = s[k]
    BY <2>3, <2>6, HeadPart
  <2> HIDE DEF h
  <2>9. PICK p \in [1..(f.n - 1) -> 1..(f.n - 1)] :
               \A k \in 1..(f.n - 1) : y[k] = h[p[k]]
    BY <2>8, Reheaping
  <2>10. DOMAIN y = 1..(f.n - 1)
    <3>1. y \in Seq(Messages) /\ Len(y) = f.n - 1
      BY <2>8, Reheaping
    <3> QED
      BY <3>1, ElementsIn
  <2>11. \A k \in DOMAIN y : ~Match(y[k], f.h)
    BY <2>5, <2>8, <2>9, <2>10 DEF KeptBefore
  <2>12. \A k \in DOMAIN messages_[q] : ~Match(messages_[q][k], f.h)
    <3>1. /\ DOMAIN messages_[q] = 1..Len(messages_[q])
          /\ Len(messages_[q]) \in Nat
      BY <2>6, ElementsIn
    <3>2. (Len(messages_[q]) + 1) - 1 = Len(messages_[q])
      BY <3>1
    <3> QED
      BY <2>4, <3>1, <3>2 DEF KeptBefore
  <2>13. \A m \in ToSet(y) \cup ToSet(messages_[q]) : ~Match(m, f.h)
    BY <2>11, <2>12 DEF ToSet
  <2> QED
    BY <1>1, <2>7, <2>13 DEF Clean, Match
<1>6. ASSUME r # <<>>
      PROVE  Cleared(r[1], r[1].i - 1, mq, messages_', timers')
  <2> DEFINE g == r[1]
  <2>1. CalledBy(f, g, mq)
    BY <1>2, <1>6 DEF Fits
  <2>2. g \in Waiting(mq, messages_', timers')
    BY <1>2, <1>6, TopAndRest
  <2>3. CASE g.at # "queues"
    BY <2>3 DEF Cleared
  <2>4. CASE g.at = "queues"
    <3>1. f.h = g.h /\ f.q = mq[g.i - 1]
      BY <1>3, <2>1, <2>4 DEF CalledBy
    <3>2. \A k \in 1..(g.i - 2) :
            k \in DOMAIN mq => Clean(mq[k], g.h, messages_', timers')
      BY <2>2, <2>4 DEF Waiting, Cleared
    <3>3. g.i \in Nat \ {0}
      BY <2>2, FrameFields DEF Waiting
    <3>4. Clean(mq[g.i - 1], g.h, messages_', timers')
      BY <1>5, <1>queue, <3>1
    <3> HIDE DEF g
    <3>5. \A k \in 1..(g.i - 1) : k \in 1..(g.i - 2) \/ k = g.i - 1
      BY <3>3
    <3>6. Cleared(g, g.i - 1, mq, messages_', timers')
      BY <3>2, <3>4, <3>5 DEF Cleared
    <3> QED
      BY <3>6 DEF g
  <2> QED
    BY <2>3, <2>4
<1>7. ~(f.call # Nil /\ Kind[f.call] = "clearall")
  BY <1>2, <1>3 DEF Fits, OfCall, CalledBy
<1> QED
  BY <1>1, <1>6, <1>7, CleanPops

\* The steps of ThreadManager::Clear.
LEMMA CleanManager ==
  ASSUME NEW rank, StackInv, LoopInv(rank), CleanInv, Shrinks,
         NEW t \in Threads,
         EnterManager(t) \/ NextQueue(t) \/ ClearAllEnd(t)
  PROVE  CleanInv'
<1> DEFINE f == Top(t)
           r == Tail(stack[t])
           mq == message_queues_
<1>1. /\ stack[t] # <<>> /\ f.at \in ManagerSteps
      /\ UNCHANGED <<message_queues_, contents>>
  BY DEF EnterManager, NextQueue, ClearAllEnd, At, ManagerSteps
<1>2. /\ f \in Frames /\ r \in Seq(Frames) /\ Fits(t, f, r, mq, open)
      /\ LoopOK(f, messages_, timers)
      /\ Cleared(f, f.i - 1, mq, messages_, timers)
  BY <1>1, LoopTop, TopFacts, CleanTail DEF OkFrames
<1>3. /\ mq \in Seq(Queues) /\ DOMAIN mq = 1..Len(mq) /\ Len(mq) \in Nat
      /\ open \in SUBSET Calls
  BY DEF StackInv, Listing, open
<1>4. f.i \in Nat \ {0} /\ f.h \in Handlers \cup {Nil}
  BY <1>2, FrameFields
<1>5. messages_' = messages_ /\ timers' = timers
  BY <1>1 DEF contents
<1>6. "queues" \in Steps /\ "enter queue" \in Steps
  BY DEF Steps, ManagerSteps
<1>7. CASE EnterManager(t)
  <2> DEFINE g == [f EXCEPT !.at = "queues"]
  <2>1. /\ f.at = "enter manager" /\ GoesOn(t, g)
        /\ UNCHANGED <<message_queues_, returned>>
    BY <1>7 DEF EnterManager, At
  <2>2. g \in Frames /\ g.i = f.i
    BY <1>2, <1>6, FrameSteps
  <2>3. f.i = 1
    BY <1>2, <2>1 DEF LoopOK
  <2> HIDE DEF g
  <2>4. \A k \in 1..(g.i - 1) : FALSE
    BY <2>2, <2>3
  <2>5. Cleared(g, g.i - 1, mq, messages_', timers')
    BY <2>4 DEF Cleared
  <2> QED
    BY <1>1, <2>1, <2>2, <2>5, CleanGoesOn
<1>8. CASE NextQueue(t)
  <2> DEFINE g == [f EXCEPT !.i = @ + 1]
             e == NewCall("enter queue", Nil, f.h, mq[f.i])
  <2>1. /\ f.at = "queues" /\ CallsIn(t, g, e) /\ f.i <= Len(mq)
        /\ UNCHANGED <<message_queues_, returned>>
    BY <1>8 DEF NextQueue, At
  <2>2. g \in Frames /\ g.at = "queues" /\ g.h = f.h /\ g.i = f.i + 1
    BY <1>2, <2>1, FrameAdvances
  <2>3. mq[f.i] \in Queues
    <3>1. f.i \in Nat \ {0} /\ f.i <= Len(mq)
      BY <1>4, <2>1
    <3>2. Len(mq) \in Nat
      BY <1>3
    <3> HIDE DEF f
    <3>3. f.i \in 1..Len(mq)
      BY <3>1, <3>2
    <3> QED
      BY <1>3, <3>3, ElementsIn
  <2>4. e \in Frames
    <3>1. \A at \in Steps : NewCall(at, Nil, f.h, mq[f.i]) \in Frames
      BY <1>4, <2>3, NewCallType
    <3> QED
      BY <1>6, <3>1
  <2>5. e.at # "queues"
    BY DEF NewCall
  <2> HIDE DEF g, e
  <2>6. g.i - 2 = f.i - 1
    BY <1>4, <2>2
  <2>7. Cleared(g, g.i - 2, mq, messages_', timers')
    BY <1>2, <1>5, <2>1, <2>2, <2>6 DEF Cleared
  <2>8. g \in Waiting(mq, messages_', timers')
    BY <2>2, <2>7 DEF Waiting
  <2> QED
    BY <1>1, <2>1, <2>4, <2>5, <2>8, CleanCallsIn
\* When it has gone through the list, all the queues are clean.
<1>9. CASE ClearAllEnd(t)
  <2>1. f.at = "queues" /\ f.i > Len(mq) /\ Pops(t)
    BY <1>9 DEF ClearAllEnd, At
  <2>2. ASSUME NEW q \in ToSet(mq) PROVE Clean(q, f.h, messages_, timers)
    <3>1. PICK k \in 1..Len(mq) : mq[k] = q
      BY <1>3 DEF ToSet
    <3>2. k \in 1..(f.i - 1)
      BY <1>3, <1>4, <2>1
    <3> QED
      BY <1>2, <1>3, <2>1, <3>1, <3>2 DEF Cleared
  <2>3. ASSUME f.call # Nil, Kind[f.call] = "clearall"
        PROVE  \A q \in ToSet(mq) : Clean(q, For[f.call], messages_, timers)
    <3>1. r = <<>>
      BY <1>2, <2>3 DEF Fits, CalledBy
    <3>2. f.h = For[f.call]
      BY <1>2, <2>3, <3>1 DEF Fits, OfCall
    <3> QED
      BY <2>2, <3>2
  <2>4. ASSUME r # <<>>
        PROVE  Cleared(r[1], r[1].i - 1, mq, messages_', timers')
    <3>1. CalledBy(f, r[1], mq)
      BY <1>2, <2>4 DEF Fits
    <3>2. r[1].at # "queues"
      BY <2>1, <3>1 DEF CalledBy, LoopSteps
    <3> QED
      BY <3>2 DEF Cleared
  <2> QED
    BY <1>1, <2>1, <2>3, <2>4, CleanPops
<1> QED
  BY <1>7, <1>8, <1>9

LEMMA CleanBegins ==
  ASSUME StackInv, CleanInv, Shrinks, NEW t \in Threads, NEW c \in Calls,
         CallBegin(t, c)
  PROVE  CleanInv'
<1>1. \E at \in {"enter manager", "enter queue", "remove", "add"} :
        Begin(t, c) /\ Starts(t, c, at)
  BY DEF CallBegin, ClearAllBegin, ClearBegin, DestroyBegin, AddBegin
<1>2. PICK at \in Steps : /\ Begin(t, c) /\ Starts(t, c, at)
                          /\ at # "queues"
  BY <1>1 DEF Steps, ManagerSteps
<1> DEFINE g == NewCall(at, c, For[c], About[c])
           X == <<g>>
<1>3. For[c] \in Handlers \cup {Nil} /\ About[c] \in Queues \cup {Nil}
  BY ManagerClearAssumption
<1>4. g \in Frames
  BY <1>3, NewCallType
<1>5. g.at # "queues"
  BY <1>2 DEF NewCall
<1>6. /\ stack' = [stack EXCEPT ![t] = X]
      /\ UNCHANGED <<message_queues_, returned>>
  BY <1>2 DEF Starts, Begin
<1> HIDE DEF g
<1>7. X[1] = g /\ Tail(X) = <<>>
  OBVIOUS
<1> HIDE DEF X
<1>8. QueuesClean(X, message_queues_, messages_', timers')
  <2> DEFINE W == Waiting(message_queues_, messages_', timers')
  <2>1. <<>> \in Seq(W)
    OBVIOUS
  <2> QED
    BY <1>5, <1>7, <2>1 DEF QueuesClean, Cleared
<1> QED
  BY <1>6, <1>8, CleanKept

\* Steps that change the list, when no thread is in ThreadManager::Clear.
LEMMA CleanList ==
  ASSUME NEW rank, CallsOnce, UnlistedEmpty, StackInv, LoopInv(rank),
         CleanInv, NEW t \in Threads, AddInternal(t) \/ RemoveInternal(t)
  PROVE  CleanInv'
<1> DEFINE f == Top(t)
           r == Tail(stack[t])
           mq == message_queues_
<1>1. /\ stack[t] # <<>> /\ f.at \in {"add", "remove"} /\ processing_ = 0
      /\ UNCHANGED contents
  BY DEF AddInternal, RemoveInternal, At
<1>2. /\ f \in Frames /\ r \in Seq(Frames) /\ Fits(t, f, r, mq, open)
  BY <1>1, TopFacts
<1>3. /\ mq \in Seq(Queues) /\ IsInjective(mq) /\ open \in SUBSET Calls
      /\ stack \in [Threads -> Seq(Frames)]
  BY DEF StackInv, Listing, open
<1>4. messages_' = messages_ /\ timers' = timers
  BY <1>1 DEF contents
<1>5. /\ r = <<>> /\ f.call \in Calls /\ f.q = About[f.call]
      /\ Kind[f.call] = IF f.at = "add" THEN "add" ELSE "destroy"
  BY <1>1, <1>2, <1>3, AloneOnStack
\* The list may only get a queue that is empty.
<1>6. /\ \A q \in ToSet(message_queues_') :
           q \in ToSet(mq) \/ \A m : m \notin ToSet(messages_[q]) \cup
                                              ToSet(timers[q])
      /\ \E X \in Seq(Frames) : /\ stack' = [stack EXCEPT ![t] = X]
                                /\ ManagerCalls(X) = {}
      /\ \A c \in returned' \ returned : Kind[c] = "add"
  <2>1. CASE AddInternal(t)
    <3>1. /\ f.at = "add" /\ message_queues_' = Append(mq, f.q)
          /\ stack' = [stack EXCEPT ![t] = r]
          /\ returned' = returned \cup ({f.call} \ {Nil})
      BY <2>1 DEF AddInternal, At, Pops
    <3>2. Kind[f.call] = "add" /\ f.q \in Queues \ ToSet(Listed)
      BY <1>5, <3>1, ManagerClearAssumption DEF CallsOnce
    <3>3. Ready[f.q] = <<>> /\ Timers[f.q] = <<>>
      BY <3>2 DEF UnlistedEmpty
    <3>4. /\ ToSet(messages_[f.q]) \subseteq ToSet(Ready[f.q])
          /\ ToSet(timers[f.q]) \subseteq ToSet(Timers[f.q])
      BY <3>2 DEF LoopInv, Places
    <3>5. \A m : m \notin ToSet(messages_[f.q]) \cup ToSet(timers[f.q])
      <4>1. ToSet(<<>>) = {}
        BY DEF ToSet
      <4> QED
        BY <3>3, <3>4, <4>1
    <3> HIDE DEF f, r
    <3>6. \A q \in ToSet(Append(mq, f.q)) : q \in ToSet(mq) \/ q = f.q
      BY <1>3, <3>2 DEF ToSet
    <3>7. ManagerCalls(r) = {} /\ r \in Seq(Frames)
      BY <1>2, <1>5 DEF ManagerCalls
    <3> QED
      BY <3>1, <3>2, <3>5, <3>6, <3>7
  <2>2. CASE RemoveInternal(t)
    <3> DEFINE g == [f EXCEPT !.at = "clear", !.h = Nil, !.locked = FALSE]
               X == <<g>>
    <3>1. /\ message_queues_' = RemoveFirst(mq, f.q)
          /\ GoesOn(t, g) /\ returned' = returned
      BY <2>2 DEF RemoveInternal
    <3>2. g \in Frames /\ g.at = "clear"
      BY <1>2, FrameRemoves
    <3> HIDE DEF g
    <3>3. stack' = [stack EXCEPT ![t] = X]
      <4>1. \A h \in Frames : <<h>> \o <<>> = <<h>>
        OBVIOUS
      <4>2. <<g>> \o r = X
        BY <1>5, <3>2, <4>1
      <4> QED
        BY <3>1, <4>2 DEF GoesOn
    <3>4. DOMAIN X = {1} /\ X[1] = g /\ X \in Seq(Frames)
      BY <3>2
    <3> HIDE DEF X
    <3>5. ManagerCalls(X) = {}
      BY <3>2, <3>4 DEF ManagerCalls, InManager
    <3>6. ToSet(message_queues_') \subseteq ToSet(mq)
      BY <1>3, <3>1, RemovedFirst
    <3> QED
      BY <3>1, <3>3, <3>4, <3>5, <3>6
  <2> QED
    BY <2>1, <2>2
<1>7. ClearsAll'
  <2> SUFFICES ASSUME NEW c \in returned', Kind[c] = "clearall",
                      NEW q \in ToSet(message_queues_'), NEW m \in Messages,
                      HandlerOf[m] = For[c]
               PROVE  m \notin ToSet(messages_'[q]) \cup ToSet(timers'[q])
    BY DEF ClearsAll
  <2>1. c \in returned
    BY <1>6
  <2>2. CASE q \in ToSet(mq)
    BY <1>4, <2>1, <2>2 DEF CleanInv, ClearsAll
  <2>3. CASE q \notin ToSet(mq)
    BY <1>4, <1>6, <2>3
  <2> QED
    BY <2>2, <2>3
<1>8. ASSUME NEW u \in Threads
      PROVE  QueuesClean(stack'[u], message_queues_', messages_', timers')
  <2>1. ManagerCalls(stack[u]) = {} /\ stack[u] \in Seq(Frames)
    BY <1>1, <1>3, NobodyInManager
  <2>2. PICK X \in Seq(Frames) : /\ stack' = [stack EXCEPT ![t] = X]
                                 /\ ManagerCalls(X) = {}
    BY <1>6
  <2>3. stack'[u] = IF u = t THEN X ELSE stack[u]
    BY <1>3, <2>2
  <2>4. stack'[u] \in Seq(Frames) /\ ManagerCalls(stack'[u]) = {}
    BY <2>1, <2>2, <2>3
  <2> QED
    BY <2>4, NoneClears
<1> QED
  BY <1>7, <1>8 DEF CleanInv

LEMMA CleanStep ==
  ASSUME NEW rank, CallsOnce, UnlistedEmpty, StackInv, LoopInv(rank),
         CleanInv, [Next]_vars
  PROVE  CleanInv'
<1>1. Shrinks
  BY ContentsShrink
<1>2. ASSUME NEW t \in Threads, Step(t) PROVE CleanInv'
  <2>1. CASE \/ EnterQueue(t) \/ ClearList(t) \/ ListSkip(t) \/ ListDelete(t)
             \/ ListErase(t) \/ ListEnd(t) \/ TimerDelete(t) \/ TimerKeep(t)
    BY <1>1, <2>1, CleanLoops
  <2>2. CASE TimersEnd(t)
    BY <1>1, <2>2, CleanTimersEnd
  <2>3. CASE EnterManager(t) \/ NextQueue(t) \/ ClearAllEnd(t)
    BY <1>1, <2>3, CleanManager
  <2>4. CASE AddInternal(t) \/ RemoveInternal(t)
    BY <2>4, CleanList
  <2> QED
    BY <1>2, <2>1, <2>2, <2>3, <2>4 DEF Step
<1>3. ASSUME NEW t \in Threads, NEW c \in Calls, CallBegin(t, c)
      PROVE  CleanInv'
  BY <1>1, <1>3, CleanBegins
<1>4. CASE UNCHANGED vars
  BY <1>4 DEF vars, contents, CleanInv, ClearsAll
<1> QED
  BY <1>2, <1>3, <1>4 DEF Next

\* When ThreadManager::Clear has returned, no queue of the list holds a message
\* for the handler it was called for: the handler may be destroyed.
THEOREM ClearsEverything ==
  ASSUME NEW rank, CallsOnce, PayloadsOnce, TimersPlain, Falls(rank),
         UnlistedEmpty
  PROVE  Spec => []ClearsAll
<1>1. Init => CleanInv
  BY DEF Init, CleanInv, ClearsAll, QueuesClean
<1>2. StackInv /\ LoopInv(rank) /\ CleanInv /\ [Next]_vars => CleanInv'
  BY CleanStep
<1>3. Spec => [](StackInv /\ LoopInv(rank))
  BY LoopsAreSound
<1>4. CleanInv => ClearsAll
  BY DEF CleanInv
<1> QED
  BY <1>1, <1>2, <1>3, <1>4, PTL DEF Spec

=============================================================================
