----------------------------- MODULE ManagerClear -----------------------------
(***************************************************************************)
(* How messages are removed from queues: ThreadManager::Clear, Thread::    *)
(* Clear and the destructor of a thread (src/thread.cc:38-57, 76-105,      *)
(* 140-152, 267-284, 502-549, 1028-1033), with the recursive critical      *)
(* sections they take (src/critical_section.cc:33-83).                     *)
(*                                                                         *)
(* The payload that is deleted with a message may own objects whose        *)
(* destructors call ThreadManager::Clear again, inside the loop that       *)
(* deletes it (src/thread.cc:145-147).  A thread is therefore a stack of   *)
(* calls, and every step is one of its topmost call.                       *)
(***************************************************************************)
EXTENDS Naturals, Sequences, SequencesExt, FiniteSets

CONSTANTS
  Threads,    \* operating system threads
  Queues,     \* rtc::Thread objects
  Listed,     \* those in message_queues_ at the beginning, in order
  Handlers,
  Messages,
  HandlerOf,  \* the handler of each message
  Reenters,   \* the handler its payload's destructor clears, or Nil
  Ready,      \* per queue: the contents of messages_
  Timers,     \* per queue: the contents of delayed_messages_
  Calls,      \* the calls that may be made, each once:
  Kind,       \* "clearall", "clear", "destroy" or "add",
  By,         \* by whom,
  About,      \* the queue of a call that is about one,
  For,        \* the handler that is cleared
  Nil        \* no handler: all of them; no message: the end of a list

ASSUME ManagerClearAssumption ==
  /\ Listed \in Seq(Queues)
  /\ HandlerOf \in [Messages -> Handlers]
  /\ Reenters \in [Messages -> Handlers \cup {Nil}]
  /\ Ready \in [Queues -> Seq(Messages)]
  /\ Timers \in [Queues -> Seq(Messages)]
  /\ Kind \in [Calls -> {"clearall", "clear", "destroy", "add"}]
  /\ By \in [Calls -> Threads]
  /\ About \in [Calls -> Queues]
  /\ For \in [Calls -> Handlers]
  /\ Nil \notin Handlers \cup Messages \cup Threads \cup Calls

-----------------------------------------------------------------------------
(* What the theorems assume of the calls and the payloads.                 *)

\* A queue is constructed once, before it is destroyed once.
CallsOnce ==
  /\ IsInjective(Listed)
  /\ \A c, d \in Calls :
       /\ Kind[c] \in {"add", "destroy"} /\ Kind[d] = Kind[c]
       /\ About[d] = About[c]
       => c = d
  /\ \A c \in Calls : Kind[c] = "add" => About[c] \notin ToSet(Listed)

\* Each message is in one place.
PayloadsOnce ==
  /\ \A q, r \in Queues :
       /\ \A i \in DOMAIN Ready[q], j \in DOMAIN Ready[r] :
            Ready[q][i] = Ready[r][j] => q = r /\ i = j
       /\ \A i \in DOMAIN Timers[q], j \in DOMAIN Timers[r] :
            Timers[q][i] = Timers[r][j] => q = r /\ i = j
       /\ ToSet(Ready[q]) \cap ToSet(Timers[r]) = {}

\* Nothing is posted to a queue before it is in the list.
UnlistedEmpty ==
  \A q \in Queues \ ToSet(Listed) : Ready[q] = <<>> /\ Timers[q] = <<>>

\* Clearing goes on from handler to handler, never in a circle.
Falls(rank) ==
  /\ rank \in [Handlers -> Nat]
  /\ \A m \in Messages :
       Reenters[m] # Nil => rank[Reenters[m]] < rank[HandlerOf[m]]

\* The payloads of timers do not clear anything.
TimersPlain ==
  \A q \in Queues : \A i \in DOMAIN Timers[q] : Reenters[Timers[q][i]] = Nil

-----------------------------------------------------------------------------

VARIABLES
  message_queues_,  \* ThreadManager's list,
  processing_,      \* the depth of its calls to Clear,
  mcrit,            \* and its crit_
  qcrit,            \* the crit_ of each queue
  messages_,        \* per queue: the list
  timers,           \* and the container of delayed_messages_
  stack,            \* per thread: the calls it is in, the topmost first
  deleted,          \* history: how often each payload was deleted,
  begun, returned   \* and the calls made and finished

locks == <<mcrit, qcrit>>
contents == <<messages_, timers>>
vars == <<message_queues_, processing_, locks, contents, stack, deleted,
          begun, returned>>

\* A call at its beginning: c, if it is one of Calls.
NewCall(at, c, h, q) ==
  [at |-> at, call |-> c, h |-> h, q |-> q, locked |-> TRUE, m |-> Nil,
   i |-> 1, n |-> 1]

Top(t) == stack[t][1]
At(t, s) == stack[t] # <<>> /\ Top(t).at = s

\* The topmost call of t goes on as f; it calls f; it returns.
GoesOn(t, f) == stack' = [stack EXCEPT ![t] = <<f>> \o Tail(@)]
CallsIn(t, f, g) == stack' = [stack EXCEPT ![t] = <<g, f>> \o Tail(@)]
Pops(t) ==
  /\ stack' = [stack EXCEPT ![t] = Tail(@)]
  /\ returned' = returned \cup ({Top(t).call} \ {Nil})

-----------------------------------------------------------------------------
(* CriticalSection::Enter and Leave.                                       *)

Unlocked == [owner |-> Nil, recursion_count_ |-> 0]

CanEnter(c, t) == c.owner \in {Nil, t}

Entered(c, t) == [owner |-> t, recursion_count_ |-> c.recursion_count_ + 1]

Left(c) == IF c.recursion_count_ = 1 THEN Unlocked
           ELSE [c EXCEPT !.recursion_count_ = @ - 1]

-----------------------------------------------------------------------------
(* The calls begin.                                                        *)

Begin(t, c) ==
  /\ By[c] = t
  /\ stack[t] = <<>>
  /\ c \notin begun
  /\ begun' = begun \cup {c}
  /\ UNCHANGED <<message_queues_, processing_, locks, contents, deleted,
                 returned>>

Starts(t, c, at) ==
  stack' = [stack EXCEPT ![t] = <<NewCall(at, c, For[c], About[c])>>]

ClearAllBegin(t, c) ==
  Kind[c] = "clearall" /\ Begin(t, c) /\ Starts(t, c, "enter manager")

\* The caller knows that the queue is not being deleted, and will not be.
ClearBegin(t, c) ==
  /\ Kind[c] = "clear"
  /\ About[c] \in ToSet(message_queues_)
  /\ Begin(t, c)
  /\ Starts(t, c, "enter queue")

DestroyBegin(t, c) ==
  /\ Kind[c] = "destroy"
  /\ About[c] \in ToSet(message_queues_)
  /\ \A d \in Calls : Kind[d] = "clear" /\ About[d] = About[c] =>
       d \in returned
  /\ Begin(t, c)
  /\ Starts(t, c, "remove")

AddBegin(t, c) ==
  Kind[c] = "add" /\ Begin(t, c) /\ Starts(t, c, "add")

-----------------------------------------------------------------------------
(* ThreadManager::Add and Remove.                                          *)

AddInternal(t) ==
  /\ At(t, "add")
  /\ CanEnter(mcrit, t)
  /\ processing_ = 0
  /\ message_queues_' = Append(message_queues_, Top(t).q)
  /\ Pops(t)
  /\ UNCHANGED <<processing_, locks, contents, deleted, begun>>

\* Mutant: the queue is cleared while it is in the list.
RemoveInternalNot(t) ==
  /\ At(t, "remove")
  /\ GoesOn(t, [Top(t) EXCEPT !.at = "clear", !.h = Nil, !.locked = FALSE])
  /\ UNCHANGED <<message_queues_, processing_, locks, contents, deleted, begun,
                 returned>>

\* DoDestroy goes on to clear the queue, without its crit_.
RemoveInternal(t) ==
  /\ At(t, "remove")
  /\ CanEnter(mcrit, t)
  /\ processing_ = 0
  /\ message_queues_' = RemoveFirst(message_queues_, Top(t).q)
  /\ GoesOn(t, [Top(t) EXCEPT !.at = "clear", !.h = Nil, !.locked = FALSE])
  /\ UNCHANGED <<processing_, locks, contents, deleted, begun, returned>>

-----------------------------------------------------------------------------
(* ThreadManager::ClearInternal.                                           *)

EnterManager(t) ==
  /\ At(t, "enter manager")
  /\ CanEnter(mcrit, t)
  /\ mcrit' = Entered(mcrit, t)
  /\ processing_' = processing_ + 1
  /\ GoesOn(t, [Top(t) EXCEPT !.at = "queues"])
  /\ UNCHANGED <<message_queues_, qcrit, contents, deleted, begun, returned>>

NextQueue(t) ==
  /\ At(t, "queues")
  /\ LET f == Top(t)
     IN /\ f.i <= Len(message_queues_)
        /\ CallsIn(t, [f EXCEPT !.i = @ + 1],
                   NewCall("enter queue", Nil, f.h, message_queues_[f.i]))
  /\ UNCHANGED <<message_queues_, processing_, locks, contents, deleted,
                 begun, returned>>

\* Mutant: the depth is not counted down.
ClearAllEndKeeps(t) ==
  /\ At(t, "queues")
  /\ Top(t).i > Len(message_queues_)
  /\ mcrit' = Left(mcrit)
  /\ Pops(t)
  /\ UNCHANGED <<message_queues_, processing_, qcrit, contents, deleted, begun>>

ClearAllEnd(t) ==
  /\ At(t, "queues")
  /\ Top(t).i > Len(message_queues_)
  /\ processing_' = processing_ - 1
  /\ mcrit' = Left(mcrit)
  /\ Pops(t)
  /\ UNCHANGED <<message_queues_, qcrit, contents, deleted, begun>>

-----------------------------------------------------------------------------
(* Thread::Clear and ClearInternal.                                        *)

\* Mutant: Clear takes no lock.
EnterQueueUnlocked(t) ==
  /\ At(t, "enter queue")
  /\ GoesOn(t, [Top(t) EXCEPT !.at = "clear", !.locked = FALSE])
  /\ UNCHANGED <<message_queues_, processing_, locks, contents, deleted, begun,
                 returned>>

EnterQueue(t) ==
  /\ At(t, "enter queue")
  /\ LET q == Top(t).q
     IN CanEnter(qcrit[q], t) /\ qcrit' = [qcrit EXCEPT ![q] = Entered(@, t)]
  /\ GoesOn(t, [Top(t) EXCEPT !.at = "clear"])
  /\ UNCHANGED <<message_queues_, processing_, mcrit, contents, deleted, begun,
                 returned>>

\* Message::Match
Match(m, h) == h = Nil \/ HandlerOf[m] = h

First(s) == IF s = <<>> THEN Nil ELSE s[1]

\* The iterator after that of s[i].
After(s, i) == IF i = Len(s) THEN Nil ELSE s[i + 1]

ClearList(t) ==
  /\ At(t, "clear")
  /\ GoesOn(t, [Top(t) EXCEPT !.at = "list", !.m = First(messages_[Top(t).q])])
  /\ UNCHANGED <<message_queues_, processing_, locks, contents, deleted, begun,
                 returned>>

ListSkip(t) ==
  /\ At(t, "list")
  /\ LET f == Top(t)
         s == messages_[f.q]
     IN \E i \in DOMAIN s :
          /\ s[i] = f.m
          /\ ~Match(f.m, f.h)
          /\ GoesOn(t, [f EXCEPT !.m = After(s, i)])
  /\ UNCHANGED <<message_queues_, processing_, locks, contents, deleted, begun,
                 returned>>

\* `delete pdata', whose destructor may call Clear for another handler.
DeletePayload(t, f, m) ==
  /\ deleted' = [deleted EXCEPT ![m] = @ + 1]
  /\ IF Reenters[m] = Nil THEN GoesOn(t, f)
     ELSE CallsIn(t, f, NewCall("enter manager", Nil, Reenters[m], Nil))

ListDelete(t) ==
  /\ At(t, "list")
  /\ LET f == Top(t)
     IN /\ f.m \in ToSet(messages_[f.q])
        /\ Match(f.m, f.h)
        /\ DeletePayload(t, [f EXCEPT !.at = "erase"], f.m)
  /\ UNCHANGED <<message_queues_, processing_, locks, contents, begun,
                 returned>>

\* it = messages_.erase(it)
ListErase(t) ==
  /\ At(t, "erase")
  /\ LET f == Top(t)
         s == messages_[f.q]
     IN \E i \in DOMAIN s :
          /\ s[i] = f.m
          /\ messages_' = [messages_ EXCEPT ![f.q] = RemoveAt(s, i)]
          /\ GoesOn(t, [f EXCEPT !.at = "list", !.m = After(s, i)])
  /\ UNCHANGED <<message_queues_, processing_, locks, timers, deleted, begun,
                 returned>>

ListEnd(t) ==
  /\ At(t, "list")
  /\ Top(t).m = Nil
  /\ GoesOn(t, [Top(t) EXCEPT !.at = "timers"])
  /\ UNCHANGED <<message_queues_, processing_, locks, contents, deleted, begun,
                 returned>>

TimerDelete(t) ==
  /\ At(t, "timers")
  /\ LET f == Top(t)
         s == timers[f.q]
     IN /\ f.i <= Len(s)
        /\ Match(s[f.i], f.h)
        /\ DeletePayload(t, [f EXCEPT !.i = @ + 1], s[f.i])
  /\ UNCHANGED <<message_queues_, processing_, locks, contents, begun,
                 returned>>

\* *new_end++ = *it
TimerKeep(t) ==
  /\ At(t, "timers")
  /\ LET f == Top(t)
         s == timers[f.q]
     IN /\ f.i <= Len(s)
        /\ ~Match(s[f.i], f.h)
        /\ timers' = [timers EXCEPT ![f.q] = [s EXCEPT ![f.n] = s[f.i]]]
        /\ GoesOn(t, [f EXCEPT !.i = @ + 1, !.n = @ + 1])
  /\ UNCHANGED <<message_queues_, processing_, locks, messages_, deleted,
                 begun, returned>>

\* make_heap leaves the elements in some order.
Reheaped(s) ==
  {[i \in DOMAIN s |-> s[p[i]]] : p \in Bijection(DOMAIN s, DOMAIN s)}

\* Mutant: the lock is kept.
LeaveQueueNot(f) == UNCHANGED qcrit

LeaveQueue(f) ==
  IF f.locked THEN qcrit' = [qcrit EXCEPT ![f.q] = Left(@)]
  ELSE UNCHANGED qcrit

\* Mutant: the elements behind new_end stay in the container.
TimersEndKeeps(t) ==
  /\ At(t, "timers")
  /\ LET f == Top(t)
         s == timers[f.q]
     IN /\ f.i = Len(s) + 1
        /\ \E r \in Reheaped(s) : timers' = [timers EXCEPT ![f.q] = r]
        /\ LeaveQueue(f)
  /\ Pops(t)
  /\ UNCHANGED <<message_queues_, processing_, mcrit, messages_, deleted,
                 begun>>

\* container().erase(new_end, end()), reheap(), and the end of the call.
TimersEnd(t) ==
  /\ At(t, "timers")
  /\ LET f == Top(t)
         s == timers[f.q]
     IN /\ f.i = Len(s) + 1
        /\ \E r \in Reheaped(SubSeq(s, 1, f.n - 1)) :
             timers' = [timers EXCEPT ![f.q] = r]
        /\ LeaveQueue(f)
  /\ Pops(t)
  /\ UNCHANGED <<message_queues_, processing_, mcrit, messages_, deleted,
                 begun>>

-----------------------------------------------------------------------------

Init ==
  /\ message_queues_ = Listed
  /\ processing_ = 0
  /\ mcrit = Unlocked
  /\ qcrit = [q \in Queues |-> Unlocked]
  /\ messages_ = Ready
  /\ timers = Timers
  /\ stack = [t \in Threads |-> <<>>]
  /\ deleted = [m \in Messages |-> 0]
  /\ begun = {}
  /\ returned = {}

CallBegin(t, c) ==
  \/ ClearAllBegin(t, c)
  \/ ClearBegin(t, c)
  \/ DestroyBegin(t, c)
  \/ AddBegin(t, c)

Step(t) ==
  \/ AddInternal(t)
  \/ RemoveInternal(t)
  \/ EnterManager(t)
  \/ NextQueue(t)
  \/ ClearAllEnd(t)
  \/ EnterQueue(t)
  \/ ClearList(t)
  \/ ListSkip(t)
  \/ ListDelete(t)
  \/ ListErase(t)
  \/ ListEnd(t)
  \/ TimerDelete(t)
  \/ TimerKeep(t)
  \/ TimersEnd(t)

Next == \E t \in Threads : Step(t) \/ \E c \in Calls : CallBegin(t, c)

Spec == Init /\ [][Next]_vars

\* A thread that can go on does.
FairSpec == Spec /\ \A t \in Threads : WF_vars(Step(t))

-----------------------------------------------------------------------------
(* Properties.                                                             *)

InManager(f) == f.at = "queues"
InQueue(f) == f.at \in {"clear", "list", "erase", "timers"}

\* The calls of a stack that are inside the section of the manager, of q.
ManagerCalls(s) == {i \in DOMAIN s : InManager(s[i])}
QueueCalls(s, q) ==
  {i \in DOMAIN s : InQueue(s[i]) /\ s[i].q = q /\ s[i].locked}

\* A section that t has entered through these calls.
HeldBy(c, t, calls) ==
  Cardinality(calls) = IF c.owner = t THEN c.recursion_count_ ELSE 0

\* Types, and what the locks count: processing_ is the depth of the calls to
\* ThreadManager::Clear, and a lock's recursion count that of its owner's.
TypeOK ==
  /\ ToSet(message_queues_) \subseteq Queues
  /\ IsInjective(message_queues_)
  /\ \A q \in Queues : ToSet(messages_[q]) \cup ToSet(timers[q]) \subseteq
                         Messages
  /\ deleted \in [Messages -> Nat]
  /\ returned \subseteq begun /\ begun \subseteq Calls
  /\ processing_ = mcrit.recursion_count_
  /\ \A t \in Threads :
       /\ HeldBy(mcrit, t, ManagerCalls(stack[t]))
       /\ \A q \in Queues : HeldBy(qcrit[q], t, QueueCalls(stack[t], q))

\* No payload is deleted twice, whatever its destructor calls: "re-entrant
\* calls to ClearInternal [are] allowed" (src/thread.cc:145-147).
DeletedOnce == \A m \in Messages : deleted[m] <= 1

\* A loop that goes on after a payload was deleted finds its iterator where
\* it was (src/thread.cc:518-545), because two threads never work on the
\* contents of one queue, although the destructor does without crit_
\* (src/thread.cc:283).
LoopsUndisturbed ==
  /\ \A t, u \in Threads : t # u =>
       \A i \in DOMAIN stack[t], j \in DOMAIN stack[u] :
         InQueue(stack[t][i]) /\ InQueue(stack[u][j]) =>
           stack[t][i].q # stack[u][j].q
  /\ \A t \in Threads : stack[t] # <<>> =>
       LET f == Top(t)
       IN /\ f.at \in {"list", "erase"} /\ f.m # Nil =>
               f.m \in ToSet(messages_[f.q])
          /\ f.at = "timers" => f.n <= f.i /\ f.i <= Len(timers[f.q]) + 1

\* When ThreadManager::Clear has returned, no thread in the list holds a
\* message for the handler, so that it may be destroyed; nobody posts here.
ClearsAll ==
  \A c \in returned : Kind[c] = "clearall" =>
    \A q \in ToSet(message_queues_), m \in Messages :
      HandlerOf[m] = For[c] =>
        m \notin ToSet(messages_[q]) \cup ToSet(timers[q])

\* A section whose owner is in another thread's way.
Wanted(t) ==
  IF stack[t] = <<>> THEN {}
  ELSE CASE Top(t).at \in {"enter manager", "add", "remove"} -> {mcrit}
         [] Top(t).at = "enter queue" -> {qcrit[Top(t).q]}
         [] OTHER -> {}

Awaits(t, u) == t # u /\ \E c \in Wanted(t) : c.owner = u

\* t is in Thread::Clear, called from outside, and a payload it has deleted
\* wants the manager's section, whose owner u wants the queue's.
OrderReversed ==
  \E t, u \in Threads :
    /\ Awaits(t, u) /\ Awaits(u, t)
    /\ At(t, "enter manager")
    /\ \E f \in ToSet(stack[t]) : InQueue(f) /\ f.locked
    /\ \A f \in ToSet(stack[t]) : ~InManager(f)
    /\ \E f \in ToSet(stack[u]) : InManager(f)

\* Every call returns, unless two threads hold the manager's section and a
\* queue's and want the other's, because one of them took them in the order of
\* Thread::Clear and the destructor of a payload, the other in that of
\* ThreadManager::Clear (src/thread.cc:140-150, 502-526).  The code has no
\* other way to wait for ever: no lock is kept, and no circle has three.
CallsReturnOrReverse ==
  \A c \in Calls : (c \in begun) ~> (c \in returned \/ OrderReversed)

\* Every call returns: "re-entrant calls to ClearInternal [are] allowed"
\* (src/thread.cc:145-147), also in the destructors that Thread::Clear runs.
CallsReturn == \A c \in Calls : (c \in begun) ~> (c \in returned)

=============================================================================
