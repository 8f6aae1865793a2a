------------------------------ MODULE ThreadSend ------------------------------
(***************************************************************************)
(* Thread::Send between several rtc::Threads (src/thread.cc:768-1015): the *)
(* caller posts a _SendMessage to the target's queue and sleeps on its own *)
(* socket server until the handler, on the target's thread, has run and    *)
(* set the caller's `ready'.  A caller that is no rtc::Thread waits on an  *)
(* Event instead.  With it, the check of ThreadManager that who sends to   *)
(* whom has no cycle (debug builds), Post and Quit.                        *)
(*                                                                         *)
(* The queue of a thread is its list messages_ (MessageQueue has the rest: *)
(* timers, peek, Clear).  Every Send, Post and Quit that is made is one of *)
(* Calls, made at most once; a thread makes its calls from inside the      *)
(* handler of a message.  `ready' is written under the crit_ of the caller *)
(* and read under the crit_ of the target: the two do not exclude.         *)
(***************************************************************************)
EXTENDS Naturals, Sequences, FiniteSets

CONSTANTS
  Threads,     \* the rtc::Threads, all running ProcessMessages(kForever)
  Outsiders,   \* operating system threads that are no rtc::Thread
  Calls,       \* the calls that may be made
  Kind,        \* "send", "post" or "quit"
  From, To,    \* who makes a call, and on which thread
  Checked,     \* RTC_DCHECK_IS_ON
  NoCall,
  NoOne

Actors == Threads \cup Outsiders

ASSUME ThreadSendAssumption ==
  /\ Threads \cap Outsiders = {}
  /\ NoOne \notin Actors
  /\ NoCall \notin Calls
  /\ Kind \in [Calls -> {"send", "post", "quit"}]
  /\ From \in [Calls -> Actors]
  /\ To \in [Calls -> Threads]
  /\ \A c \in Calls : Kind[c] = "send" => From[c] # To[c]
  /\ Checked \in BOOLEAN

VARIABLES
  queue,         \* messages_ of each thread
  stop_,         \* its quit flag
  event,         \* its socket server's auto-reset event
  crit_,         \* who is inside its critical section across a step
  pc,            \* the step each actor is at
  making,        \* the call it is making
  waited,        \* Send's local
  serving,       \* the message each thread has in hand
  ready,         \* per call: Send's local, written by the handler
  done,          \* per call: the status of Send's done_event
  send_graph_,   \* ThreadManager: who has sent to whom
  begun,         \* history: the calls made,
  handled,       \* those whose OnMessage has returned,
  refused,       \* those dropped because the target was quitting,
  returned       \* and those that returned to their caller

sleeping == <<event, waited>>
answer == <<ready, done>>
history == <<begun, handled, refused, returned>>
vars == <<queue, stop_, sleeping, crit_, pc, making, serving, answer,
          send_graph_, history>>

Goto(a, step) == pc' = [pc EXCEPT ![a] = step]

\* Where an actor makes its calls, and where they return to.
Home(a) == IF a \in Threads THEN "handle" ELSE "free"

Returns(a, c) ==
  /\ Goto(a, Home(a))
  /\ making' = [making EXCEPT ![a] = NoCall]
  /\ returned' = returned \cup {c}

-----------------------------------------------------------------------------
(* ThreadManager::RegisterSendAndCheckForCycles.                           *)

Closed(S) == \A e \in send_graph_ : e[1] \in S => e[2] \in S

\* Mutant: only the direct targets are looked at.
ReachedOnce(t) == {t} \cup {u \in Threads : <<t, u>> \in send_graph_}

\* all_targets, when the loop over it has ended: everything that can be
\* reached from t along send_graph_.
Reached(t) ==
  {u \in Threads : \A S \in SUBSET Threads : t \in S /\ Closed(S) => u \in S}

-----------------------------------------------------------------------------
(* The calls: Quit, Post and Send.                                         *)

MayCall(a, c) ==
  /\ From[c] = a
  /\ pc[a] = Home(a)
  /\ c \notin begun
  /\ begun' = begun \cup {c}

\* stop_ is set, then the target is woken up.
Quit(a) ==
  /\ \E c \in Calls :
       /\ MayCall(a, c)
       /\ Kind[c] = "quit"
       /\ stop_' = [stop_ EXCEPT ![To[c]] = TRUE]
       /\ making' = [making EXCEPT ![a] = c]
  /\ Goto(a, "wake")
  /\ UNCHANGED <<queue, sleeping, crit_, serving, answer, send_graph_, handled,
                 refused, returned>>

PostBegin(a) ==
  /\ \E c \in Calls :
       /\ MayCall(a, c)
       /\ Kind[c] = "post"
       /\ making' = [making EXCEPT ![a] = c]
  /\ Goto(a, "post")
  /\ UNCHANGED <<queue, stop_, sleeping, crit_, serving, answer, send_graph_,
                 handled, refused, returned>>

\* Send begins: debug builds abort when the target is quitting or when the
\* call closes a cycle.
SendBegin(a) ==
  /\ \E c \in Calls :
       /\ MayCall(a, c)
       /\ Kind[c] = "send"
       /\ ~stop_[To[c]]
       /\ making' = [making EXCEPT ![a] = c]
       /\ IF Checked /\ a \in Threads
            THEN /\ a \notin Reached(To[c])
                 /\ send_graph_' = send_graph_ \cup {<<a, To[c]>>}
            ELSE UNCHANGED send_graph_
  /\ Goto(a, "post")
  /\ UNCHANGED <<queue, stop_, sleeping, crit_, serving, answer, handled,
                 refused, returned>>

\* Release builds drop the call when the target is quitting.
SendDropped(a) ==
  /\ ~Checked
  /\ \E c \in Calls :
       /\ MayCall(a, c)
       /\ Kind[c] = "send"
       /\ stop_[To[c]]
       /\ refused' = refused \cup {c}
       /\ returned' = returned \cup {c}
  /\ UNCHANGED <<queue, stop_, sleeping, crit_, pc, making, serving, answer,
                 send_graph_, handled>>

\* After Post: a Send waits for its answer.
PostReturns(a, c) ==
  IF Kind[c] = "send"
    THEN /\ Goto(a, IF a \in Threads THEN "check" ELSE "donewait")
         /\ UNCHANGED <<making, returned>>
    ELSE Returns(a, c)

\* if (IsQuitting()) { delete pdata; return; } in Post, a _SendMessage too.
Post(a) ==
  /\ pc[a] = "post"
  /\ LET c == making[a]
     IN IF stop_[To[c]]
          THEN refused' = refused \cup {c} /\ PostReturns(a, c)
          ELSE Goto(a, "enqueue") /\ UNCHANGED <<making, refused, returned>>
  /\ UNCHANGED <<queue, stop_, sleeping, crit_, serving, answer, send_graph_,
                 begun, handled>>

\* Mutant: the target is not woken up.
EnqueueSilently(a) ==
  /\ pc[a] = "enqueue"
  /\ LET c == making[a]
     IN /\ crit_[To[c]] = NoOne
        /\ queue' = [queue EXCEPT ![To[c]] = Append(@, c)]
        /\ PostReturns(a, c)
  /\ UNCHANGED <<stop_, sleeping, crit_, serving, answer, send_graph_, begun,
                 handled, refused>>

Enqueue(a) ==
  /\ pc[a] = "enqueue"
  /\ LET c == making[a]
     IN /\ crit_[To[c]] = NoOne
        /\ queue' = [queue EXCEPT ![To[c]] = Append(@, c)]
  /\ Goto(a, "wake")
  /\ UNCHANGED <<stop_, sleeping, crit_, making, serving, answer, send_graph_,
                 history>>

WakeUp(a) ==
  /\ pc[a] = "wake"
  /\ event' = [event EXCEPT ![To[making[a]]] = TRUE]
  /\ PostReturns(a, making[a])
  /\ UNCHANGED <<queue, stop_, waited, crit_, serving, answer, send_graph_,
                 begun, handled, refused>>

\* while (!ready), under the crit_ of the target.
ReadyCheck(a) ==
  /\ pc[a] = "check"
  /\ LET c == making[a]
     IN /\ crit_[To[c]] = NoOne
        /\ IF ~ready[c]
             THEN Goto(a, "sendwait") /\ UNCHANGED <<making, returned>>
           ELSE IF waited[a]
             THEN Goto(a, "rewake") /\ UNCHANGED <<making, returned>>
           ELSE Returns(a, c)
  /\ UNCHANGED <<queue, stop_, sleeping, crit_, serving, answer, send_graph_,
                 begun, handled, refused>>

\* Mutant: `if' in place of `while': one wake-up is taken for the answer.
SendWaitOnce(a) ==
  /\ pc[a] = "sendwait"
  /\ event[a]
  /\ event' = [event EXCEPT ![a] = FALSE]
  /\ waited' = [waited EXCEPT ![a] = TRUE]
  /\ Goto(a, "rewake")
  /\ UNCHANGED <<queue, stop_, crit_, making, serving, answer, send_graph_,
                 history>>

\* current_thread->socketserver()->Wait(kForever): the event that all wake-ups
\* of the caller's own queue use as well.
SendWait(a) ==
  /\ pc[a] = "sendwait"
  /\ event[a]
  /\ event' = [event EXCEPT ![a] = FALSE]
  /\ waited' = [waited EXCEPT ![a] = TRUE]
  /\ Goto(a, "check")
  /\ UNCHANGED <<queue, stop_, crit_, making, serving, answer, send_graph_,
                 history>>

\* if (waited) WakeUp(): give back what the wait may have consumed.
Rewake(a) ==
  /\ pc[a] = "rewake"
  /\ event' = [event EXCEPT ![a] = TRUE]
  /\ waited' = [waited EXCEPT ![a] = FALSE]
  /\ Returns(a, making[a])
  /\ UNCHANGED <<queue, stop_, crit_, serving, answer, send_graph_, begun,
                 handled, refused>>

\* done_event->Wait(kForever), for a caller that is no rtc::Thread.
DoneWait(a) ==
  /\ pc[a] = "donewait"
  /\ done[making[a]]
  /\ done' = [done EXCEPT ![making[a]] = FALSE]
  /\ Returns(a, making[a])
  /\ UNCHANGED <<queue, stop_, sleeping, crit_, serving, ready, send_graph_,
                 begun, handled, refused>>

-----------------------------------------------------------------------------
(* The loop of a thread: Get, Dispatch, and the answer to a Send.          *)

Pull(t) ==
  /\ pc[t] = "scan"
  /\ crit_[t] = NoOne
  /\ queue[t] # <<>>
  /\ serving' = [serving EXCEPT ![t] = Head(queue[t])]
  /\ queue' = [queue EXCEPT ![t] = Tail(@)]
  /\ Goto(t, "handle")
  /\ UNCHANGED <<stop_, sleeping, crit_, making, answer, send_graph_, history>>

PullNothing(t) ==
  /\ pc[t] = "scan"
  /\ crit_[t] = NoOne
  /\ queue[t] = <<>>
  /\ Goto(t, "quitcheck")
  /\ UNCHANGED <<queue, stop_, sleeping, crit_, making, serving, answer,
                 send_graph_, history>>

QuitCheck(t) ==
  /\ pc[t] = "quitcheck"
  /\ Goto(t, IF stop_[t] THEN "exited" ELSE "wait")
  /\ UNCHANGED <<queue, stop_, sleeping, crit_, making, serving, answer,
                 send_graph_, history>>

Wait(t) ==
  /\ pc[t] = "wait"
  /\ event[t]
  /\ event' = [event EXCEPT ![t] = FALSE]
  /\ Goto(t, "scan")
  /\ UNCHANGED <<queue, stop_, waited, crit_, making, serving, answer,
                 send_graph_, history>>

\* OnMessage returns; after a Send, QueuedTaskHandler answers.
HandleEnd(t) ==
  /\ pc[t] = "handle"
  /\ LET c == serving[t]
     IN /\ handled' = handled \cup {c}
        /\ IF Kind[c] = "send" /\ From[c] \in Threads
             THEN Goto(t, "ackready") /\ UNCHANGED <<serving, done>>
             ELSE /\ Goto(t, "scan")
                  /\ serving' = [serving EXCEPT ![t] = NoCall]
                  /\ done' = IF Kind[c] = "send"
                               THEN [done EXCEPT ![c] = TRUE] ELSE done
  /\ UNCHANGED <<queue, stop_, sleeping, crit_, making, ready, send_graph_,
                 begun, refused, returned>>

\* Mutant: the caller is not woken up.
AckReadySilently(t) ==
  /\ pc[t] = "ackready"
  /\ crit_[From[serving[t]]] = NoOne
  /\ ready' = [ready EXCEPT ![serving[t]] = TRUE]
  /\ serving' = [serving EXCEPT ![t] = NoCall]
  /\ Goto(t, "scan")
  /\ UNCHANGED <<queue, stop_, sleeping, crit_, making, done, send_graph_,
                 history>>

\* CritScope cs(&smsg->thread->crit_); *smsg->ready = true;
AckReady(t) ==
  /\ pc[t] = "ackready"
  /\ crit_[From[serving[t]]] = NoOne
  /\ crit_' = [crit_ EXCEPT ![From[serving[t]]] = t]
  /\ ready' = [ready EXCEPT ![serving[t]] = TRUE]
  /\ Goto(t, "ackwake")
  /\ UNCHANGED <<queue, stop_, sleeping, making, serving, done, send_graph_,
                 history>>

\* smsg->thread->socketserver()->WakeUp(); }
AckWake(t) ==
  /\ pc[t] = "ackwake"
  /\ event' = [event EXCEPT ![From[serving[t]]] = TRUE]
  /\ crit_' = [crit_ EXCEPT ![From[serving[t]]] = NoOne]
  /\ serving' = [serving EXCEPT ![t] = NoCall]
  /\ Goto(t, "scan")
  /\ UNCHANGED <<queue, stop_, waited, making, answer, send_graph_, history>>

-----------------------------------------------------------------------------

Init ==
  /\ queue = [t \in Threads |-> <<>>]
  /\ stop_ = [t \in Threads |-> FALSE]
  /\ event = [t \in Threads |-> FALSE]
  /\ crit_ = [t \in Threads |-> NoOne]
  /\ pc = [a \in Actors |-> IF a \in Threads THEN "scan" ELSE "free"]
  /\ making = [a \in Actors |-> NoCall]
  /\ waited = [a \in Actors |-> FALSE]
  /\ serving = [t \in Threads |-> NoCall]
  /\ ready = [c \in Calls |-> FALSE]
  /\ done = [c \in Calls |-> FALSE]
  /\ send_graph_ = {}
  /\ begun = {} /\ handled = {} /\ refused = {} /\ returned = {}

Begin(a) == Quit(a) \/ PostBegin(a) \/ SendBegin(a) \/ SendDropped(a)

CallStep(a) ==
  \/ Post(a) \/ Enqueue(a) \/ WakeUp(a)
  \/ ReadyCheck(a) \/ SendWait(a) \/ Rewake(a) \/ DoneWait(a)

LoopStep(t) ==
  \/ Pull(t) \/ PullNothing(t) \/ QuitCheck(t) \/ Wait(t)
  \/ HandleEnd(t) \/ AckReady(t) \/ AckWake(t)

Next ==
  \/ \E a \in Actors : Begin(a) \/ CallStep(a)
  \/ \E t \in Threads : LoopStep(t)

Spec == Init /\ [][Next]_vars

\* A thread that can run does, and a handler returns.  Nobody has to call.
FairSpec ==
  /\ Spec
  /\ \A a \in Actors : WF_vars(CallStep(a))
  /\ \A t \in Threads : WF_vars(LoopStep(t))

-----------------------------------------------------------------------------
(* Properties.                                                             *)

Steps == {"scan", "quitcheck", "wait", "handle", "ackready", "ackwake",
          "exited", "free", "post", "enqueue", "wake", "check", "sendwait",
          "rewake", "donewait"}
InCall == {"post", "enqueue", "wake", "check", "sendwait", "rewake",
           "donewait"}

\* Every variable has its type; an actor has a call in hand exactly inside
\* one, and crit_ is held across a step only by a thread that answers.
TypeOK ==
  /\ queue \in [Threads -> Seq(Calls)]
  /\ stop_ \in [Threads -> BOOLEAN]
  /\ event \in [Threads -> BOOLEAN]
  /\ pc \in [Actors -> Steps]
  /\ making \in [Actors -> Calls \cup {NoCall}]
  /\ \A a \in Actors : pc[a] \in InCall <=> making[a] # NoCall
  /\ waited \in [Actors -> BOOLEAN]
  /\ serving \in [Threads -> Calls \cup {NoCall}]
  /\ \A t \in Threads :
       pc[t] \in {"handle", "ackready", "ackwake"} \cup InCall
         <=> serving[t] # NoCall
  /\ ready \in [Calls -> BOOLEAN]
  /\ done \in [Calls -> BOOLEAN]
  /\ send_graph_ \subseteq Threads \X Threads
  /\ crit_ \in [Threads -> Threads \cup {NoOne}]
  /\ \A t \in Threads :
       crit_[t] # NoOne => /\ pc[crit_[t]] = "ackwake"
                           /\ From[serving[crit_[t]]] = t
  /\ UNION {begun, handled, refused, returned} \subseteq Calls

\* Send is synchronous: when it returns, the handler has run on the target's
\* thread, unless the target was quitting and the call was dropped.  Every
\* other wake-up of the caller's socket server is told from the answer
\* (thread.cc:873-897).
SendIsSynchronous ==
  \A c \in returned : Kind[c] = "send" => c \in handled \cup refused

WakeUpComing(t) ==
  \/ event[t]
  \/ \E a \in Actors : pc[a] = "wake" /\ To[making[a]] = t
  \/ \E u \in Threads : pc[u] = "ackwake" /\ From[serving[u]] = t

\* Nobody sleeps through what it sleeps for: a caller through its answer
\* (written under one thread's crit_, read under another's), a thread through
\* a message or Quit, although its Sends consume the wake-ups of its queue.
NoSleepThrough ==
  \A t \in Threads :
    /\ pc[t] = "sendwait" /\ ready[making[t]] => WakeUpComing(t)
    /\ pc[t] = "wait" /\ (queue[t] # <<>> \/ stop_[t]) => WakeUpComing(t)

\* The Sends in progress, as edges from the caller to the target.
SendsNow ==
  {e \in Threads \X Threads :
     /\ making[e[1]] # NoCall
     /\ Kind[making[e[1]]] = "send"
     /\ To[making[e[1]]] = e[2]}

\* A set of threads each of which has an edge to one of the set: a cycle, and
\* perhaps more threads that lead to it.
Knot(S, edges) ==
  /\ S # {}
  /\ \A t \in S : \E u \in S : <<t, u>> \in edges

Knotless(edges) == \A S \in SUBSET Threads : ~Knot(S, edges)

\* In a debug build, no threads wait for each other in a circle, each in a
\* Send to the next: every Send in progress has been registered, and the check
\* looks at everything the target ever sent to, at any distance
\* (thread.cc:119-137).
NoCircularWait == Checked => Knotless(SendsNow)

\* Every Send returns: the target's queue reaches the call, the handler
\* returns, and the answer wakes the caller up (thread.cc:873-900, 962-977).
SendReturns ==
  \A c \in Calls : Kind[c] = "send" /\ c \in begun ~> c \in returned

\* The same, unless the target is told to quit.
SendReturnsOrQuits ==
  \A c \in Calls : Kind[c] = "send" /\ c \in begun
                     ~> (c \in returned \/ stop_[To[c]])

=============================================================================
