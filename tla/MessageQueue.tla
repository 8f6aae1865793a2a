---------------------------- MODULE MessageQueue ----------------------------
(***************************************************************************)
(* The message queue of one rtc::Thread (src/thread.h, src/thread.cc): the *)
(* lists messages_ and delayed_messages_ behind crit_, the quit flag       *)
(* stop_, the peeked message, and the socket server's auto-reset event on  *)
(* which the owner of the queue sleeps.                                    *)
(*                                                                         *)
(* The owner (Worker) runs ProcessMessages, Get, Peek and Dispatch.  Any   *)
(* thread, the owner included while it is inside a handler, may call Post, *)
(* PostDelayed/PostAt, Clear and Quit.  A call is split at every point     *)
(* where another thread can run: the unlocked read of stop_, the critical  *)
(* section on crit_, the WakeUp of the socket server.  A section whose     *)
(* loop moves messages or deletes payloads one by one keeps crit_ across   *)
(* several steps.                                                          *)
(*                                                                         *)
(* A message is its payload: every element of Messages is posted at most   *)
(* once, and what becomes of its pdata is counted.  Left out: posted_from, *)
(* the payload's content, the id (a handler and its ids are one member of  *)
(* Handlers), dispatch_warning_ms_ (it feeds a log line only).             *)
(***************************************************************************)
EXTENDS Integers, Sequences, FiniteSets

CONSTANTS
  Worker,       \* the thread that owns the queue
  Clients,      \* the other threads that call it
  Messages,     \* the messages that may be posted, each at most once
  Handlers,     \* the message handlers
  NoHandler,    \* phandler == nullptr: a Dispose() message
  HandlerOf,    \* the handler each message is posted for
  Delays,       \* run_at_ms minus the time of the call, for delayed posts
  MaxTime,      \* the horizon of the clock
  IntMod,       \* 2^32 in the code: the width of int
  NumMod,       \* 2^32 in the code: the width of delayed_next_num_
  CmsLoops,     \* the arguments ProcessMessages is called with
  Posters,      \* the threads that call Post, PostDelayed and PostAt
  Clearers,     \* the threads that call Clear
  Quitters,     \* the threads that call Quit
  Starters,     \* the threads that start a finished thread again
  UsePeek,      \* whether the owner calls Peek
  Mortal,       \* the handlers that may be destroyed
  ClearFirst,   \* whether the owner calls Clear before it destroys one
  NoMsg         \* "no message"

Threads == Clients \cup {Worker}
NoOne == "no one"
AnyHandler == "any handler"
kForever == -1

ASSUME QueueAssumption ==
  /\ Worker \notin Clients
  /\ NoOne \notin Threads
  /\ NoMsg \notin Messages
  /\ NoHandler \notin Handlers
  /\ AnyHandler \notin Handlers \cup {NoHandler}
  /\ HandlerOf \in [Messages -> Handlers \cup {NoHandler}]
  /\ Delays \subseteq Int
  /\ MaxTime \in Nat
  /\ IntMod \in Nat \ {0, 1}
  /\ NumMod \in Nat \ {0}
  /\ CmsLoops \subseteq {0, kForever}
  /\ Posters \cup Clearers \cup Quitters \subseteq Threads
  /\ Starters \subseteq Clients
  /\ UsePeek \in BOOLEAN
  /\ Mortal \subseteq Handlers
  /\ ClearFirst \in BOOLEAN

VARIABLES
  messages_,          \* messages ready for dispatch, oldest first
  delayed_messages_,  \* the priority queue, as the set of its entries
  delayed_next_num_,
  fPeekKeep_,
  msgPeek_,
  stop_,
  crit_,              \* the thread inside a critical section, or NoOne
  event,              \* event_status_ of the socket server's event
  now,                \* TimeMillis()
  call,               \* per thread, the call in progress: the step it is at
                      \* and its arguments
  wpc,                \* where the owner is in its loop
  loop,               \* the locals of ProcessMessages
  get,                \* the arguments and locals of Get
  pmsg,               \* the message Get has in hand
  alive,              \* the handlers that exist
  cleared             \* those the owner cleared since the last post for them

\* History: what the properties talk about.
VARIABLES
  posted,             \* the messages Post was called with
  deletes,            \* how often each pdata was deleted
  removed,            \* the messages handed back by Clear(.., removed)
  delivered,          \* the messages handed to OnMessage, in order
  log                 \* the order in which posts entered the queue

lists == <<messages_, delayed_messages_, delayed_next_num_>>
peek == <<fPeekKeep_, msgPeek_>>
owner == <<wpc, loop, get, pmsg>>
handlers == <<alive, cleared>>
history == <<posted, deletes, removed, delivered, log>>
vars == <<lists, peek, stop_, crit_, event, now, call, owner, handlers,
          history>>

-----------------------------------------------------------------------------
(* Helpers.                                                                *)

\* static_cast<int>(int64_t): two's complement wrap-around.
ToInt(x) == ((x + IntMod \div 2) % IntMod) - IntMod \div 2

\* DelayedMessage::operator<, read as "a leaves the priority queue before b".
Before(a, b) == a.run < b.run \/ (a.run = b.run /\ a.num < b.num)

\* delayed_messages_.top()
IsTop(d) ==
  /\ d \in delayed_messages_
  /\ \A e \in delayed_messages_ : ~Before(e, d)

\* Message::Match with id == MQID_ANY.
Match(m, h) == h = AnyHandler \/ HandlerOf[m] = h

Idle == [op |-> "idle"]
Wake == [op |-> "wake"]
NoGet == [cmsWait |-> kForever, peeking |-> FALSE, msStart |-> 0,
          msCurrent |-> 0, cmsDelayNext |-> kForever, firstPass |-> FALSE,
          deadline |-> kForever]
NoLoop == [cmsLoop |-> kForever, msEnd |-> 0]

\* A thread may start a call when it is in none; the owner does so from a
\* handler.  Nobody calls a queue that is being destroyed.
CanCall(t) ==
  /\ call[t] = Idle
  /\ wpc # "destroyed"
  /\ t = Worker => wpc = "dispatch"

Goto(t, c) == call' = [call EXCEPT ![t] = c]

Delete(m) == deletes' = [deletes EXCEPT ![m] = @ + 1]

-----------------------------------------------------------------------------
(* Post, PostDelayed, PostAt.                                              *)

\* if (IsQuitting()) { delete pdata; return; } -- read without crit_.
PostBegin(t, m, next) ==
  /\ t \in Posters
  /\ CanCall(t)
  /\ m \notin posted
  /\ HandlerOf[m] \in alive \cup {NoHandler}
  /\ posted' = posted \cup {m}
  /\ IF stop_ THEN Delete(m) /\ UNCHANGED call
              ELSE Goto(t, next) /\ UNCHANGED deletes
  /\ UNCHANGED <<lists, peek, stop_, crit_, event, now, owner, handlers,
                 removed, delivered, log>>

Post(t) == \E m \in Messages : PostBegin(t, m, [op |-> "post", msg |-> m])

\* PostDelayed computes run_at_ms from the delay, PostAt is given it.  Nothing
\* is scheduled beyond the horizon.
DoDelayPost(t) ==
  \E m \in Messages, d \in Delays :
    /\ HandlerOf[m] # NoHandler
    /\ now + d <= MaxTime
    /\ PostBegin(t, m, [op |-> "delaypost", msg |-> m, run |-> now + d])

\* The order of entry, and whether stop_ was set by then.
Entered(m, timed, run) ==
  /\ log' = Append(log, [msg |-> m, timed |-> timed, run |-> run,
                         late |-> stop_])
  /\ cleared' = cleared \ {HandlerOf[m]}

\* { CritScope cs(&crit_); messages_.push_back(msg); }
Enqueue(t) ==
  /\ call[t].op = "post"
  /\ crit_ = NoOne
  /\ messages_' = Append(messages_, call[t].msg)
  /\ Entered(call[t].msg, FALSE, 0)
  /\ Goto(t, Wake)
  /\ UNCHANGED <<delayed_messages_, delayed_next_num_, peek, stop_, crit_,
                 event, now, owner, alive, posted, deletes, removed,
                 delivered>>

EnqueueDelayed(t) ==
  /\ call[t].op = "delaypost"
  /\ crit_ = NoOne
  /\ delayed_messages_' = delayed_messages_ \cup
       {[run |-> call[t].run, num |-> delayed_next_num_, msg |-> call[t].msg]}
  /\ delayed_next_num_' = (delayed_next_num_ + 1) % NumMod
  /\ Entered(call[t].msg, TRUE, call[t].run)
  /\ Goto(t, Wake)
  /\ UNCHANGED <<messages_, peek, stop_, crit_, event, now, owner, alive,
                 posted, deletes, removed, delivered>>

\* Event::Set(): the flag stays set until a wait consumes it.
SetEvent == event' = TRUE

\* WakeUpSocketServer(), the last step of Post, DoDelayPost and Quit.
WakeUp(t) ==
  /\ call[t] = Wake
  /\ SetEvent
  /\ Goto(t, Idle)
  /\ UNCHANGED <<lists, peek, stop_, crit_, now, owner, handlers, history>>

-----------------------------------------------------------------------------
(* Quit, Restart, Clear and the destructors.                               *)

\* Mutant: Quit sets the flag and wakes nobody.
QuitSilently(t) ==
  /\ t \in Quitters
  /\ CanCall(t)
  /\ stop_' = TRUE
  /\ UNCHANGED <<lists, peek, crit_, event, now, call, owner, handlers,
                 history>>

Quit(t) ==
  /\ t \in Quitters
  /\ CanCall(t)
  /\ stop_' = TRUE
  /\ Goto(t, Wake)
  /\ UNCHANGED <<lists, peek, crit_, event, now, owner, handlers, history>>

\* Start() on a thread whose Run() has returned: Restart(), then a new run.
Restart(t) ==
  /\ t \in Starters
  /\ CanCall(t)
  /\ wpc = "exited"
  /\ stop_' = FALSE
  /\ wpc' = "idle"
  /\ UNCHANGED <<lists, peek, crit_, event, now, call, loop, get, pmsg,
                 handlers, history>>

\* Mutant: a collected message is deleted as well.
DiscardTwice(m, collect) ==
  /\ removed' = IF collect THEN removed \cup {m} ELSE removed
  /\ Delete(m)

\* What ClearInternal does with a matching message.
Discard(m, collect) ==
  IF collect THEN removed' = removed \cup {m} /\ UNCHANGED deletes
             ELSE Delete(m) /\ UNCHANGED removed

\* The head of ClearInternal: the peeked message.
ClearBegin(t, h, collect) ==
  /\ Goto(t, [op |-> "clear", handler |-> h, collect |-> collect])
  /\ crit_' = t
  /\ IF fPeekKeep_ /\ Match(msgPeek_, h)
       THEN Discard(msgPeek_, collect) /\ fPeekKeep_' = FALSE
       ELSE UNCHANGED <<deletes, removed, fPeekKeep_>>
  /\ UNCHANGED <<lists, msgPeek_, stop_, event, now, loop, get, pmsg, handlers,
                 posted, delivered, log>>

Clear(t) ==
  /\ t \in Clearers
  /\ CanCall(t)
  /\ crit_ = NoOne
  /\ \E h \in Handlers, collect \in BOOLEAN : ClearBegin(t, h, collect)
  /\ UNCHANGED wpc

\* ~Thread after Stop(): DoDestroy clears every message and collects none.
\* Its caller has exclusive access by then, crit_ stands for that.
DoDestroy(t) ==
  /\ t \in Clients
  /\ wpc = "exited"
  /\ \A u \in Threads : call[u] = Idle
  /\ wpc' = "destroyed"
  /\ ClearBegin(t, AnyHandler, FALSE)

Clears(t, m) == call[t].op = "clear" /\ Match(m, call[t].handler)

NoneInList(t) == \A i \in 1..Len(messages_) : ~Clears(t, messages_[i])

\* One iteration of ClearInternal's loop over messages_.
ClearMessage(t) ==
  /\ \E i \in 1..Len(messages_) :
       /\ Clears(t, messages_[i])
       /\ \A j \in 1..(i - 1) : ~Clears(t, messages_[j])
       /\ messages_' = SubSeq(messages_, 1, i - 1)
                         \o SubSeq(messages_, i + 1, Len(messages_))
       /\ Discard(messages_[i], call[t].collect)
  /\ UNCHANGED <<delayed_messages_, delayed_next_num_, peek, stop_, crit_,
                 event, now, call, owner, handlers, posted, delivered, log>>

\* One iteration of its loop over the container of delayed_messages_.
ClearDelayed(t) ==
  /\ NoneInList(t)
  /\ \E d \in delayed_messages_ :
       /\ Clears(t, d.msg)
       /\ delayed_messages_' = delayed_messages_ \ {d}
       /\ Discard(d.msg, call[t].collect)
  /\ UNCHANGED <<messages_, delayed_next_num_, peek, stop_, crit_, event, now,
                 call, owner, handlers, posted, delivered, log>>

\* Mutants: crit_ is not released; the timers are not looked at.
ClearEndLocked(t) ==
  /\ call[t].op = "clear"
  /\ NoneInList(t)
  /\ \A d \in delayed_messages_ : ~Clears(t, d.msg)
  /\ Goto(t, Idle)
  /\ UNCHANGED <<lists, peek, stop_, crit_, event, now, owner, handlers,
                 history>>

ClearEndEarly(t) ==
  /\ call[t].op = "clear"
  /\ NoneInList(t)
  /\ crit_' = NoOne
  /\ cleared' = IF t = Worker THEN cleared \cup {call[t].handler} ELSE cleared
  /\ Goto(t, Idle)
  /\ UNCHANGED <<lists, peek, stop_, event, now, owner, alive, history>>

ClearEnd(t) ==
  /\ call[t].op = "clear"
  /\ NoneInList(t)
  /\ \A d \in delayed_messages_ : ~Clears(t, d.msg)
  /\ crit_' = NoOne
  /\ cleared' = IF t = Worker THEN cleared \cup {call[t].handler} ELSE cleared
  /\ Goto(t, Idle)
  /\ UNCHANGED <<lists, peek, stop_, event, now, owner, alive, history>>

\* ~MessageHandler, run by the owner of the queue inside a handler, when
\* nobody posts for it any more.  The destructor itself clears nothing.
DestroyHandler(h) ==
  /\ wpc = "dispatch"
  /\ call[Worker] = Idle
  /\ h \in Mortal \cap alive
  /\ ClearFirst => h \in cleared
  /\ \A t \in Threads :
       call[t].op \in {"post", "delaypost"} => HandlerOf[call[t].msg] # h
  /\ alive' = alive \ {h}
  /\ UNCHANGED <<lists, peek, stop_, crit_, event, now, call, owner, cleared,
                 history>>

-----------------------------------------------------------------------------
(* The owner: ProcessMessages, Peek, Get.                                  *)

ProcessMessages(cms) ==
  /\ wpc = "idle"
  /\ loop' = [cmsLoop |-> cms, msEnd |-> IF cms = kForever THEN 0 ELSE now]
  /\ get' = [NoGet EXCEPT !.cmsWait = cms]
  /\ wpc' = "get"
  /\ UNCHANGED <<lists, peek, stop_, crit_, event, now, call, pmsg, handlers,
                 history>>

\* Peek(pmsg, 0) when nothing is kept; when something is, it returns a copy
\* and changes nothing.
Peek ==
  /\ UsePeek
  /\ wpc = "idle"
  /\ ~fPeekKeep_
  /\ get' = [NoGet EXCEPT !.cmsWait = 0, !.peeking = TRUE]
  /\ wpc' = "get"
  /\ UNCHANGED <<lists, peek, stop_, crit_, event, now, call, loop, pmsg,
                 handlers, history>>

\* Mutant: Get looks at stop_ first.
GetBeginQuits ==
  /\ wpc = "get"
  /\ wpc' = IF stop_ THEN "false" ELSE "scan"
  /\ get' = [get EXCEPT !.msStart = now, !.msCurrent = now, !.firstPass = TRUE]
  /\ UNCHANGED <<lists, peek, stop_, crit_, event, now, call, loop, pmsg,
                 handlers, history>>

\* The entry of Get: a kept message is returned (GetPeeked), otherwise the
\* clock is read and the first pass over the queue begins.
GetBegin ==
  /\ wpc = "get"
  /\ IF fPeekKeep_
       THEN wpc' = "takepeek" /\ UNCHANGED get
       ELSE /\ wpc' = "scan"
            /\ get' = [get EXCEPT !.msStart = now, !.msCurrent = now,
                                  !.firstPass = TRUE]
  /\ UNCHANGED <<lists, peek, stop_, crit_, event, now, call, loop, pmsg,
                 handlers, history>>

\* Mutant: the kept message is returned and still kept.
GetPeekedAgain ==
  /\ wpc = "takepeek"
  /\ pmsg' = msgPeek_
  /\ wpc' = "got"
  /\ UNCHANGED <<lists, peek, stop_, crit_, event, now, call, loop, get,
                 handlers, history>>

\* *pmsg = msgPeek_; fPeekKeep_ = false; -- without crit_.
GetPeeked ==
  /\ wpc = "takepeek"
  /\ pmsg' = msgPeek_
  /\ fPeekKeep_' = FALSE
  /\ wpc' = "got"
  /\ UNCHANGED <<lists, msgPeek_, stop_, crit_, event, now, call, loop, get,
                 handlers, history>>

\* CritScope cs(&crit_) inside Get's inner loop.
ScanBegin ==
  /\ wpc = "scan"
  /\ crit_ = NoOne
  /\ crit_' = Worker
  /\ wpc' = IF get.firstPass THEN "fire" ELSE "pull"
  /\ UNCHANGED <<lists, peek, stop_, event, now, call, loop, get, pmsg,
                 handlers, history>>

\* A delayed message whose time has come moves to the end of messages_.
FireDelayed ==
  /\ wpc = "fire"
  /\ \E d \in delayed_messages_ :
       /\ IsTop(d)
       /\ d.run <= get.msCurrent
       /\ messages_' = Append(messages_, d.msg)
       /\ delayed_messages_' = delayed_messages_ \ {d}
  /\ UNCHANGED <<delayed_next_num_, peek, stop_, crit_, event, now, call,
                 owner, handlers, history>>

\* Mutant: the next timer is not noted.
FireEndForgets ==
  /\ wpc = "fire"
  /\ \A d \in delayed_messages_ : get.msCurrent < d.run
  /\ get' = [get EXCEPT !.firstPass = FALSE, !.cmsDelayNext = kForever]
  /\ wpc' = "pull"
  /\ UNCHANGED <<lists, peek, stop_, crit_, event, now, call, loop, pmsg,
                 handlers, history>>

\* No more of them: note how long the next one has to wait.
FireEnd ==
  /\ wpc = "fire"
  /\ \/ /\ delayed_messages_ = {}
        /\ get' = [get EXCEPT !.firstPass = FALSE, !.cmsDelayNext = kForever]
     \/ \E d \in delayed_messages_ :
          /\ IsTop(d)
          /\ get.msCurrent < d.run
          /\ get' = [get EXCEPT !.firstPass = FALSE,
                                !.cmsDelayNext = d.run - get.msCurrent]
  /\ wpc' = "pull"
  /\ UNCHANGED <<lists, peek, stop_, crit_, event, now, call, loop, pmsg,
                 handlers, history>>

\* Mutant: the newest message first.
PullLast ==
  /\ wpc = "pull"
  /\ messages_ # <<>>
  /\ pmsg' = messages_[Len(messages_)]
  /\ messages_' = SubSeq(messages_, 1, Len(messages_) - 1)
  /\ crit_' = NoOne
  /\ wpc' = "got"
  /\ UNCHANGED <<delayed_messages_, delayed_next_num_, peek, stop_, event, now,
                 call, loop, get, handlers, history>>

Pull ==
  /\ wpc = "pull"
  /\ messages_ # <<>>
  /\ pmsg' = Head(messages_)
  /\ messages_' = Tail(messages_)
  /\ crit_' = NoOne
  /\ wpc' = "got"
  /\ UNCHANGED <<delayed_messages_, delayed_next_num_, peek, stop_, event, now,
                 call, loop, get, handlers, history>>

PullNothing ==
  /\ wpc = "pull"
  /\ messages_ = <<>>
  /\ crit_' = NoOne
  /\ wpc' = "quitcheck"
  /\ UNCHANGED <<lists, peek, stop_, event, now, call, loop, get, pmsg,
                 handlers, history>>

\* A dispose message: its payload is deleted outside crit_ and Get goes on.
DisposeMessage ==
  /\ wpc = "got"
  /\ HandlerOf[pmsg] = NoHandler
  /\ Delete(pmsg)
  /\ pmsg' = NoMsg
  /\ wpc' = "scan"
  /\ UNCHANGED <<lists, peek, stop_, crit_, event, now, call, loop, get,
                 handlers, posted, removed, delivered, log>>

\* Get returns true to Peek, which keeps the message -- without crit_.
PeekKeep ==
  /\ wpc = "got"
  /\ HandlerOf[pmsg] # NoHandler
  /\ get.peeking
  /\ msgPeek_' = pmsg
  /\ fPeekKeep_' = TRUE
  /\ pmsg' = NoMsg
  /\ get' = NoGet
  /\ wpc' = "idle"
  /\ UNCHANGED <<lists, stop_, crit_, event, now, call, loop, handlers,
                 history>>

\* Get returns true to ProcessMessages, which calls OnMessage.  The handler
\* owns the payload from here on.
Dispatch ==
  /\ wpc = "got"
  /\ HandlerOf[pmsg] # NoHandler
  /\ ~get.peeking
  /\ delivered' = Append(delivered, pmsg)
  /\ pmsg' = NoMsg
  /\ get' = NoGet
  /\ wpc' = "dispatch"
  /\ UNCHANGED <<lists, peek, stop_, crit_, event, now, call, loop, handlers,
                 posted, deletes, removed, log>>

\* OnMessage returns.  ProcessMessages(0) goes on until its end time passed.
DispatchEnd ==
  /\ wpc = "dispatch"
  /\ call[Worker] = Idle
  /\ \/ /\ loop.cmsLoop = kForever
        /\ wpc' = "get"
        /\ UNCHANGED <<loop, get>>
     \/ /\ loop.cmsLoop # kForever /\ now <= loop.msEnd
        /\ wpc' = "get"
        /\ get' = [get EXCEPT !.cmsWait = loop.msEnd - now]
        /\ UNCHANGED loop
     \/ /\ loop.cmsLoop # kForever /\ now > loop.msEnd
        /\ wpc' = "idle"
        /\ loop' = NoLoop
        /\ UNCHANGED get
  /\ UNCHANGED <<lists, peek, stop_, crit_, event, now, call, pmsg, handlers,
                 history>>

\* What Get asks the socket server to wait for, before the cast to int;
\* cmsElapsed is msCurrent - msStart.
CmsNext ==
  IF get.cmsWait = kForever THEN get.cmsDelayNext
  ELSE LET left == get.cmsWait - (get.msCurrent - get.msStart)
           rest == IF left > 0 THEN left ELSE 0
       IN IF get.cmsDelayNext # kForever /\ get.cmsDelayNext < rest
            THEN get.cmsDelayNext ELSE rest

\* Mutant: the event is reset before the wait.
WaitBeginResets ==
  /\ wpc = "quitcheck"
  /\ ~stop_
  /\ event' = FALSE
  /\ get' = [get EXCEPT !.deadline =
                IF CmsNext = kForever THEN kForever ELSE now + CmsNext]
  /\ wpc' = "wait"
  /\ UNCHANGED <<lists, peek, stop_, crit_, now, call, loop, pmsg, handlers,
                 history>>

\* if (IsQuitting()) break; otherwise ss_->Wait(static_cast<int>(cmsNext)).
WaitBegin ==
  /\ wpc = "quitcheck"
  /\ ~stop_
  /\ get' = [get EXCEPT !.deadline =
                IF ToInt(CmsNext) = kForever THEN kForever
                ELSE IF ToInt(CmsNext) < 0 THEN now ELSE now + ToInt(CmsNext)]
  /\ wpc' = "wait"
  /\ UNCHANGED <<lists, peek, stop_, crit_, event, now, call, loop, pmsg,
                 handlers, history>>

GetQuit ==
  /\ wpc = "quitcheck"
  /\ stop_
  /\ wpc' = "false"
  /\ UNCHANGED <<lists, peek, stop_, crit_, event, now, call, loop, get, pmsg,
                 handlers, history>>

\* After the wait: read the clock, give up or scan again.
AfterWait ==
  /\ IF get.cmsWait # kForever /\ now - get.msStart >= get.cmsWait
       THEN wpc' = "false" /\ UNCHANGED get
       ELSE /\ wpc' = "scan"
            /\ get' = [get EXCEPT !.msCurrent = now, !.deadline = kForever,
                         !.cmsDelayNext = kForever, !.firstPass = TRUE]
  /\ UNCHANGED <<lists, peek, stop_, crit_, now, call, loop, pmsg, handlers,
                 history>>

\* The event is signaled: the wait consumes it (auto-reset).
WaitSignaled ==
  /\ wpc = "wait"
  /\ event
  /\ event' = FALSE
  /\ AfterWait

\* The wait gives up.  At the horizon every finite deadline has passed.
WaitTimeout ==
  /\ wpc = "wait"
  /\ get.deadline # kForever
  /\ now >= get.deadline \/ now = MaxTime
  /\ UNCHANGED event
  /\ AfterWait

\* Get returned false.  Peek just says so; ProcessMessages returns
\* !IsQuitting().  Run() is over after ProcessMessages(kForever); a caller
\* that polls comes back until ProcessMessages returns false.
GetFalse ==
  /\ wpc = "false"
  /\ wpc' = IF ~get.peeking /\ (stop_ \/ loop.cmsLoop = kForever)
              THEN "exited" ELSE "idle"
  /\ get' = NoGet
  /\ loop' = NoLoop
  /\ UNCHANGED <<lists, peek, stop_, crit_, event, now, call, pmsg, handlers,
                 history>>

Tick ==
  /\ now < MaxTime
  /\ now' = now + 1
  /\ UNCHANGED <<lists, peek, stop_, crit_, event, call, owner, handlers,
                 history>>

-----------------------------------------------------------------------------

Init ==
  /\ messages_ = <<>>
  /\ delayed_messages_ = {}
  /\ delayed_next_num_ = 0
  /\ fPeekKeep_ = FALSE
  /\ msgPeek_ = NoMsg
  /\ stop_ = FALSE
  /\ crit_ = NoOne
  /\ event = FALSE
  /\ now = 0
  /\ call = [t \in Threads |-> Idle]
  /\ wpc = "idle"
  /\ loop = NoLoop
  /\ get = NoGet
  /\ pmsg = NoMsg
  /\ alive = Handlers
  /\ cleared = {}
  /\ posted = {}
  /\ deletes = [m \in Messages |-> 0]
  /\ removed = {}
  /\ delivered = <<>>
  /\ log = <<>>

\* The steps of a call once it has begun.
CallStep(t) ==
  \/ Enqueue(t) \/ EnqueueDelayed(t) \/ WakeUp(t)
  \/ ClearMessage(t) \/ ClearDelayed(t) \/ ClearEnd(t)

CallBegin(t) ==
  \/ Post(t) \/ DoDelayPost(t) \/ Quit(t) \/ Restart(t)
  \/ Clear(t) \/ DoDestroy(t)

\* The steps the owner takes by itself.
WorkerStep ==
  \/ \E cms \in CmsLoops : ProcessMessages(cms)
  \/ GetBegin \/ GetPeeked
  \/ ScanBegin \/ FireDelayed \/ FireEnd \/ Pull \/ PullNothing
  \/ DisposeMessage \/ PeekKeep \/ Dispatch \/ DispatchEnd
  \/ WaitBegin \/ GetQuit \/ WaitSignaled \/ WaitTimeout \/ GetFalse

Next ==
  \/ \E t \in Threads : CallStep(t) \/ CallBegin(t)
  \/ WorkerStep
  \/ Peek
  \/ \E h \in Handlers : DestroyHandler(h)
  \/ Tick

Spec == Init /\ [][Next]_vars

\* The operating system keeps running a thread that can run, a handler
\* returns, a mutex is granted, and time passes.  Nobody has to call anything.
Fairness ==
  /\ WF_vars(WorkerStep)
  /\ \A t \in Threads : WF_vars(CallStep(t))
  /\ WF_vars(Tick)

FairSpec == Spec /\ Fairness

-----------------------------------------------------------------------------
(* Properties.                                                             *)

Entries == [run : Int, num : 0..(NumMod - 1), msg : Messages]
Calls ==
  {Idle, Wake}
    \cup [op : {"post"}, msg : Messages]
    \cup [op : {"delaypost"}, msg : Messages, run : Int]
    \cup [op : {"clear"}, handler : Handlers \cup {AnyHandler},
          collect : BOOLEAN]
Gets == [cmsWait : Int, peeking : BOOLEAN, msStart : Nat, msCurrent : Nat,
         cmsDelayNext : Int, firstPass : BOOLEAN, deadline : Int]
OwnerSteps == {"idle", "get", "takepeek", "scan", "fire", "pull", "got",
               "dispatch", "quitcheck", "wait", "false", "exited", "destroyed"}

QueueTypes ==
  /\ messages_ \in Seq(Messages)
  /\ delayed_messages_ \subseteq Entries
  /\ delayed_next_num_ \in 0..(NumMod - 1)
  /\ fPeekKeep_ \in BOOLEAN
  /\ msgPeek_ \in Messages \cup {NoMsg}
  /\ stop_ \in BOOLEAN
  /\ event \in BOOLEAN
  /\ now \in 0..MaxTime

OwnerTypes ==
  /\ wpc \in OwnerSteps
  /\ loop \in [cmsLoop : CmsLoops \cup {kForever}, msEnd : 0..MaxTime]
  /\ get \in Gets
  /\ pmsg \in Messages \cup {NoMsg}

HistoryTypes ==
  /\ alive \subseteq Handlers
  /\ posted \subseteq Messages
  /\ deletes \in [Messages -> Nat]
  /\ removed \subseteq Messages
  /\ delivered \in Seq(Messages)

\* The owner has a message in hand exactly between taking it from the queue
\* and passing it on (thread.cc:319-374).
InHand ==
  /\ (pmsg # NoMsg) <=> (wpc = "got")
  /\ fPeekKeep_ \/ wpc = "takepeek" => msgPeek_ # NoMsg

\* crit_ is held exactly by the thread inside a section that needs it.
Locked ==
  /\ call[Worker] # Idle => wpc = "dispatch"
  /\ crit_ \in Threads \cup {NoOne}
  /\ \A t \in Threads :
       crit_ = t <=> \/ call[t].op = "clear"
                     \/ t = Worker /\ wpc \in {"fire", "pull"}

\* Every variable has its type, the owner's hand is full when it should be,
\* and crit_ excludes: no two threads are inside its sections.
TypeOK ==
  /\ QueueTypes
  /\ OwnerTypes
  /\ call \in [Threads -> Calls]
  /\ HistoryTypes
  /\ InHand
  /\ Locked

\* Where a message may be.
InCall(m) == {t \in Threads : /\ call[t].op \in {"post", "delaypost"}
                              /\ call[t].msg = m}
InList(m) == {i \in DOMAIN messages_ : messages_[i] = m}
InTimers(m) == {d \in delayed_messages_ : d.msg = m}
Peeked(m) == fPeekKeep_ /\ msgPeek_ = m
Deliveries(m) == {i \in DOMAIN delivered : delivered[i] = m}

\* What Clear() and the destructor can still reach, and the message in hand.
Pending(m) == InList(m) # {} \/ InTimers(m) # {} \/ Peeked(m) \/ pmsg = m

AsCount(b) == IF b THEN 1 ELSE 0

Owners(m) ==
  Cardinality(InCall(m)) + Cardinality(InList(m)) + Cardinality(InTimers(m))
    + AsCount(Peeked(m)) + AsCount(pmsg = m)
    + Cardinality(Deliveries(m)) + AsCount(m \in removed) + deletes[m]

\* A payload given to Post has exactly one owner at all times: the call, one
\* of the queue's places, the handler it was delivered to, the caller of
\* Clear(.., removed), or nobody because it was deleted once.  Raw pointers
\* are moved between all of these (thread.cc:299-552): two owners are a double
\* delete, none is a leak.
OneOwner == \A m \in Messages : Owners(m) = AsCount(m \in posted)

WakePending == event \/ \E t \in Threads : call[t] = Wake

\* The owner never sleeps on something it should act on: in Wait, if a message
\* is ready, the queue is quitting, or a timer runs while the sleep has no
\* deadline, then the event is set or some thread is about to set it.  (Post
\* and Quit publish first and wake afterwards; Get looks first and sleeps
\* afterwards; the event keeps a wake-up that comes in between.)
NoLostWakeup ==
  wpc = "wait" /\ ~WakePending =>
    /\ messages_ = <<>>
    /\ ~stop_
    /\ delayed_messages_ # {} => get.deadline # kForever

\* The times in play fit an int, so that the cast in Get changes none.
TimesFit == MaxTime + IntMod \div 2 < IntMod

\* No post is due beyond the horizon.
DueTimes ==
  /\ \A d \in delayed_messages_ : d.run <= MaxTime
  /\ \A t \in Threads : call[t].op = "delaypost" => call[t].run <= MaxTime

\* What Get computes its waits from.
GetTimes ==
  /\ get.cmsWait \in -1..MaxTime
  /\ get.msStart <= get.msCurrent
  /\ get.msCurrent <= now
  /\ get.cmsDelayNext = kForever \/ get.cmsDelayNext \in 1..MaxTime

\* The owner has looked at the timers since its last wait, and comes to the
\* next one without looking again.
Looked ==
  \/ wpc \in {"pull", "quitcheck", "wait"}
  \/ wpc = "scan" /\ ~get.firstPass
  \/ wpc = "got" /\ HandlerOf[pmsg] = NoHandler

\* NoLostWakeup, carried back to where the owner looked: whatever changed
\* since then has left a wake-up pending.
SleepInv ==
  /\ wpc \in {"quitcheck", "wait"} /\ ~WakePending => messages_ = <<>>
  /\ wpc = "wait" /\ ~WakePending => ~stop_
  /\ Looked /\ ~WakePending /\ delayed_messages_ # {}
       => get.cmsDelayNext # kForever
  /\ wpc = "wait" /\ get.cmsDelayNext # kForever => get.deadline # kForever
  /\ fPeekKeep_ \/ wpc = "takepeek" => HandlerOf[msgPeek_] # NoHandler

\* thread.h:176-181: "any pending Sends and *ready* Posts (as opposed to
\* unexpired delayed Posts) will be delivered before Get (or Peek) returns
\* false".  When a blocking Get returns false because of Quit, no post that
\* entered the queue before stop_ was set is left, nor such a delayed post
\* that was due when Get last read the clock.
QuitDrains ==
  wpc = "false" /\ get.cmsWait = kForever =>
    \A i \in DOMAIN log :
      ~log[i].late /\ log[i].run <= get.msCurrent => ~Pending(log[i].msg)

\* A handler destroyed by the owner of the queue after Clear(handler), when no
\* thread posts for it any more, is never called again (message_handler.cc
\* leaves the Clear to the caller).
DispatchToLive ==
  [][\A i \in DOMAIN delivered' :
       i > Len(delivered) => HandlerOf[delivered'[i]] \in alive]_vars

Done(m) == Deliveries(m) # {} \/ m \in removed \/ deletes[m] > 0
Ended == wpc \in {"exited", "destroyed"}

\* Every message that passed Post's test of stop_ is eventually delivered,
\* deleted or handed back, as long as the owner keeps processing: no wake-up
\* is lost and no timer is slept through.
AcceptedIsServed ==
  \A m \in Messages : (InCall(m) # {} \/ Pending(m)) ~> (Done(m) \/ Ended)

\* Quit makes the owner leave its loop, whatever it was doing.
QuitEndsLoop == stop_ ~> (Ended \/ ~stop_)

-----------------------------------------------------------------------------
(* The abstract view: the message in hand is still at the front of the     *)
(* inbox, then the peeked one, then the list.                              *)

Front == IF pmsg # NoMsg THEN <<pmsg>> ELSE <<>>
Kept == IF fPeekKeep_ THEN <<msgPeek_>> ELSE <<>>

Box == INSTANCE Mailbox WITH
  inbox     <- Front \o Kept \o messages_,
  timers    <- delayed_messages_,
  numTimers <- delayed_next_num_,
  gone      <- removed \cup {m \in Messages : deletes[m] > 0}

\* Through its lock, its unlocked reads and its peek buffer the queue is an
\* ordered mailbox with timers (thread.cc:307-552).
ImplementsMailbox == Box!Spec

=============================================================================
