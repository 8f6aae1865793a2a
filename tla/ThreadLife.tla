------------------------------ MODULE ThreadLife ------------------------------
(***************************************************************************)
(* The life of rtc::Thread objects and of the operating system threads     *)
(* behind them: construction, Start, Quit, Stop, Join and the destructor   *)
(* (src/thread.cc:231-305, 649-766), the thread an object wraps            *)
(* (155-220, 689-704, 1057-1101), PlatformThread and the SequenceChecker   *)
(* of its spawned thread (src/platform_thread.cc:63-134,                   *)
(* src/synchronization/sequence_checker.cc:22-48), and the list of         *)
(* ThreadManager.                                                          *)
(*                                                                         *)
(* Any thread may call: those of the program, and a spawned one from the   *)
(* handlers it runs.  An object is started, stopped and deleted by the     *)
(* thread that built it only, as PlatformThread's thread_checker_ asks;    *)
(* anybody may call Quit while the object is not being deleted.  An        *)
(* address is not used for a second object, so that a pointer to a deleted *)
(* one shows.                                                              *)
(***************************************************************************)
EXTENDS ThreadNames

VARIABLES
  mem,                      \* is the object not built yet, live or deleted
  thread_checker_,          \* who built its PlatformThread
  stop_,                    \* per object: quit flag,
  thread_ref_,              \* is it running, or does it wrap a thread
  owned_,                   \* was it started, not wrapped
  thread_,                  \* PlatformThread: the handle
  spawned_thread_checker_,  \* and the thread its checker is attached to
  starts,                   \* history: how often it was started
  worker,                   \* the step of PreRun each spawned thread is at
  current,                  \* ThreadManager's thread-specific pointer
  main_thread_ref_,         \* who made the ThreadManager
  message_queues_,          \* ThreadManager's list
  step,                     \* the step of the call each thread makes,
  on,                       \* the object it is about,
  deleting                  \* and whether it is from the destructor

flags == <<stop_, thread_ref_, owned_>>
platform == <<thread_, spawned_thread_checker_, starts, worker>>
manager == <<current, main_thread_ref_, message_queues_>>
calls == <<step, on, deleting>>
vars == <<mem, thread_checker_, flags, platform, manager, calls>>

Object(w) == w[1]

\* A thread between two calls; a spawned one makes them from handlers.
Free(p) == step[p] = "idle" /\ (p \in Workers => worker[p] = "run")

\* Is a destructor at work on o?
Doomed(o) == \E p \in OSThreads : deleting[p] /\ on[p] = o

\* What p may control: RTC_DCHECK(thread_checker_.IsCurrent()).
Mine(p, o) == mem[o] = "live" /\ thread_checker_[o] = p

Goto(p, s) == step' = [step EXCEPT ![p] = s]

Calling(p, s, o, d) ==
  /\ Goto(p, s)
  /\ on' = [on EXCEPT ![p] = o]
  /\ deleting' = [deleting EXCEPT ![p] = d]

Returns(p) == Calling(p, "idle", None, FALSE)

-----------------------------------------------------------------------------
(* Construction.                                                           *)

\* The object is built and added to the list; the first one makes the
\* ThreadManager as well.
Construct(p, o) ==
  /\ mem[o] = "none"
  /\ mem' = [mem EXCEPT ![o] = "live"]
  /\ thread_checker_' = [thread_checker_ EXCEPT ![o] = p]
  /\ main_thread_ref_' = IF main_thread_ref_ = None THEN p
                         ELSE main_thread_ref_
  /\ message_queues_' = message_queues_ \cup {o}

Create(p, o) ==
  /\ Free(p)
  /\ Construct(p, o)
  /\ UNCHANGED <<flags, platform, current, calls>>

-----------------------------------------------------------------------------
(* Thread::Start, in the caller.                                           *)

\* The flag of an earlier Quit is reset.
StartBegin(p, o) ==
  /\ Free(p)
  /\ Mine(p, o)
  /\ ~thread_ref_[o]
  /\ starts[o] < MaxStarts
  /\ stop_' = [stop_ EXCEPT ![o] = FALSE]
  /\ owned_' = [owned_ EXCEPT ![o] = TRUE]
  /\ Calling(p, "create", o, FALSE)
  /\ UNCHANGED <<mem, thread_checker_, thread_ref_, platform, manager>>

\* PlatformThread::Start: the new thread runs from here on.
StartThread(p) ==
  /\ step[p] = "create"
  /\ LET o == on[p]
         w == <<o, starts[o] + 1>>
     IN /\ starts' = [starts EXCEPT ![o] = @ + 1]
        /\ thread_' = [thread_ EXCEPT ![o] = w]
        /\ worker' = [worker EXCEPT ![w] = "created"]
  /\ Goto(p, "created")
  /\ UNCHANGED <<mem, thread_checker_, flags, spawned_thread_checker_,
                 manager, on, deleting>>

StartEnd(p) ==
  /\ step[p] = "created"
  /\ thread_ref_' = [thread_ref_ EXCEPT ![on[p]] = TRUE]
  /\ Returns(p)
  /\ UNCHANGED <<mem, thread_checker_, stop_, owned_, platform, manager>>

-----------------------------------------------------------------------------
(* The spawned thread: PlatformThread::Run and Thread::PreRun.             *)

\* spawned_thread_checker_.IsCurrent() attaches the checker the first time,
\* and the thread runs on only if it is the one attached.
PlatformRun(w) ==
  /\ worker[w] = "created"
  /\ LET o == Object(w)
         attached == spawned_thread_checker_[o]
     IN /\ attached \in {None, w}
        /\ spawned_thread_checker_' =
             [spawned_thread_checker_ EXCEPT ![o] = w]
  /\ worker' = [worker EXCEPT ![w] = "prerun"]
  /\ UNCHANGED <<mem, thread_checker_, flags, thread_, starts, manager, calls>>

\* Mutant: the new thread, not Start, resets the flag.
PreRunResets(w) ==
  /\ worker[w] = "prerun"
  /\ stop_' = [stop_ EXCEPT ![Object(w)] = FALSE]
  /\ current' = [current EXCEPT ![w] = Object(w)]
  /\ worker' = [worker EXCEPT ![w] = "run"]
  /\ UNCHANGED <<mem, thread_checker_, thread_ref_, owned_, thread_,
                 spawned_thread_checker_, starts, main_thread_ref_,
                 message_queues_, calls>>

PreRun(w) ==
  /\ worker[w] = "prerun"
  /\ current' = [current EXCEPT ![w] = Object(w)]
  /\ worker' = [worker EXCEPT ![w] = "run"]
  /\ UNCHANGED <<mem, thread_checker_, flags, thread_,
                 spawned_thread_checker_, starts, main_thread_ref_,
                 message_queues_, calls>>

\* ProcessMessages(kForever) returns when no handler runs and stop_ is set.
RunEnd(w) ==
  /\ Free(w)
  /\ stop_[Object(w)]
  /\ worker' = [worker EXCEPT ![w] = "ending"]
  /\ UNCHANGED <<mem, thread_checker_, flags, thread_,
                 spawned_thread_checker_, starts, manager, calls>>

PreRunEnd(w) ==
  /\ worker[w] = "ending"
  /\ current' = [current EXCEPT ![w] = None]
  /\ worker' = [worker EXCEPT ![w] = "ended"]
  /\ UNCHANGED <<mem, thread_checker_, flags, thread_,
                 spawned_thread_checker_, starts, main_thread_ref_,
                 message_queues_, calls>>

-----------------------------------------------------------------------------
(* Thread::Quit, Stop, Join and the destructor.                            *)

Quit(p, o) ==
  /\ Free(p)
  /\ mem[o] = "live"
  /\ ~Doomed(o)
  /\ stop_' = [stop_ EXCEPT ![o] = TRUE]
  /\ UNCHANGED <<mem, thread_checker_, thread_ref_, owned_, platform,
                 manager, calls>>

\* Never called on the object the caller runs on (src/thread.h:255).
Stop(p, o) ==
  /\ Free(p)
  /\ Mine(p, o)
  /\ current[p] # o
  /\ Calling(p, "stop", o, FALSE)
  /\ UNCHANGED <<mem, thread_checker_, flags, platform, manager>>

Destroy(p, o) ==
  /\ Free(p)
  /\ Mine(p, o)
  /\ current[p] # o
  /\ Calling(p, "stop", o, TRUE)
  /\ UNCHANGED <<mem, thread_checker_, flags, platform, manager>>

\* Mutant: Stop does not ask the thread to leave its loop.
StopQuitNot(p) ==
  /\ step[p] = "stop"
  /\ Goto(p, "join")
  /\ UNCHANGED <<mem, thread_checker_, flags, platform, manager, on, deleting>>

StopQuit(p) ==
  /\ step[p] = "stop"
  /\ stop_' = [stop_ EXCEPT ![on[p]] = TRUE]
  /\ Goto(p, "join")
  /\ UNCHANGED <<mem, thread_checker_, thread_ref_, owned_, platform,
                 manager, on, deleting>>

\* Stop returns, or the destructor goes on.
Stopped(p) ==
  IF deleting[p] THEN Goto(p, "destroy") /\ UNCHANGED <<on, deleting>>
  ELSE Returns(p)

\* Join finds nothing that runs.
JoinNot(p) ==
  /\ step[p] = "join"
  /\ ~thread_ref_[on[p]]
  /\ Stopped(p)
  /\ UNCHANGED <<mem, thread_checker_, flags, platform, manager>>

\* WrapCurrentWithThreadManager, on the calling thread.
WrapBy(p, o) ==
  /\ thread_ref_' = [thread_ref_ EXCEPT ![o] = TRUE]
  /\ owned_' = [owned_ EXCEPT ![o] = FALSE]
  /\ current' = [current EXCEPT ![p] = o]

\* Join asks for Thread::Current(), which wraps the main thread when nobody
\* has (bound: while an unused object is left).
JoinBegin(p) ==
  /\ step[p] = "join"
  /\ thread_ref_[on[p]]
  /\ IF current[p] = None /\ main_thread_ref_ = p
        /\ \E o \in Objects : mem[o] = "none"
       THEN \E o \in Objects : Construct(p, o) /\ WrapBy(p, o)
       ELSE UNCHANGED <<mem, thread_checker_, thread_ref_, owned_, manager>>
  /\ Goto(p, "wait")
  /\ UNCHANGED <<stop_, platform, on, deleting>>

\* Mutant: the handle is dropped without waiting for the thread.
PlatformStopNoWait(p) ==
  /\ step[p] = "wait"
  /\ thread_' = [thread_ EXCEPT ![on[p]] = None]
  /\ spawned_thread_checker_' =
       [spawned_thread_checker_ EXCEPT ![on[p]] = None]
  /\ Goto(p, "joined")
  /\ UNCHANGED <<mem, thread_checker_, flags, starts, worker, manager, on,
                 deleting>>

\* Mutant: the checker of the spawned thread stays attached.
PlatformStopAttached(p) ==
  /\ step[p] = "wait"
  /\ thread_[on[p]] # None => worker[thread_[on[p]]] = "ended"
  /\ thread_' = [thread_ EXCEPT ![on[p]] = None]
  /\ Goto(p, "joined")
  /\ UNCHANGED <<mem, thread_checker_, flags, spawned_thread_checker_, starts,
                 worker, manager, on, deleting>>

\* PlatformThread::Stop.
PlatformStop(p) ==
  /\ step[p] = "wait"
  /\ LET o == on[p]
     IN IF thread_[o] = None
          THEN UNCHANGED <<thread_, spawned_thread_checker_>>
          ELSE /\ worker[thread_[o]] = "ended"
               /\ thread_' = [thread_ EXCEPT ![o] = None]
               /\ spawned_thread_checker_' =
                    [spawned_thread_checker_ EXCEPT ![o] = None]
  /\ Goto(p, "joined")
  /\ UNCHANGED <<mem, thread_checker_, flags, starts, worker, manager, on,
                 deleting>>

JoinEnd(p) ==
  /\ step[p] = "joined"
  /\ thread_ref_' = [thread_ref_ EXCEPT ![on[p]] = FALSE]
  /\ Stopped(p)
  /\ UNCHANGED <<mem, thread_checker_, stop_, owned_, platform, manager>>

\* DoDestroy: the object leaves the list and is gone.
DoDestroy(p) ==
  /\ step[p] = "destroy"
  /\ message_queues_' = message_queues_ \ {on[p]}
  /\ mem' = [mem EXCEPT ![on[p]] = "deleted"]
  /\ Returns(p)
  /\ UNCHANGED <<thread_checker_, flags, platform, current, main_thread_ref_>>

-----------------------------------------------------------------------------
(* Objects that stand for a thread of the program.                         *)

WrapCurrent(p, o) ==
  /\ Free(p)
  /\ Mine(p, o)
  /\ current[p] = None
  /\ ~thread_ref_[o]
  /\ WrapBy(p, o)
  /\ UNCHANGED <<mem, thread_checker_, stop_, platform, main_thread_ref_,
                 message_queues_, calls>>

\* ThreadManager::WrapCurrentThread and, on the main thread, Current().
WrapCurrentThread(p, o) ==
  /\ Free(p)
  /\ current[p] = None
  /\ Construct(p, o)
  /\ WrapBy(p, o)
  /\ UNCHANGED <<stop_, platform, calls>>

\* Mutant: the pointer to the object stays behind.
UnwrapByKeeps(p) ==
  /\ current[p] # None
  /\ ~owned_[current[p]]
  /\ thread_ref_' = [thread_ref_ EXCEPT ![current[p]] = FALSE]
  /\ UNCHANGED current

UnwrapBy(p) ==
  /\ current[p] # None
  /\ ~owned_[current[p]]
  /\ current' = [current EXCEPT ![p] = None]
  /\ thread_ref_' = [thread_ref_ EXCEPT ![current[p]] = FALSE]

UnwrapCurrent(p) ==
  /\ Free(p)
  /\ UnwrapBy(p)
  /\ UNCHANGED <<mem, thread_checker_, stop_, owned_, platform,
                 main_thread_ref_, message_queues_, calls>>

\* ThreadManager::UnwrapCurrentThread deletes the object, too; it leaves an
\* object that was started alone.
UnwrapCurrentThread(p) ==
  /\ Free(p)
  /\ UnwrapBy(p)
  /\ Calling(p, "stop", current[p], TRUE)
  /\ UNCHANGED <<mem, thread_checker_, stop_, owned_, platform,
                 main_thread_ref_, message_queues_>>

-----------------------------------------------------------------------------

Init ==
  /\ mem = [o \in Objects |-> "none"]
  /\ thread_checker_ = [o \in Objects |-> None]
  /\ stop_ = [o \in Objects |-> FALSE]
  /\ thread_ref_ = [o \in Objects |-> FALSE]
  /\ owned_ = [o \in Objects |-> TRUE]
  /\ thread_ = [o \in Objects |-> None]
  /\ spawned_thread_checker_ = [o \in Objects |-> None]
  /\ starts = [o \in Objects |-> 0]
  /\ worker = [w \in Workers |-> "none"]
  /\ current = [p \in OSThreads |-> None]
  /\ main_thread_ref_ = None
  /\ message_queues_ = {}
  /\ step = [p \in OSThreads |-> "idle"]
  /\ on = [p \in OSThreads |-> None]
  /\ deleting = [p \in OSThreads |-> FALSE]

\* A new call of p.
CallBegin(p) ==
  \/ UnwrapCurrent(p)
  \/ UnwrapCurrentThread(p)
  \/ \E o \in Objects :
       \/ Create(p, o)
       \/ StartBegin(p, o)
       \/ Quit(p, o)
       \/ Stop(p, o)
       \/ Destroy(p, o)
       \/ WrapCurrent(p, o)
       \/ WrapCurrentThread(p, o)

\* The rest of the call p is in.
CallStep(p) ==
  \/ StartThread(p)
  \/ StartEnd(p)
  \/ StopQuit(p)
  \/ JoinNot(p)
  \/ JoinBegin(p)
  \/ PlatformStop(p)
  \/ JoinEnd(p)
  \/ DoDestroy(p)

WorkerStep(w) == PlatformRun(w) \/ PreRun(w) \/ PreRunEnd(w)

Next ==
  \/ \E p \in OSThreads : CallBegin(p) \/ CallStep(p)
  \/ \E w \in Workers : WorkerStep(w) \/ RunEnd(w)

Spec == Init /\ [][Next]_vars

\* A thread that can run does; a handler does not make calls for ever.
FairSpec ==
  /\ Spec
  /\ \A p \in OSThreads : WF_vars(CallStep(p))
  /\ \A w \in Workers : WF_vars(WorkerStep(w)) /\ SF_vars(RunEnd(w))

-----------------------------------------------------------------------------
(* Properties.                                                             *)

TypeOK ==
  /\ mem \in [Objects -> {"none", "live", "deleted"}]
  /\ thread_checker_ \in [Objects -> OSThreads \cup {None}]
  /\ stop_ \in [Objects -> BOOLEAN]
  /\ thread_ref_ \in [Objects -> BOOLEAN]
  /\ owned_ \in [Objects -> BOOLEAN]
  /\ thread_ \in [Objects -> Workers \cup {None}]
  /\ spawned_thread_checker_ \in [Objects -> Workers \cup {None}]
  /\ starts \in [Objects -> 0..MaxStarts]
  /\ worker \in [Workers -> {"none", "created", "prerun", "run", "ending",
                             "ended"}]
  /\ current \in [OSThreads -> Objects \cup {None}]
  /\ main_thread_ref_ \in OSThreads \cup {None}
  /\ message_queues_ \subseteq Objects
  /\ step \in [OSThreads -> {"idle", "create", "created", "stop", "join",
                             "wait", "joined", "destroy"}]
  /\ on \in [OSThreads -> Objects \cup {None}]
  /\ deleting \in [OSThreads -> BOOLEAN]
  /\ \A p \in OSThreads :
       /\ step[p] = "idle" <=> on[p] = None
       /\ deleting[p] => on[p] # None

Alive(w) == worker[w] \in {"created", "prerun", "run", "ending"}

\* An object has at most one spawned thread, the one its handle names, and
\* none when it is not running: when Stop or Join has returned, no handler
\* of the object runs until the next Start (src/thread.cc:710-732).
StoppedIsStill ==
  \A w \in Workers : Alive(w) =>
    /\ thread_[Object(w)] = w
    /\ \/ thread_ref_[Object(w)]
       \/ \E p \in OSThreads : step[p] = "created" /\ on[p] = Object(w)

\* Thread::Current() is never a deleted object, and no thread runs on one
\* (src/thread.cc:251-254, 214-220, 740-752).
NoDangling ==
  /\ \A p \in OSThreads :
       current[p] # None => mem[current[p]] = "live"
  /\ \A w \in Workers : Alive(w) => mem[Object(w)] = "live"

\* No object is the current one of two threads, and handlers run where their
\* object is the current one: IsCurrent() holds on one thread at most
\* (src/thread.cc:566-568).
OneCurrent ==
  /\ \A p, q \in OSThreads :
       p # q /\ current[p] # None => current[p] # current[q]
  /\ \A w \in Workers : worker[w] = "run" => current[w] = Object(w)

\* A thread that is about to run finds the checker of the spawned thread
\* detached: the assertion of src/platform_thread.cc:126 holds after every
\* restart.
CheckerFits ==
  \A w \in Workers : worker[w] = "created" =>
    spawned_thread_checker_[Object(w)] = None

\* Stop, Join and the destructor return (src/thread.cc:763-766).
StopReturns ==
  \A p \in OSThreads : (step[p] = "stop") ~> (step[p] = "idle")

\* A Quit that comes when Start has returned ends the spawned thread.
QuitIsObeyed ==
  \A w \in Workers :
    (Alive(w) /\ thread_ref_[Object(w)] /\ stop_[Object(w)])
      ~> (worker[w] = "ended")

=============================================================================
