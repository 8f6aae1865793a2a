---------------------------- MODULE MCLifeAndClear ----------------------------
(* Two views of the rtc::Threads of a program in one run: how they are      *)
(* built, started, stopped and deleted (ThreadLife), and how their queues    *)
(* are cleared (ManagerClear).  In a behaviour one of the two moves, the     *)
(* other stays as it is.                                                     *)
EXTENDS MCManagerClear, ThreadNames

VARIABLES
  view,   \* which of the two moves
  mem, thread_checker_, stop_, thread_ref_, owned_, thread_,
  spawned_thread_checker_, starts, worker, current, main_thread_ref_, listed,
  step, on, deleting

life_vars ==
  <<mem, thread_checker_, stop_, thread_ref_, owned_, thread_,
    spawned_thread_checker_, starts, worker, current, main_thread_ref_, listed,
    step, on, deleting>>

Life == INSTANCE ThreadLife WITH message_queues_ <- listed

MCVars == <<view, vars, life_vars>>

MCInit == view \in {"clear", "life"} /\ Init /\ Life!Init

OfClear(A) == view = "clear" /\ A /\ UNCHANGED <<view, life_vars>>
OfLife(A) == view = "life" /\ A /\ UNCHANGED <<view, vars>>

MCNext == OfClear(Next) \/ OfLife(Life!Next)

\* The fairness of ManagerClear and of ThreadLife.
MCSpec ==
  /\ MCInit /\ [][MCNext]_MCVars
  /\ \A t \in Threads : WF_MCVars(OfClear(Step(t)))
  /\ \A p \in OSThreads : WF_MCVars(OfLife(Life!CallStep(p)))
  /\ \A x \in Workers : /\ WF_MCVars(OfLife(Life!WorkerStep(x)))
                             /\ SF_MCVars(OfLife(Life!RunEnd(x)))

-----------------------------------------------------------------------------
(* The properties of ThreadLife.                                             *)

\* When Stop or Join has returned, no handler of the object runs until it is
\* started again, and a thread that is about to run finds the checker of the
\* spawned thread detached, as PlatformThread::Run asserts at the next start
\* (src/thread.cc:710-732, src/platform_thread.cc:114, 126).
StoppedIsClean == Life!StoppedIsStill /\ Life!CheckerFits

\* Thread::Current() is never a deleted object, and no thread runs on one
\* (src/thread.cc:251-254, 214-220, 740-752).
NoDangling == Life!NoDangling

\* Stop, Join and the destructor return (src/thread.cc:763-766).
StopReturns == Life!StopReturns

\* A Quit that comes when Start has returned ends the spawned thread.
QuitIsObeyed == Life!QuitIsObeyed

===============================================================================
