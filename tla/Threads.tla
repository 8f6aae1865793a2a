-------------------------------- MODULE Threads --------------------------------
(***************************************************************************)
(* The C11 thread functions over pthreads (src/features/thread_c_inl.h),   *)
(* their C++ names (src/platform_thread_types.cc) and how PlatformThread   *)
(* spawns a thread with them.  A thread is created with a block that says  *)
(* what to run; the new thread reads it and frees it, or its creator does  *)
(* when there is no thread.  pthread_create stores the handle before it    *)
(* returns, which may be after the new thread has run.                     *)
(***************************************************************************)
EXTENDS Integers

CONSTANTS
  Spawned,    \* the threads that may be created, as their handles
  Results,    \* what their functions return
  PrioRange   \* the range of min_prio and max_prio of a policy

VARIABLES
  thr,       \* the handle in the creator's object, 0 for none
  cpc,       \* the creator: its step,
  creating,  \* the thread it creates, 0 for none yet,
  status,    \* and what thrd_create or thrd_join last returned, with res
  block,     \* per thread: its thrd_start_wrapper_args_t
  tpc,       \* per thread: its step
  result,    \* what its function returned
  prioritized, \* history: the handles given to pthread_setschedparam
  fault      \* a block was used after it was freed

creator == <<thr, cpc, creating, status>>
vars == <<creator, block, tpc, result, prioritized, fault>>

thrd_success == 0
thrd_error == -1
thrd_nomem == -4
thrd_null == 0
NULL == 0

-----------------------------------------------------------------------------
(* Comparing, and priorities.                                              *)

\* thrd_equal answers 0 for equal handles, against its comment (line 52), and
\* ThrdEqual turns it round.
pthread_equal(thr0, thr1) == IF thr0 = thr1 THEN 1 ELSE 0
thrd_equal(thr0, thr1) == IF pthread_equal(thr0, thr1) = 0 THEN 1 ELSE 0
ThrdEqual(thr0, thr1) == thrd_equal(thr0, thr1) = 0

Priorities == <<"low", "normal", "high", "highest", "realtime">>

AtLeast(a, b) == IF a < b THEN b ELSE a

\* The parameter for pthread_setschedparam, or thrd_error.
thrd_set_priority(prio, min_prio, max_prio) ==
  LET top_prio == max_prio - 1
      low_prio == min_prio + 1
  IN IF \/ min_prio = -1 \/ max_prio = -1
        \/ max_prio - min_prio <= 2
     THEN thrd_error
     ELSE CASE prio = "low" -> low_prio
            [] prio = "normal" -> (low_prio + top_prio - 1) \div 2
            [] prio = "high" -> AtLeast(top_prio - 2, low_prio)
            [] prio = "highest" -> AtLeast(top_prio - 1, low_prio)
            [] prio = "realtime" -> top_prio

-----------------------------------------------------------------------------
(* thrd_create and what the new thread does first.                         *)

Unchanged == UNCHANGED result

Fresh(t) == tpc[t] = "none" /\ block[t] = "none"

CreateBegin ==
  /\ cpc = "idle" /\ thr = thrd_null
  /\ \/ status' = <<thrd_nomem, NULL>> /\ UNCHANGED <<cpc, creating, block>>
     \/ \E t \in Spawned :
          /\ Fresh(t)
          /\ creating' = t
          /\ block' = [block EXCEPT ![t] = "allocated"]
          /\ cpc' = "create" /\ UNCHANGED status
  /\ UNCHANGED <<thr, tpc, prioritized, fault>> /\ Unchanged

\* pthread_create makes the thread ...
CreateHelper ==
  /\ cpc = "create"
  /\ tpc' = [tpc EXCEPT ![creating] = "wrapper"]
  /\ cpc' = "store"
  /\ UNCHANGED <<thr, creating, status, block, prioritized, fault>>
  /\ Unchanged

\* ... and its handle is stored.
CreateStores ==
  /\ cpc = "store"
  /\ thr' = creating
  /\ cpc' = "created"
  /\ UNCHANGED <<creating, status, block, tpc, prioritized, fault>>
  /\ Unchanged

CreateFails ==
  /\ cpc = "create"
  /\ thr' = thrd_null
  /\ cpc' = "created"
  /\ UNCHANGED <<creating, status, block, tpc, prioritized, fault>>
  /\ Unchanged

Free(t) ==
  /\ fault' = (fault \/ block[t] # "allocated")
  /\ block' = [block EXCEPT ![t] = "freed"]

\* Mutant: the creator frees the block whether there is a thread or not.
CreateEndFrees ==
  /\ cpc = "created"
  /\ status' = <<IF thr = thrd_null THEN thrd_error ELSE thrd_success, NULL>>
  /\ Free(creating)
  /\ cpc' = "idle" /\ creating' = 0
  /\ UNCHANGED <<thr, tpc, prioritized>> /\ Unchanged

CreateEnd ==
  /\ cpc = "created"
  /\ \/ /\ thr = thrd_null
        /\ status' = <<thrd_error, NULL>>
        /\ Free(creating)
     \/ /\ thr # thrd_null
        /\ status' = <<thrd_success, NULL>>
        /\ UNCHANGED <<block, fault>>
  /\ cpc' = "idle" /\ creating' = 0
  /\ UNCHANGED <<thr, tpc, prioritized>> /\ Unchanged

\* thrd_start_wrapper_func_helper copies the block and frees it.
Wrapper(t) ==
  /\ tpc[t] = "wrapper"
  /\ Free(t)
  /\ tpc' = [tpc EXCEPT ![t] = "prio"]
  /\ UNCHANGED <<creator, prioritized>> /\ Unchanged

\* Mutant: PlatformThread::Run takes the handle its creator stores.
SetPrioByHandle(t) ==
  /\ tpc[t] = "prio"
  /\ \E prio \in DOMAIN Priorities, min, max \in PrioRange[1]..PrioRange[2] :
       IF thrd_set_priority(Priorities[prio], min, max) = thrd_error
       THEN UNCHANGED prioritized
       ELSE prioritized' = prioritized \cup {thr}
  /\ tpc' = [tpc EXCEPT ![t] = "run"]
  /\ UNCHANGED <<creator, block, fault>> /\ Unchanged

\* PlatformThread::Run asks for a priority of the thread it is on.  What comes
\* of it is not looked at: the policy may have no range, as SCHED_OTHER on
\* Linux, and the system may refuse; the function runs all the same.
SetPrio(t) ==
  /\ tpc[t] = "prio"
  /\ \E prio \in DOMAIN Priorities, min, max \in PrioRange[1]..PrioRange[2] :
       IF thrd_set_priority(Priorities[prio], min, max) = thrd_error
       THEN UNCHANGED prioritized
       ELSE prioritized' = prioritized \cup {t}
  /\ tpc' = [tpc EXCEPT ![t] = "run"]
  /\ UNCHANGED <<creator, block, fault>> /\ Unchanged

-----------------------------------------------------------------------------
(* The end of the function and its join.                                   *)

\* The function returns, or calls thrd_exit.
Exit(t, res) ==
  /\ tpc[t] = "run"
  /\ tpc' = [tpc EXCEPT ![t] = "exited"]
  /\ result' = [result EXCEPT ![t] = res]
  /\ UNCHANGED <<creator, block, prioritized, fault>>

\* thrd_join returns when the thread has exited.
Join ==
  /\ cpc = "idle" /\ thr # thrd_null
  /\ tpc[thr] = "exited"
  /\ status' = <<thrd_success, result[thr]>>
  /\ tpc' = [tpc EXCEPT ![thr] = "joined"]
  /\ thr' = thrd_null
  /\ UNCHANGED <<cpc, creating, block, prioritized, fault>> /\ Unchanged

\* thrd_detach: nobody joins it.
Detach ==
  /\ cpc = "idle" /\ thr # thrd_null
  /\ status' = <<thrd_success, NULL>>
  /\ thr' = thrd_null
  /\ UNCHANGED <<cpc, creating, block, tpc, prioritized, fault>> /\ Unchanged

Init ==
  /\ thr = thrd_null /\ cpc = "idle" /\ creating = 0
  /\ status = <<thrd_success, NULL>>
  /\ block = [t \in Spawned |-> "none"]
  /\ tpc = [t \in Spawned |-> "none"]
  /\ result = [t \in Spawned |-> 0]
  /\ prioritized = {}
  /\ fault = FALSE

Next ==
  \/ CreateBegin \/ CreateHelper \/ CreateStores \/ CreateFails \/ CreateEnd
  \/ Join \/ Detach
  \/ \E t \in Spawned :
       \/ Wrapper(t) \/ SetPrio(t)
       \/ \E res \in Results : Exit(t, res)

Spec == Init /\ [][Next]_vars

-----------------------------------------------------------------------------
(* Properties.                                                             *)

TypeOK ==
  /\ thr \in Spawned \cup {thrd_null}
  /\ block \in [Spawned -> {"none", "allocated", "freed"}]
  /\ prioritized \subseteq Spawned \cup {thrd_null}

\* When no call is in progress every block has been freed, or waits for the
\* thread that will.
BlocksFreedOnce ==
  /\ ~fault
  /\ cpc = "idle" => \A t \in Spawned :
                       block[t] = "allocated" => tpc[t] = "wrapper"

\* A priority is only asked for a thread that runs its function or is about to
\* call it, not for the handle its creator has yet to store
\* (platform_thread.cc:130-133).
PriorityIsOwn ==
  \A h \in prioritized :
    h \in Spawned /\ tpc[h] \in {"run", "exited", "joined"}

\* The order of the priorities is kept, for any range the system has; the
\* instances assume it (thread_c_inl.h:86-124).
PrioritiesOrdered ==
  \A min \in PrioRange[1]..PrioRange[2], max \in PrioRange[1]..PrioRange[2],
     i, j \in DOMAIN Priorities :
    LET P(k) == thrd_set_priority(Priorities[k], min, max)
    IN i <= j => P(i) <= P(j) /\ (P(i) # thrd_error => P(i) \in min..max)

\* The block changes hands with the thread and is freed once, also when the
\* new thread is faster than its creator; a priority is asked for the right
\* thread, though nothing says that it gets it; ThrdEqual holds for equal
\* handles only, because it reads thrd_equal against the comment of that
\* (thread_c_inl.h:27-41, 52-57, 86-124, 264-285,
\* platform_thread_types.cc:29-32, platform_thread.cc:130-133).
SpawnIsSound ==
  /\ BlocksFreedOnce /\ PriorityIsOwn
  /\ \A t, u \in Spawned : ThrdEqual(t, u) <=> t = u

===============================================================================
