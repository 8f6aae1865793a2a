---------------------------- MODULE CriticalSection ----------------------------
(***************************************************************************)
(* CriticalSection, its scopes and GlobalLock (src/critical_section.cc).   *)
(* The mutex under a CriticalSection is recursive and belongs to the       *)
(* operating system; a debug build keeps its owner and depth a second      *)
(* time, in thread_ and recursion_count_, and asserts that they agree.     *)
(* GlobalLock is a word that is exchanged until it was 0.                  *)
(***************************************************************************)
EXTENDS Integers

CONSTANTS
  Threads,
  NoThread,  \* the null Thrd
  MaxDepth   \* bound: scopes of a thread

VARIABLES
  mutex_,            \* the thread that holds it and how often
  thread_, recursion_count_,
  lock_acquired_,
  at,                \* per thread: its step,
  depth,             \* the scopes of the section it is in,
  spun,              \* and whether it is in the GlobalLockScope
  dcheck_failed

vars == <<mutex_, thread_, recursion_count_, lock_acquired_, at, depth, spun,
          dcheck_failed>>
section == <<mutex_, thread_, recursion_count_, depth>>
global == <<lock_acquired_, spun>>

Step(t, a, b) == at[t] = a /\ at' = [at EXCEPT ![t] = b]

Dcheck(holds) == dcheck_failed' = (dcheck_failed \/ ~holds)

-----------------------------------------------------------------------------
(* The recursive mutex.                                                    *)

MtxFree(t) == mutex_.holder \in {NoThread, t}

MtxLock(t) ==
  MtxFree(t) /\ mutex_' = [holder |-> t, count |-> mutex_.count + 1]

MtxUnlock(t) ==
  mutex_' = [holder |-> IF mutex_.count = 1 THEN NoThread ELSE t,
             count |-> mutex_.count - 1]

-----------------------------------------------------------------------------
(* CriticalSection.                                                        *)

CurrentThreadIsOwner(t) == thread_ = t

EnterLocks(t) ==
  /\ depth[t] < MaxDepth
  /\ Step(t, "outside", "entering")
  /\ MtxLock(t)
  /\ UNCHANGED <<thread_, recursion_count_, depth, global, dcheck_failed>>

\* Mutant: only the first entry is counted.
EnterCountsOnce(t) ==
  /\ Step(t, "entering", "outside")
  /\ Dcheck(recursion_count_ = 0 \/ CurrentThreadIsOwner(t))
  /\ thread_' = t
  /\ recursion_count_' = 1
  /\ depth' = [depth EXCEPT ![t] = @ + 1]
  /\ UNCHANGED <<mutex_, global>>

\* What Enter and TryEnter note once they have the mutex.
EnterCounts(t) ==
  /\ Step(t, "entering", "outside")
  /\ IF recursion_count_ = 0
     THEN Dcheck(thread_ = NoThread) /\ thread_' = t
     ELSE Dcheck(CurrentThreadIsOwner(t)) /\ UNCHANGED thread_
  /\ recursion_count_' = recursion_count_ + 1
  /\ depth' = [depth EXCEPT ![t] = @ + 1]
  /\ UNCHANGED <<mutex_, global>>

\* A TryCritScope that is not locked, and ends without Leave.
TryEnterFails(t) ==
  /\ at[t] = "outside"
  /\ ~MtxFree(t)
  /\ UNCHANGED vars

LeaveCounts(t) ==
  /\ depth[t] > 0
  /\ Step(t, "outside", "leaving")
  /\ Dcheck(CurrentThreadIsOwner(t) /\ recursion_count_ - 1 >= 0)
  /\ recursion_count_' = recursion_count_ - 1
  /\ depth' = [depth EXCEPT ![t] = @ - 1]
  /\ UNCHANGED <<mutex_, thread_, global>>

LeaveForgets(t) ==
  /\ Step(t, "leaving", "unlocking")
  /\ thread_' = IF recursion_count_ = 0 THEN NoThread ELSE thread_
  /\ UNCHANGED <<mutex_, recursion_count_, depth, global, dcheck_failed>>

LeaveUnlocks(t) ==
  /\ Step(t, "unlocking", "outside")
  /\ MtxUnlock(t)
  /\ UNCHANGED <<thread_, recursion_count_, depth, global, dcheck_failed>>

-----------------------------------------------------------------------------
(* GlobalLock, used through GlobalLockScope.                               *)

CompareAndSwap(old_value, new_value) ==
  lock_acquired_' = IF lock_acquired_ = old_value THEN new_value
                    ELSE lock_acquired_

\* Another round of ThrdYield when the word was 1.
Lock(t) ==
  /\ at[t] = "outside" /\ ~spun[t]
  /\ CompareAndSwap(0, 1)
  /\ spun' = [spun EXCEPT ![t] = lock_acquired_ = 0]
  /\ UNCHANGED <<section, at, dcheck_failed>>

Unlock(t) ==
  /\ at[t] = "outside" /\ spun[t]
  /\ CompareAndSwap(1, 0)
  /\ Dcheck(lock_acquired_ = 1)
  /\ spun' = [spun EXCEPT ![t] = FALSE]
  /\ UNCHANGED <<section, at>>

Init ==
  /\ mutex_ = [holder |-> NoThread, count |-> 0]
  /\ thread_ = NoThread
  /\ recursion_count_ = 0
  /\ lock_acquired_ = 0
  /\ at = [t \in Threads |-> "outside"]
  /\ depth = [t \in Threads |-> 0]
  /\ spun = [t \in Threads |-> FALSE]
  /\ dcheck_failed = FALSE

Next == \E t \in Threads :
  \/ EnterLocks(t) \/ EnterCounts(t) \/ TryEnterFails(t)
  \/ LeaveCounts(t) \/ LeaveForgets(t) \/ LeaveUnlocks(t)
  \/ Lock(t) \/ Unlock(t)

Spec == Init /\ [][Next]_vars

-----------------------------------------------------------------------------
(* Properties.                                                             *)

TypeOK ==
  /\ mutex_ \in [holder : Threads \cup {NoThread}, count : Nat]
  /\ thread_ \in Threads \cup {NoThread}
  /\ recursion_count_ \in Int
  /\ lock_acquired_ \in {0, 1}
  /\ at \in [Threads -> {"outside", "entering", "leaving", "unlocking"}]
  /\ depth \in [Threads -> Nat]
  /\ spun \in [Threads -> BOOLEAN]
  /\ dcheck_failed \in BOOLEAN

\* At most one thread is in scopes of the section, one in the GlobalLockScope,
\* however deep the scopes are nested and whichever way they were entered; no
\* assertion on the second copy of the owner fails (critical_section.cc:38,
\* 41, 65, 69, 118).
LocksExclude ==
  /\ \A t, u \in Threads :
       /\ depth[t] > 0 /\ depth[u] > 0 => t = u
       /\ spun[t] /\ spun[u] => t = u
  /\ ~dcheck_failed

===============================================================================
