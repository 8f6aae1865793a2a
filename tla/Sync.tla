--------------------------------- MODULE Sync ---------------------------------
(***************************************************************************)
(* The components that several threads share.  Each behaviour is one of    *)
(* the component that subject names, and all others stay as they are: they *)
(* do not touch each other.                                                *)
(***************************************************************************)
EXTENDS SwapQueue

CONSTANTS
  NoThread, nullptr, stdout, NoFile,
  Waiters, InitiallySignaled, Delays, DefaultWarn, MaxTime,
  LockThreads, LockDepth,
  RaceThreads, RaceDepth, MaxScopes,
  RefThreads, RefSlots, Objects,
  Spawned, Results, PrioRange,
  TraceThreads, Files, Levels, MaxStreams, MaxRows, WrapLines, MaxMessage,
  MsgLengths, MaxLines

VARIABLE subject   \* the component this behaviour is one of

VARIABLES
  is_manual_reset_, event_status_, wpc, warn_ts, give_up_ts, answer, clock
event_vars ==
  <<is_manual_reset_, event_status_, wpc, warn_ts, give_up_ts, answer,
  clock>>
Events == INSTANCE Event

VARIABLES
  mutex_, thread_, recursion_count_, lock_acquired_, at, depth, spun,
  dcheck_failed
locks_vars ==
  <<mutex_, thread_, recursion_count_, lock_acquired_, at, depth, spun,
  dcheck_failed>>
Locks == INSTANCE CriticalSection WITH
  Threads <- LockThreads,
  MaxDepth <- LockDepth

VARIABLES
  access_count_, accessing_thread_, rpc, rloaded, nested, scopes, alarm,
  overlapped, intruded, attached_, valid_thread_, confirmed
checkers_vars ==
  <<access_count_, accessing_thread_, rpc, rloaded, nested, scopes, alarm,
  overlapped, intruded, attached_, valid_thread_, confirmed>>
Races == INSTANCE Checkers WITH
  Threads <- RaceThreads,
  MaxDepth <- RaceDepth,
  loaded <- rloaded

VARIABLES
  ptr_, raw, ref_count_, life, rcall
refs_vars == <<ptr_, raw, ref_count_, life, rcall>>
Refs == INSTANCE RefCount WITH
  Threads <- RefThreads,
  Slots <- RefSlots,
  call <- rcall

VARIABLES
  thr, spc, creating, status, block, wtpc, result, prioritized, fault
threads_vars ==
  <<thr, spc, creating, status, block, wtpc, result, prioritized, fault>>
Spawns == INSTANCE Threads WITH
  cpc <- spc,
  tpc <- wtpc

VARIABLES
  handle_number, handles, done, files, tpc, at_handle, arg, tloaded, added,
  given
trace_vars ==
  <<handle_number, handles, done, files, tpc, at_handle, arg, tloaded, added,
  given>>
Traces == INSTANCE Trace WITH
  Threads <- TraceThreads,
  i <- at_handle,
  loaded <- tloaded

\* nullptr, NoThread and a handle that is 0 are nobody's; a checker is made by
\* a thread; times are not negative.
ASSUME SyncAssumption ==
  /\ NoThread \notin LockThreads
  /\ RaceThreads # {}
  /\ nullptr \notin Objects \cup Refs!Pointers
  /\ Spawns!NULL \notin Spawned
  /\ InitiallySignaled \in BOOLEAN
  /\ Delays \subseteq Nat /\ DefaultWarn \in Nat
  /\ Traces!TraceAssumption
ASSUME Spawns!PrioritiesOrdered

Subjects ==
  {"swap", "event", "locks", "checkers", "refs", "threads", "trace"}

SyncInit ==
  /\ subject \in Subjects
  /\ Init
  /\ Events!Init
  /\ Locks!Init
  /\ Races!Init
  /\ Refs!Init
  /\ Spawns!Init
  /\ Traces!Init

\* The subject takes a step.
SyncNext ==
  /\ UNCHANGED subject
  /\ IF subject = "swap" THEN Next ELSE UNCHANGED vars
  /\ IF subject = "event" THEN Events!Next ELSE UNCHANGED event_vars
  /\ IF subject = "locks" THEN Locks!Next ELSE UNCHANGED locks_vars
  /\ IF subject = "checkers" THEN Races!Next ELSE UNCHANGED checkers_vars
  /\ IF subject = "refs" THEN Refs!Next ELSE UNCHANGED refs_vars
  /\ IF subject = "threads" THEN Spawns!Next ELSE UNCHANGED threads_vars
  /\ IF subject = "trace" THEN Traces!Next ELSE UNCHANGED trace_vars

other_vars ==
  <<subject, event_vars, locks_vars, checkers_vars, refs_vars, threads_vars,
  trace_vars>>
SyncVars == <<vars, other_vars>>

SyncSpec == SyncInit /\ [][SyncNext]_SyncVars

-----------------------------------------------------------------------------
(* The properties of the components, each looked at in its own behaviours.   *)

\* Every component's variables have their types.
SyncTypeOK ==
  CASE subject = "swap" -> TypeOK
    [] subject = "event" -> Events!TypeOK
    [] subject = "locks" -> Locks!TypeOK
    [] subject = "checkers" -> Races!TypeOK
    [] subject = "refs" -> Refs!TypeOK
    [] subject = "threads" -> Spawns!TypeOK
    [] OTHER -> TRUE

\* No thread sleeps in Wait over a signal that is there for it (Event).
NoSleepOverSignal == subject = "event" => Events!NoSleepOverSignal

\* Event implements the abstract Signal.
ImplementsSignal == Events!ImplementsSignal

\* At most one thread is inside a critical section or a global lock.
LocksExclude == subject = "locks" => Locks!LocksExclude

\* Of a race, and of a call on a wrong thread, somebody is told (Checkers).
CheckersTell == subject = "checkers" => Races!CheckersTell

\* The count of an object is the number of its references (RefCount).
CountIsReferences == subject = "refs" => Refs!CountIsReferences

\* The hand-over to a new thread is sound, however fast it is (Threads).
SpawnIsSound == subject = "threads" => Spawns!SpawnIsSound

\* A trace file shows the newest lines after those it keeps (Trace).
StreamsShowNewest == subject = "trace" => Traces!StreamsShowNewest

=============================================================================
