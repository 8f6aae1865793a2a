------------------------------- MODULE Checkers --------------------------------
(***************************************************************************)
(* RaceChecker (src/race_checker.cc) and SequenceChecker                   *)
(* (src/synchronization/sequence_checker.cc).  The race checker has no     *)
(* synchronization by design: every load and store of its two words is a   *)
(* step.  The sequence checker works under its lock: a call is a step.     *)
(***************************************************************************)
EXTENDS Integers, FiniteSets

CONSTANTS
  Threads,
  NoThread,
  MaxDepth,   \* bound: nested scopes of a thread
  MaxScopes   \* bound: scopes in a run

VARIABLES
  access_count_, accessing_thread_,
  rpc, loaded,    \* per thread: its step and the count it has loaded
  nested,         \* its scopes
  scopes,         \* how many scopes there were
  alarm,          \* the threads that were told of a race
  overlapped,     \* history: two threads were inside at once
  intruded,       \* history: the threads that acquired as the first to overlap
                  \* another one that was inside and stayed there
  attached_, valid_thread_,
  confirmed       \* history: who was told to be current since it was attached

race == <<access_count_, accessing_thread_, rpc, loaded, nested, scopes, alarm,
          overlapped, intruded>>
sequence == <<attached_, valid_thread_, confirmed>>
vars == <<race, sequence>>

-----------------------------------------------------------------------------
(* RaceChecker::Acquire and Release, in a RaceCheckerScope.                *)

Step(t, a, b) == rpc[t] = a /\ rpc' = [rpc EXCEPT ![t] = b]

Busy(t) == nested[t] > 0 \/ rpc[t] # "out"
Settled(t) == nested[t] > 0 /\ rpc[t] = "out"

\* access_count_++ loads ...
AcquireLoad(t) ==
  /\ nested[t] < MaxDepth /\ scopes < MaxScopes
  /\ Step(t, "out", "acquire")
  /\ loaded' = [loaded EXCEPT ![t] = access_count_]
  /\ scopes' = scopes + 1
  /\ LET others == {u \in Threads \ {t} : Busy(u)}
     IN /\ overlapped' = (overlapped \/ others # {})
        /\ intruded' = IF ~overlapped /\ others # {}
                            /\ \A u \in others : Settled(u)
                       THEN {t} ELSE intruded
  /\ UNCHANGED <<access_count_, accessing_thread_, nested, alarm>>

\* ... and stores;
AcquireStore(t) ==
  /\ Step(t, "acquire", IF loaded[t] = 0 THEN "claim" ELSE "compare")
  /\ access_count_' = loaded[t] + 1
  /\ UNCHANGED <<accessing_thread_, loaded, nested, scopes, alarm, overlapped,
                 intruded>>

AcquireClaim(t) ==
  /\ Step(t, "claim", "compare")
  /\ accessing_thread_' = t
  /\ UNCHANGED <<access_count_, loaded, nested, scopes, alarm, overlapped,
                 intruded>>

AcquireCompare(t) ==
  /\ Step(t, "compare", "out")
  /\ nested' = [nested EXCEPT ![t] = @ + 1]
  /\ alarm' = IF accessing_thread_ = t THEN alarm ELSE alarm \cup {t}
  /\ UNCHANGED <<access_count_, accessing_thread_, loaded, scopes, overlapped,
                 intruded>>

\* Another thread that leaves while t acquires excuses t.
ReleaseLoad(t) ==
  /\ nested[t] > 0
  /\ Step(t, "out", "release")
  /\ loaded' = [loaded EXCEPT ![t] = access_count_]
  /\ intruded' = {u \in intruded : rpc[u] = "out"}
  /\ UNCHANGED <<access_count_, accessing_thread_, nested, scopes, alarm,
                 overlapped>>

\* Mutant: the scopes of a thread count once.
ReleaseStoreAll(t) ==
  /\ Step(t, "release", "out")
  /\ access_count_' = 0
  /\ nested' = [nested EXCEPT ![t] = @ - 1]
  /\ UNCHANGED <<accessing_thread_, loaded, scopes, alarm, overlapped,
                 intruded>>

ReleaseStore(t) ==
  /\ Step(t, "release", "out")
  /\ access_count_' = loaded[t] - 1
  /\ nested' = [nested EXCEPT ![t] = @ - 1]
  /\ UNCHANGED <<accessing_thread_, loaded, scopes, alarm, overlapped,
                 intruded>>

-----------------------------------------------------------------------------
(* SequenceCheckerImpl.                                                    *)

\* What IsCurrent answers to t; it attaches t when nobody is.
IsCurrent(t) ==
  LET current == ~attached_ \/ valid_thread_ = t
  IN /\ attached_' = TRUE
     /\ valid_thread_' = IF attached_ THEN valid_thread_ ELSE t
     /\ confirmed' = IF current THEN confirmed \cup {t} ELSE confirmed
     /\ UNCHANGED race

Detach ==
  /\ attached_' = FALSE
  /\ confirmed' = {}
  /\ UNCHANGED <<race, valid_thread_>>

\* The checker is made by any of the threads; CHOOSE, as they are alike.
Creator == CHOOSE t \in Threads : TRUE

Init ==
  /\ access_count_ = 0
  /\ accessing_thread_ = NoThread
  /\ rpc = [t \in Threads |-> "out"]
  /\ loaded = [t \in Threads |-> 0]
  /\ nested = [t \in Threads |-> 0]
  /\ scopes = 0
  /\ alarm = {}
  /\ overlapped = FALSE
  /\ intruded = {}
  /\ attached_ = TRUE
  /\ valid_thread_ = Creator
  /\ confirmed = {}

RaceSteps(t) ==
  \/ AcquireLoad(t) \/ AcquireStore(t) \/ AcquireClaim(t) \/ AcquireCompare(t)
  \/ ReleaseLoad(t) \/ ReleaseStore(t)

Next ==
  \/ \E t \in Threads : (RaceSteps(t) /\ UNCHANGED sequence) \/ IsCurrent(t)
  \/ Detach

Spec == Init /\ [][Next]_vars

-----------------------------------------------------------------------------
(* Properties.                                                             *)

TypeOK ==
  /\ access_count_ \in Int
  /\ accessing_thread_ \in Threads \cup {NoThread}
  /\ loaded \in [Threads -> Int]
  /\ alarm \subseteq Threads
  /\ valid_thread_ \in Threads

\* The race checker, racy itself, cries wolf never: a thread is told of a race
\* only after two threads were inside at once.  And it sees the first race at
\* least when one thread enters while others are inside and stay there
\* (race_checker.cc:17-34).  The sequence checker confirms one thread at most
\* between two Detach.
CheckersTell ==
  /\ alarm # {} => overlapped
  /\ \A t \in intruded : nested[t] > 0 /\ rpc[t] = "out" => t \in alarm
  /\ Cardinality(confirmed) <= 1

===============================================================================
