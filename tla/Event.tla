-------------------------------- MODULE Event ---------------------------------
(***************************************************************************)
(* Event (src/event.cc), the build with a condition variable: event_status_*)
(* under event_mutex_, a broadcast by Set, and a Wait of two stages, the   *)
(* first until a warning is due.  What a thread does while it holds the    *)
(* mutex is one step; pthread_cond_wait releases it and sleeps in one step *)
(* and takes it again before it returns, for a broadcast, at its deadline  *)
(* or for no reason at all.                                                *)
(***************************************************************************)
EXTENDS Integers

CONSTANTS
  Waiters,         \* the threads that call Wait
  InitiallySignaled,
  Delays,          \* give_up_after_ms and warn_after_ms that are not kForever
  DefaultWarn,     \* the warning of a Wait without one, 3000 in the code
  MaxTime          \* bound: the clock

VARIABLES
  is_manual_reset_,
  event_status_,
  wpc,     \* per waiter: its step,
  warn_ts, give_up_ts,   \* its deadlines,
  answer,  \* and what its last Wait returned
  clock

vars == <<is_manual_reset_, event_status_, wpc, warn_ts, give_up_ts, answer,
          clock>>

kForever == -1
nullopt == -1
NotWaiting == -2

Stages == {"warn", "give_up"}

-----------------------------------------------------------------------------
(* Wait.  Step <<"test", s>> takes the mutex and looks at event_status_ in *)
(* stage s; "asleep" is inside pthread_cond_wait, unlocked; "timedout" has *)
(* passed its deadline and waits for the mutex.                            *)

GetTimespec(ms) == clock + ms

Step(w, at, s) == wpc' = [wpc EXCEPT ![w] = <<at, s>>]

Return(w, result) ==
  /\ wpc' = [wpc EXCEPT ![w] = <<"idle", "warn">>]
  /\ answer' = [answer EXCEPT ![w] = result]

WaitBegin(w, give_up_after_ms, warn_after_ms) ==
  LET warns == /\ warn_after_ms # kForever
               /\ ~(/\ give_up_after_ms # kForever
                    /\ warn_after_ms > give_up_after_ms)
  IN /\ wpc[w][1] = "idle"
     /\ warn_ts' = [warn_ts EXCEPT
          ![w] = IF warns THEN GetTimespec(warn_after_ms) ELSE nullopt]
     /\ give_up_ts' = [give_up_ts EXCEPT
          ![w] = IF give_up_after_ms = kForever THEN nullopt
                 ELSE GetTimespec(give_up_after_ms)]
     /\ Step(w, "test", IF warns THEN "warn" ELSE "give_up")
     /\ UNCHANGED <<event_status_, answer, clock>>

\* Wait with one argument.
WaitDefault(w, give_up_after_ms) ==
  WaitBegin(w, give_up_after_ms,
            IF give_up_after_ms = kForever THEN DefaultWarn ELSE kForever)

\* The mutex is held: the loop of wait, and what follows it.
Test(w, s) ==
  \/ /\ event_status_
     /\ event_status_' = is_manual_reset_
     /\ Return(w, TRUE)
  \/ /\ ~event_status_
     /\ Step(w, "asleep", s)
     /\ UNCHANGED <<event_status_, answer>>

WaitTest(w) ==
  /\ wpc[w][1] = "test"
  /\ Test(w, wpc[w][2])
  /\ UNCHANGED <<warn_ts, give_up_ts, clock>>

Deadline(w, s) == IF s = "warn" THEN warn_ts[w] ELSE give_up_ts[w]

\* A wake-up without a broadcast.
Spurious(w) ==
  /\ wpc[w][1] = "asleep"
  /\ Step(w, "test", wpc[w][2])
  /\ UNCHANGED <<event_status_, warn_ts, give_up_ts, answer, clock>>

TimedOut(w) ==
  /\ wpc[w][1] = "asleep"
  /\ Deadline(w, wpc[w][2]) # nullopt
  /\ Deadline(w, wpc[w][2]) <= clock
  /\ Step(w, "timedout", wpc[w][2])
  /\ UNCHANGED <<event_status_, warn_ts, give_up_ts, answer, clock>>

\* Mutant: a Wait gives up when its warning is due.
TimedOutReturnsAtOnce(w) ==
  /\ wpc[w][1] = "timedout"
  /\ Return(w, FALSE) /\ UNCHANGED event_status_
  /\ UNCHANGED <<warn_ts, give_up_ts, clock>>

\* error is ETIMEDOUT: the second stage after the first, false after that.
TimedOutReturns(w) ==
  /\ wpc[w][1] = "timedout"
  /\ \/ wpc[w][2] = "warn" /\ Test(w, "give_up")
     \/ /\ wpc[w][2] = "give_up"
        /\ Return(w, FALSE) /\ UNCHANGED event_status_
  /\ UNCHANGED <<warn_ts, give_up_ts, clock>>

-----------------------------------------------------------------------------
(* Set and Reset, by any thread.                                           *)

\* Mutant: one of the sleepers is woken.
SetSignals ==
  /\ event_status_' = TRUE
  /\ \/ \E w \in Waiters :
          wpc[w][1] = "asleep" /\ Step(w, "test", wpc[w][2])
     \/ (\A w \in Waiters : wpc[w][1] # "asleep") /\ UNCHANGED wpc
  /\ UNCHANGED <<warn_ts, give_up_ts, answer, clock>>

Set ==
  /\ event_status_' = TRUE
  /\ wpc' = [w \in Waiters |->
       IF wpc[w][1] = "asleep" THEN <<"test", wpc[w][2]>> ELSE wpc[w]]
  /\ UNCHANGED <<warn_ts, give_up_ts, answer, clock>>

Reset ==
  /\ event_status_' = FALSE
  /\ UNCHANGED <<wpc, warn_ts, give_up_ts, answer, clock>>

Tick ==
  /\ clock < MaxTime
  /\ clock' = clock + 1
  /\ UNCHANGED <<event_status_, wpc, warn_ts, give_up_ts, answer>>

Init ==
  /\ is_manual_reset_ \in BOOLEAN
  /\ event_status_ = InitiallySignaled
  /\ wpc = [w \in Waiters |-> <<"idle", "warn">>]
  /\ warn_ts = [w \in Waiters |-> nullopt]
  /\ give_up_ts = [w \in Waiters |-> nullopt]
  /\ answer = [w \in Waiters |-> FALSE]
  /\ clock = 0

Next ==
  /\ \/ Set \/ Reset \/ Tick
     \/ \E w \in Waiters :
          \/ WaitTest(w) \/ Spurious(w) \/ TimedOut(w) \/ TimedOutReturns(w)
          \/ \E g \in Delays \cup {kForever} :
               \/ WaitDefault(w, g)
               \/ \E m \in Delays : WaitBegin(w, g, m)
  /\ UNCHANGED is_manual_reset_

Spec == Init /\ [][Next]_vars

-----------------------------------------------------------------------------
(* Properties.                                                             *)

TypeOK ==
  /\ is_manual_reset_ \in BOOLEAN
  /\ event_status_ \in BOOLEAN
  /\ wpc \in [Waiters -> {"idle", "test", "asleep", "timedout"} \X Stages]
  /\ answer \in [Waiters -> BOOLEAN]
  /\ \A w \in Waiters : wpc[w] = <<"asleep", "warn">> => warn_ts[w] # nullopt

\* No thread is asleep inside Wait while the event is signaled, so that a
\* signal that stays, as that of a manual event, reaches every waiter
\* (event.cc:110 and 143).
NoSleepOverSignal ==
  event_status_ => \A w \in Waiters : wpc[w][1] # "asleep"

\* Event implements Signal: a signal is taken by one Wait at most, and Wait
\* returns false only when give_up_after_ms are over, whatever the warning
\* (event.cc:157-176).
Promise == INSTANCE Signal WITH
  manual <- is_manual_reset_,
  Forever <- nullopt,
  signaled <- event_status_,
  deadline <- [w \in Waiters |-> IF wpc[w][1] = "idle" THEN NotWaiting
                                 ELSE give_up_ts[w]],
  now <- clock

ImplementsSignal == Promise!Spec

===============================================================================
