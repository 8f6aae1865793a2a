---------------------------- MODULE RateStatistics ----------------------------
(***************************************************************************)
(* RateStatistics (src/rate_statistics.cc): counts per millisecond in a    *)
(* ring of buckets, with a running sum over a window that ends now.  The   *)
(* members of an object are a record; each method is an operator on it.    *)
(* Two objects are fed alike, but only the first is asked for its rate:    *)
(* the second shows what Rate, which is const, changes.                    *)
(***************************************************************************)
EXTENDS Integers

CONSTANTS
  MaxWindow,   \* max_window_size_ms_
  Scale,       \* scale_, a whole number
  IntMax,      \* the largest int64_t
  Counts,      \* the counts Update is called with
  MaxTime,     \* bound: the clock
  MaxUpdates   \* bound: samples between two resets

ASSUME RateStatisticsAssumption ==
  /\ MaxWindow \in Nat \ {0}
  /\ Scale \in Nat
  /\ IntMax \in Nat
  /\ Counts \subseteq 0..IntMax
  /\ MaxTime \in Nat
  /\ MaxUpdates \in Nat

VARIABLES
  rs,       \* the object
  twin,     \* the object that is never asked; a copy of rs once excused
  now,      \* the clock
  samples,  \* history: sum and number of the samples since start
  start,    \* history: the first millisecond that counts, or NotYet
  excused   \* history: was the window enlarged, or a sample late

vars == <<rs, twin, now, samples, start, excused>>

NotYet == -MaxWindow

Indices == 0..(MaxWindow - 1)
Empty == [sum |-> 0, samples |-> 0]

\* An int64_t that is incremented beyond its range.
Int64(x) == IF x > IntMax THEN x - 2 * (IntMax + 1) ELSE x

New == [buckets |-> [i \in Indices |-> Empty],
        accumulated_count_ |-> 0,
        overflow_ |-> FALSE,
        num_samples_ |-> 0,
        oldest_time_ |-> NotYet,
        oldest_index_ |-> 0,
        current_window_size_ms_ |-> MaxWindow]

IsInitialized(s) == s.oldest_time_ # NotYet

-----------------------------------------------------------------------------
(* EraseOld                                                                *)

\* One round of the loop; nothing, when no sample is left.
EraseOldest(s) ==
  IF s.num_samples_ = 0 THEN s
  ELSE LET b == s.buckets[s.oldest_index_]
       IN [s EXCEPT !.accumulated_count_ = @ - b.sum,
                    !.num_samples_ = @ - b.samples,
                    !.buckets[s.oldest_index_] = Empty,
                    !.oldest_index_ = IF @ + 1 >= MaxWindow THEN 0 ELSE @ + 1,
                    !.oldest_time_ = @ + 1]

EraseRounds(s, k) ==
  LET after[i \in 0..k] == IF i = 0 THEN s ELSE EraseOldest(after[i - 1])
  IN after[k]

\* Mutant: one bucket is erased where all that are too old should be.
EraseUntilOnce(s, new_oldest) ==
  IF new_oldest <= s.oldest_time_ THEN s
  ELSE [EraseOldest(s) EXCEPT !.oldest_time_ = new_oldest]

EraseUntil(s, new_oldest) ==
  IF new_oldest <= s.oldest_time_ THEN s
  ELSE [EraseRounds(s, new_oldest - s.oldest_time_) EXCEPT
          !.oldest_time_ = new_oldest]

\* Mutant: the window is one millisecond too long.
EraseOldLate(s, t) ==
  IF ~IsInitialized(s) THEN s
  ELSE EraseUntil(s, t - s.current_window_size_ms_)

EraseOld(s, t) ==
  IF ~IsInitialized(s) THEN s
  ELSE EraseUntil(s, t - s.current_window_size_ms_ + 1)

-----------------------------------------------------------------------------
(* Update, Rate and SetWindowSize                                          *)

AddSample(s, count, t) ==
  LET offset == t - s.oldest_time_
      index == IF s.oldest_index_ + offset >= MaxWindow
                 THEN s.oldest_index_ + offset - MaxWindow
                 ELSE s.oldest_index_ + offset
      fits == IntMax - s.accumulated_count_ > count
  IN [s EXCEPT !.buckets[index].sum = Int64(@ + count),
               !.buckets[index].samples = @ + 1,
               !.accumulated_count_ = IF fits THEN @ + count ELSE @,
               !.overflow_ = @ \/ ~fits,
               !.num_samples_ = @ + 1]

\* The first sample ever begins the window; one before it is ignored.
Updated(s, count, t) ==
  LET e == EraseOld(s, t)
  IN IF t < s.oldest_time_ THEN s
     ELSE AddSample(IF IsInitialized(e) THEN e ELSE [e EXCEPT
                                                       !.oldest_time_ = t],
                    count, t)

NoRate == -1

\* count * scale / width, rounded; no rate when it does not fit.
Scaled(count, width) ==
  LET result == (2 * count * Scale + width) \div (2 * width)
  IN IF result > IntMax THEN NoRate ELSE result

\* What Rate returns once it has erased.
Rate(s, t) ==
  LET e == EraseOld(s, t)
      active_window_size == t - e.oldest_time_ + 1
  IN IF \/ e.num_samples_ = 0
        \/ active_window_size <= 1
        \/ /\ e.num_samples_ <= 1
           /\ active_window_size < e.current_window_size_ms_
        \/ e.overflow_
       THEN NoRate
       ELSE Scaled(e.accumulated_count_, active_window_size)

MaySize(w) == w > 0 /\ w <= MaxWindow

Sized(s, w, t) ==
  IF ~MaySize(w) THEN s
  ELSE EraseOld([s EXCEPT !.current_window_size_ms_ = w], t)

-----------------------------------------------------------------------------
(* The calls.                                                              *)

Later(a, b) == IF a < b THEN b ELSE a

\* Where the window begins after a call at t with window w.
Start(w, t) == IF start = NotYet THEN NotYet ELSE Later(start, t - w + 1)

\* The samples that still count when the window begins at t.
Since(t, f) == [i \in 0..MaxTime |-> IF i < t THEN Empty ELSE f[i]]

Tick ==
  /\ now < MaxTime
  /\ now' = now + 1
  /\ UNCHANGED <<rs, twin, samples, start, excused>>

\* A sample may be older than the last one, and too old.
Update(count, t) ==
  /\ rs.num_samples_ < MaxUpdates
  /\ rs' = Updated(rs, count, t)
  /\ excused' = (excused \/ t < now)
  /\ twin' = IF excused' THEN rs' ELSE Updated(twin, count, t)
  /\ IF t < start THEN UNCHANGED <<samples, start>>
     ELSE /\ start' = IF start = NotYet THEN t
                      ELSE Start(rs.current_window_size_ms_, t)
          /\ samples' = Since(start', [samples EXCEPT
                                         ![t].sum = @ + count,
                                         ![t].samples = @ + 1])
  /\ UNCHANGED now

AskRate ==
  /\ rs' = EraseOld(rs, now)
  /\ twin' = IF excused THEN rs' ELSE twin
  /\ start' = Start(rs.current_window_size_ms_, now)
  /\ samples' = Since(start', samples)
  /\ UNCHANGED <<now, excused>>

SetWindowSize(w) ==
  /\ rs' = Sized(rs, w, now)
  /\ IF MaySize(w)
       THEN /\ start' = Start(w, now)
            /\ samples' = Since(start', samples)
            /\ excused' = (excused \/ w > rs.current_window_size_ms_)
       ELSE UNCHANGED <<samples, start, excused>>
  /\ twin' = IF excused' THEN rs' ELSE Sized(twin, w, now)
  /\ UNCHANGED now

Reset ==
  /\ rs' = New
  /\ twin' = New
  /\ samples' = [t \in 0..MaxTime |-> Empty]
  /\ start' = NotYet
  /\ excused' = FALSE
  /\ UNCHANGED now

Init ==
  /\ rs = New
  /\ twin = New
  /\ now = 0
  /\ samples = [t \in 0..MaxTime |-> Empty]
  /\ start = NotYet
  /\ excused = FALSE

Next ==
  \/ Tick
  \/ \E count \in Counts, t \in 0..now : Update(count, t)
  \/ AskRate
  \/ \E w \in 0..(MaxWindow + 1) : SetWindowSize(w)
  \/ Reset

Spec == Init /\ [][Next]_vars

-----------------------------------------------------------------------------
(* Properties.                                                             *)

TypeOK ==
  /\ rs.buckets \in [Indices -> [sum : Int, samples : Nat]]
  /\ rs.accumulated_count_ \in Int
  /\ rs.overflow_ \in BOOLEAN
  /\ rs.num_samples_ \in Nat
  /\ rs.oldest_time_ \in NotYet..MaxTime
  /\ rs.oldest_index_ \in Indices
  /\ rs.current_window_size_ms_ \in 1..MaxWindow
  /\ now \in 0..MaxTime

Total(f, S) ==
  LET sum[i \in -1..MaxTime] ==
        IF i < 0 THEN 0 ELSE sum[i - 1] + (IF i \in S THEN f[i] ELSE 0)
  IN sum[MaxTime]

\* The rate over the samples themselves, for the same window.
TrueRate(t) ==
  LET window == rs.current_window_size_ms_
      from == Start(window, t)
      sum == Total([i \in 0..MaxTime |-> samples[i].sum], from..MaxTime)
      num == Total([i \in 0..MaxTime |-> samples[i].samples], from..MaxTime)
      width == t - from + 1
  IN IF num = 0 \/ width <= 1 \/ (num <= 1 /\ width < window) THEN NoRate
     ELSE Scaled(sum, width)

\* Asked at any time from now on, the object answers with the rate of the
\* samples in the window, or with none once a sum did not fit: the ring, its
\* index and the running sum never part from the samples
\* (src/rate_statistics.cc:63-143).
RateIsWindowed ==
  \A t \in now..MaxTime : Rate(rs, t) \in {TrueRate(t)} \cup
                            (IF rs.overflow_ THEN {NoRate} ELSE {})

\* "It doesn't make any alterations that are observable from the other
\* methods" (src/rate_statistics.h:53-58): the twin that was never asked has
\* the same rate from now on, on a clock that does not go back and while no
\* window was enlarged.
RateLeavesNoTrace ==
  ~excused => \A t \in now..MaxTime : Rate(rs, t) = Rate(twin, t)

\* The assertions of Update (src/rate_statistics.cc:77) and, before the first
\* overflow, of EraseOld (lines 131 and 132) hold, whenever they are called.
AssertionsHold ==
  \A t \in 0..MaxTime :
    LET e == EraseOld(rs, t)
    IN /\ t >= rs.oldest_time_ /\ IsInitialized(e) =>
            t - e.oldest_time_ < MaxWindow
       /\ ~rs.overflow_ => \A i \in Indices :
            /\ e.buckets[i].sum <= e.accumulated_count_
            /\ e.buckets[i].samples <= e.num_samples_

=============================================================================
