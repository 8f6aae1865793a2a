------------------------------ MODULE DataProofs ------------------------------
(***************************************************************************)
(* Proofs about Data and its components RateStatistics, TimeUtils,         *)
(* Numerics and Random, for any window, scale, width, counts and times,    *)
(* any day of the Gregorian calendar from 1970 on, any units, any types of *)
(* numbers and any width of a random word.  Bit buffers are those of       *)
(* BitBufferProofs, which also holds the lemmas about numbers that are     *)
(* cited here; the other four components are in StorageProofs.             *)
(***************************************************************************)
EXTENDS Data, Sequences, FiniteSetTheorems, WellFoundedInduction, TLAPS

Facts == INSTANCE BitBufferProofs

-----------------------------------------------------------------------------
(* Sums.                                                                   *)

Term(f, S, i) == IF i \in S THEN f[i] ELSE 0

\* sum has the partial sums of f over S.
IsSum(sum, f, S, n) ==
  sum = [i \in -1 .. n |-> IF i < 0 THEN 0 ELSE sum[i - 1] + Term(f, S, i)]

\* There are partial sums.
LEMMA SumExists ==
  ASSUME NEW f, NEW S, NEW n \in Nat
  PROVE  \E sum : IsSum(sum, f, S, n)
<1> DEFINE Can == {m \in 0 .. n : \E sum : IsSum(sum, f, S, m)}
<1>1. 0 \in Can
  <2> DEFINE sum == [i \in -1 .. 0 |-> IF i < 0 THEN 0 ELSE 0 + Term(f, S, 0)]
  <2>1. IsSum(sum, f, S, 0)
    BY DEF IsSum
  <2> QED
    BY <2>1
<1>2. ASSUME NEW m \in 1 .. n, m - 1 \in Can PROVE m \in Can
  <2>1. PICK part : IsSum(part, f, S, m - 1)
    BY <1>2
  <2> DEFINE sum == [i \in -1 .. m |->
                       IF i = m THEN part[m - 1] + Term(f, S, m) ELSE part[i]]
  <2>2. ASSUME NEW i \in -1 .. m
        PROVE  sum[i] = IF i < 0 THEN 0 ELSE sum[i - 1] + Term(f, S, i)
    <3>1. CASE i = m
      BY <3>1
    <3>2. CASE i # m
      <4>1. i \in -1 .. (m - 1)
        BY <3>2
      <4>2. part[i] = IF i < 0 THEN 0 ELSE part[i - 1] + Term(f, S, i)
        BY <2>1, <4>1 DEF IsSum
      <4> QED
        BY <3>2, <4>1, <4>2
    <3> QED
      BY <3>1, <3>2
  <2>3. IsSum(sum, f, S, m)
    BY <2>2 DEF IsSum
  <2> QED
    BY <2>3
<1>3. 0 .. n \subseteq Can
  <2> HIDE DEF Can
  <2> QED
    BY <1>1, <1>2, Facts!UpTo
<1> QED
  BY <1>3

\* Total is the last partial sum.
LEMMA TotalIsSum ==
  ASSUME NEW f, NEW S
  PROVE  \E sum : IsSum(sum, f, S, MaxTime) /\ Total(f, S) = sum[MaxTime]
<1> DEFINE sum == CHOOSE g : g = [i \in -1 .. MaxTime |->
              IF i < 0 THEN 0 ELSE g[i - 1] + (IF i \in S THEN f[i] ELSE 0)]
<1>1. \E g : g = [i \in -1 .. MaxTime |->
              IF i < 0 THEN 0 ELSE g[i - 1] + (IF i \in S THEN f[i] ELSE 0)]
  <2>1. \E g : IsSum(g, f, S, MaxTime)
    BY SumExists, RateStatisticsAssumption DEF RateStatisticsAssumption
  <2> QED
    BY <2>1 DEF IsSum, Term
<1>2. IsSum(sum, f, S, MaxTime)
  BY <1>1 DEF IsSum, Term
<1>3. Total(f, S) = sum[MaxTime]
  BY DEF Total
<1> QED
  BY <1>2, <1>3

\* Sums of equal terms are equal.
LEMMA SumsAgree ==
  ASSUME NEW f, NEW R, NEW g, NEW S,
         \A i \in 0 .. MaxTime : Term(f, R, i) = Term(g, S, i)
  PROVE  Total(f, R) = Total(g, S)
<1> USE RateStatisticsAssumption DEF RateStatisticsAssumption
<1>1. PICK p : IsSum(p, f, R, MaxTime) /\ Total(f, R) = p[MaxTime]
  BY TotalIsSum
<1>2. PICK q : IsSum(q, g, S, MaxTime) /\ Total(g, S) = q[MaxTime]
  BY TotalIsSum
<1> DEFINE Same == {i \in 0 .. MaxTime : p[i] = q[i]}
<1>3. 0 \in Same
  BY <1>1, <1>2 DEF IsSum
<1>4. ASSUME NEW i \in 1 .. MaxTime, i - 1 \in Same PROVE i \in Same
  BY <1>1, <1>2, <1>4 DEF IsSum
<1> HIDE DEF Same
<1>5. 0 .. MaxTime \subseteq Same
  BY <1>3, <1>4, Facts!UpTo
<1> QED
  BY <1>1, <1>2, <1>5 DEF Same

\* A sum of natural numbers is one, and no term is larger.
LEMMA SumBounds ==
  ASSUME NEW f, NEW S, \A i \in 0 .. MaxTime : Term(f, S, i) \in Nat
  PROVE  /\ Total(f, S) \in Nat
         /\ \A i \in 0 .. MaxTime : Term(f, S, i) <= Total(f, S)
<1> USE RateStatisticsAssumption DEF RateStatisticsAssumption
<1>1. PICK p : IsSum(p, f, S, MaxTime) /\ Total(f, S) = p[MaxTime]
  BY TotalIsSum
<1> DEFINE Bounded == {i \in 0 .. MaxTime :
                         /\ p[i] \in Nat
                         /\ \A j \in 0 .. i : Term(f, S, j) <= p[i]}
<1>2. 0 \in Bounded
  BY <1>1 DEF IsSum
<1>3. ASSUME NEW i \in 1 .. MaxTime, i - 1 \in Bounded PROVE i \in Bounded
  <2>1. p[i] = p[i - 1] + Term(f, S, i)
    BY <1>1 DEF IsSum
  <2>2. p[i - 1] \in Nat /\ Term(f, S, i) \in Nat
    BY <1>3
  <2>3. ASSUME NEW j \in 0 .. i PROVE Term(f, S, j) <= p[i]
    <3>1. CASE j = i
      BY <2>1, <2>2, <3>1
    <3>2. CASE j # i
      <4>1. j \in 0 .. (i - 1) /\ Term(f, S, j) \in Nat
        BY <3>2
      <4>2. Term(f, S, j) <= p[i - 1]
        BY <1>3, <4>1
      <4> QED
        BY <2>1, <2>2, <4>1, <4>2
    <3> QED
      BY <3>1, <3>2
  <2> QED
    BY <2>1, <2>2, <2>3
<1> HIDE DEF Bounded
<1>4. 0 .. MaxTime \subseteq Bounded
  BY <1>2, <1>3, Facts!UpTo
<1> QED
  BY <1>1, <1>4 DEF Bounded

\* A sum changes as its one changed term does.
LEMMA SumChanges ==
  ASSUME NEW f, NEW R, NEW g, NEW S, NEW k \in 0 .. MaxTime,
         \A i \in 0 .. MaxTime :
           Term(f, R, i) \in Int /\ Term(g, S, i) \in Int,
         \A i \in 0 .. MaxTime : i # k => Term(f, R, i) = Term(g, S, i)
  PROVE  Total(g, S) = Total(f, R) + Term(g, S, k) - Term(f, R, k)
<1> USE RateStatisticsAssumption DEF RateStatisticsAssumption
<1>1. PICK p : IsSum(p, f, R, MaxTime) /\ Total(f, R) = p[MaxTime]
  BY TotalIsSum
<1>2. PICK q : IsSum(q, g, S, MaxTime) /\ Total(g, S) = q[MaxTime]
  BY TotalIsSum
<1> DEFINE d == Term(g, S, k) - Term(f, R, k)
<1> DEFINE Off == {i \in 0 .. MaxTime :
                     /\ p[i] \in Int /\ q[i] \in Int
                     /\ q[i] = p[i] + (IF i < k THEN 0 ELSE d)}
<1>3. d \in Int
  OBVIOUS
<1>4. 0 \in Off
  <2>1. p[0] = Term(f, R, 0) /\ q[0] = Term(g, S, 0)
    BY <1>1, <1>2 DEF IsSum
  <2>2. CASE k = 0
    BY <2>1, <2>2
  <2>3. CASE k # 0
    BY <2>1, <2>3, <1>3
  <2> QED
    BY <2>2, <2>3
<1>5. ASSUME NEW i \in 1 .. MaxTime, i - 1 \in Off PROVE i \in Off
  <2>1. p[i] = p[i - 1] + Term(f, R, i) /\ q[i] = q[i - 1] + Term(g, S, i)
    BY <1>1, <1>2 DEF IsSum
  <2>2. Term(f, R, i) \in Int /\ Term(g, S, i) \in Int
    OBVIOUS
  <2>3. CASE i = k
    BY <1>5, <2>1, <2>2, <2>3
  <2>4. CASE i # k
    <3>1. Term(f, R, i) = Term(g, S, i)
      BY <2>4
    <3> HIDE DEF d
    <3> QED
      BY <1>3, <1>5, <2>1, <2>2, <2>4, <3>1
  <2> QED
    BY <2>3, <2>4
<1> HIDE DEF Off
<1>6. 0 .. MaxTime \subseteq Off
  BY <1>4, <1>5, Facts!UpTo
<1>7. q[MaxTime] = p[MaxTime] + d /\ p[MaxTime] \in Int
  BY <1>3, <1>6 DEF Off
<1> QED
  BY <1>1, <1>2, <1>7

\* A sum of nothing.
LEMMA SumOfNothing ==
  ASSUME NEW f, NEW S, \A i \in 0 .. MaxTime : Term(f, S, i) = 0
  PROVE  Total(f, S) = 0
<1> USE RateStatisticsAssumption DEF RateStatisticsAssumption
<1>1. PICK p : IsSum(p, f, S, MaxTime) /\ Total(f, S) = p[MaxTime]
  BY TotalIsSum
<1> DEFINE Zero == {i \in 0 .. MaxTime : p[i] = 0}
<1>2. 0 \in Zero
  BY <1>1 DEF IsSum
<1>3. ASSUME NEW i \in 1 .. MaxTime, i - 1 \in Zero PROVE i \in Zero
  BY <1>1, <1>3 DEF IsSum
<1> HIDE DEF Zero
<1>4. 0 .. MaxTime \subseteq Zero
  BY <1>2, <1>3, Facts!UpTo
<1> QED
  BY <1>1, <1>4 DEF Zero

-----------------------------------------------------------------------------
(* Erasing keeps what it does not mean to change.                          *)

Bucket == [sum : Int, samples : Int]
State == [buckets : [Indices -> Bucket],
          accumulated_count_ : Int,
          overflow_ : BOOLEAN,
          num_samples_ : Int,
          oldest_time_ : Int,
          oldest_index_ : Indices,
          current_window_size_ms_ : 1 .. MaxWindow]

\* States s and e differ in buckets, sums and times only.
SameSettings(s, e) ==
  /\ e \in State
  /\ e.overflow_ = s.overflow_
  /\ e.current_window_size_ms_ = s.current_window_size_ms_

\* g has the states after each round.
IsRounds(g, s, k) ==
  g = [i \in 0 .. k |-> IF i = 0 THEN s ELSE EraseOldest(g[i - 1])]

\* There are states after each round.
LEMMA RoundsExist ==
  ASSUME NEW s, NEW k \in Nat
  PROVE  \E g : IsRounds(g, s, k)
<1> DEFINE Can == {m \in 0 .. k : \E g : IsRounds(g, s, m)}
<1>1. 0 \in Can
  <2> DEFINE g == [i \in 0 .. 0 |-> s]
  <2>1. IsRounds(g, s, 0)
    BY DEF IsRounds
  <2> QED
    BY <2>1
<1>2. ASSUME NEW m \in 1 .. k, m - 1 \in Can PROVE m \in Can
  <2>1. PICK h : IsRounds(h, s, m - 1)
    BY <1>2
  <2> DEFINE g == [i \in 0 .. m |->
                     IF i = m THEN EraseOldest(h[m - 1]) ELSE h[i]]
  <2>2. ASSUME NEW i \in 0 .. m
        PROVE  g[i] = IF i = 0 THEN s ELSE EraseOldest(g[i - 1])
    <3>1. CASE i = m
      BY <3>1
    <3>2. CASE i # m
      <4>1. i \in 0 .. (m - 1)
        BY <3>2
      <4>2. h[i] = IF i = 0 THEN s ELSE EraseOldest(h[i - 1])
        BY <2>1, <4>1 DEF IsRounds
      <4> QED
        BY <3>2, <4>1, <4>2
    <3> QED
      BY <3>1, <3>2
  <2>3. IsRounds(g, s, m)
    BY <2>2 DEF IsRounds
  <2> QED
    BY <2>3
<1> HIDE DEF Can
<1>3. 0 .. k \subseteq Can
  BY <1>1, <1>2, Facts!UpTo
<1> QED
  BY <1>3 DEF Can

\* EraseRounds is the state after the last round.
LEMMA EraseRoundsIsLast ==
  ASSUME NEW s, NEW k \in Nat
  PROVE  \E g : IsRounds(g, s, k) /\ EraseRounds(s, k) = g[k]
<1> DEFINE after == CHOOSE g : g =
              [i \in 0 .. k |-> IF i = 0 THEN s ELSE EraseOldest(g[i - 1])]
<1>1. \E g : g =
              [i \in 0 .. k |-> IF i = 0 THEN s ELSE EraseOldest(g[i - 1])]
  BY RoundsExist DEF IsRounds
<1>2. IsRounds(after, s, k)
  BY <1>1 DEF IsRounds
<1>3. EraseRounds(s, k) = after[k]
  BY DEF EraseRounds
<1> QED
  BY <1>2, <1>3

\* A round leaves the settings.
LEMMA EraseOldestKeeps ==
  ASSUME NEW s \in State
  PROVE  SameSettings(s, EraseOldest(s))
<1>1. CASE s.num_samples_ = 0
  BY <1>1 DEF EraseOldest, SameSettings
<1>2. CASE s.num_samples_ # 0
  <2>1. /\ s.oldest_index_ \in Indices /\ s.oldest_index_ \in Int
        /\ s.buckets[s.oldest_index_] \in Bucket
    BY RateStatisticsAssumption
    DEF State, Indices, RateStatisticsAssumption
  <2>2. s.oldest_index_ + 1 < MaxWindow => s.oldest_index_ + 1 \in Indices
    BY <2>1, RateStatisticsAssumption
    DEF RateStatisticsAssumption, Indices
  <2>3. 0 \in Indices
    BY RateStatisticsAssumption DEF RateStatisticsAssumption, Indices
  <2>4. Empty \in Bucket
    BY DEF Empty, Bucket
  <2> DEFINE b == s.buckets[s.oldest_index_]
             kept == [s.buckets EXCEPT ![s.oldest_index_] = Empty]
             next == IF s.oldest_index_ + 1 >= MaxWindow THEN 0
                     ELSE s.oldest_index_ + 1
             sum == s.accumulated_count_ - b.sum
             num == s.num_samples_ - b.samples
  <2>5. EraseOldest(s) =
          [s EXCEPT !.accumulated_count_ = sum, !.num_samples_ = num,
                    !.buckets = kept, !.oldest_index_ = next,
                    !.oldest_time_ = @ + 1]
    BY <1>2 DEF EraseOldest, State
  <2>6. kept \in [Indices -> Bucket]
    BY <2>1, <2>4 DEF State
  <2>7. next \in Indices /\ sum \in Int /\ num \in Int
    BY <2>1, <2>2, <2>3, RateStatisticsAssumption
    DEF State, Bucket, RateStatisticsAssumption
  <2> HIDE DEF b, kept, next, sum, num
  <2>8. EraseOldest(s) =
          [buckets |-> kept,
           accumulated_count_ |-> sum,
           overflow_ |-> s.overflow_,
           num_samples_ |-> num,
           oldest_time_ |-> s.oldest_time_ + 1,
           oldest_index_ |-> next,
           current_window_size_ms_ |-> s.current_window_size_ms_]
    BY <2>5 DEF State
  <2>9. /\ s.overflow_ \in BOOLEAN
        /\ s.current_window_size_ms_ \in 1 .. MaxWindow
        /\ s.oldest_time_ + 1 \in Int
    BY DEF State
  <2> QED
    BY <2>6, <2>7, <2>8, <2>9 DEF State, SameSettings
<1> QED
  BY <1>1, <1>2

\* So do all rounds.
LEMMA EraseRoundsKeeps ==
  ASSUME NEW s \in State, NEW k \in Nat
  PROVE  SameSettings(s, EraseRounds(s, k))
<1>1. PICK g : IsRounds(g, s, k) /\ EraseRounds(s, k) = g[k]
  BY EraseRoundsIsLast
<1> DEFINE Kept == {i \in 0 .. k : SameSettings(s, g[i])}
<1>2. 0 \in Kept
  BY <1>1 DEF IsRounds, SameSettings
<1>3. ASSUME NEW i \in 1 .. k, i - 1 \in Kept PROVE i \in Kept
  <2>1. g[i] = EraseOldest(g[i - 1])
    BY <1>1 DEF IsRounds
  <2>2. SameSettings(g[i - 1], g[i])
    BY <1>3, <2>1, EraseOldestKeeps DEF SameSettings
  <2> QED
    BY <1>3, <2>2 DEF SameSettings
<1> HIDE DEF Kept
<1>4. 0 .. k \subseteq Kept
  BY <1>2, <1>3, Facts!UpTo
<1> QED
  BY <1>1, <1>4 DEF Kept

\* Where EraseOld(s, t) lets the window begin.
Begin(b, w, t) == IF b = NotYet THEN NotYet ELSE Later(b, t - w + 1)

\* EraseOld leaves the settings and moves the window.
LEMMA EraseOldKeeps ==
  ASSUME NEW s \in State, NEW t \in Int
  PROVE  /\ SameSettings(s, EraseOld(s, t))
         /\ EraseOld(s, t).oldest_time_ =
              Begin(s.oldest_time_, s.current_window_size_ms_, t)
<1> DEFINE n == t - s.current_window_size_ms_ + 1
<1>1. s.oldest_time_ \in Int /\ n \in Int
  BY RateStatisticsAssumption DEF State, RateStatisticsAssumption
<1>2. CASE ~IsInitialized(s)
  BY <1>2 DEF EraseOld, SameSettings, Begin, IsInitialized
<1>3. CASE IsInitialized(s) /\ n <= s.oldest_time_
  BY <1>1, <1>3
  DEF EraseOld, EraseUntil, SameSettings, Begin, Later, IsInitialized
<1>4. CASE IsInitialized(s) /\ n > s.oldest_time_
  <2> DEFINE e == EraseRounds(s, n - s.oldest_time_)
  <2>1. SameSettings(s, e)
    BY <1>1, <1>4, EraseRoundsKeeps
  <2>2. EraseOld(s, t) = [e EXCEPT !.oldest_time_ = n]
    BY <1>1, <1>4 DEF EraseOld, EraseUntil
  <2>3. e \in State
    BY <2>1 DEF SameSettings
  <2> HIDE DEF e
  <2>4. /\ [e EXCEPT !.oldest_time_ = n] \in State
        /\ [e EXCEPT !.oldest_time_ = n].oldest_time_ = n
        /\ [e EXCEPT !.oldest_time_ = n].overflow_ = e.overflow_
        /\ [e EXCEPT !.oldest_time_ = n].current_window_size_ms_
             = e.current_window_size_ms_
    BY <1>1, <2>3 DEF State
  <2>5. Begin(s.oldest_time_, s.current_window_size_ms_, t) = n
    BY <1>1, <1>4 DEF Begin, Later, IsInitialized
  <2> QED
    BY <2>1, <2>2, <2>4, <2>5 DEF SameSettings
<1> QED
  BY <1>1, <1>2, <1>3, <1>4

-----------------------------------------------------------------------------
(* The ring has the samples of the window.                                 *)

Histories == [0 .. MaxTime -> [sum : Nat, samples : Nat]]
SumsOf(F) == [i \in 0 .. MaxTime |-> F[i].sum]
NumsOf(F) == [i \in 0 .. MaxTime |-> F[i].samples]
SumOf(F) == Total(SumsOf(F), 0 .. MaxTime)
NumOf(F) == Total(NumsOf(F), 0 .. MaxTime)

\* The place in the ring of the bucket j after the one at k.
Place(k, j) == IF k + j >= MaxWindow THEN k + j - MaxWindow ELSE k + j

At(F, i) == IF i <= MaxTime THEN F[i] ELSE Empty

\* History F has its samples in the window from b on, no sum without samples.
Windowed(F, b) ==
  /\ F \in Histories
  /\ \A i \in 0 .. MaxTime :
       /\ F[i].samples = 0 => F[i] = Empty
       /\ F[i] # Empty => b <= i /\ i < b + MaxWindow

\* The ring of s has in order the buckets of F from b on, and its sums.
RingHas(s, F, b) ==
  /\ \A j \in Indices :
       s.buckets[Place(s.oldest_index_, j)] = At(F, b + j)
  /\ s.accumulated_count_ = SumOf(F)
  /\ s.num_samples_ = NumOf(F)

Tracks(s, F, b) ==
  /\ b \in 0 .. MaxTime
  /\ Windowed(F, b)
  /\ s.oldest_time_ = b
  /\ SumOf(F) <= IntMax
  /\ RingHas(s, F, b)

\* Nothing has been added since the last Reset.
Unused(s, F) ==
  /\ s = [New EXCEPT !.current_window_size_ms_ = s.current_window_size_ms_]
  /\ F = [i \in 0 .. MaxTime |-> Empty]

Reads(s, F, b) == Tracks(s, F, b) \/ (b = NotYet /\ Unused(s, F))

\* Terms of a history.
LEMMA HistoryTerms ==
  ASSUME NEW F \in Histories, NEW i \in 0 .. MaxTime
  PROVE  /\ F[i].sum \in Nat /\ F[i].samples \in Nat
         /\ F[i] = Empty <=> F[i].sum = 0 /\ F[i].samples = 0
         /\ Term(SumsOf(F), 0 .. MaxTime, i) = F[i].sum
         /\ Term(NumsOf(F), 0 .. MaxTime, i) = F[i].samples
<1>1. F[i] \in [sum : Nat, samples : Nat]
  BY DEF Histories
<1>2. F[i] = Empty <=> F[i].sum = 0 /\ F[i].samples = 0
  BY <1>1 DEF Empty
<1> QED
  BY <1>1, <1>2 DEF SumsOf, NumsOf, Term

\* Its sums are natural numbers and bound the terms.
LEMMA HistorySums ==
  ASSUME NEW F \in Histories
  PROVE  /\ SumOf(F) \in Nat /\ NumOf(F) \in Nat
         /\ \A i \in 0 .. MaxTime :
              F[i].sum <= SumOf(F) /\ F[i].samples <= NumOf(F)
<1>1. /\ SumOf(F) \in Nat
      /\ \A i \in 0 .. MaxTime :
           Term(SumsOf(F), 0 .. MaxTime, i) <= SumOf(F)
  BY HistoryTerms, SumBounds DEF SumOf
<1>2. /\ NumOf(F) \in Nat
      /\ \A i \in 0 .. MaxTime :
           Term(NumsOf(F), 0 .. MaxTime, i) <= NumOf(F)
  BY HistoryTerms, SumBounds DEF NumOf
<1> QED
  BY <1>1, <1>2, HistoryTerms

\* A history without samples has the sums 0.
LEMMA NoHistory ==
  ASSUME NEW F \in Histories, \A i \in 0 .. MaxTime : F[i] = Empty
  PROVE  SumOf(F) = 0 /\ NumOf(F) = 0
<1>1. \A i \in 0 .. MaxTime : Term(SumsOf(F), 0 .. MaxTime, i) = 0
  BY HistoryTerms
<1>2. \A i \in 0 .. MaxTime : Term(NumsOf(F), 0 .. MaxTime, i) = 0
  BY HistoryTerms
<1> QED
  BY <1>1, <1>2, SumOfNothing DEF SumOf, NumOf

\* Two histories that differ in one place.
LEMMA HistoryChanges ==
  ASSUME NEW F \in Histories, NEW G \in Histories, NEW k \in 0 .. MaxTime,
         \A i \in 0 .. MaxTime : i # k => F[i] = G[i]
  PROVE  /\ SumOf(G) = SumOf(F) + G[k].sum - F[k].sum
         /\ NumOf(G) = NumOf(F) + G[k].samples - F[k].samples
<1>1. SumOf(G) = SumOf(F) + Term(SumsOf(G), 0 .. MaxTime, k)
                          - Term(SumsOf(F), 0 .. MaxTime, k)
  <2>1. \A i \in 0 .. MaxTime :
          /\ Term(SumsOf(F), 0 .. MaxTime, i) \in Int
          /\ Term(SumsOf(G), 0 .. MaxTime, i) \in Int
    BY HistoryTerms
  <2>2. \A i \in 0 .. MaxTime :
          i # k => Term(SumsOf(F), 0 .. MaxTime, i)
                     = Term(SumsOf(G), 0 .. MaxTime, i)
    BY HistoryTerms
  <2> QED
    BY <2>1, <2>2, SumChanges DEF SumOf
<1>2. NumOf(G) = NumOf(F) + Term(NumsOf(G), 0 .. MaxTime, k)
                          - Term(NumsOf(F), 0 .. MaxTime, k)
  <2>1. \A i \in 0 .. MaxTime :
          /\ Term(NumsOf(F), 0 .. MaxTime, i) \in Int
          /\ Term(NumsOf(G), 0 .. MaxTime, i) \in Int
    BY HistoryTerms
  <2>2. \A i \in 0 .. MaxTime :
          i # k => Term(NumsOf(F), 0 .. MaxTime, i)
                     = Term(NumsOf(G), 0 .. MaxTime, i)
    BY HistoryTerms
  <2> QED
    BY <2>1, <2>2, SumChanges DEF NumOf
<1> QED
  BY <1>1, <1>2, HistoryTerms

\* A history is what it is from where its window begins.
LEMMA SinceFacts ==
  ASSUME NEW F \in Histories, NEW b \in Int
  PROVE  /\ Since(b, F) \in Histories
         /\ \A i \in 0 .. MaxTime :
              Since(b, F)[i] = IF i < b THEN Empty ELSE F[i]
BY DEF Since, Histories, Empty

\* Later beginnings overrule earlier ones.
LEMMA SinceSince ==
  ASSUME NEW F \in Histories, NEW b \in Int, NEW c \in Int, b <= c
  PROVE  Since(c, Since(b, F)) = Since(c, F)
BY DEF Since, Histories

\* Nothing changes where the window is.
LEMMA SinceBegin ==
  ASSUME NEW F, NEW b \in Int, Windowed(F, b)
  PROVE  Since(b, F) = F
<1>1. \A i \in 0 .. MaxTime : i < b => F[i] = Empty
  BY DEF Windowed
<1> QED
  BY <1>1 DEF Windowed, Since, Histories

\* The rest of a window is a window.
LEMMA SinceWindowed ==
  ASSUME NEW F, NEW b \in Int, NEW c \in Int, Windowed(F, b), b <= c
  PROVE  Windowed(Since(c, F), c)
<1> USE RateStatisticsAssumption DEF RateStatisticsAssumption
<1>1. F \in Histories
  BY DEF Windowed
<1>2. /\ Since(c, F) \in Histories
      /\ \A i \in 0 .. MaxTime :
           Since(c, F)[i] = IF i < c THEN Empty ELSE F[i]
  BY <1>1, SinceFacts
<1>3. ASSUME NEW i \in 0 .. MaxTime
      PROVE  /\ Since(c, F)[i].samples = 0 => Since(c, F)[i] = Empty
             /\ Since(c, F)[i] # Empty => c <= i /\ i < c + MaxWindow
  BY <1>2 DEF Windowed
<1> QED
  BY <1>2, <1>3 DEF Windowed

\* Without samples nothing is there.
LEMMA EmptyWindow ==
  ASSUME NEW F, NEW b, Windowed(F, b), NumOf(F) = 0
  PROVE  \A i \in 0 .. MaxTime : F[i] = Empty
<1>1. F \in Histories
  BY DEF Windowed
<1>2. ASSUME NEW i \in 0 .. MaxTime PROVE F[i] = Empty
  <2>1. F[i].samples \in Nat /\ F[i].samples <= 0
    BY <1>1, HistoryTerms, HistorySums
  <2>2. F[i].samples = 0
    BY <2>1
  <2> QED
    BY <2>2 DEF Windowed
<1> QED
  BY <1>2

-----------------------------------------------------------------------------
(* A round of EraseOld.                                                    *)

After(k) == IF k + 1 >= MaxWindow THEN 0 ELSE k + 1

\* The places of a ring, from k or from the one after it.
LEMMA Places ==
  ASSUME NEW k \in Indices
  PROVE  /\ After(k) \in Indices
         /\ Place(k, 0) = k /\ Place(After(k), MaxWindow - 1) = k
         /\ \A j \in Indices : Place(k, j) \in Indices
         /\ \A i, j \in Indices : Place(k, i) = Place(k, j) => i = j
         /\ \A j \in Indices : j # MaxWindow - 1 =>
              j + 1 \in Indices /\ Place(After(k), j) = Place(k, j + 1)
BY RateStatisticsAssumption
DEF RateStatisticsAssumption, Indices, Place, After

\* And every place of the ring is found from k.
LEMMA PlacesAll ==
  ASSUME NEW k \in Indices, NEW i \in Indices
  PROVE  \E j \in Indices : Place(k, j) = i
<1> USE RateStatisticsAssumption
    DEF RateStatisticsAssumption, Indices, Place
<1>1. CASE k <= i
  <2>1. i - k \in Indices /\ Place(k, i - k) = i
    BY <1>1
  <2> QED
    BY <2>1
<1>2. CASE i < k
  <2>1. i + MaxWindow - k \in Indices /\ Place(k, i + MaxWindow - k) = i
    BY <1>2
  <2> QED
    BY <2>1
<1> QED
  BY <1>1, <1>2

\* What a round does when a sample is left.
LEMMA EraseOldestFields ==
  ASSUME NEW s \in State, s.num_samples_ # 0
  PROVE  LET k == s.oldest_index_
             e == EraseOldest(s)
         IN /\ e.buckets = [s.buckets EXCEPT ![k] = Empty]
            /\ e.accumulated_count_ = s.accumulated_count_ - s.buckets[k].sum
            /\ e.num_samples_ = s.num_samples_ - s.buckets[k].samples
            /\ e.oldest_index_ = After(k)
BY DEF EraseOldest, State, After

\* A round takes the first millisecond out of the window.
LEMMA EraseOldestTracks ==
  ASSUME NEW s \in State, NEW F, NEW c \in 0 .. MaxTime,
         c + 1 \in 0 .. MaxTime,
         Windowed(F, c), SumOf(F) <= IntMax, RingHas(s, F, c)
  PROVE  /\ SumOf(Since(c + 1, F)) <= IntMax
         /\ RingHas(EraseOldest(s), Since(c + 1, F), c + 1)
<1> DEFINE G == Since(c + 1, F)
           k == s.oldest_index_
<1> USE RateStatisticsAssumption DEF RateStatisticsAssumption
<1>1. F \in Histories
  BY DEF Windowed
<1>2. /\ G \in Histories
      /\ \A i \in 0 .. MaxTime : G[i] = IF i < c + 1 THEN Empty ELSE F[i]
  BY <1>1, SinceFacts
<1>3. k \in Indices
  BY DEF State
<1>4. \A j \in Indices : j \in Int /\ 0 <= j /\ j < MaxWindow
  BY DEF Indices
<1> HIDE DEF G, k
<1>5. CASE s.num_samples_ = 0
  <2>1. EraseOldest(s) = s
    BY <1>5 DEF EraseOldest
  <2>2. \A i \in 0 .. MaxTime : F[i] = Empty
    BY <1>5, EmptyWindow DEF RingHas
  <2>3. \A i \in 0 .. MaxTime : G[i] = Empty
    BY <1>2, <2>2
  <2>4. /\ SumOf(F) = 0 /\ NumOf(F) = 0
        /\ SumOf(G) = 0 /\ NumOf(G) = 0
    BY <1>1, <1>2, <2>2, <2>3, NoHistory
  <2>5. ASSUME NEW j \in Indices
        PROVE  s.buckets[Place(s.oldest_index_, j)] = At(G, (c + 1) + j)
    <3>1. s.buckets[Place(s.oldest_index_, j)] = At(F, c + j)
      BY DEF RingHas
    <3>2. At(F, c + j) = Empty
      BY <1>4, <2>2 DEF At
    <3>3. At(G, (c + 1) + j) = Empty
      BY <1>4, <2>3 DEF At
    <3> QED
      BY <3>1, <3>2, <3>3
  <2> QED
    BY <2>1, <2>4, <2>5 DEF RingHas, G
<1>6. CASE s.num_samples_ # 0
  <2> DEFINE e == EraseOldest(s)
  <2>1. /\ e.buckets = [s.buckets EXCEPT ![k] = Empty]
        /\ e.accumulated_count_ = s.accumulated_count_ - s.buckets[k].sum
        /\ e.num_samples_ = s.num_samples_ - s.buckets[k].samples
        /\ e.oldest_index_ = After(k)
    BY <1>6, EraseOldestFields DEF k
  <2> HIDE DEF e
  <2>2. /\ s.accumulated_count_ = SumOf(F) /\ s.num_samples_ = NumOf(F)
        /\ \A j \in Indices : s.buckets[Place(k, j)] = At(F, c + j)
    BY DEF RingHas, k
  <2>3. s.buckets[k] = F[c]
    <3>1. 0 \in Indices
      BY DEF Indices
    <3>2. s.buckets[Place(k, 0)] = At(F, c + 0)
      BY <2>2, <3>1
    <3> QED
      BY <1>3, <3>2, Places DEF At
  <2>4. G[c] = Empty
    BY <1>2
  <2>5. ASSUME NEW i \in 0 .. MaxTime, i # c PROVE F[i] = G[i]
    <3>1. CASE i < c
      <4>1. F[i] = Empty
        BY <3>1 DEF Windowed
      <4> QED
        BY <1>2, <3>1, <4>1
    <3>2. CASE i > c
      BY <1>2, <3>2
    <3> QED
      BY <2>5, <3>1, <3>2
  <2>6. /\ SumOf(G) = SumOf(F) + G[c].sum - F[c].sum
        /\ NumOf(G) = NumOf(F) + G[c].samples - F[c].samples
    BY <1>1, <1>2, <2>5, HistoryChanges
  <2>7. G[c].sum = 0 /\ G[c].samples = 0
    BY <2>4 DEF Empty
  <2>8. /\ SumOf(F) \in Nat /\ NumOf(F) \in Nat
        /\ F[c].sum \in Nat /\ F[c].samples \in Nat
    BY <1>1, HistorySums, HistoryTerms
  <2>9. /\ e.accumulated_count_ = SumOf(G)
        /\ e.num_samples_ = NumOf(G)
        /\ SumOf(G) <= IntMax
    BY <2>1, <2>2, <2>3, <2>6, <2>7, <2>8
  <2>10. ASSUME NEW j \in Indices
         PROVE  e.buckets[Place(After(k), j)] = At(G, (c + 1) + j)
    <3>1. s.buckets \in [Indices -> Bucket]
      BY DEF State
    <3>2. CASE j = MaxWindow - 1
      <4>1. Place(After(k), j) = k
        BY <1>3, <3>2, Places
      <4>2. e.buckets[k] = Empty
        BY <1>3, <2>1, <3>1
      <4>3. At(G, (c + 1) + j) = Empty
        <5>1. CASE c + MaxWindow <= MaxTime
          <6>1. F[c + MaxWindow] = Empty
            BY <5>1 DEF Windowed
          <6>2. G[c + MaxWindow] = Empty
            BY <1>2, <5>1, <6>1
          <6> QED
            BY <3>2, <6>2 DEF At
        <5>2. CASE c + MaxWindow > MaxTime
          BY <3>2, <5>2 DEF At
        <5> QED
          BY <5>1, <5>2
      <4> QED
        BY <4>1, <4>2, <4>3
    <3>3. CASE j # MaxWindow - 1
      <4>1. j + 1 \in Indices /\ Place(After(k), j) = Place(k, j + 1)
        BY <1>3, <3>3, Places
      <4>2. Place(k, j + 1) # k /\ Place(k, j + 1) \in Indices
        <5>1. 0 \in Indices /\ j + 1 # 0
          BY <1>4 DEF Indices
        <5> QED
          BY <1>3, <4>1, <5>1, Places
      <4>3. e.buckets[Place(k, j + 1)] = s.buckets[Place(k, j + 1)]
        BY <1>3, <2>1, <3>1, <4>2
      <4>4. s.buckets[Place(k, j + 1)] = At(F, c + (j + 1))
        BY <2>2, <4>1
      <4>5. At(F, c + (j + 1)) = At(G, (c + 1) + j)
        <5>1. c + (j + 1) = (c + 1) + j
          BY <1>4
        <5>2. ASSUME (c + 1) + j <= MaxTime
              PROVE  F[(c + 1) + j] = G[(c + 1) + j]
          BY <1>2, <1>4, <5>2
        <5> QED
          BY <5>1, <5>2 DEF At
      <4> QED
        BY <4>1, <4>3, <4>4, <4>5
    <3> QED
      BY <3>2, <3>3
  <2> QED
    BY <2>1, <2>9, <2>10 DEF RingHas, G, e
<1> QED
  BY <1>5, <1>6

\* All rounds take out what they pass.
LEMMA EraseRoundsTracks ==
  ASSUME NEW s \in State, NEW F, NEW c \in 0 .. MaxTime, NEW k \in Nat,
         c + k \in 0 .. MaxTime,
         Windowed(F, c), SumOf(F) <= IntMax, RingHas(s, F, c)
  PROVE  LET e == EraseRounds(s, k)
             G == Since(c + k, F)
         IN Windowed(G, c + k) /\ SumOf(G) <= IntMax /\ RingHas(e, G, c + k)
<1>1. PICK g : IsRounds(g, s, k) /\ EraseRounds(s, k) = g[k]
  BY EraseRoundsIsLast
<1> DEFINE Fits(e, i) ==
             LET G == Since(c + i, F)
             IN /\ Windowed(G, c + i) /\ SumOf(G) <= IntMax
                /\ RingHas(e, G, c + i)
           Kept == {i \in 0 .. k : g[i] \in State /\ Fits(g[i], i)}
<1>2. 0 \in Kept
  <2>1. g[0] = s
    BY <1>1 DEF IsRounds
  <2>2. c + 0 = c /\ Since(c, F) = F
    BY SinceBegin
  <2> QED
    BY <2>1, <2>2
<1>3. ASSUME NEW i \in 1 .. k, i - 1 \in Kept PROVE i \in Kept
  <2> DEFINE G == Since(c + (i - 1), F)
  <2>1. g[i] = EraseOldest(g[i - 1])
    BY <1>1 DEF IsRounds
  <2>2. g[i - 1] \in State /\ Fits(g[i - 1], i - 1)
    BY <1>3
  <2>3. c + (i - 1) \in 0 .. MaxTime /\ (c + (i - 1)) + 1 = c + i
        /\ c + i \in 0 .. MaxTime
    BY RateStatisticsAssumption DEF RateStatisticsAssumption
  <2>4. F \in Histories
    BY DEF Windowed
  <2>5. Since(c + i, G) = Since(c + i, F)
    BY <2>3, <2>4, SinceSince
  <2>6. g[i] \in State
    BY <2>1, <2>2, EraseOldestKeeps DEF SameSettings
  <2>7. Windowed(Since(c + i, G), c + i)
    BY <2>2, <2>3, SinceWindowed
  <2>8. /\ SumOf(Since(c + i, G)) <= IntMax
        /\ RingHas(g[i], Since(c + i, G), c + i)
    <3> HIDE DEF G
    <3>1. Windowed(G, c + (i - 1)) /\ SumOf(G) <= IntMax
          /\ RingHas(g[i - 1], G, c + (i - 1))
      BY <2>2 DEF G
    <3> DEFINE d == c + (i - 1)
    <3>2. d \in 0 .. MaxTime /\ d + 1 \in 0 .. MaxTime /\ d + 1 = c + i
      BY <2>3
    <3>3. Windowed(G, d) /\ RingHas(g[i - 1], G, d)
      BY <3>1
    <3> HIDE DEF d
    <3>4. /\ SumOf(Since(d + 1, G)) <= IntMax
          /\ RingHas(EraseOldest(g[i - 1]), Since(d + 1, G), d + 1)
      BY <2>2, <3>1, <3>2, <3>3, EraseOldestTracks
    <3> QED
      BY <2>1, <3>2, <3>4
  <2> QED
    BY <2>5, <2>6, <2>7, <2>8
<1> HIDE DEF Kept
<1>4. 0 .. k \subseteq Kept
  BY <1>2, <1>3, Facts!UpTo
<1>5. k \in Kept
  BY <1>4
<1> QED
  BY <1>1, <1>5 DEF Kept

\* Only the ring matters.
LEMMA RingOnly ==
  ASSUME NEW s, NEW e, NEW F, NEW b, RingHas(s, F, b),
         e.buckets = s.buckets, e.oldest_index_ = s.oldest_index_,
         e.accumulated_count_ = s.accumulated_count_,
         e.num_samples_ = s.num_samples_
  PROVE  RingHas(e, F, b)
BY DEF RingHas

\* The facts of an object that has not been used.
LEMMA UnusedFacts ==
  ASSUME NEW s \in State, NEW F, Unused(s, F)
  PROVE  /\ s.oldest_time_ = NotYet /\ ~IsInitialized(s)
         /\ s.oldest_index_ = 0 /\ s.accumulated_count_ = 0
         /\ s.num_samples_ = 0 /\ ~s.overflow_
         /\ s.buckets = [i \in Indices |-> Empty]
         /\ F \in Histories /\ \A i \in 0 .. MaxTime : F[i] = Empty
BY DEF Unused, New, IsInitialized, Histories, Empty

\* EraseOld takes out what is before its window.
LEMMA EraseOldReads ==
  ASSUME NEW s \in State, NEW F, NEW b, NEW t \in 0 .. MaxTime,
         Reads(s, F, b)
  PROVE  LET c == Begin(b, s.current_window_size_ms_, t)
         IN Reads(EraseOld(s, t), Since(c, F), c)
<1> DEFINE w == s.current_window_size_ms_
           n == t - w + 1
<1> USE RateStatisticsAssumption DEF RateStatisticsAssumption
<1>1. w \in 1 .. MaxWindow /\ n \in Int /\ n <= MaxTime
  BY DEF State
<1>2. CASE b = NotYet /\ Unused(s, F)
  <2>1. EraseOld(s, t) = s
    BY <1>2, UnusedFacts DEF EraseOld
  <2>2. Since(NotYet, F) = F
    BY <1>2 DEF Unused, Since, NotYet
  <2>3. Begin(b, w, t) = NotYet
    BY <1>2 DEF Begin
  <2> QED
    BY <1>2, <2>1, <2>2, <2>3 DEF Reads
<1>3. CASE Tracks(s, F, b)
  <2>1. /\ b \in 0 .. MaxTime /\ s.oldest_time_ = b /\ b # NotYet
        /\ Windowed(F, b) /\ SumOf(F) <= IntMax /\ RingHas(s, F, b)
    BY <1>3 DEF Tracks, NotYet
  <2>2. IsInitialized(s)
    BY <2>1 DEF IsInitialized
  <2>3. CASE n <= b
    <3>1. EraseOld(s, t) = s
      BY <2>1, <2>2, <2>3 DEF EraseOld, EraseUntil
    <3>2. Begin(b, w, t) = b
      BY <1>1, <2>1, <2>3 DEF Begin, Later
    <3>3. Since(b, F) = F
      BY <2>1, SinceBegin
    <3> QED
      BY <1>3, <3>1, <3>2, <3>3 DEF Reads
  <2>4. CASE n > b
    <3> DEFINE k == n - b
               e == EraseRounds(s, k)
    <3>1. k \in Nat /\ b + k = n /\ n \in 0 .. MaxTime
      BY <1>1, <2>1, <2>4
    <3>2. Begin(b, w, t) = n
      BY <1>1, <2>1, <2>4 DEF Begin, Later
    <3>3. EraseOld(s, t) = [e EXCEPT !.oldest_time_ = n]
      BY <1>1, <2>1, <2>2, <2>4 DEF EraseOld, EraseUntil
    <3>4. e \in State
      BY <3>1, EraseRoundsKeeps DEF SameSettings
    <3>5. /\ Windowed(Since(n, F), n) /\ SumOf(Since(n, F)) <= IntMax
          /\ RingHas(e, Since(n, F), n)
      <4> HIDE DEF k
      <4>1. b + k \in 0 .. MaxTime
        BY <3>1
      <4>2. /\ Windowed(Since(b + k, F), b + k)
            /\ SumOf(Since(b + k, F)) <= IntMax
            /\ RingHas(e, Since(b + k, F), b + k)
        BY <2>1, <3>1, <4>1, EraseRoundsTracks
      <4> QED
        BY <3>1, <4>2
    <3> HIDE DEF e, n
    <3> DEFINE e2 == [e EXCEPT !.oldest_time_ = n]
    <3>6. /\ e2.oldest_time_ = n /\ e2.buckets = e.buckets
          /\ e2.oldest_index_ = e.oldest_index_
          /\ e2.accumulated_count_ = e.accumulated_count_
          /\ e2.num_samples_ = e.num_samples_
      BY <3>4 DEF State
    <3> HIDE DEF e2
    <3>7. RingHas(e2, Since(n, F), n)
      BY <3>5, <3>6, RingOnly
    <3>8. Tracks(e2, Since(n, F), n)
      BY <3>1, <3>5, <3>6, <3>7 DEF Tracks
    <3> QED
      BY <3>2, <3>3, <3>8 DEF Reads, e2
  <2> QED
    BY <1>1, <2>1, <2>3, <2>4
<1> QED
  BY <1>2, <1>3 DEF Reads

-----------------------------------------------------------------------------
(* Update.                                                                 *)

\* The two members of a bucket are changed apart.
LEMMA BucketChanges ==
  ASSUME NEW b \in Bucket, NEW x \in Int
  PROVE  [[b EXCEPT !.sum = x] EXCEPT !.samples = @ + 1]
           = [sum |-> x, samples |-> b.samples + 1]
<1>1. [b EXCEPT !.sum = x] = [sum |-> x, samples |-> b.samples]
  BY DEF Bucket
<1>2. [[sum |-> x, samples |-> b.samples] EXCEPT !.samples = @ + 1]
        = [sum |-> x, samples |-> b.samples + 1]
  OBVIOUS
<1> QED
  BY <1>1, <1>2

\* History F with a sample more at t.
Added(F, count, t) ==
  [F EXCEPT ![t].sum = @ + count, ![t].samples = @ + 1]

\* What a sample adds.
LEMMA AddedFacts ==
  ASSUME NEW F \in Histories, NEW count \in 0 .. IntMax,
         NEW t \in 0 .. MaxTime
  PROVE  /\ Added(F, count, t) \in Histories
         /\ Added(F, count, t)[t].sum = F[t].sum + count
         /\ Added(F, count, t)[t].samples = F[t].samples + 1
         /\ \A i \in 0 .. MaxTime : i # t => Added(F, count, t)[i] = F[i]
<1> DEFINE new == [sum |-> F[t].sum + count, samples |-> F[t].samples + 1]
<1>1. F[t] \in [sum : Nat, samples : Nat]
  BY DEF Histories
<1>2. new \in [sum : Nat, samples : Nat]
  BY <1>1, RateStatisticsAssumption DEF RateStatisticsAssumption
<1>3. Added(F, count, t) = [F EXCEPT ![t] = new]
  <2>1. F[t] \in Bucket /\ F[t].sum + count \in Int
    BY <1>1, RateStatisticsAssumption DEF Bucket, RateStatisticsAssumption
  <2>2. [[F[t] EXCEPT !.sum = F[t].sum + count] EXCEPT !.samples = @ + 1]
          = new
    BY <2>1, BucketChanges
  <2> QED
    BY <2>2 DEF Added, Histories
<1>4. new.sum = F[t].sum + count /\ new.samples = F[t].samples + 1
  OBVIOUS
<1> HIDE DEF new
<1> QED
  BY <1>2, <1>3, <1>4 DEF Histories

\* It does not matter whether the window begins before or after.
LEMMA SinceAdded ==
  ASSUME NEW F \in Histories, NEW count \in 0 .. IntMax,
         NEW t \in 0 .. MaxTime, NEW c \in Int, c <= t
  PROVE  Since(c, Added(F, count, t)) = Added(Since(c, F), count, t)
<1> DEFINE A == Since(c, Added(F, count, t))
           B == Added(Since(c, F), count, t)
<1>1. /\ Since(c, F) \in Histories
      /\ \A i \in 0 .. MaxTime :
           Since(c, F)[i] = IF i < c THEN Empty ELSE F[i]
  BY SinceFacts
<1>2. Added(F, count, t) \in Histories
  BY AddedFacts
<1>3. /\ A \in Histories
      /\ \A i \in 0 .. MaxTime :
           A[i] = IF i < c THEN Empty ELSE Added(F, count, t)[i]
  BY <1>2, SinceFacts
<1>4. B \in Histories
  BY <1>1, AddedFacts
<1>5. ASSUME NEW i \in 0 .. MaxTime, i # t PROVE A[i] = B[i]
  <2>1. Added(F, count, t)[i] = F[i] /\ B[i] = Since(c, F)[i]
    BY <1>1, <1>5, AddedFacts
  <2> QED
    BY <1>1, <1>3, <2>1
<1>6. A[t] = B[t]
  <2>1. A[t] = Added(F, count, t)[t] /\ Since(c, F)[t] = F[t]
    BY <1>1, <1>3
  <2>2. /\ A[t].sum = F[t].sum + count /\ A[t].samples = F[t].samples + 1
        /\ B[t].sum = F[t].sum + count /\ B[t].samples = F[t].samples + 1
    BY <1>1, <2>1, AddedFacts
  <2>3. /\ A[t] \in [sum : Nat, samples : Nat]
        /\ B[t] \in [sum : Nat, samples : Nat]
    BY <1>3, <1>4 DEF Histories
  <2> HIDE DEF A, B
  <2> QED
    BY <2>2, <2>3
<1> HIDE DEF A, B
<1>7. A = B
  <2>1. \A i \in 0 .. MaxTime : A[i] = B[i]
    BY <1>5, <1>6
  <2>2. /\ A = [i \in 0 .. MaxTime |-> A[i]]
        /\ B = [i \in 0 .. MaxTime |-> B[i]]
    BY <1>3, <1>4 DEF Histories
  <2> QED
    BY <2>1, <2>2
<1> QED
  BY <1>7 DEF A, B

\* The members after AddSample.
LEMMA AddSampleFields ==
  ASSUME NEW s \in State, NEW count \in Int, NEW t \in Int
  PROVE  LET a == AddSample(s, count, t)
             p == Place(s.oldest_index_, t - s.oldest_time_)
             fits == IntMax - s.accumulated_count_ > count
         IN /\ a \in State
            /\ a.buckets = [s.buckets EXCEPT ![p] =
                 [sum |-> Int64(s.buckets[p].sum + count),
                  samples |-> s.buckets[p].samples + 1]]
            /\ a.accumulated_count_ = IF fits THEN s.accumulated_count_ + count
                                      ELSE s.accumulated_count_
            /\ a.overflow_ = (s.overflow_ \/ ~fits)
            /\ a.num_samples_ = s.num_samples_ + 1
            /\ a.oldest_time_ = s.oldest_time_
            /\ a.oldest_index_ = s.oldest_index_
            /\ a.current_window_size_ms_ = s.current_window_size_ms_
<1> DEFINE p == Place(s.oldest_index_, t - s.oldest_time_)
           fits == IntMax - s.accumulated_count_ > count
           bucket == [sum |-> Int64(s.buckets[p].sum + count),
                      samples |-> s.buckets[p].samples + 1]
           kept == [s.buckets EXCEPT ![p] = bucket]
           sum == IF fits THEN s.accumulated_count_ + count
                  ELSE s.accumulated_count_
           over == s.overflow_ \/ ~fits
<1> USE RateStatisticsAssumption DEF RateStatisticsAssumption
<1>1. s.buckets \in [Indices -> Bucket]
  BY DEF State
<1>2. kept \in [Indices -> Bucket]
  <2>1. ASSUME p \in Indices PROVE bucket \in Bucket
    <3>1. s.buckets[p] \in Bucket
      BY <1>1, <2>1
    <3>2. s.buckets[p].sum + count \in Int
      BY <3>1 DEF Bucket
    <3>3. Int64(s.buckets[p].sum + count) \in Int
      BY <3>2 DEF Int64
    <3> QED
      BY <3>1, <3>3 DEF Bucket
  <2> HIDE DEF p, bucket
  <2> QED
    BY <1>1, <2>1
<1>3. kept = [s.buckets EXCEPT ![p].sum = Int64(@ + count),
                               ![p].samples = @ + 1]
  <2> DEFINE two == [s.buckets EXCEPT ![p].sum = Int64(@ + count),
                                      ![p].samples = @ + 1]
  <2>1. ASSUME p \in Indices PROVE two[p] = bucket
    <3>1. s.buckets[p] \in Bucket
      BY <1>1, <2>1
    <3>2. Int64(s.buckets[p].sum + count) \in Int
      BY <3>1 DEF Bucket, Int64
    <3>3. [[s.buckets[p] EXCEPT !.sum = Int64(s.buckets[p].sum + count)]
              EXCEPT !.samples = @ + 1] = bucket
      BY <3>1, <3>2, BucketChanges
    <3> HIDE DEF p, bucket
    <3> QED
      BY <1>1, <2>1, <3>3
  <2> HIDE DEF bucket, p
  <2> QED
    BY <1>1, <2>1
<1>4. /\ sum \in Int /\ over \in BOOLEAN /\ s.num_samples_ + 1 \in Int
      /\ s.oldest_time_ \in Int /\ s.oldest_index_ \in Indices
      /\ s.current_window_size_ms_ \in 1 .. MaxWindow
  BY DEF State
<1>5. AddSample(s, count, t) =
        [s EXCEPT !.buckets = kept, !.accumulated_count_ = sum,
                  !.overflow_ = over, !.num_samples_ = @ + 1]
  <2>1. AddSample(s, count, t) =
          [s EXCEPT !.buckets[p].sum = Int64(@ + count),
                    !.buckets[p].samples = @ + 1,
                    !.accumulated_count_ = IF fits THEN @ + count ELSE @,
                    !.overflow_ = @ \/ ~fits,
                    !.num_samples_ = @ + 1]
    BY DEF AddSample, Place
  <2> HIDE DEF p, fits, kept
  <2> QED
    BY <1>3, <2>1 DEF State
<1>6. AddSample(s, count, t) =
        [buckets |-> kept, accumulated_count_ |-> sum, overflow_ |-> over,
         num_samples_ |-> s.num_samples_ + 1,
         oldest_time_ |-> s.oldest_time_,
         oldest_index_ |-> s.oldest_index_,
         current_window_size_ms_ |-> s.current_window_size_ms_]
  <2> HIDE DEF kept, sum, over
  <2> QED
    BY <1>5 DEF State
<1>7. /\ AddSample(s, count, t) \in State
      /\ AddSample(s, count, t).buckets = kept
      /\ AddSample(s, count, t).accumulated_count_ = sum
      /\ AddSample(s, count, t).overflow_ = over
      /\ AddSample(s, count, t).num_samples_ = s.num_samples_ + 1
      /\ AddSample(s, count, t).oldest_time_ = s.oldest_time_
      /\ AddSample(s, count, t).oldest_index_ = s.oldest_index_
      /\ AddSample(s, count, t).current_window_size_ms_
           = s.current_window_size_ms_
  <2> HIDE DEF kept, sum, over
  <2> QED
    BY <1>2, <1>4, <1>6 DEF State
<1> QED
  BY <1>7

\* AddSample puts the sample where the history has it.
LEMMA AddSampleTracks ==
  ASSUME NEW s \in State, NEW F, NEW c, NEW count \in 0 .. IntMax,
         NEW t \in 0 .. MaxTime, Tracks(s, F, c), c <= t, t < c + MaxWindow,
         IntMax - SumOf(F) > count
  PROVE  Tracks(AddSample(s, count, t), Added(F, count, t), c)
<1> DEFINE k == s.oldest_index_
           j == t - c
           p == Place(k, j)
           G == Added(F, count, t)
           a == AddSample(s, count, t)
<1> USE RateStatisticsAssumption DEF RateStatisticsAssumption
<1>1. /\ c \in 0 .. MaxTime /\ Windowed(F, c) /\ s.oldest_time_ = c
      /\ SumOf(F) <= IntMax /\ RingHas(s, F, c) /\ F \in Histories
  BY DEF Tracks, Windowed
<1>2. /\ G \in Histories
      /\ G[t].sum = F[t].sum + count /\ G[t].samples = F[t].samples + 1
      /\ \A i \in 0 .. MaxTime : i # t => G[i] = F[i]
  BY <1>1, AddedFacts
<1>3. k \in Indices /\ j \in Indices /\ c + j = t
  BY <1>1 DEF State, Indices
<1>4. s.buckets \in [Indices -> Bucket] /\ s.num_samples_ \in Int
  BY DEF State
<1>5. /\ a.buckets = [s.buckets EXCEPT ![p] =
           [sum |-> Int64(s.buckets[p].sum + count),
            samples |-> s.buckets[p].samples + 1]]
      /\ a.accumulated_count_ = s.accumulated_count_ + count
      /\ a.num_samples_ = s.num_samples_ + 1
      /\ a.oldest_time_ = c /\ a.oldest_index_ = k
  <2>1. s.accumulated_count_ = SumOf(F)
    BY <1>1 DEF RingHas
  <2>2. count \in Int /\ t \in Int
    OBVIOUS
  <2> QED
    BY <1>1, <2>1, <2>2, AddSampleFields
<1>6. p \in Indices
  BY <1>3, Places
<1> HIDE DEF p, G, a
<1>7. s.buckets[p] = F[t]
  <2>1. s.buckets[Place(k, j)] = At(F, c + j)
    BY <1>1, <1>3 DEF RingHas
  <2> QED
    BY <1>3, <2>1 DEF At, p
<1>8. /\ F[t].sum \in Nat /\ F[t].samples \in Nat
      /\ F[t].sum <= SumOf(F) /\ SumOf(F) \in Nat /\ NumOf(F) \in Nat
  BY <1>1, HistoryTerms, HistorySums
<1>9. Int64(F[t].sum + count) = G[t].sum
  BY <1>2, <1>8 DEF Int64
<1>10. a.buckets[p] = G[t]
  <2>1. a.buckets[p] = [sum |-> G[t].sum, samples |-> G[t].samples]
    BY <1>2, <1>4, <1>5, <1>6, <1>7, <1>9
  <2>2. G[t] \in [sum : Nat, samples : Nat]
    BY <1>2 DEF Histories
  <2> QED
    BY <2>1, <2>2
<1>11. /\ SumOf(G) = SumOf(F) + count
       /\ NumOf(G) = NumOf(F) + 1
  <2>1. /\ SumOf(G) = SumOf(F) + G[t].sum - F[t].sum
        /\ NumOf(G) = NumOf(F) + G[t].samples - F[t].samples
    BY <1>1, <1>2, HistoryChanges
  <2> QED
    BY <1>2, <1>8, <2>1
<1>12. Windowed(G, c)
  <2>1. ASSUME NEW i \in 0 .. MaxTime
        PROVE  /\ G[i].samples = 0 => G[i] = Empty
               /\ G[i] # Empty => c <= i /\ i < c + MaxWindow
    <3>1. CASE i = t
      BY <1>2, <1>8, <3>1
    <3>2. CASE i # t
      BY <1>1, <1>2, <3>2 DEF Windowed
    <3> QED
      BY <3>1, <3>2
  <2> QED
    BY <1>2, <2>1 DEF Windowed
<1>13. ASSUME NEW i \in Indices
       PROVE  a.buckets[Place(k, i)] = At(G, c + i)
  <2>1. CASE i = j
    BY <1>3, <1>10, <2>1 DEF At, p
  <2>2. CASE i # j
    <3>1. Place(k, i) # p /\ Place(k, i) \in Indices
      <4>1. Place(k, i) = Place(k, j) => i = j
        BY <1>3, Places
      <4>2. Place(k, i) \in Indices
        BY <1>3, Places
      <4> QED
        BY <2>2, <4>1, <4>2 DEF p
    <3>2. a.buckets[Place(k, i)] = s.buckets[Place(k, i)]
      BY <1>4, <1>5, <1>6, <3>1
    <3>3. s.buckets[Place(k, i)] = At(F, c + i)
      BY <1>1 DEF RingHas
    <3>4. At(F, c + i) = At(G, c + i)
      <4>1. c + i \in Nat /\ c + i # t
        BY <1>1, <1>3, <2>2 DEF Indices
      <4> QED
        BY <1>2, <4>1 DEF At
    <3> QED
      BY <3>2, <3>3, <3>4
  <2> QED
    BY <2>1, <2>2
<1>14. RingHas(a, G, c)
  <2>1. /\ a.accumulated_count_ = SumOf(G)
        /\ a.num_samples_ = NumOf(G)
    BY <1>1, <1>5, <1>11 DEF RingHas
  <2> QED
    BY <1>5, <1>13, <2>1 DEF RingHas
<1>15. SumOf(G) <= IntMax
  BY <1>8, <1>11
<1> QED
  BY <1>1, <1>5, <1>12, <1>14, <1>15 DEF Tracks, G, a

\* What Update adds the sample to: the first one begins the window.
Ready(s, t) ==
  LET e == EraseOld(s, t)
  IN IF IsInitialized(e) THEN e ELSE [e EXCEPT !.oldest_time_ = t]

Begun(b, w, t) == IF b = NotYet THEN t ELSE Begin(b, w, t)

\* The window has the time that Update is called with.
LEMMA BegunFacts ==
  ASSUME NEW b \in Int, NEW w \in 1 .. MaxWindow, NEW t \in 0 .. MaxTime,
         b = NotYet \/ b \in 0 .. MaxTime, b <= t
  PROVE  LET c == Begun(b, w, t)
         IN /\ c \in 0 .. MaxTime /\ c <= t /\ t < c + MaxWindow
            /\ c # NotYet /\ b <= c
            /\ b # NotYet => c = Begin(b, w, t)
BY RateStatisticsAssumption
DEF RateStatisticsAssumption, Begun, Begin, Later, NotYet

\* It is an object with the settings of s.
LEMMA ReadyKeeps ==
  ASSUME NEW s \in State, NEW t \in 0 .. MaxTime
  PROVE  /\ SameSettings(s, Ready(s, t))
         /\ Ready(s, t).oldest_time_ =
              Begun(s.oldest_time_, s.current_window_size_ms_, t)
<1> DEFINE e == EraseOld(s, t)
           b == s.oldest_time_
           w == s.current_window_size_ms_
<1> USE RateStatisticsAssumption DEF RateStatisticsAssumption
<1>1. SameSettings(s, e) /\ e.oldest_time_ = Begin(b, w, t)
  BY EraseOldKeeps
<1>2. b \in Int /\ w \in 1 .. MaxWindow
  BY DEF State
<1> HIDE DEF e, b, w
<1>3. CASE IsInitialized(e)
  <2>1. Ready(s, t) = e
    BY <1>3 DEF Ready, e
  <2>2. b # NotYet
    BY <1>1, <1>3 DEF IsInitialized, Begin
  <2> QED
    BY <1>1, <2>1, <2>2 DEF Begun, b, w
<1>4. CASE ~IsInitialized(e)
  <2>1. Ready(s, t) = [e EXCEPT !.oldest_time_ = t]
    BY <1>4 DEF Ready, e
  <2>2. SameSettings(s, Ready(s, t)) /\ Ready(s, t).oldest_time_ = t
    BY <1>1, <2>1 DEF SameSettings, State
  <2>3. Begun(b, w, t) = t
    <3>1. Begin(b, w, t) = NotYet
      BY <1>1, <1>4 DEF IsInitialized
    <3>2. b # NotYet => Begin(b, w, t) = Later(b, t - w + 1)
      BY DEF Begin
    <3>3. t - w + 1 > NotYet
      BY <1>2 DEF NotYet
    <3>4. b = NotYet
      BY <1>2, <3>1, <3>2, <3>3 DEF Later
    <3> QED
      BY <3>4 DEF Begun
  <2> QED
    BY <2>2, <2>3 DEF b, w
<1> QED
  BY <1>3, <1>4

\* And has the samples of the window.
LEMMA ReadyTracks ==
  ASSUME NEW s \in State, NEW F, NEW b, NEW t \in 0 .. MaxTime,
         Reads(s, F, b), b <= t
  PROVE  LET c == Begun(b, s.current_window_size_ms_, t)
         IN Tracks(Ready(s, t), Since(c, F), c)
<1> DEFINE w == s.current_window_size_ms_
           e == EraseOld(s, t)
<1> USE RateStatisticsAssumption DEF RateStatisticsAssumption
<1>1. w \in 1 .. MaxWindow
  BY DEF State
<1>2. CASE b = NotYet /\ Unused(s, F)
  <2> DEFINE r == [s EXCEPT !.oldest_time_ = t]
  <2>1. /\ s.oldest_time_ = NotYet /\ ~IsInitialized(s)
        /\ s.oldest_index_ = 0 /\ s.accumulated_count_ = 0
        /\ s.num_samples_ = 0 /\ s.buckets = [i \in Indices |-> Empty]
        /\ F \in Histories /\ \A i \in 0 .. MaxTime : F[i] = Empty
    BY <1>2, UnusedFacts
  <2>2. Ready(s, t) = r /\ Begun(b, w, t) = t
    BY <1>2, <2>1 DEF Ready, EraseOld, Begun
  <2>3. Since(t, F) = F
    BY <2>1 DEF Since, Histories
  <2>4. /\ r.oldest_time_ = t /\ r.oldest_index_ = 0
        /\ r.accumulated_count_ = 0 /\ r.num_samples_ = 0
        /\ r.buckets = [i \in Indices |-> Empty]
    BY <2>1 DEF State
  <2> HIDE DEF r
  <2>5. SumOf(F) = 0 /\ NumOf(F) = 0
    BY <2>1, NoHistory
  <2>6. Windowed(F, t)
    BY <2>1 DEF Windowed
  <2>7. ASSUME NEW j \in Indices
        PROVE  r.buckets[Place(r.oldest_index_, j)] = At(F, t + j)
    <3>1. Place(0, j) \in Indices
      BY DEF Indices, Place
    <3>2. At(F, t + j) = Empty
      BY <2>1 DEF At, Indices
    <3> QED
      BY <2>4, <3>1, <3>2
  <2>8. RingHas(r, F, t)
    BY <2>4, <2>5, <2>7 DEF RingHas
  <2>9. Tracks(r, F, t)
    BY <2>4, <2>5, <2>6, <2>8 DEF Tracks
  <2> QED
    BY <2>2, <2>3, <2>9
<1>3. CASE Tracks(s, F, b)
  <2>1. b \in 0 .. MaxTime /\ b # NotYet
    BY <1>3 DEF Tracks, NotYet
  <2>2. Begun(b, w, t) = Begin(b, w, t) /\ Begin(b, w, t) \in 0 .. MaxTime
    BY <1>1, <2>1 DEF Begun, Begin, Later
  <2>3. Reads(e, Since(Begin(b, w, t), F), Begin(b, w, t))
    BY EraseOldReads
  <2>4. Tracks(e, Since(Begin(b, w, t), F), Begin(b, w, t))
    BY <2>2, <2>3 DEF Reads, NotYet
  <2>5. IsInitialized(e)
    BY <2>2, <2>4 DEF Tracks, IsInitialized, NotYet
  <2> QED
    BY <2>2, <2>4, <2>5 DEF Ready
<1> QED
  BY <1>2, <1>3 DEF Reads

\* Update leaves an object with the window size of s.
LEMMA UpdatedKeeps ==
  ASSUME NEW s \in State, NEW count \in Int, NEW t \in 0 .. MaxTime
  PROVE  LET u == Updated(s, count, t)
         IN /\ u \in State
            /\ u.current_window_size_ms_ = s.current_window_size_ms_
            /\ s.overflow_ => u.overflow_
            /\ u.oldest_time_ =
                 IF t < s.oldest_time_ THEN s.oldest_time_
                 ELSE Begun(s.oldest_time_, s.current_window_size_ms_, t)
<1>1. CASE t < s.oldest_time_
  BY <1>1 DEF Updated
<1>2. CASE ~(t < s.oldest_time_)
  <2>1. Updated(s, count, t) = AddSample(Ready(s, t), count, t)
    BY <1>2 DEF Updated, Ready
  <2>2. /\ Ready(s, t) \in State
        /\ Ready(s, t).overflow_ = s.overflow_
        /\ Ready(s, t).current_window_size_ms_ = s.current_window_size_ms_
        /\ Ready(s, t).oldest_time_ =
             Begun(s.oldest_time_, s.current_window_size_ms_, t)
    BY ReadyKeeps DEF SameSettings
  <2>3. t \in Int
    BY RateStatisticsAssumption DEF RateStatisticsAssumption
  <2> QED
    <3> DEFINE e == Ready(s, t)
               a == AddSample(e, count, t)
    <3>1. e \in State
      BY <2>2
    <3> HIDE DEF e
    <3>2. /\ a \in State /\ a.oldest_time_ = e.oldest_time_
          /\ a.overflow_
               = (e.overflow_ \/ ~(IntMax - e.accumulated_count_ > count))
          /\ a.current_window_size_ms_ = e.current_window_size_ms_
      BY <2>3, <3>1, AddSampleFields, ZenonT(30)
    <3> HIDE DEF a
    <3> QED
      BY <1>2, <2>1, <2>2, <3>2 DEF e, a
<1> QED
  BY <1>1, <1>2

\* Update adds the sample, unless the sum does not fit.
LEMMA UpdatedReads ==
  ASSUME NEW s \in State, NEW F, NEW b, NEW count \in 0 .. IntMax,
         NEW t \in 0 .. MaxTime, Reads(s, F, b), b <= t, ~s.overflow_
  PROVE  LET c == Begun(b, s.current_window_size_ms_, t)
             u == Updated(s, count, t)
         IN /\ u.overflow_ = ~(IntMax - SumOf(Since(c, F)) > count)
            /\ ~u.overflow_ => Tracks(u, Since(c, Added(F, count, t)), c)
<1> DEFINE w == s.current_window_size_ms_
           c == Begun(b, w, t)
           e == Ready(s, t)
           u == Updated(s, count, t)
<1> USE RateStatisticsAssumption DEF RateStatisticsAssumption
<1>1. /\ w \in 1 .. MaxWindow /\ b \in Int /\ s.oldest_time_ = b
      /\ b = NotYet \/ b \in 0 .. MaxTime
  <2>1. CASE Tracks(s, F, b)
    BY <2>1 DEF Tracks, Windowed, State
  <2>2. CASE b = NotYet /\ Unused(s, F)
    BY <2>2, UnusedFacts DEF NotYet, State
  <2> QED
    BY <2>1, <2>2 DEF Reads
<1>2. F \in Histories
  BY UnusedFacts DEF Reads, Tracks, Windowed
<1>3. c \in 0 .. MaxTime /\ c <= t /\ t < c + MaxWindow
  BY <1>1, BegunFacts
<1>4. Tracks(e, Since(c, F), c)
  BY ReadyTracks
<1>5. e \in State /\ e.overflow_ = s.overflow_
  BY ReadyKeeps DEF SameSettings
<1>6. u = AddSample(e, count, t)
  BY <1>1 DEF Updated, Ready
<1>7. e.accumulated_count_ = SumOf(Since(c, F))
  BY <1>4 DEF Tracks, RingHas
<1> HIDE DEF c, e, u
<1>8. u.overflow_ = ~(IntMax - SumOf(Since(c, F)) > count)
  <2>1. count \in Int /\ t \in Int
    OBVIOUS
  <2>2. AddSample(e, count, t).overflow_
          = (e.overflow_ \/ ~(IntMax - e.accumulated_count_ > count))
    BY <1>5, <2>1, AddSampleFields, ZenonT(30)
  <2> DEFINE fits == IntMax - SumOf(Since(c, F)) > count
  <2>3. u.overflow_ = (e.overflow_ \/ ~fits)
    BY <1>6, <1>7, <2>2, Zenon
  <2>4. ~e.overflow_ /\ fits \in BOOLEAN
    BY <1>5
  <2> HIDE DEF fits
  <2>5. u.overflow_ = ~fits
    BY <2>3, <2>4
  <2> QED
    BY <2>5 DEF fits
<1>9. ASSUME ~u.overflow_ PROVE Tracks(u, Since(c, Added(F, count, t)), c)
  <2>1. IntMax - SumOf(Since(c, F)) > count
    BY <1>8, <1>9
  <2>2. Tracks(AddSample(e, count, t), Added(Since(c, F), count, t), c)
    BY <1>3, <1>4, <1>5, <2>1, AddSampleTracks
  <2>3. Since(c, Added(F, count, t)) = Added(Since(c, F), count, t)
    BY <1>2, <1>3, SinceAdded
  <2> QED
    BY <1>6, <2>2, <2>3
<1> QED
  BY <1>8, <1>9 DEF c, u

-----------------------------------------------------------------------------
(* Rate.                                                                   *)

\* The rate of what F has in window w at t, when it began at b.
RateOf(F, b, w, t) ==
  LET c == Begin(b, w, t)
      G == Since(c, F)
      width == t - c + 1
  IN IF \/ NumOf(G) = 0
        \/ width <= 1
        \/ NumOf(G) <= 1 /\ width < w
       THEN NoRate
       ELSE Scaled(SumOf(G), width)

\* What an object reads is a history, from where its window begins.
LEMMA ReadsFacts ==
  ASSUME NEW s \in State, NEW F, NEW b, Reads(s, F, b)
  PROVE  /\ F \in Histories
         /\ s.oldest_time_ = b
         /\ b \in {NotYet} \cup 0 .. MaxTime /\ b \in Int
<1>1. CASE Tracks(s, F, b)
  BY <1>1, RateStatisticsAssumption
  DEF Tracks, Windowed, RateStatisticsAssumption
<1>2. CASE b = NotYet /\ Unused(s, F)
  BY <1>2, UnusedFacts, RateStatisticsAssumption
  DEF NotYet, RateStatisticsAssumption
<1> QED
  BY <1>1, <1>2 DEF Reads

\* An object whose sums are those of a history answers with its rate.
LEMMA RateReads ==
  ASSUME NEW s \in State, NEW F, NEW b, NEW t \in 0 .. MaxTime,
         Reads(s, F, b), ~s.overflow_
  PROVE  Rate(s, t) = RateOf(F, b, s.current_window_size_ms_, t)
<1> DEFINE w == s.current_window_size_ms_
           c == Begin(b, w, t)
           G == Since(c, F)
           e == EraseOld(s, t)
<1>1. Reads(e, G, c)
  BY EraseOldReads
<1>2. /\ e \in State /\ ~e.overflow_ /\ e.current_window_size_ms_ = w
      /\ e.oldest_time_ = c
  BY EraseOldKeeps, ReadsFacts DEF SameSettings
<1> HIDE DEF e, G, c, w
<1>3. e.num_samples_ = NumOf(G) /\ e.accumulated_count_ = SumOf(G)
  <2>1. CASE Tracks(e, G, c)
    BY <2>1 DEF Tracks, RingHas
  <2>2. CASE Unused(e, G)
    BY <1>2, <2>2, UnusedFacts, NoHistory
  <2> QED
    BY <1>1, <2>1, <2>2 DEF Reads
<1>4. Rate(s, t) = IF \/ e.num_samples_ = 0
                      \/ t - e.oldest_time_ + 1 <= 1
                      \/ /\ e.num_samples_ <= 1
                         /\ t - e.oldest_time_ + 1 < e.current_window_size_ms_
                      \/ e.overflow_
                     THEN NoRate
                     ELSE Scaled(e.accumulated_count_, t - e.oldest_time_ + 1)
  BY DEF Rate, e
<1>5. Rate(s, t) = IF \/ NumOf(G) = 0
                      \/ t - c + 1 <= 1
                      \/ NumOf(G) <= 1 /\ t - c + 1 < w
                     THEN NoRate
                     ELSE Scaled(SumOf(G), t - c + 1)
  BY <1>2, <1>3, <1>4
<1> QED
  BY <1>5 DEF RateOf, G, c, w

\* And an object whose sum did not fit, with none.
LEMMA RateOverflown ==
  ASSUME NEW s \in State, NEW t \in 0 .. MaxTime, s.overflow_
  PROVE  Rate(s, t) = NoRate
<1>1. EraseOld(s, t).overflow_
  BY EraseOldKeeps, RateStatisticsAssumption
  DEF SameSettings, RateStatisticsAssumption
<1> QED
  BY <1>1 DEF Rate

\* The rate over the samples is that of their history.
LEMMA TrueRateOf ==
  ASSUME samples \in Histories, start \in {NotYet} \cup 0 .. MaxTime,
         rs \in State, NEW t \in 0 .. MaxTime
  PROVE  TrueRate(t) = RateOf(samples, start, rs.current_window_size_ms_, t)
<1> DEFINE w == rs.current_window_size_ms_
           c == Begin(start, w, t)
           G == Since(c, samples)
           sums == [i \in 0 .. MaxTime |-> samples[i].sum]
           nums == [i \in 0 .. MaxTime |-> samples[i].samples]
<1> USE RateStatisticsAssumption DEF RateStatisticsAssumption
<1>1. c = Start(w, t)
  BY DEF Start, Begin
<1>2. c \in Int
  BY DEF State, Begin, Later, NotYet
<1>3. /\ G \in Histories
      /\ \A i \in 0 .. MaxTime : G[i] = IF i < c THEN Empty ELSE samples[i]
  BY <1>2, SinceFacts
<1> HIDE DEF G, c
<1>4. \A i \in 0 .. MaxTime :
        /\ Term(sums, c .. MaxTime, i) = Term(SumsOf(G), 0 .. MaxTime, i)
        /\ Term(nums, c .. MaxTime, i) = Term(NumsOf(G), 0 .. MaxTime, i)
  <2> TAKE i \in 0 .. MaxTime
  <2>1. /\ Term(SumsOf(G), 0 .. MaxTime, i) = G[i].sum
        /\ Term(NumsOf(G), 0 .. MaxTime, i) = G[i].samples
    BY <1>3, HistoryTerms
  <2>2. CASE i < c
    <3>1. G[i].sum = 0 /\ G[i].samples = 0
      BY <1>3, <2>2 DEF Empty
    <3> QED
      BY <1>2, <2>1, <2>2, <3>1 DEF Term
  <2>3. CASE ~(i < c)
    <3>1. G[i] = samples[i] /\ i \in c .. MaxTime
      BY <1>2, <1>3, <2>3
    <3> QED
      BY <2>1, <3>1 DEF Term
  <2> QED
    BY <2>2, <2>3
<1> HIDE DEF sums, nums
<1>5. Total(sums, c .. MaxTime) = SumOf(G)
  <2>1. \A i \in 0 .. MaxTime :
          Term(sums, c .. MaxTime, i) = Term(SumsOf(G), 0 .. MaxTime, i)
    BY <1>4
  <2> QED
    BY <2>1, SumsAgree DEF SumOf
<1>6. Total(nums, c .. MaxTime) = NumOf(G)
  <2>1. \A i \in 0 .. MaxTime :
          Term(nums, c .. MaxTime, i) = Term(NumsOf(G), 0 .. MaxTime, i)
    BY <1>4
  <2> QED
    BY <2>1, SumsAgree DEF NumOf
<1>7. TrueRate(t) = IF \/ NumOf(G) = 0
                       \/ t - c + 1 <= 1
                       \/ NumOf(G) <= 1 /\ t - c + 1 < w
                      THEN NoRate
                      ELSE Scaled(SumOf(G), t - c + 1)
  BY <1>1, <1>5, <1>6 DEF TrueRate, sums, nums
<1> QED
  BY <1>7 DEF RateOf, G, c

-----------------------------------------------------------------------------
(* The inductive invariant.                                                *)

\* Two windows, of which that from c may have more in front; a call at t ends
\* this.
Apart(c, b, w, t) == c = b \/ (c # NotYet /\ c < b /\ b <= t - w + 1)

HistoryOK ==
  /\ now \in 0 .. MaxTime
  /\ samples \in Histories
  /\ start \in {NotYet} \cup 0 .. now
  /\ excused \in BOOLEAN

\* The object that is asked has the samples of the window.
ObjectOK ==
  /\ rs \in State
  /\ rs.oldest_time_ = start
  /\ ~rs.overflow_ => Reads(rs, samples, start)

\* The twin has the same in the window, and perhaps more in front.
TwinReads ==
  \E G \in Histories, c \in {NotYet} \cup 0 .. MaxTime :
    /\ Reads(twin, G, c)
    /\ samples = Since(start, G)
    /\ Apart(c, start, rs.current_window_size_ms_, now)

TwinOK ==
  /\ twin \in State
  /\ excused => twin = rs
  /\ ~excused =>
       /\ twin.overflow_ = rs.overflow_
       /\ twin.current_window_size_ms_ = rs.current_window_size_ms_
       /\ ~rs.overflow_ => TwinReads

IInv == HistoryOK /\ ObjectOK /\ TwinOK

\* The two windows meet in any call that begins no earlier than w allows.
LEMMA WindowsMeet ==
  ASSUME NEW b \in {NotYet} \cup 0 .. MaxTime,
         NEW c \in {NotYet} \cup 0 .. MaxTime,
         NEW v \in 1 .. MaxWindow, NEW w \in 1 .. MaxWindow, w <= v,
         NEW n \in 0 .. MaxTime, NEW t \in 0 .. MaxTime, n <= t,
         Apart(c, b, v, n)
  PROVE  /\ c <= b /\ Begin(c, w, t) = Begin(b, w, t)
         /\ Begun(c, w, t) = Begun(b, w, t)
         /\ Apart(c, b, w, t)
BY RateStatisticsAssumption
DEF RateStatisticsAssumption, Apart, Begin, Begun, Later, NotYet

\* Where a window begins never goes back.
LEMMA BeginFacts ==
  ASSUME NEW n \in 0 .. MaxTime, NEW b \in {NotYet} \cup 0 .. n,
         NEW w \in 1 .. MaxWindow, NEW t \in 0 .. MaxTime
  PROVE  /\ b \in Int /\ b \in {NotYet} \cup 0 .. MaxTime
         /\ Begin(b, w, t) \in Int /\ b <= Begin(b, w, t)
         /\ Begin(b, w, t) \in {NotYet} \cup 0 .. MaxTime
         /\ t <= n => Begin(b, w, t) \in {NotYet} \cup 0 .. n
         /\ t <= n => Begun(b, w, t) \in 0 .. n
         /\ Begun(b, w, t) \in Int
BY RateStatisticsAssumption
DEF RateStatisticsAssumption, Begin, Begun, Later, NotYet

\* In the beginning nothing is there.
LEMMA NewReads ==
  /\ New \in State /\ ~New.overflow_ /\ New.oldest_time_ = NotYet
  /\ New.current_window_size_ms_ = MaxWindow
  /\ [t \in 0 .. MaxTime |-> Empty] \in Histories
  /\ Reads(New, [t \in 0 .. MaxTime |-> Empty], NotYet)
  /\ Since(NotYet, [t \in 0 .. MaxTime |-> Empty])
       = [t \in 0 .. MaxTime |-> Empty]
<1> USE RateStatisticsAssumption DEF RateStatisticsAssumption
<1>1. /\ New.current_window_size_ms_ = MaxWindow /\ ~New.overflow_
      /\ New.oldest_time_ = NotYet
  BY DEF New
<1>2. New \in State
  BY DEF New, State, Bucket, Empty, Indices, NotYet
<1>3. [t \in 0 .. MaxTime |-> Empty] \in Histories
  BY DEF Histories, Empty
<1>4. New = [New EXCEPT !.current_window_size_ms_ =
                             New.current_window_size_ms_]
  BY DEF New
<1>5. Unused(New, [t \in 0 .. MaxTime |-> Empty])
  BY <1>4 DEF Unused
<1>6. Since(NotYet, [t \in 0 .. MaxTime |-> Empty])
        = [t \in 0 .. MaxTime |-> Empty]
  BY DEF Since
<1> QED
  BY <1>1, <1>2, <1>3, <1>5, <1>6 DEF Reads

\* Both objects are new, initially and after Reset.
LEMMA NewInv ==
  /\ Init => IInv
  /\ HistoryOK /\ Reset => IInv'
<1> USE RateStatisticsAssumption DEF RateStatisticsAssumption
<1>1. /\ NotYet \in {NotYet} \cup 0 .. MaxTime
      /\ Apart(NotYet, NotYet, MaxWindow, now)
  BY DEF Apart
<1>2. ASSUME Init PROVE IInv
  <2>1. HistoryOK
    <3>1. now = 0 /\ start = NotYet /\ excused = FALSE
      BY <1>2 DEF Init
    <3>2. samples \in Histories
      BY <1>2, NewReads DEF Init
    <3>3. now \in 0 .. MaxTime
      BY <3>1
    <3> QED
      BY <3>1, <3>2, <3>3 DEF HistoryOK
  <2>2. ObjectOK
    BY <1>2, NewReads DEF Init, ObjectOK
  <2>3. TwinReads
    BY <1>1, <1>2, NewReads DEF Init, TwinReads
  <2>4. TwinOK
    BY <1>2, <2>3, NewReads DEF Init, TwinOK
  <2> QED
    BY <2>1, <2>2, <2>4 DEF IInv
<1>3. ASSUME HistoryOK, Reset PROVE IInv'
  <2>1. HistoryOK'
    BY <1>3, NewReads DEF Reset, HistoryOK
  <2>2. ObjectOK'
    BY <1>3, NewReads DEF Reset, ObjectOK
  <2>3. TwinReads'
    BY <1>1, <1>3, NewReads DEF Reset, TwinReads
  <2>4. TwinOK'
    BY <1>3, <2>3, NewReads DEF Reset, TwinOK
  <2> QED
    BY <2>1, <2>2, <2>4 DEF IInv
<1> QED
  BY <1>2, <1>3

\* The passing of time.
LEMMA TickInv == IInv /\ Tick => IInv'
<1> SUFFICES ASSUME IInv, Tick PROVE IInv'
  OBVIOUS
<1> USE RateStatisticsAssumption DEF RateStatisticsAssumption
<1>1. /\ now < MaxTime /\ now' = now + 1 /\ rs' = rs /\ twin' = twin
      /\ samples' = samples /\ start' = start /\ excused' = excused
      /\ HistoryOK /\ ObjectOK /\ TwinOK
  BY DEF Tick, IInv
<1>2. HistoryOK'
  BY <1>1 DEF HistoryOK
<1>3. ObjectOK'
  BY <1>1 DEF ObjectOK
<1>4. ASSUME TwinReads PROVE TwinReads'
  <2>1. PICK G \in Histories, c \in {NotYet} \cup 0 .. MaxTime :
          /\ Reads(twin, G, c) /\ samples = Since(start, G)
          /\ Apart(c, start, rs.current_window_size_ms_, now)
    BY <1>4 DEF TwinReads
  <2>2. rs.current_window_size_ms_ \in 1 .. MaxWindow
    BY <1>1 DEF ObjectOK, State
  <2>3. Apart(c, start, rs.current_window_size_ms_, now')
    <3>1. start \in {NotYet} \cup 0 .. MaxTime
      BY <1>1 DEF HistoryOK
    <3>2. now \in 0 .. MaxTime /\ now' \in 0 .. MaxTime /\ now <= now'
      BY <1>1 DEF HistoryOK
    <3> QED
      BY <2>1, <2>2, <3>1, <3>2, WindowsMeet, SMTT(20)
  <2> QED
    BY <1>1, <2>1, <2>3 DEF TwinReads
<1>5. TwinOK'
  BY <1>1, <1>4 DEF TwinOK
<1> QED
  BY <1>2, <1>3, <1>5 DEF IInv

\* Rate moves the window of the object that is asked.
LEMMA AskRateInv == IInv /\ AskRate => IInv'
<1> SUFFICES ASSUME IInv, AskRate PROVE IInv'
  OBVIOUS
<1> DEFINE w == rs.current_window_size_ms_
           d == Begin(start, w, now)
<1> USE RateStatisticsAssumption DEF RateStatisticsAssumption
<1>1. HistoryOK /\ ObjectOK /\ TwinOK
  BY DEF IInv
<1>2. /\ now \in 0 .. MaxTime /\ samples \in Histories
      /\ start \in {NotYet} \cup 0 .. now /\ excused \in BOOLEAN
      /\ rs \in State /\ rs.oldest_time_ = start /\ twin \in State
      /\ w \in 1 .. MaxWindow
  BY <1>1 DEF HistoryOK, ObjectOK, TwinOK, State
<1>3. /\ rs' = EraseOld(rs, now)
      /\ twin' = IF excused THEN rs' ELSE twin
      /\ start' = d /\ samples' = Since(d, samples)
      /\ now' = now /\ excused' = excused
  BY DEF AskRate, Start, Begin
<1>4. /\ start \in Int /\ d \in Int /\ start <= d
      /\ d \in {NotYet} \cup 0 .. now
  <2> HIDE DEF w
  <2>1. now <= now
    BY <1>2
  <2> QED
    BY <1>2, <2>1, BeginFacts
<1>5. /\ rs' \in State /\ rs'.overflow_ = rs.overflow_
      /\ rs'.current_window_size_ms_ = w /\ rs'.oldest_time_ = d
  <2>1. now \in Int
    BY <1>2
  <2>2. /\ SameSettings(rs, EraseOld(rs, now))
        /\ EraseOld(rs, now).oldest_time_ = d
    BY <1>2, <2>1, EraseOldKeeps
  <2> HIDE DEF d
  <2> QED
    BY <1>3, <2>2 DEF SameSettings
<1>6. ~rs.overflow_ => Reads(rs', samples', d)
  BY <1>1, <1>2, <1>3, EraseOldReads DEF ObjectOK
<1> HIDE DEF d, w
<1>7. HistoryOK'
  <2>1. samples' \in Histories
    BY <1>2, <1>3, <1>4, SinceFacts
  <2> QED
    BY <1>2, <1>3, <1>4, <2>1 DEF HistoryOK
<1>8. ObjectOK'
  BY <1>3, <1>5, <1>6 DEF ObjectOK
<1>9. ASSUME TwinReads, ~excused PROVE TwinReads'
  <2>1. PICK G \in Histories, c \in {NotYet} \cup 0 .. MaxTime :
          /\ Reads(twin, G, c) /\ samples = Since(start, G)
          /\ Apart(c, start, w, now)
    BY <1>9 DEF TwinReads, w
  <2>2. samples' = Since(d, G)
    BY <1>3, <1>4, <2>1, SinceSince
  <2>3. Apart(c, d, w, now)
    BY <1>2, <1>4, <2>1 DEF Apart, Begin, Later, d, NotYet
  <2> QED
    BY <1>3, <1>5, <1>9, <2>1, <2>2, <2>3 DEF TwinReads
<1>10. TwinOK'
  <2>1. twin' \in State
    BY <1>2, <1>3, <1>5
  <2>2. excused' => twin' = rs'
    BY <1>3
  <2>3. ASSUME ~excused'
        PROVE  /\ twin'.overflow_ = rs'.overflow_
               /\ twin'.current_window_size_ms_ = rs'.current_window_size_ms_
               /\ ~rs'.overflow_ => TwinReads'
    <3>1. ~excused /\ twin' = twin
      BY <1>3, <2>3
    <3>2. /\ twin.overflow_ = rs.overflow_
          /\ twin.current_window_size_ms_ = w
          /\ ~rs.overflow_ => TwinReads
      BY <1>1, <3>1 DEF TwinOK, w
    <3> QED
      BY <1>5, <1>9, <3>1, <3>2
  <2> QED
    BY <2>1, <2>2, <2>3 DEF TwinOK
<1> QED
  BY <1>7, <1>8, <1>10 DEF IInv

\* An object reads what it did when its window size changes.
LEMMA ResizedReads ==
  ASSUME NEW s \in State, NEW w \in 1 .. MaxWindow
  PROVE  LET z == [s EXCEPT !.current_window_size_ms_ = w]
         IN /\ z \in State /\ z.overflow_ = s.overflow_
            /\ z.current_window_size_ms_ = w
            /\ z.oldest_time_ = s.oldest_time_
            /\ \A F, b : Reads(s, F, b) => Reads(z, F, b)
<1> DEFINE z == [s EXCEPT !.current_window_size_ms_ = w]
<1>1. /\ z.buckets = s.buckets /\ z.oldest_index_ = s.oldest_index_
      /\ z.accumulated_count_ = s.accumulated_count_
      /\ z.num_samples_ = s.num_samples_
      /\ z.oldest_time_ = s.oldest_time_
      /\ z.overflow_ = s.overflow_ /\ z.current_window_size_ms_ = w
      /\ z \in State
  BY DEF State
<1>2. ASSUME NEW F, NEW b, Reads(s, F, b) PROVE Reads(z, F, b)
  <2>1. CASE Tracks(s, F, b)
    <3> HIDE DEF z
    <3>1. RingHas(s, F, b)
      BY <2>1 DEF Tracks
    <3>2. RingHas(z, F, b)
      BY <1>1, <3>1, RingOnly
    <3> QED
      BY <1>1, <2>1, <3>2 DEF Tracks, Reads
  <2>2. CASE b = NotYet /\ Unused(s, F)
    <3>1. s = [New EXCEPT !.current_window_size_ms_ =
                            s.current_window_size_ms_]
      BY <2>2 DEF Unused
    <3>2. z = [New EXCEPT !.current_window_size_ms_ = w]
      BY <3>1 DEF New
    <3>3. z = [New EXCEPT !.current_window_size_ms_ =
                            z.current_window_size_ms_]
      BY <1>1, <3>2
    <3>4. Unused(z, F)
      BY <2>2, <3>3 DEF Unused
    <3> QED
      BY <2>2, <3>4 DEF Reads
  <2> QED
    BY <1>2, <2>1, <2>2 DEF Reads
<1> QED
  BY <1>1, <1>2

\* What SetWindowSize does with a window that fits the ring.
LEMMA SizedReads ==
  ASSUME NEW s \in State, NEW w \in 1 .. MaxWindow, NEW t \in 0 .. MaxTime
  PROVE  LET z == Sized(s, w, t)
         IN /\ z \in State /\ z.overflow_ = s.overflow_
            /\ z.current_window_size_ms_ = w
            /\ z.oldest_time_ = Begin(s.oldest_time_, w, t)
            /\ \A F, b : Reads(s, F, b) =>
                 Reads(z, Since(Begin(b, w, t), F), Begin(b, w, t))
<1> DEFINE y == [s EXCEPT !.current_window_size_ms_ = w]
           z == Sized(s, w, t)
<1> USE RateStatisticsAssumption DEF RateStatisticsAssumption
<1>1. z = EraseOld(y, t)
  BY DEF Sized, MaySize
<1>2. /\ y \in State /\ y.overflow_ = s.overflow_
      /\ y.current_window_size_ms_ = w /\ y.oldest_time_ = s.oldest_time_
      /\ \A F, b : Reads(s, F, b) => Reads(y, F, b)
  BY ResizedReads
<1> HIDE DEF y, z
<1>3. /\ z \in State /\ z.overflow_ = s.overflow_
      /\ z.current_window_size_ms_ = w
      /\ z.oldest_time_ = Begin(s.oldest_time_, w, t)
  BY <1>1, <1>2, EraseOldKeeps DEF SameSettings
<1>4. ASSUME NEW F, NEW b, Reads(s, F, b)
      PROVE  Reads(z, Since(Begin(b, w, t), F), Begin(b, w, t))
  <2>1. Reads(y, F, b)
    BY <1>2, <1>4
  <2> QED
    BY <1>1, <1>2, <2>1, EraseOldReads
<1> QED
  BY <1>3, <1>4 DEF z

\* SetWindowSize moves both windows, unless it enlarges them.
LEMMA SetWindowSizeInv ==
  ASSUME IInv, NEW w \in 0 .. (MaxWindow + 1), SetWindowSize(w)
  PROVE  IInv'
<1> DEFINE v == rs.current_window_size_ms_
           d == Begin(start, w, now)
<1> USE RateStatisticsAssumption DEF RateStatisticsAssumption
<1>1. HistoryOK /\ ObjectOK /\ TwinOK
  BY DEF IInv
<1>2. /\ now \in 0 .. MaxTime /\ samples \in Histories
      /\ start \in {NotYet} \cup 0 .. now /\ excused \in BOOLEAN
      /\ rs \in State /\ rs.oldest_time_ = start /\ twin \in State
      /\ v \in 1 .. MaxWindow
  BY <1>1 DEF HistoryOK, ObjectOK, TwinOK, State
<1>3. CASE ~MaySize(w)
  <2>1. /\ rs' = rs /\ samples' = samples /\ start' = start
        /\ excused' = excused /\ now' = now
    BY <1>3 DEF SetWindowSize, Sized
  <2>2. twin' = twin
    <3>1. Sized(twin, w, now) = twin
      BY <1>3 DEF Sized
    <3>2. excused => twin = rs
      BY <1>1 DEF TwinOK
    <3> QED
      BY <2>1, <3>1, <3>2 DEF SetWindowSize
  <2> QED
    BY <1>1, <2>1, <2>2
    DEF IInv, HistoryOK, ObjectOK, TwinOK, TwinReads
<1>4. CASE MaySize(w)
  <2>1. /\ rs' = Sized(rs, w, now)
        /\ start' = d /\ samples' = Since(d, samples)
        /\ excused' = (excused \/ w > v)
        /\ twin' = IF excused' THEN rs' ELSE Sized(twin, w, now)
        /\ now' = now
    BY <1>4 DEF SetWindowSize, Start, Begin
  <2>2. w \in 1 .. MaxWindow
    BY <1>4 DEF MaySize
  <2>3. /\ start \in Int /\ d \in Int /\ start <= d
        /\ d \in {NotYet} \cup 0 .. now
        /\ start \in {NotYet} \cup 0 .. MaxTime
        /\ d \in {NotYet} \cup 0 .. MaxTime
    <3> HIDE DEF v
    <3>1. now <= now
      BY <1>2
    <3> QED
      BY <1>2, <2>2, <3>1, BeginFacts
  <2>4. /\ rs' \in State /\ rs'.overflow_ = rs.overflow_
        /\ rs'.current_window_size_ms_ = w /\ rs'.oldest_time_ = d
        /\ Reads(rs, samples, start) => Reads(rs', samples', d)
    BY <1>2, <2>1, <2>2, SizedReads
  <2>5. /\ Sized(twin, w, now) \in State
        /\ Sized(twin, w, now).overflow_ = twin.overflow_
        /\ Sized(twin, w, now).current_window_size_ms_ = w
        /\ \A F, b : Reads(twin, F, b) =>
             Reads(Sized(twin, w, now), Since(Begin(b, w, now), F),
                   Begin(b, w, now))
    BY <1>2, <2>2, SizedReads
  <2> HIDE DEF d, v
  <2>6. HistoryOK'
    <3>1. samples' \in Histories
      BY <1>2, <2>1, <2>3, SinceFacts
    <3>2. excused' \in BOOLEAN
      BY <2>1
    <3>3. now' \in 0 .. MaxTime /\ start' \in {NotYet} \cup 0 .. now'
      BY <1>2, <2>1, <2>3
    <3> QED
      BY <3>1, <3>2, <3>3 DEF HistoryOK
  <2>7. ObjectOK'
    BY <1>1, <2>1, <2>4 DEF ObjectOK
  <2>8. ASSUME TwinReads, ~excused' PROVE TwinReads'
    <3>1. PICK G \in Histories, c \in {NotYet} \cup 0 .. MaxTime :
            /\ Reads(twin, G, c) /\ samples = Since(start, G)
            /\ Apart(c, start, v, now)
      BY <2>8 DEF TwinReads, v
    <3>2. w <= v
      <4>1. ~(w > v)
        BY <2>1, <2>8
      <4> QED
        BY <1>2, <4>1
    <3>3. Begin(c, w, now) = d
      <4>1. now <= now
        BY <1>2
      <4> QED
        BY <1>2, <2>2, <2>3, <3>1, <3>2, <4>1, WindowsMeet DEF d
    <3>4. Reads(twin', Since(d, G), d)
      BY <2>1, <2>5, <2>8, <3>1, <3>3
    <3>5. samples' = Since(d, Since(d, G)) /\ Since(d, G) \in Histories
      <4>1. samples' = Since(d, G)
        BY <2>1, <2>3, <3>1, SinceSince
      <4>2. Since(d, Since(d, G)) = Since(d, G)
        BY <2>3, SinceSince
      <4> QED
        BY <2>3, <4>1, <4>2, SinceFacts
    <3>6. Apart(d, d, w, now)
      BY DEF Apart
    <3> QED
      BY <2>1, <2>3, <2>4, <3>4, <3>5, <3>6 DEF TwinReads
  <2>9. TwinOK'
    <3>1. twin' \in State
      BY <2>1, <2>4, <2>5
    <3>2. excused' => twin' = rs'
      BY <2>1
    <3>3. ASSUME ~excused'
          PROVE  /\ twin'.overflow_ = rs'.overflow_
                 /\ twin'.current_window_size_ms_
                      = rs'.current_window_size_ms_
                 /\ ~rs'.overflow_ => TwinReads'
      <4>1. ~excused /\ twin' = Sized(twin, w, now)
        BY <2>1, <3>3
      <4>2. /\ twin.overflow_ = rs.overflow_
            /\ ~rs.overflow_ => TwinReads
        BY <1>1, <4>1 DEF TwinOK
      <4> QED
        BY <2>4, <2>5, <2>8, <3>3, <4>1, <4>2
    <3> QED
      BY <3>1, <3>2, <3>3 DEF TwinOK
  <2> QED
    BY <2>6, <2>7, <2>9 DEF IInv
<1> QED
  BY <1>3, <1>4

\* Update gives both objects the sample, and on a clock that does not go back
\* their windows meet.
LEMMA UpdateInv ==
  ASSUME IInv, NEW count \in Counts, NEW t \in 0 .. now, Update(count, t)
  PROVE  IInv'
<1> DEFINE w == rs.current_window_size_ms_
           d == Begun(start, w, t)
<1> USE RateStatisticsAssumption DEF RateStatisticsAssumption
<1>1. HistoryOK /\ ObjectOK /\ TwinOK
  BY DEF IInv
<1>2. /\ now \in 0 .. MaxTime /\ samples \in Histories
      /\ start \in {NotYet} \cup 0 .. now /\ excused \in BOOLEAN
      /\ rs \in State /\ rs.oldest_time_ = start /\ twin \in State
      /\ w \in 1 .. MaxWindow /\ t \in 0 .. MaxTime /\ t <= now
      /\ count \in 0 .. IntMax /\ count \in Int
  BY <1>1 DEF HistoryOK, ObjectOK, TwinOK, State
<1>3. /\ start \in Int /\ start \in {NotYet} \cup 0 .. MaxTime
      /\ d \in 0 .. now /\ d \in Int
  <2> HIDE DEF w
  <2> QED
    BY <1>2, BeginFacts
<1>4. /\ rs' = Updated(rs, count, t)
      /\ excused' = (excused \/ t < now)
      /\ twin' = IF excused' THEN rs' ELSE Updated(twin, count, t)
      /\ now' = now
      /\ IF t < start THEN samples' = samples /\ start' = start
         ELSE start' = d /\ samples' = Since(d, Added(samples, count, t))
  BY DEF Update, Start, Begin, Begun, Added
<1>5. /\ rs' \in State /\ rs'.current_window_size_ms_ = w
      /\ rs.overflow_ => rs'.overflow_
      /\ rs'.oldest_time_ = IF t < start THEN start ELSE d
  BY <1>2, <1>4, UpdatedKeeps
<1>6. /\ Updated(twin, count, t) \in State
      /\ Updated(twin, count, t).current_window_size_ms_
           = twin.current_window_size_ms_
      /\ twin.overflow_ => Updated(twin, count, t).overflow_
  BY <1>2, UpdatedKeeps
<1>7. twin' \in State
  BY <1>4, <1>5, <1>6
<1> HIDE DEF w, d
<1>8. CASE t < start
  <2>1. rs' = rs /\ samples' = samples /\ start' = start
    <3>1. Updated(rs, count, t) = rs
      BY <1>2, <1>8 DEF Updated
    <3> QED
      BY <1>4, <1>8, <3>1
  <2>2. excused' = TRUE /\ twin' = rs'
    <3>1. t < now
      BY <1>2, <1>3, <1>8 DEF NotYet
    <3>2. excused' = (excused \/ TRUE)
      BY <1>4, <3>1
    <3> QED
      BY <1>4, <3>2
  <2>3. HistoryOK'
    BY <1>1, <1>4, <2>1, <2>2 DEF HistoryOK
  <2>4. ObjectOK'
    BY <1>1, <2>1 DEF ObjectOK
  <2>5. TwinOK'
    BY <1>7, <2>2 DEF TwinOK
  <2> QED
    BY <2>3, <2>4, <2>5 DEF IInv
<1>9. CASE ~(t < start)
  <2>1. start' = d /\ samples' = Since(d, Added(samples, count, t))
    BY <1>4, <1>9
  <2>2. start <= t
    BY <1>2, <1>3, <1>9
  <2>3. HistoryOK'
    <3>1. Added(samples, count, t) \in Histories
      BY <1>2, AddedFacts
    <3>2. samples' \in Histories
      BY <1>3, <2>1, <3>1, SinceFacts
    <3>3. excused' \in BOOLEAN
      BY <1>4
    <3>4. now' \in 0 .. MaxTime /\ start' \in {NotYet} \cup 0 .. now'
      BY <1>2, <1>3, <1>4, <2>1
    <3> QED
      BY <3>2, <3>3, <3>4 DEF HistoryOK
  <2>4. ASSUME ~rs.overflow_
        PROVE  /\ rs'.overflow_ = ~(IntMax - SumOf(Since(d, samples)) > count)
               /\ ~rs'.overflow_ => Reads(rs', samples', d)
    <3>1. Reads(rs, samples, start)
      BY <1>1, <2>4 DEF ObjectOK
    <3>2. /\ Updated(rs, count, t).overflow_
               = ~(IntMax - SumOf(Since(d, samples)) > count)
          /\ ~Updated(rs, count, t).overflow_ =>
               Tracks(Updated(rs, count, t),
                      Since(d, Added(samples, count, t)), d)
      BY <1>2, <2>2, <2>4, <3>1, UpdatedReads DEF d, w
    <3> QED
      BY <1>4, <2>1, <3>2 DEF Reads
  <2>5. ObjectOK'
    BY <1>5, <1>9, <2>1, <2>4 DEF ObjectOK
  <2>6. ASSUME ~excused', ~rs.overflow_
        PROVE  /\ twin'.overflow_ = rs'.overflow_
               /\ ~rs'.overflow_ => TwinReads'
    <3>1. t = now /\ ~excused /\ twin' = Updated(twin, count, t)
      <4>1. ~excused /\ ~(t < now) /\ twin' = Updated(twin, count, t)
        BY <1>4, <2>6
      <4>2. t = now
        BY <1>2, <4>1
      <4> QED
        BY <4>1, <4>2
    <3>2. /\ ~twin.overflow_ /\ twin.current_window_size_ms_ = w /\ TwinReads
      BY <1>1, <2>6, <3>1 DEF TwinOK, w
    <3>3. PICK G \in Histories, c \in {NotYet} \cup 0 .. MaxTime :
            /\ Reads(twin, G, c) /\ samples = Since(start, G)
            /\ Apart(c, start, w, now)
      BY <3>2 DEF TwinReads, w
    <3>4. c <= start /\ Begun(c, w, t) = d
      <4>1. w <= w /\ now <= t
        BY <1>2, <3>1
      <4> QED
        BY <1>2, <1>3, <3>3, <4>1, WindowsMeet DEF d
    <3>5. start <= d /\ d <= t
      <4>1. d \in 0 .. MaxTime /\ d <= t /\ start <= d
        BY <1>2, <1>3, <2>2, BegunFacts DEF d
      <4> QED
        BY <4>1
    <3>6. Since(d, samples) = Since(d, G)
      BY <1>3, <3>3, <3>5, SinceSince
    <3> DEFINE H == Since(d, Added(G, count, t))
    <3>7. /\ twin'.overflow_ = ~(IntMax - SumOf(Since(d, G)) > count)
          /\ ~twin'.overflow_ => Tracks(twin', H, d)
      <4>1. c <= t
        BY <1>2, <1>3, <2>2, <3>3, <3>4, ReadsFacts
      <4> QED
        BY <1>2, <3>1, <3>2, <3>3, <3>4, <4>1, UpdatedReads
    <3>8. twin'.overflow_ = rs'.overflow_
      BY <2>4, <2>6, <3>6, <3>7
    <3>9. samples' = Since(d, H) /\ H \in Histories
      <4>1. Added(G, count, t) \in Histories
        BY <1>2, AddedFacts
      <4>2. Since(d, H) = H /\ H \in Histories
        BY <1>3, <4>1, SinceSince, SinceFacts
      <4>3. H = Added(Since(d, G), count, t)
        BY <1>2, <1>3, <3>5, SinceAdded
      <4>4. samples' = Added(Since(d, samples), count, t)
        BY <1>2, <1>3, <2>1, <3>5, SinceAdded
      <4> HIDE DEF H
      <4> QED
        BY <3>6, <4>2, <4>3, <4>4
    <3> HIDE DEF H
    <3>10. ASSUME ~rs'.overflow_ PROVE TwinReads'
      <4>1. Reads(twin', H, d)
        BY <3>7, <3>8, <3>10 DEF Reads
      <4>2. Apart(d, start', rs'.current_window_size_ms_, now')
        BY <2>1 DEF Apart
      <4>3. d \in {NotYet} \cup 0 .. MaxTime
        BY <1>2, <1>3
      <4> QED
        BY <2>1, <3>9, <4>1, <4>2, <4>3 DEF TwinReads
    <3> QED
      BY <3>8, <3>10
  <2>7. TwinOK'
    <3>1. excused' => twin' = rs'
      BY <1>4
    <3>2. ASSUME ~excused'
          PROVE  /\ twin'.overflow_ = rs'.overflow_
                 /\ twin'.current_window_size_ms_
                      = rs'.current_window_size_ms_
                 /\ ~rs'.overflow_ => TwinReads'
      <4>1. ~excused /\ twin' = Updated(twin, count, t)
        BY <1>4, <3>2
      <4>2. /\ twin.overflow_ = rs.overflow_
            /\ twin.current_window_size_ms_ = w
        BY <1>1, <4>1 DEF TwinOK, w
      <4>3. CASE rs.overflow_
        <5>1. rs.overflow_ \in BOOLEAN /\ rs'.overflow_ \in BOOLEAN
              /\ twin'.overflow_ \in BOOLEAN
          BY <1>2, <1>5, <1>7 DEF State
        <5>2. rs'.overflow_ /\ twin'.overflow_
          BY <1>5, <1>6, <4>1, <4>2, <4>3
        <5> QED
          BY <1>5, <1>6, <4>1, <4>2, <5>1, <5>2
      <4>4. CASE ~rs.overflow_
        BY <1>5, <1>6, <2>6, <3>2, <4>1, <4>2, <4>4
      <4> QED
        BY <4>3, <4>4
    <3> QED
      BY <1>7, <3>1, <3>2 DEF TwinOK
  <2> QED
    BY <2>3, <2>5, <2>7 DEF IInv
<1> QED
  BY <1>8, <1>9

-----------------------------------------------------------------------------
(* The theorems.                                                           *)

\* Every call leaves the invariant.
LEMMA NextInv == IInv /\ [Next]_vars => IInv'
<1> SUFFICES ASSUME IInv, [Next]_vars PROVE IInv'
  OBVIOUS
<1>1. CASE Tick
  BY <1>1, TickInv
<1>2. CASE \E count \in Counts, t \in 0 .. now : Update(count, t)
  BY <1>2, UpdateInv
<1>3. CASE AskRate
  BY <1>3, AskRateInv
<1>4. CASE \E w \in 0 .. (MaxWindow + 1) : SetWindowSize(w)
  BY <1>4, SetWindowSizeInv
<1>5. CASE Reset
  BY <1>5, NewInv DEF IInv
<1>6. CASE UNCHANGED vars
  BY <1>6 DEF vars, IInv, HistoryOK, ObjectOK, TwinOK, TwinReads
<1> QED
  BY <1>1, <1>2, <1>3, <1>4, <1>5, <1>6 DEF Next

LEMMA AlwaysInv == Spec => []IInv
BY NewInv, NextInv, PTL DEF Spec

\* The object answers with the rate of the samples in its window, whatever the
\* sizes, the counts and the order of the calls, or with none once a sum did
\* not fit (Rate and EraseOld, src/rate_statistics.cc:94-143).
THEOREM AnswersAreWindowed == Spec => []RateIsWindowed
<1>1. IInv => RateIsWindowed
  <2> SUFFICES ASSUME IInv, NEW t \in now .. MaxTime
               PROVE  \/ Rate(rs, t) = TrueRate(t)
                      \/ rs.overflow_ /\ Rate(rs, t) = NoRate
    BY DEF RateIsWindowed
  <2> USE RateStatisticsAssumption DEF RateStatisticsAssumption
  <2>1. /\ t \in 0 .. MaxTime /\ rs \in State /\ samples \in Histories
        /\ start \in {NotYet} \cup 0 .. MaxTime
    BY DEF IInv, HistoryOK, ObjectOK
  <2>2. CASE rs.overflow_
    BY <2>1, <2>2, RateOverflown
  <2>3. CASE ~rs.overflow_
    <3>1. Reads(rs, samples, start)
      BY <2>3 DEF IInv, ObjectOK
    <3>2. Rate(rs, t) = RateOf(samples, start, rs.current_window_size_ms_, t)
      BY <2>1, <2>3, <3>1, RateReads
    <3>3. TrueRate(t)
            = RateOf(samples, start, rs.current_window_size_ms_, t)
      BY <2>1, TrueRateOf
    <3> QED
      BY <3>2, <3>3
  <2> QED
    BY <2>2, <2>3
<1> QED
  BY <1>1, AlwaysInv, PTL

\* Asking changes no answer, however often and whenever an object is asked, on
\* a clock that does not go back and while no window was enlarged (Rate is
\* const, src/rate_statistics.h:53-58).
THEOREM AskingChangesNoAnswer == Spec => []RateLeavesNoTrace
<1>1. IInv => RateLeavesNoTrace
  <2> SUFFICES ASSUME IInv, ~excused, NEW t \in now .. MaxTime
               PROVE  Rate(rs, t) = Rate(twin, t)
    BY DEF RateLeavesNoTrace
  <2> DEFINE w == rs.current_window_size_ms_
  <2> USE RateStatisticsAssumption DEF RateStatisticsAssumption
  <2>1. /\ now \in 0 .. MaxTime /\ t \in 0 .. MaxTime /\ now <= t
        /\ rs \in State /\ twin \in State /\ samples \in Histories
        /\ start \in {NotYet} \cup 0 .. now
        /\ start \in {NotYet} \cup 0 .. MaxTime /\ w \in 1 .. MaxWindow
    BY DEF IInv, HistoryOK, ObjectOK, TwinOK, State
  <2>2. /\ twin.overflow_ = rs.overflow_
        /\ twin.current_window_size_ms_ = w
        /\ ~rs.overflow_ => TwinReads
    BY DEF IInv, TwinOK
  <2>3. CASE rs.overflow_
    BY <2>1, <2>2, <2>3, RateOverflown
  <2>4. CASE ~rs.overflow_
    <3>1. Rate(rs, t) = RateOf(samples, start, w, t)
      BY <2>1, <2>4, RateReads DEF IInv, ObjectOK
    <3>2. PICK G \in Histories, c \in {NotYet} \cup 0 .. MaxTime :
            /\ Reads(twin, G, c) /\ samples = Since(start, G)
            /\ Apart(c, start, w, now)
      BY <2>2, <2>4 DEF TwinReads
    <3> HIDE DEF w
    <3>3. Rate(twin, t) = RateOf(G, c, w, t)
      BY <2>1, <2>2, <2>4, <3>2, RateReads
    <3> DEFINE d == Begin(start, w, t)
    <3>4. Begin(c, w, t) = d
      <4>1. w <= w
        BY <2>1
      <4> QED
        BY <2>1, <3>2, <4>1, WindowsMeet
    <3>5. start \in Int /\ d \in Int /\ start <= d
      BY <2>1, BeginFacts
    <3> HIDE DEF d
    <3>6. Since(d, samples) = Since(d, G)
      BY <3>2, <3>5, SinceSince
    <3>7. RateOf(samples, start, w, t) = RateOf(G, c, w, t)
      BY <3>4, <3>6 DEF RateOf, d
    <3> QED
      BY <3>1, <3>3, <3>7
  <2> QED
    BY <2>3, <2>4
<1> QED
  BY <1>1, AlwaysInv, PTL

\* The assertions of the class hold: a sample is added within the ring, and no
\* bucket has more than the sums (src/rate_statistics.cc:77 and 131-132).
THEOREM RingIsBounded == Spec => []AssertionsHold
<1>1. IInv => AssertionsHold
  <2> SUFFICES ASSUME IInv, NEW t \in 0 .. MaxTime
               PROVE  LET e == EraseOld(rs, t)
                      IN /\ t >= rs.oldest_time_ /\ IsInitialized(e) =>
                              t - e.oldest_time_ < MaxWindow
                         /\ ~rs.overflow_ => \A i \in Indices :
                              /\ e.buckets[i].sum <= e.accumulated_count_
                              /\ e.buckets[i].samples <= e.num_samples_
    BY DEF AssertionsHold
  <2> USE RateStatisticsAssumption DEF RateStatisticsAssumption
  <2> DEFINE e == EraseOld(rs, t)
             w == rs.current_window_size_ms_
             d == Begin(start, w, t)
  <2>1. /\ rs \in State /\ samples \in Histories /\ t \in Int
        /\ start \in {NotYet} \cup 0 .. MaxTime /\ w \in 1 .. MaxWindow
        /\ rs.oldest_time_ = start
    BY DEF IInv, HistoryOK, ObjectOK, State
  <2>2. e \in State /\ e.oldest_time_ = d
    BY <2>1, EraseOldKeeps DEF SameSettings
  <2>3. ~rs.overflow_ => Reads(e, Since(d, samples), d)
    BY <2>1, EraseOldReads DEF IInv, ObjectOK
  <2> HIDE DEF e
  <2>4. ASSUME t >= rs.oldest_time_, IsInitialized(e)
        PROVE  t - e.oldest_time_ < MaxWindow
    BY <2>1, <2>2, <2>4 DEF IsInitialized, Begin, Later, NotYet
  <2> HIDE DEF d
  <2>5. ASSUME ~rs.overflow_, NEW i \in Indices
        PROVE  /\ e.buckets[i].sum <= e.accumulated_count_
               /\ e.buckets[i].samples <= e.num_samples_
    <3> DEFINE F == Since(d, samples)
    <3>1. Reads(e, F, d)
      BY <2>3, <2>5
    <3> HIDE DEF F
    <3>2. CASE d = NotYet /\ Unused(e, F)
      <4>1. e.buckets[i] = Empty /\ e.accumulated_count_ = 0
            /\ e.num_samples_ = 0
        BY <2>2, <3>2, UnusedFacts
      <4> QED
        BY <4>1 DEF Empty
    <3>3. CASE Tracks(e, F, d)
      <4>1. /\ F \in Histories /\ RingHas(e, F, d) /\ d \in 0 .. MaxTime
            /\ e.oldest_index_ \in Indices
        BY <2>2, <3>3 DEF Tracks, Windowed, State
      <4>2. PICK j \in Indices : Place(e.oldest_index_, j) = i
        BY <4>1, PlacesAll
      <4>3. e.buckets[i] = At(F, d + j)
        BY <4>1, <4>2 DEF RingHas
      <4>4. /\ e.accumulated_count_ = SumOf(F) /\ e.num_samples_ = NumOf(F)
            /\ SumOf(F) \in Nat /\ NumOf(F) \in Nat
        BY <4>1, HistorySums DEF RingHas
      <4>5. CASE d + j <= MaxTime
        <5>1. d + j \in 0 .. MaxTime
          BY <4>1, <4>2, <4>5 DEF Indices
        <5> QED
          BY <4>1, <4>3, <4>4, <4>5, <5>1, HistorySums DEF At
      <4>6. CASE ~(d + j <= MaxTime)
        BY <4>3, <4>4, <4>6 DEF At, Empty
      <4> QED
        BY <4>5, <4>6
    <3> QED
      BY <3>1, <3>2, <3>3 DEF Reads
  <2> QED
    BY <2>4, <2>5 DEF e
<1> QED
  BY <1>1, AlwaysInv, PTL

-----------------------------------------------------------------------------
(* The fields of the object keep their types, after an overflow too.       *)

\* p has the partial sums of the samples of the buckets.
Accounts(p, s) ==
  /\ p \in [0 .. MaxWindow -> Int]
  /\ p[0] = 0
  /\ \A i \in Indices : p[i + 1] = p[i] + s.buckets[i].samples

\* The buckets have no more samples than num_samples_ says.
Counted(s) ==
  /\ s \in State
  /\ \A i \in Indices : s.buckets[i].samples \in Nat
  /\ \E p : Accounts(p, s) /\ p[MaxWindow] <= s.num_samples_

\* Then num_samples_ is never negative.
LEMMA CountedSamples ==
  ASSUME NEW s, Counted(s)
  PROVE  s.num_samples_ \in Nat
<1> USE RateStatisticsAssumption DEF RateStatisticsAssumption
<1>1. PICK p : Accounts(p, s) /\ p[MaxWindow] <= s.num_samples_
  BY DEF Counted
<1> DEFINE Good == {i \in 0 .. MaxWindow : p[i] \in Nat}
<1>2. 0 \in Good
  BY <1>1 DEF Accounts
<1>3. ASSUME NEW i \in 1 .. MaxWindow, i - 1 \in Good PROVE i \in Good
  <2>1. i - 1 \in Indices /\ (i - 1) + 1 = i
    BY DEF Indices
  <2>2. p[i] = p[i - 1] + s.buckets[i - 1].samples
    BY <1>1, <2>1 DEF Accounts
  <2>3. s.buckets[i - 1].samples \in Nat
    BY <2>1 DEF Counted
  <2> QED
    BY <1>3, <2>2, <2>3
<1> HIDE DEF Good
<1>4. 0 .. MaxWindow \subseteq Good
  BY <1>2, <1>3, Facts!UpTo
<1>5. p[MaxWindow] \in Nat
  BY <1>4 DEF Good
<1>6. s.num_samples_ \in Int
  BY DEF Counted, State
<1> QED
  BY <1>1, <1>5, <1>6

\* What has the same buckets and number of samples is counted as well.
LEMMA SameCounted ==
  ASSUME NEW s, Counted(s), NEW e \in State, e.buckets = s.buckets,
         e.num_samples_ = s.num_samples_
  PROVE  Counted(e)
BY DEF Counted, Accounts

\* A bucket that gets d samples more, with num_samples_.
LEMMA CountedChanges ==
  ASSUME NEW s, Counted(s), NEW e \in State, NEW k \in Indices, NEW d \in Int,
         \A i \in Indices : e.buckets[i].samples =
           IF i = k THEN s.buckets[k].samples + d ELSE s.buckets[i].samples,
         s.buckets[k].samples + d \in Nat,
         e.num_samples_ = s.num_samples_ + d
  PROVE  Counted(e)
<1> USE RateStatisticsAssumption DEF RateStatisticsAssumption
<1>1. PICK p : Accounts(p, s) /\ p[MaxWindow] <= s.num_samples_
  BY DEF Counted
<1> DEFINE q == [i \in 0 .. MaxWindow |-> IF i <= k THEN p[i] ELSE p[i] + d]
<1>2. k \in 0 .. (MaxWindow - 1) /\ s.num_samples_ \in Int
  BY DEF Indices, Counted, State
<1>3. p \in [0 .. MaxWindow -> Int] /\ p[0] = 0
  BY <1>1 DEF Accounts
<1>4. q \in [0 .. MaxWindow -> Int] /\ q[0] = 0
  BY <1>2, <1>3
<1>5. q[MaxWindow] <= e.num_samples_
  <2>1. q[MaxWindow] = p[MaxWindow] + d /\ p[MaxWindow] \in Int
    BY <1>2, <1>3
  <2> HIDE DEF q
  <2> QED
    BY <1>1, <1>2, <2>1
<1>6. ASSUME NEW i \in Indices PROVE q[i + 1] = q[i] + e.buckets[i].samples
  <2>1. /\ i \in 0 .. (MaxWindow - 1) /\ i \in 0 .. MaxWindow
        /\ i + 1 \in 0 .. MaxWindow
    BY DEF Indices
  <2>2. /\ q[i] = IF i <= k THEN p[i] ELSE p[i] + d
        /\ q[i + 1] = IF i + 1 <= k THEN p[i + 1] ELSE p[i + 1] + d
    BY <2>1
  <2>3. p[i + 1] = p[i] + s.buckets[i].samples
    BY <1>1 DEF Accounts
  <2>4. s.buckets[i].samples \in Nat /\ p[i] \in Int /\ p[i + 1] \in Int
    BY <1>3, <2>1 DEF Counted
  <2> DEFINE a == p[i]
             b == p[i + 1]
             m == s.buckets[i].samples
  <2>5. CASE i = k
    <3>1. e.buckets[i].samples = m + d
      BY <2>5
    <3>2. q[i] = a /\ q[i + 1] = b + d
      BY <1>2, <2>1, <2>2, <2>5
    <3> HIDE DEF q, a, b, m
    <3> QED
      BY <2>3, <2>4, <3>1, <3>2 DEF a, b, m
  <2>6. CASE i # k
    <3>1. e.buckets[i].samples = m
      BY <2>6
    <3>2. (q[i] = a /\ q[i + 1] = b) \/ (q[i] = a + d /\ q[i + 1] = b + d)
      BY <1>2, <2>1, <2>2, <2>6
    <3> HIDE DEF q, a, b, m
    <3> QED
      BY <2>3, <2>4, <3>1, <3>2 DEF a, b, m
  <2> QED
    BY <2>5, <2>6
<1>7. \A i \in Indices : e.buckets[i].samples \in Nat
  BY DEF Counted
<1> HIDE DEF q
<1>8. Accounts(q, e)
  BY <1>4, <1>6 DEF Accounts
<1> QED
  BY <1>5, <1>7, <1>8 DEF Counted

\* A round takes as many samples from the sum as from the bucket.
LEMMA EraseOldestCounted ==
  ASSUME NEW s, Counted(s)
  PROVE  Counted(EraseOldest(s))
<1>1. s \in State
  BY DEF Counted
<1>2. CASE s.num_samples_ = 0
  BY <1>2 DEF EraseOldest
<1>3. CASE s.num_samples_ # 0
  <2> DEFINE k == s.oldest_index_
             e == EraseOldest(s)
             d == -s.buckets[k].samples
  <2>1. /\ e.buckets = [s.buckets EXCEPT ![k] = Empty]
        /\ e.num_samples_ = s.num_samples_ - s.buckets[k].samples
    BY <1>1, <1>3, EraseOldestFields
  <2>2. e \in State
    BY <1>1, EraseOldestKeeps DEF SameSettings
  <2>3. /\ k \in Indices /\ s.buckets \in [Indices -> Bucket]
        /\ s.num_samples_ \in Int
    BY <1>1 DEF State
  <2>4. s.buckets[k].samples \in Nat
    BY <2>3 DEF Counted
  <2>5. /\ d \in Int /\ s.buckets[k].samples + d = 0
        /\ e.num_samples_ = s.num_samples_ + d
    BY <2>1, <2>3, <2>4
  <2>6. \A i \in Indices : e.buckets[i].samples =
          IF i = k THEN 0 ELSE s.buckets[i].samples
    BY <2>1, <2>3 DEF Empty
  <2> HIDE DEF e, d, k
  <2>7. Counted(e)
    BY <2>2, <2>3, <2>5, <2>6, CountedChanges
  <2> QED
    BY <2>7 DEF e
<1> QED
  BY <1>2, <1>3

\* So does EraseOld.
LEMMA EraseOldCounted ==
  ASSUME NEW s, Counted(s), NEW t \in Int
  PROVE  Counted(EraseOld(s, t))
<1> DEFINE n == t - s.current_window_size_ms_ + 1
           k == n - s.oldest_time_
<1>0. s \in State
  BY DEF Counted
<1>1. s.oldest_time_ \in Int /\ n \in Int /\ k \in Int
  BY <1>0, RateStatisticsAssumption DEF State, RateStatisticsAssumption
<1>2. CASE ~IsInitialized(s) \/ n <= s.oldest_time_
  BY <1>2 DEF EraseOld, EraseUntil
<1>3. CASE IsInitialized(s) /\ ~(n <= s.oldest_time_)
  <2> DEFINE e == EraseRounds(s, k)
  <2>0. k \in Nat
    BY <1>1, <1>3
  <2>1. Counted(e)
    <3>1. PICK g : IsRounds(g, s, k) /\ EraseRounds(s, k) = g[k]
      BY <2>0, EraseRoundsIsLast
    <3> DEFINE Kept == {i \in 0 .. k : Counted(g[i])}
    <3> HIDE DEF k
    <3>2. 0 \in Kept
      BY <2>0, <3>1 DEF IsRounds
    <3>3. ASSUME NEW i \in 1 .. k, i - 1 \in Kept PROVE i \in Kept
      <4>1. g[i] = EraseOldest(g[i - 1])
        BY <2>0, <3>1 DEF IsRounds
      <4>2. Counted(g[i])
        BY <3>3, <4>1, EraseOldestCounted
      <4> QED
        BY <2>0, <4>2
    <3> HIDE DEF Kept
    <3>4. 0 .. k \subseteq Kept
      BY <2>0, <3>2, <3>3, Facts!UpTo
    <3> QED
      BY <2>0, <3>1, <3>4 DEF Kept
  <2>2. EraseOld(s, t) = [e EXCEPT !.oldest_time_ = n]
    BY <1>3 DEF EraseOld, EraseUntil
  <2>3. e \in State
    BY <2>1 DEF Counted
  <2> HIDE DEF e, n
  <2>4. /\ [e EXCEPT !.oldest_time_ = n] \in State
        /\ [e EXCEPT !.oldest_time_ = n].buckets = e.buckets
        /\ [e EXCEPT !.oldest_time_ = n].num_samples_ = e.num_samples_
    BY <1>1, <2>3 DEF State
  <2> QED
    BY <2>1, <2>2, <2>4, SameCounted
<1> QED
  BY <1>2, <1>3

\* And Update, whether the sum fits or not.
LEMMA UpdatedCounted ==
  ASSUME NEW s, Counted(s), NEW count \in Int, NEW t \in 0 .. MaxTime
  PROVE  Counted(Updated(s, count, t))
<1> USE RateStatisticsAssumption DEF RateStatisticsAssumption
<1>1. CASE t < s.oldest_time_
  BY <1>1 DEF Updated
<1>2. CASE ~(t < s.oldest_time_)
  <2> DEFINE e == EraseOld(s, t)
             r == Ready(s, t)
             a == AddSample(r, count, t)
             p == Place(r.oldest_index_, t - r.oldest_time_)
  <2>1. Updated(s, count, t) = a
    BY <1>2 DEF Updated, Ready
  <2>2. s \in State /\ Counted(e) /\ e \in State
    BY EraseOldCounted DEF Counted
  <2>3. Counted(r) /\ r \in State
    <3>1. r \in State
      BY <2>2, ReadyKeeps DEF SameSettings
    <3>2. r.buckets = e.buckets /\ r.num_samples_ = e.num_samples_
      <4> HIDE DEF e
      <4>1. r = IF IsInitialized(e) THEN e ELSE [e EXCEPT !.oldest_time_ = t]
        BY DEF Ready, e
      <4> HIDE DEF r
      <4> QED
        BY <2>2, <4>1 DEF State
    <3> HIDE DEF e, r
    <3> QED
      BY <2>2, <3>1, <3>2, SameCounted
  <2> HIDE DEF e, r
  <2>4. /\ a \in State
        /\ a.buckets = [r.buckets EXCEPT ![p] =
             [sum |-> Int64(r.buckets[p].sum + count),
              samples |-> r.buckets[p].samples + 1]]
        /\ a.num_samples_ = r.num_samples_ + 1
    BY <2>3, AddSampleFields
  <2>5. r.buckets \in [Indices -> Bucket] /\ r.num_samples_ \in Int
    BY <2>3 DEF State
  <2> HIDE DEF a, p
  <2>6. CASE p \in Indices
    <3> DEFINE d == 1
    <3>1. \A i \in Indices : a.buckets[i].samples =
            IF i = p THEN r.buckets[p].samples + d ELSE r.buckets[i].samples
      BY <2>4, <2>5, <2>6
    <3>2. r.buckets[p].samples + d \in Nat
      BY <2>3, <2>6 DEF Counted
    <3>3. a \in State /\ a.num_samples_ = r.num_samples_ + d /\ d \in Int
      BY <2>4
    <3> HIDE DEF d
    <3>4. Counted(a)
      BY <2>3, <2>6, <3>1, <3>2, <3>3, CountedChanges
    <3> QED
      BY <2>1, <3>4
  <2>7. CASE p \notin Indices
    <3>1. a.buckets = r.buckets
      BY <2>4, <2>5, <2>7
    <3>2. PICK q : Accounts(q, r) /\ q[MaxWindow] <= r.num_samples_
      BY <2>3 DEF Counted
    <3>3. Accounts(q, a) /\ q[MaxWindow] \in Int
      BY <3>1, <3>2 DEF Accounts
    <3>4. q[MaxWindow] <= a.num_samples_
      BY <2>4, <2>5, <3>2, <3>3
    <3>5. Counted(a)
      BY <2>3, <2>4, <3>1, <3>3, <3>4 DEF Counted
    <3> QED
      BY <2>1, <3>5
  <2> QED
    BY <2>6, <2>7
<1> QED
  BY <1>1, <1>2

\* And SetWindowSize.
LEMMA SizedCounted ==
  ASSUME NEW s, Counted(s), NEW w \in Int, NEW t \in 0 .. MaxTime
  PROVE  Counted(Sized(s, w, t))
<1> USE RateStatisticsAssumption DEF RateStatisticsAssumption
<1>1. CASE ~MaySize(w)
  BY <1>1 DEF Sized
<1>2. CASE MaySize(w)
  <2> DEFINE y == [s EXCEPT !.current_window_size_ms_ = w]
  <2>1. s \in State /\ w \in 1 .. MaxWindow
    BY <1>2 DEF Counted, MaySize
  <2>2. /\ y \in State /\ y.buckets = s.buckets
        /\ y.num_samples_ = s.num_samples_
    BY <2>1 DEF State
  <2>3. Sized(s, w, t) = EraseOld(y, t)
    BY <1>2 DEF Sized
  <2> HIDE DEF y
  <2>4. Counted(y)
    BY <2>2, SameCounted
  <2> QED
    BY <2>3, <2>4, EraseOldCounted
<1> QED
  BY <1>1, <1>2

\* A new object has no samples.
LEMMA NewCounted == Counted(New)
<1> USE RateStatisticsAssumption DEF RateStatisticsAssumption
<1>1. \A i \in Indices : New.buckets[i].samples = 0
  BY DEF New, Empty
<1>2. New.num_samples_ = 0
  BY DEF New
<1>3. New \in State
  BY DEF New, State, Bucket, Empty, Indices, NotYet
<1> DEFINE p == [i \in 0 .. MaxWindow |-> 0]
<1>4. /\ p \in [0 .. MaxWindow -> Int] /\ p[0] = 0 /\ p[MaxWindow] = 0
      /\ \A i \in 0 .. MaxWindow : p[i] = 0
  OBVIOUS
<1> HIDE DEF p
<1>5. Accounts(p, New)
  BY <1>1, <1>4 DEF Accounts, Indices
<1> QED
  BY <1>1, <1>2, <1>3, <1>4, <1>5 DEF Counted

\* The fields of RateStatistics keep their types; the number of samples is
\* never negative (EraseOld and Update, src/rate_statistics.cc:63-143).
THEOREM FieldsKeepTypes == Spec => []TypeOK
<1> USE RateStatisticsAssumption DEF RateStatisticsAssumption
<1>1. Init => Counted(rs)
  BY NewCounted DEF Init
<1>2. IInv /\ Counted(rs) /\ [Next]_vars => Counted(rs)'
  <2> SUFFICES ASSUME IInv, Counted(rs), [Next]_vars PROVE Counted(rs')
    BY DEF Counted, Accounts
  <2>0. now \in 0 .. MaxTime /\ now \in Int
    BY DEF IInv, HistoryOK
  <2>1. CASE Tick
    BY <2>1 DEF Tick
  <2>2. ASSUME NEW count \in Counts, NEW t \in 0 .. now, Update(count, t)
        PROVE  Counted(rs')
    BY <2>0, <2>2, UpdatedCounted DEF Update
  <2>3. CASE AskRate
    BY <2>0, <2>3, EraseOldCounted DEF AskRate
  <2>4. ASSUME NEW w \in 0 .. (MaxWindow + 1), SetWindowSize(w)
        PROVE  Counted(rs')
    BY <2>0, <2>4, SizedCounted DEF SetWindowSize
  <2>5. CASE Reset
    BY <2>5, NewCounted DEF Reset
  <2>6. CASE UNCHANGED vars
    BY <2>6 DEF vars
  <2> QED
    BY <2>1, <2>2, <2>3, <2>4, <2>5, <2>6 DEF Next
<1>3. IInv /\ Counted(rs) => TypeOK
  <2> SUFFICES ASSUME IInv, Counted(rs) PROVE TypeOK
    OBVIOUS
  <2>1. /\ rs \in State /\ rs.oldest_time_ = start
        /\ start \in {NotYet} \cup 0 .. now /\ now \in 0 .. MaxTime
    BY DEF IInv, HistoryOK, ObjectOK
  <2>2. rs.num_samples_ \in Nat
    BY CountedSamples
  <2>3. rs.buckets \in [Indices -> [sum : Int, samples : Nat]]
    <3>1. rs.buckets \in [Indices -> Bucket]
      BY <2>1 DEF State
    <3>2. \A i \in Indices : rs.buckets[i] \in [sum : Int, samples : Nat]
      BY <3>1 DEF Counted, Bucket
    <3> QED
      BY <3>1, <3>2
  <2>4. rs.oldest_time_ \in NotYet .. MaxTime
    BY <2>1 DEF NotYet
  <2> QED
    BY <2>1, <2>2, <2>3, <2>4 DEF TypeOK, State
<1> QED
  BY <1>1, <1>2, <1>3, AlwaysInv, PTL DEF Spec

-----------------------------------------------------------------------------
(* The calendar.                                                           *)

\* Each fourth, hundredth and four hundredth year counts once.
LEMMA LeapDaysGrow ==
  ASSUME NEW y \in Nat
  PROVE  Times!LeapDays(y + 1)
           = Times!LeapDays(y) + Times!One(Times!InLeapYear(y + 1))
<1>1. (y + 1) \div 4 = y \div 4 + Times!One((y + 1) % 4 = 0)
  BY DEF Times!One
<1>2. (y + 1) \div 100 = y \div 100 + Times!One((y + 1) % 100 = 0)
  BY DEF Times!One
<1>3. (y + 1) \div 400 = y \div 400 + Times!One((y + 1) % 400 = 0)
  BY DEF Times!One
<1>4. /\ (y + 1) % 100 = 0 => (y + 1) % 4 = 0
      /\ (y + 1) % 400 = 0 => (y + 1) % 100 = 0
  OBVIOUS
<1>5. Times!One(Times!InLeapYear(y + 1))
          = Times!One((y + 1) % 4 = 0) - Times!One((y + 1) % 100 = 0)
                                 + Times!One((y + 1) % 400 = 0)
  BY <1>4 DEF Times!One, Times!InLeapYear
<1>6. /\ y \div 4 \in Int /\ y \div 100 \in Int /\ y \div 400 \in Int
      /\ 1970 \div 4 \in Int /\ 1970 \div 100 \in Int
      /\ 1970 \div 400 \in Int
  OBVIOUS
<1> QED
  BY <1>1, <1>2, <1>3, <1>5, <1>6 DEF Times!LeapDays, Times!One

\* The lengths of the months add up.
LEMMA MonthsAdd ==
  ASSUME NEW y \in Nat, NEW mon \in 0 .. 11
  PROVE  /\ Times!MonthLength(y, mon)
               = Times!mdays[mon + 1]
                   + Times!One(Times!InLeapYear(y) /\ mon = 1)
         /\ Times!mdays[mon + 1] \in 28 .. 31
              /\ Times!cumul_mdays[mon + 1] \in 0 .. 334
         /\ mon < 11 => Times!cumul_mdays[mon + 2]
                          = Times!cumul_mdays[mon + 1] + Times!mdays[mon + 1]
         /\ mon = 11 => Times!cumul_mdays[mon + 1] + Times!mdays[mon + 1] = 365
         /\ mon = 0 => Times!cumul_mdays[mon + 1] = 0
<1> USE DEF Times!MonthLength, Times!mdays, Times!cumul_mdays, Times!One
<1>0. CASE mon = 0
  BY <1>0
<1>1. CASE mon = 1
  BY <1>1
<1>2. CASE mon = 2
  BY <1>2
<1>3. CASE mon = 3
  BY <1>3
<1>4. CASE mon = 4
  BY <1>4
<1>5. CASE mon = 5
  BY <1>5
<1>6. CASE mon = 6
  BY <1>6
<1>7. CASE mon = 7
  BY <1>7
<1>8. CASE mon = 8
  BY <1>8
<1>9. CASE mon = 9
  BY <1>9
<1>10. CASE mon = 10
  BY <1>10
<1>11. CASE mon = 11
  BY <1>11
<1> HIDE DEF Times!MonthLength, Times!mdays, Times!cumul_mdays, Times!One
<1>12. \/ mon = 0 \/ mon = 1 \/ mon = 2 \/ mon = 3 \/ mon = 4 \/ mon = 5
       \/ mon = 6 \/ mon = 7 \/ mon = 8 \/ mon = 9 \/ mon = 10 \/ mon = 11
  OBVIOUS
<1> QED
  BY <1>0, <1>1, <1>2, <1>3, <1>4, <1>5, <1>6, <1>7, <1>8, <1>9, <1>10,
     <1>11, <1>12, Zenon

\* The day that TmToTime computes.
DayOf(t) ==
  (t.year - 1970) * 365
    + ((t.mday - 1) + Times!cumul_mdays[t.mon + 1] + Times!LeapDays(t.year)
       - Times!One(Times!InLeapYear(t.year) /\ t.mon <= 1))

IsMidnight(t) ==
  /\ t.year \in Nat /\ t.year >= 1970
  /\ t.mon \in 0 .. 11
  /\ t.mday \in 1 .. Times!MonthLength(t.year, t.mon)
  /\ t = Times!Midnight(t.year, t.mon, t.mday)

\* The next midnight is a day later, at the end of a month or a year as well.
LEMMA TomorrowIsNext ==
  ASSUME NEW t, IsMidnight(t)
  PROVE  IsMidnight(Times!Tomorrow(t))
           /\ DayOf(Times!Tomorrow(t)) = DayOf(t) + 1
<1> DEFINE y == t.year
           n == t.mon
           d == t.mday
           leap == Times!InLeapYear(y)
           past == Times!One(leap /\ n <= 1)
           feb == Times!One(leap /\ n = 1)
           u == Times!Tomorrow(t)
<1>1. /\ y \in Nat /\ y >= 1970 /\ n \in 0 .. 11
      /\ d \in 1 .. Times!MonthLength(y, n)
  BY DEF IsMidnight
<1>2. DayOf(t) = (y - 1970) * 365
                   + ((d - 1) + Times!cumul_mdays[n + 1]
                        + Times!LeapDays(y) - past)
  BY DEF DayOf
<1>3. u = IF d < Times!MonthLength(y, n) THEN Times!Midnight(y, n, d + 1)
          ELSE IF n < 11 THEN Times!Midnight(y, n + 1, 1)
              ELSE Times!Midnight(y + 1, 0, 1)
  BY DEF Times!Tomorrow
<1> HIDE DEF y, n, d, u
<1>4. past \in 0 .. 1 /\ feb \in 0 .. 1 /\ (n > 1 => past = 0 /\ feb = 0)
  BY <1>1 DEF Times!One
<1>5. Times!One(leap /\ n + 1 <= 1) = past - feb
  BY <1>1 DEF Times!One
<1> HIDE DEF past
<1>6. /\ Times!MonthLength(y, n) = Times!mdays[n + 1] + feb
      /\ Times!mdays[n + 1] \in 28 .. 31
           /\ Times!cumul_mdays[n + 1] \in 0 .. 334
      /\ n < 11
           => Times!cumul_mdays[n + 2]
               = Times!cumul_mdays[n + 1] + Times!mdays[n + 1]
      /\ n = 11 => Times!cumul_mdays[n + 1] + Times!mdays[n + 1] = 365
  BY <1>1, MonthsAdd
<1> HIDE DEF feb
<1>7. Times!LeapDays(y) \in Int
  BY <1>1 DEF Times!LeapDays
<1>8. \A a, b, c : /\ Times!Midnight(a, b, c).year = a
          /\ Times!Midnight(a, b, c).mon = b
                   /\ Times!Midnight(a, b, c).mday = c
  BY DEF Times!Midnight
<1>9. d \in Int /\ n \in Int /\ y \in Int
  BY <1>1, <1>4, <1>6
<1>10. CASE d < Times!MonthLength(y, n)
  <2>1. u = Times!Midnight(y, n, d + 1)
    BY <1>3, <1>10
  <2>2. u.year = y /\ u.mon = n /\ u.mday = d + 1
    BY <1>8, <2>1
  <2>3. d + 1 \in 1 .. Times!MonthLength(y, n)
    BY <1>1, <1>4, <1>6, <1>9, <1>10
  <2>4. IsMidnight(u)
    BY <1>1, <2>1, <2>2, <2>3 DEF IsMidnight
  <2>5. DayOf(u) = (y - 1970) * 365
                     + (((d + 1) - 1) + Times!cumul_mdays[n + 1]
                          + Times!LeapDays(y) - past)
    BY <2>2 DEF DayOf, past
  <2> QED
    <3>1. DayOf(u) = DayOf(t) + 1
      BY <1>2, <1>4, <1>6, <1>7, <1>9, <2>4, <2>5, SMTT(20)
    <3> QED
      BY <3>1, <2>4 DEF u
<1>11. CASE ~(d < Times!MonthLength(y, n)) /\ n < 11
  <2>1. u = Times!Midnight(y, n + 1, 1)
    BY <1>3, <1>11
  <2>2. u.year = y /\ u.mon = n + 1 /\ u.mday = 1
    BY <1>8, <2>1
  <2>3. d = Times!mdays[n + 1] + feb
    BY <1>1, <1>4, <1>6, <1>9, <1>11
  <2>4. n + 1 \in 0 .. 11 /\ (n + 1) + 1 = n + 2
    BY <1>1, <1>11
  <2>5. 1 \in 1 .. Times!MonthLength(y, n + 1)
    BY DEF Times!MonthLength
  <2>6. IsMidnight(u)
    BY <1>1, <2>1, <2>2, <2>4, <2>5 DEF IsMidnight
  <2>7. DayOf(u) = (y - 1970) * 365
                     + ((1 - 1) + Times!cumul_mdays[n + 2] + Times!LeapDays(y)
                        - (past - feb))
    BY <1>5, <2>2, <2>4 DEF DayOf
  <2>8. Times!cumul_mdays[n + 2]
            = Times!cumul_mdays[n + 1] + Times!mdays[n + 1]
    BY <1>6, <1>11
  <2> QED
    <3> DEFINE a == Times!cumul_mdays[n + 1]
               b == Times!mdays[n + 1]
               x == (y - 1970) * 365 + Times!LeapDays(y)
    <3>1. a \in Int /\ b \in Int /\ x \in Int /\ past \in Int /\ feb \in Int
      BY <1>4, <1>6, <1>7, <1>9
    <3>2. DayOf(t) = x + (d - 1) + a - past
      BY <1>2, <1>7, <1>9, <3>1
    <3>3. DayOf(u) = x + (a + b) - (past - feb)
      BY <1>7, <1>9, <2>7, <2>8, <3>1
    <3>4. d = b + feb
      BY <2>3
    <3> HIDE DEF a, b, x
    <3>5. DayOf(u) = DayOf(t) + 1
      BY <1>9, <3>1, <3>2, <3>3, <3>4
    <3> QED
      BY <2>6, <3>5 DEF u
<1>12. CASE ~(d < Times!MonthLength(y, n)) /\ ~(n < 11)
  <2>1. u = Times!Midnight(y + 1, 0, 1) /\ n = 11
    BY <1>1, <1>3, <1>12
  <2>2. u.year = y + 1 /\ u.mon = 0 /\ u.mday = 1
    BY <1>8, <2>1
  <2>3. d = Times!mdays[n + 1] /\ past = 0
    BY <1>1, <1>4, <1>6, <1>9, <1>12, <2>1
  <2>4. 1 \in 1 .. Times!MonthLength(y + 1, 0) /\ y + 1 \in Nat
            /\ y + 1 >= 1970
        /\ 0 \in 0 .. 11
    BY <1>1 DEF Times!MonthLength
  <2>5. IsMidnight(u)
    BY <2>1, <2>2, <2>4 DEF IsMidnight
  <2> DEFINE next == Times!One(Times!InLeapYear(y + 1))
  <2>6. next \in 0 .. 1 /\ Times!LeapDays(y + 1) = Times!LeapDays(y) + next
    BY <1>1, LeapDaysGrow DEF Times!One
  <2>7. Times!cumul_mdays[0 + 1] = 0
    BY DEF Times!cumul_mdays
  <2>8. Times!One(Times!InLeapYear(y + 1) /\ 0 <= 1) = next
    BY DEF Times!One
  <2>9. DayOf(u) = ((y + 1) - 1970) * 365
                     + ((1 - 1) + Times!cumul_mdays[0 + 1]
                          + Times!LeapDays(y + 1) - next)
    BY <2>2, <2>8 DEF DayOf
  <2> HIDE DEF next
  <2>10. Times!cumul_mdays[n + 1] + Times!mdays[n + 1] = 365
    BY <1>6, <2>1
  <2> QED
    <3>1. DayOf(u) = DayOf(t) + 1
      BY <1>2, <1>6, <1>7, <1>9, <2>3, <2>5, <2>6, <2>7, <2>9, <2>10
    <3> QED
      BY <3>1, <2>5 DEF u
<1> QED
  BY <1>10, <1>11, <1>12 DEF u

\* A second of a day is one of the days before it and of its own.
LEMMA SecondsCounted ==
  ASSUME Times!TimeUtilsAssumption, NEW t, IsMidnight(t),
         NEW h \in 0 .. (Hours - 1),
         NEW m \in 0 .. (Minutes - 1), NEW s \in 0 .. (Seconds - 1)
  PROVE  Times!TmToTime([t EXCEPT !.hour = h, !.min = m, !.sec = s])
           = (((DayOf(t) * Hours + h) * Minutes + m) * Seconds + s)
               * MS_PER_SEC
<1> DEFINE u == [t EXCEPT !.hour = h, !.min = m, !.sec = s]
<1>1. /\ u.year = t.year /\ u.mon = t.mon /\ u.mday = t.mday
      /\ u.hour = h /\ u.min = m /\ u.sec = s
  BY DEF IsMidnight, Times!Midnight
<1>2. /\ t.year \in Nat /\ t.year >= 1970 /\ t.mon \in 0 .. 11
      /\ t.mday \in 1 .. Times!MonthLength(t.year, t.mon)
  BY DEF IsMidnight
<1> HIDE DEF u
<1>3. Times!Accepts(u)
  <2>1. /\ Times!MonthLength(t.year, t.mon)
             = Times!mdays[t.mon + 1] + Times!One(Times!InLeapYear(t.year)
                 /\ t.mon = 1)
        /\ Times!mdays[t.mon + 1] \in 28 .. 31
    BY <1>2, MonthsAdd
  <2>2. Times!One(Times!InLeapYear(t.year) /\ t.mon = 1) \in 0 .. 1
    BY DEF Times!One
  <2>3. t.mday - 1 \in 0 .. (Times!mdays[t.mon + 1]
                             + Times!One(Times!InLeapYear(t.year)
                                 /\ t.mon = 1) - 1)
    BY <1>2, <2>1, <2>2
  <2> QED
    BY <1>1, <1>2, <2>3 DEF Times!Accepts
<1>4. Times!TmToTime(u)
        = (((DayOf(t) * Hours + u.hour) * Minutes + u.min) * Seconds + u.sec)
            * MS_PER_SEC
  <2>1. DayOf(u) = DayOf(t)
    BY <1>1 DEF DayOf
  <2>2. Times!TmToTime(u)
          = (((DayOf(u) * Hours + u.hour) * Minutes + u.min) * Seconds + u.sec)
              * MS_PER_SEC
    BY <1>3 DEF Times!TmToTime, DayOf
  <2> QED
    BY <2>1, <2>2
<1> QED
  BY <1>1, <1>4 DEF u

\* No dates and times near t.
Others(t) ==
  LET end == Times!MonthLength(t.year, t.mon)
  IN {[t EXCEPT !.mday = 0], [t EXCEPT !.mday = end + 1],
      [t EXCEPT !.mon = -1], [t EXCEPT !.mon = 12],
      [t EXCEPT !.hour = Hours], [t EXCEPT !.min = Minutes],
      [t EXCEPT !.sec = Seconds], [t EXCEPT !.year = 1969]}

\* What is outside the calendar is refused.
LEMMA OthersRefused ==
  ASSUME Times!TimeUtilsAssumption, NEW t, IsMidnight(t),
         NEW u \in Others(t)
  PROVE  Times!TmToTime(u) = -1
<1> DEFINE end == Times!MonthLength(t.year, t.mon)
<1>1. /\ t.year \in Nat /\ t.mon \in 0 .. 11
      /\ t = [year |-> t.year, mon |-> t.mon, mday |-> t.mday,
              hour |-> 0, min |-> 0, sec |-> 0]
  BY DEF IsMidnight, Times!Midnight
<1>2. /\ end = Times!mdays[t.mon + 1]
               + Times!One(Times!InLeapYear(t.year) /\ t.mon = 1)
      /\ Times!mdays[t.mon + 1] \in 28 .. 31
  BY <1>1, MonthsAdd
<1>3. Times!One(Times!InLeapYear(t.year) /\ t.mon = 1) \in 0 .. 1
  BY DEF Times!One
<1> HIDE DEF end
<1>4. Hours \in Nat /\ Minutes \in Nat /\ Seconds \in Nat
  BY DEF Times!TimeUtilsAssumption
<1>5. CASE u = [t EXCEPT !.mday = 0]
  <2>1. u.mday = 0
    BY <1>1, <1>5
  <2>2. ~(u.mday - 1 >= 0)
    BY <2>1
  <2>3. ~Times!Accepts(u)
    BY <2>1, <2>2 DEF Times!Accepts
  <2> QED
    BY <2>3 DEF Times!TmToTime
<1>6. CASE u = [t EXCEPT !.mday = end + 1]
  <2>1. u.year = t.year /\ u.mon = t.mon /\ u.mday = end + 1
    BY <1>1, <1>6
  <2>2. end \in Int /\ (end + 1) - 1 = end /\ ~(end \in 0 .. (end - 1))
    BY <1>2, <1>3
  <2>3. ~Times!Accepts(u)
    <3> DEFINE room == Times!mdays[u.mon + 1]
                         + Times!One(Times!InLeapYear(u.year) /\ u.mon = 1)
    <3>1. room = end
      BY <1>2, <2>1
    <3>2. u.mday - 1 = end
      BY <2>1, <2>2
    <3>3. Times!Accepts(u) => u.mday - 1 \in 0 .. (room - 1)
      <4>1. Times!Accepts(u) =>
              u.mday - 1 \in 0 .. (Times!mdays[u.mon + 1]
                                   + Times!One(Times!InLeapYear(u.year)
                                       /\ u.mon = 1) - 1)
        BY DEF Times!Accepts
      <4>2. /\ Times!mdays[u.mon + 1] \in Int
            /\ Times!One(Times!InLeapYear(u.year) /\ u.mon = 1) \in Int
        BY <1>2, <1>3, <2>1
      <4> DEFINE a == Times!mdays[u.mon + 1]
                 b == Times!One(Times!InLeapYear(u.year) /\ u.mon = 1)
      <4>3. a \in Int /\ b \in Int /\ room = a + b
        BY <4>2
      <4>4. Times!Accepts(u) => u.mday - 1 \in 0 .. (a + b - 1)
        BY <4>1
      <4> HIDE DEF a, b, room
      <4> QED
        BY <4>3, <4>4
    <3> HIDE DEF room
    <3> QED
      BY <2>2, <3>1, <3>2, <3>3
  <2> QED
    BY <2>3 DEF Times!TmToTime
<1>7. CASE u = [t EXCEPT !.mon = -1] \/ u = [t EXCEPT !.mon = 12]
  <2>1. u.mon = -1 \/ u.mon = 12
    BY <1>1, <1>7
  <2>2. ~Times!Accepts(u)
    BY <2>1 DEF Times!Accepts
  <2> QED
    BY <2>2 DEF Times!TmToTime
<1>8. CASE u = [t EXCEPT !.hour = Hours]
  <2>1. u.hour = Hours
    BY <1>1, <1>8
  <2>2. ~Times!Accepts(u)
    BY <1>4, <2>1 DEF Times!Accepts
  <2> QED
    BY <2>2 DEF Times!TmToTime
<1>9. CASE u = [t EXCEPT !.min = Minutes]
  <2>1. u.min = Minutes
    BY <1>1, <1>9
  <2>2. ~Times!Accepts(u)
    BY <1>4, <2>1 DEF Times!Accepts
  <2> QED
    BY <2>2 DEF Times!TmToTime
<1>10. CASE u = [t EXCEPT !.sec = Seconds]
  <2>1. u.sec = Seconds
    BY <1>1, <1>10
  <2>2. ~Times!Accepts(u)
    BY <1>4, <2>1 DEF Times!Accepts
  <2> QED
    BY <2>2 DEF Times!TmToTime
<1>11. CASE u = [t EXCEPT !.year = 1969]
  <2>1. u.year = 1969
    BY <1>1, <1>11
  <2>2. ~Times!Accepts(u)
    BY <2>1 DEF Times!Accepts
  <2> QED
    BY <2>2 DEF Times!TmToTime
<1> QED
  BY <1>5, <1>6, <1>7, <1>8, <1>9, <1>10, <1>11 DEF end, Others

\* The walk is one day after the other.
WalkInv == IsMidnight(tm) /\ days = DayOf(tm) /\ ms \in Int

LEMMA WalkStays == Times!TimeUtilsAssumption /\ Times!Spec => []WalkInv
<1>1. Times!TimeUtilsAssumption /\ Times!Init => WalkInv
  <2> SUFFICES ASSUME Times!TimeUtilsAssumption, Times!Init PROVE WalkInv
    OBVIOUS
  <2>1. /\ tm.year = 1970 /\ tm.mon = 0 /\ tm.mday = 1
        /\ tm = Times!Midnight(tm.year, tm.mon, tm.mday)
    BY DEF Times!Init, Times!Midnight
  <2>2. 1 \in 1 .. Times!MonthLength(1970, 0) /\ 0 \in 0 .. 11
    BY DEF Times!MonthLength
  <2>3. IsMidnight(tm)
    BY <2>1, <2>2 DEF IsMidnight
  <2>4. Times!LeapDays(1970) = 0
    BY DEF Times!LeapDays
  <2>5. ~Times!InLeapYear(1970) /\ Times!cumul_mdays[0 + 1] = 0
    BY DEF Times!InLeapYear, Times!cumul_mdays
  <2>6. DayOf(tm) = 0
    BY <2>1, <2>4, <2>5 DEF DayOf, Times!One
  <2> QED
    BY <2>3, <2>6 DEF Times!Init, WalkInv, Times!TimeUtilsAssumption
<1>2. WalkInv /\ [Times!NextDay]_(Times!vars) => WalkInv'
  BY TomorrowIsNext DEF WalkInv, Times!NextDay, Times!vars
<1> QED
  BY <1>1, <1>2, PTL DEF Times!Spec

\* The closed form of the leap days agrees with the calendar, for every second
\* of every day of any year from 1970 on, and what is no date or time is
\* refused (TmToTime, src/time_utils.cc:86-117).
THEOREM DaysAreCounted ==
  ASSUME Times!TimeUtilsAssumption
  PROVE  Times!Spec => []Times!CountsDays
<1>1. WalkInv => Times!CountsDays
  <2> SUFFICES ASSUME WalkInv PROVE Times!CountsDays
    OBVIOUS
  <2>1. IsMidnight(tm) /\ days = DayOf(tm)
    BY DEF WalkInv
  <2>2. ASSUME NEW h \in 0 .. (Hours - 1), NEW m \in 0 .. (Minutes - 1),
               NEW s \in 0 .. (Seconds - 1)
        PROVE  Times!TmToTime([tm EXCEPT !.hour = h, !.min = m, !.sec = s])
                 = (((days * Hours + h) * Minutes + m) * Seconds + s)
                     * MS_PER_SEC
    BY <2>1, SecondsCounted
  <2> QED
    <3>1. ASSUME NEW t \in Others(tm) PROVE Times!TmToTime(t) = -1
      BY <2>1, OthersRefused
    <3>2. Times!CountsDays <=>
            /\ \A h \in 0 .. (Hours - 1), m \in 0 .. (Minutes - 1),
                  s \in 0 .. (Seconds - 1) :
                 Times!TmToTime([tm EXCEPT !.hour = h, !.min = m, !.sec = s])
                   = (((days * Hours + h) * Minutes + m) * Seconds + s)
                       * MS_PER_SEC
            /\ \A t \in Others(tm) : Times!TmToTime(t) = -1
      BY DEF Times!CountsDays, Others
    <3> QED
      BY <2>2, <3>1, <3>2
<1> QED
  BY <1>1, WalkStays, PTL

-----------------------------------------------------------------------------
(* Milliseconds.                                                           *)

\* Division in C leaves a rest with the sign of what is divided.
LEMMA QuotientRest ==
  ASSUME NEW n \in Nat \ {0}, NEW m \in Int
  PROVE  LET q == Times!Quotient(m, n)
             r == Times!Remainder(m, n)
         IN /\ q \in Int /\ r \in Int /\ m = n * q + r
            /\ -n < r /\ r < n
            /\ m >= 0 => r >= 0
<1> DEFINE p == m \div n
           k == (-m) \div n
<1>1. /\ p \in Int /\ k \in Int /\ n * p \in Int /\ n * k \in Int
      /\ m - (n * p) \in 0 .. (n - 1) /\ (-m) - (n * k) \in 0 .. (n - 1)
  <2>1. ASSUME NEW x \in Int
        PROVE  /\ x \div n \in Int /\ n * (x \div n) \in Int
               /\ x - (n * (x \div n)) \in 0 .. (n - 1)
    <3>1. /\ x \div n \in Int /\ (x % n) \in 0 .. (n - 1)
          /\ x = (n * (x \div n)) + (x % n)
      OBVIOUS
    <3>2. n * (x \div n) \in Int
      BY <3>1
    <3> QED
      BY <3>1, <3>2
  <2>2. -m \in Int
    OBVIOUS
  <2> QED
    BY <2>1, <2>2
<1>2. CASE m >= 0
  <2>1. Times!Quotient(m, n) = 1 * ((1 * m) \div n) /\ 1 * m = m
    BY <1>2 DEF Times!Quotient, Times!Sign
  <2>2. Times!Quotient(m, n) = p /\ Times!Remainder(m, n) = m - (n * p)
    BY <1>1, <2>1 DEF Times!Remainder
  <2> HIDE DEF p
  <2> QED
    BY <1>1, <1>2, <2>2
<1>3. CASE m < 0
  <2>1. Times!Quotient(m, n) = -1 * ((-1 * m) \div n)
    BY <1>3 DEF Times!Quotient, Times!Sign
  <2>2. -1 * m = -m
    OBVIOUS
  <2>3. Times!Quotient(m, n) = -k
    BY <1>1, <2>1, <2>2
  <2>4. Times!Remainder(m, n) = m - (n * (-k))
    BY <2>3 DEF Times!Remainder
  <2> HIDE DEF k
  <2>5. n * (-k) = -(n * k)
    BY <1>1
  <2> QED
    BY <1>1, <1>3, <2>3, <2>4, <2>5
<1> QED
  BY <1>2, <1>3

\* A whole number of units comes back.
LEMMA UnitsCancel ==
  ASSUME NEW n \in Nat \ {0}, NEW r \in Int
  PROVE  Times!Quotient(r * n, n) = r
<1>1. CASE r >= 0
  <2>1. (n * r + 0) \div n = r
    BY Facts!DivisionIs
  <2>2. n * r + 0 = r * n /\ r * n \in Int /\ r * n >= 0
    BY <1>1
  <2>3. Times!Quotient(r * n, n) = 1 * ((1 * (r * n)) \div n)
    BY <2>2 DEF Times!Quotient, Times!Sign
  <2>4. 1 * (r * n) = r * n
    BY <2>2
  <2> QED
    BY <2>1, <2>2, <2>3, <2>4
<1>2. CASE r < 0
  <2>1. (n * (-r) + 0) \div n = -r
    BY Facts!DivisionIs
  <2>2. r * n \in Int /\ r * n < 0 /\ n * (-r) + 0 = -1 * (r * n)
    <3>1. n * (-r) >= n
      BY <1>2, Facts!ProductGrows
    <3>2. n * (-r) = -(r * n) /\ r * n \in Int
      OBVIOUS
    <3> QED
      BY <3>1, <3>2
  <2>3. Times!Quotient(r * n, n) = -1 * ((-1 * (r * n)) \div n)
    BY <2>2 DEF Times!Quotient, Times!Sign
  <2> QED
    BY <2>1, <2>2, <2>3
<1> QED
  BY <1>1, <1>2

\* The timespec of m milliseconds: less than a second is left.
LEMMA TimespecIs ==
  ASSUME Times!TimeUtilsAssumption, NEW m \in Int
  PROVE  LET q == Times!Quotient(m, MS_PER_SEC)
             r == Times!Remainder(m, MS_PER_SEC)
         IN /\ Times!timespec_from_millisec(m)
                 = [tv_sec |-> q, tv_nsec |-> r * NS_PER_MS]
            /\ q * MS_PER_SEC + r = m
<1> DEFINE q == Times!Quotient(m, MS_PER_SEC)
           r == Times!Remainder(m, MS_PER_SEC)
<1>0. MS_PER_SEC \in Nat \ {0} /\ NS_PER_MS \in Nat \ {0}
  BY DEF Times!TimeUtilsAssumption
<1>1. /\ q \in Int /\ r \in Int /\ m = MS_PER_SEC * q + r
      /\ r < MS_PER_SEC
  BY <1>0, QuotientRest
<1> HIDE DEF q, r
<1>2. ~(r * NS_PER_MS >= Times!NS_PER_SEC)
  <2>1. NS_PER_MS * (MS_PER_SEC - r) >= NS_PER_MS
    BY <1>0, <1>1, Facts!ProductGrows
  <2>2. NS_PER_MS * (MS_PER_SEC - r) = Times!NS_PER_SEC - r * NS_PER_MS
    BY <1>0, <1>1 DEF Times!NS_PER_SEC
  <2>3. Times!NS_PER_SEC \in Int /\ r * NS_PER_MS \in Int
    BY <1>0, <1>1 DEF Times!NS_PER_SEC
  <2> QED
    BY <1>0, <2>1, <2>2, <2>3
<1>3. Times!timespec_from_millisec(m)
          = [tv_sec |-> q, tv_nsec |-> r * NS_PER_MS]
  BY <1>2 DEF Times!timespec_from_millisec, Times!timespec_normalize, q, r
<1>4. q * MS_PER_SEC = MS_PER_SEC * q
  BY <1>0, <1>1
<1> QED
  BY <1>1, <1>3, <1>4 DEF q, r

\* Less than a second of whole milliseconds is normal, and comes back.
LEMMA NormalIs ==
  ASSUME Times!TimeUtilsAssumption, NEW q \in Int,
         NEW r \in 0 .. (MS_PER_SEC - 1)
  PROVE  LET ts == [tv_sec |-> q, tv_nsec |-> r * NS_PER_MS]
         IN /\ Times!Normal(ts) /\ Times!timespec_normalize(ts) = ts
            /\ Times!timespec_to_millisec(ts) = q * MS_PER_SEC + r
<1>0. MS_PER_SEC \in Nat \ {0} /\ NS_PER_MS \in Nat \ {0}
  BY DEF Times!TimeUtilsAssumption
<1>1. NS_PER_MS * (MS_PER_SEC - r) >= NS_PER_MS
  BY <1>0, Facts!ProductGrows
<1>2. NS_PER_MS * (MS_PER_SEC - r) = Times!NS_PER_SEC - r * NS_PER_MS
  BY <1>0 DEF Times!NS_PER_SEC
<1>3. Times!NS_PER_SEC \in Int /\ r * NS_PER_MS \in Int /\ r * NS_PER_MS >= 0
  BY <1>0 DEF Times!NS_PER_SEC
<1>4. r * NS_PER_MS \in 0 .. (Times!NS_PER_SEC - 1)
  BY <1>0, <1>1, <1>2, <1>3
<1>5. Times!Quotient(r * NS_PER_MS, NS_PER_MS) = r
  BY <1>0, UnitsCancel
<1>6. ~(r * NS_PER_MS >= Times!NS_PER_SEC)
  BY <1>3, <1>4
<1> DEFINE ts == [tv_sec |-> q, tv_nsec |-> r * NS_PER_MS]
<1>7. ts.tv_sec = q /\ ts.tv_nsec = r * NS_PER_MS
  OBVIOUS
<1> HIDE DEF ts
<1>8. Times!Normal(ts) /\ Times!timespec_normalize(ts) = ts
  BY <1>4, <1>6, <1>7 DEF Times!Normal, Times!timespec_normalize
<1>9. Times!timespec_to_millisec(ts) = q * MS_PER_SEC + r
  BY <1>5, <1>7 DEF Times!timespec_to_millisec
<1> QED
  BY <1>8, <1>9 DEF ts

\* And so is a sum that carries into the seconds.
LEMMA CarryIs ==
  ASSUME Times!TimeUtilsAssumption, NEW q \in Int,
         NEW r \in MS_PER_SEC .. (2 * MS_PER_SEC - 2)
  PROVE  Times!timespec_normalize([tv_sec |-> q, tv_nsec |-> r * NS_PER_MS])
           = [tv_sec |-> q + 1, tv_nsec |-> (r - MS_PER_SEC) * NS_PER_MS]
<1> DEFINE rest == (r - MS_PER_SEC) * NS_PER_MS
<1>0. MS_PER_SEC \in Nat \ {0} /\ NS_PER_MS \in Nat \ {0} /\ r \in Int
  BY DEF Times!TimeUtilsAssumption
<1>1. Times!Normal([tv_sec |-> q, tv_nsec |-> rest])
  <2>1. r - MS_PER_SEC \in 0 .. (MS_PER_SEC - 1)
    BY <1>0
  <2> QED
    BY <2>1, NormalIs
<1>2. rest \in 0 .. (Times!NS_PER_SEC - 1)
  BY <1>1 DEF Times!Normal
<1>3. Times!NS_PER_SEC \in Nat \ {0}
  <2>1. MS_PER_SEC * NS_PER_MS >= MS_PER_SEC /\ MS_PER_SEC * NS_PER_MS \in Int
    BY <1>0, Facts!ProductGrows
  <2> QED
    BY <1>0, <2>1 DEF Times!NS_PER_SEC
<1>4. r * NS_PER_MS = Times!NS_PER_SEC * 1 + rest
  BY <1>0 DEF Times!NS_PER_SEC
<1> HIDE DEF rest
<1>5. /\ (Times!NS_PER_SEC * 1 + rest) \div Times!NS_PER_SEC = 1
      /\ (Times!NS_PER_SEC * 1 + rest) % Times!NS_PER_SEC = rest
  BY <1>2, <1>3, Facts!DivisionIs
<1>6. Times!NS_PER_SEC * 1 + rest >= Times!NS_PER_SEC
  BY <1>2, <1>3
<1> DEFINE x == r * NS_PER_MS
<1>7. x \div Times!NS_PER_SEC = 1 /\ x % Times!NS_PER_SEC = rest
          /\ x >= Times!NS_PER_SEC
  BY <1>4, <1>5, <1>6
<1> HIDE DEF x
<1>8. Times!timespec_normalize([tv_sec |-> q, tv_nsec |-> x])
        = [tv_sec |-> q + 1, tv_nsec |-> rest]
  BY <1>7 DEF Times!timespec_normalize
<1> QED
  BY <1>8 DEF x, rest

\* Two instants that are not before 0 add up.
LEMMA SumIsExact ==
  ASSUME Times!TimeUtilsAssumption, NEW m \in Nat, NEW e \in Nat
  PROVE  LET sum == Times!TimespecAfter(Times!timespec_from_millisec(m),
                                  Times!timespec_from_millisec(e))
         IN Times!Normal(sum) /\ Times!timespec_to_millisec(sum) = m + e
<1> DEFINE q == Times!Quotient(m, MS_PER_SEC)
           r == Times!Remainder(m, MS_PER_SEC)
           p == Times!Quotient(e, MS_PER_SEC)
           s == Times!Remainder(e, MS_PER_SEC)
           sum == Times!TimespecAfter(Times!timespec_from_millisec(m),
                                Times!timespec_from_millisec(e))
<1>0. MS_PER_SEC \in Nat \ {0} /\ NS_PER_MS \in Nat \ {0}
  BY DEF Times!TimeUtilsAssumption
<1>1. /\ q \in Int /\ r \in 0 .. (MS_PER_SEC - 1)
      /\ p \in Int /\ s \in 0 .. (MS_PER_SEC - 1)
  <2>1. /\ q \in Int /\ r \in Int /\ r < MS_PER_SEC /\ r >= 0
    BY <1>0, QuotientRest
  <2>2. /\ p \in Int /\ s \in Int /\ s < MS_PER_SEC /\ s >= 0
    BY <1>0, QuotientRest
  <2> HIDE DEF q, r, p, s
  <2> QED
    BY <1>0, <2>1, <2>2
<1>2. /\ Times!timespec_from_millisec(m)
           = [tv_sec |-> q, tv_nsec |-> r * NS_PER_MS]
      /\ q * MS_PER_SEC + r = m
  BY TimespecIs
<1>3. /\ Times!timespec_from_millisec(e)
           = [tv_sec |-> p, tv_nsec |-> s * NS_PER_MS]
      /\ p * MS_PER_SEC + s = e
  BY TimespecIs
<1> HIDE DEF q, r, p, s
<1>4. sum = Times!timespec_normalize([tv_sec |-> q + p,
                                tv_nsec |-> (r + s) * NS_PER_MS])
  <2>1. r * NS_PER_MS + s * NS_PER_MS = (r + s) * NS_PER_MS
    BY <1>0, <1>1
  <2> QED
    BY <1>2, <1>3, <2>1 DEF Times!TimespecAfter
<1> HIDE DEF sum
<1>5. CASE r + s < MS_PER_SEC
  <2>1. r + s \in 0 .. (MS_PER_SEC - 1) /\ q + p \in Int
    BY <1>0, <1>1, <1>5
  <2>2. Times!Normal(sum) /\ Times!timespec_to_millisec(sum)
                               = (q + p) * MS_PER_SEC + (r + s)
    BY <1>4, <2>1, NormalIs
  <2>3. (q + p) * MS_PER_SEC + (r + s) = m + e
    BY <1>0, <1>1, <1>2, <1>3
  <2> QED
    BY <2>2, <2>3 DEF sum
<1>6. CASE r + s >= MS_PER_SEC
  <2> DEFINE c == q + p
             x == r + s
  <2>1. /\ x \in MS_PER_SEC .. (2 * MS_PER_SEC - 2) /\ c \in Int
        /\ x - MS_PER_SEC \in 0 .. (MS_PER_SEC - 1) /\ c + 1 \in Int
    BY <1>0, <1>1, <1>6
  <2>2. sum
            = Times!timespec_normalize([tv_sec |-> c,
              tv_nsec |-> x * NS_PER_MS])
    BY <1>4
  <2> HIDE DEF c, x
  <2>3. sum = [tv_sec |-> c + 1,
               tv_nsec |-> (x - MS_PER_SEC) * NS_PER_MS]
    BY <2>1, <2>2, CarryIs
  <2>4. Times!Normal(sum) /\ Times!timespec_to_millisec(sum)
                               = (c + 1) * MS_PER_SEC + (x - MS_PER_SEC)
    BY <2>1, <2>3, NormalIs
  <2>5. (c + 1) * MS_PER_SEC + (x - MS_PER_SEC) = m + e
    BY <1>0, <1>1, <1>2, <1>3 DEF c, x
  <2> QED
    BY <2>4, <2>5 DEF sum
<1> QED
  BY <1>0, <1>1, <1>5, <1>6

\* Milliseconds survive the way to a timespec and back, those before 0 as
\* well, and the sum of two instants is normal and exact, for any units
\* (src/features/time_c_inl.h:5-26, src/time_utils.cc:128-132).
THEOREM MillisecondsAreKept ==
  ASSUME Times!TimeUtilsAssumption
  PROVE  Times!Spec => []Times!KeepsMilliseconds
<1>1. WalkInv => Times!KeepsMilliseconds
  <2> SUFFICES ASSUME WalkInv PROVE Times!KeepsMilliseconds
    OBVIOUS
  <2>0. MS_PER_SEC \in Nat \ {0} /\ NS_PER_MS \in Nat \ {0} /\ ms \in Int
    BY DEF Times!TimeUtilsAssumption, WalkInv
  <2> DEFINE ts == Times!timespec_from_millisec(ms)
             q == Times!Quotient(ms, MS_PER_SEC)
             r == Times!Remainder(ms, MS_PER_SEC)
  <2>1. /\ q \in Int /\ r \in Int /\ r < MS_PER_SEC
        /\ ms >= 0 => r >= 0
    BY <2>0, QuotientRest
  <2>2. /\ ts = [tv_sec |-> q, tv_nsec |-> r * NS_PER_MS]
        /\ q * MS_PER_SEC + r = ms
    BY <2>0, TimespecIs
  <2> HIDE DEF ts, q, r
  <2>3. Times!timespec_to_millisec(ts) = ms
    <3>1. Times!Quotient(r * NS_PER_MS, NS_PER_MS) = r
      BY <2>0, <2>1, UnitsCancel
    <3>2. ts.tv_sec = q /\ ts.tv_nsec = r * NS_PER_MS
      BY <2>2
    <3> QED
      BY <2>2, <3>1, <3>2 DEF Times!timespec_to_millisec
  <2>4. ASSUME ms >= 0 PROVE Times!Normal(ts)
    <3>1. r \in 0 .. (MS_PER_SEC - 1)
      BY <2>0, <2>1, <2>4
    <3> QED
      BY <2>1, <2>2, <3>1, NormalIs
  <2>5. ASSUME ms >= 0, NEW e \in 0 .. (2 * MS_PER_SEC)
        PROVE  LET sum == Times!TimespecAfter(ts,
               Times!timespec_from_millisec(e))
               IN Times!Normal(sum) /\ Times!timespec_to_millisec(sum) = ms + e
    <3>1. ms \in Nat /\ e \in Nat
      BY <2>0, <2>5
    <3> QED
      BY <3>1, SumIsExact DEF ts
  <2> QED
    BY <2>3, <2>4, <2>5 DEF Times!KeepsMilliseconds, ts
<1> QED
  BY <1>1, WalkStays, PTL

-----------------------------------------------------------------------------
(* Powers of two.                                                          *)

\* The powers of two of the components are those that BitBufferProofs is
\* about.
LEMMA SamePowers ==
  Numbers!Pow2 = Facts!Pow2 /\ Draws!Pow2 = Facts!Pow2
BY DEF Numbers!Pow2, Draws!Pow2, Facts!Pow2

-----------------------------------------------------------------------------
(* Conversions and comparisons.                                            *)

\* An integer type: all that matters are its sign and its size.
IsType(T) == T.signed \in BOOLEAN /\ T.size \in Nat \ {0}

\* Half the numbers of a type.
Half(T) == Numbers!Pow2[Numbers!Bits(T) - 1]

\* The limits of a type, from half its numbers.
LEMMA LimitsAre ==
  ASSUME Numbers!NumericsAssumption, NEW T, IsType(T)
  PROVE  /\ Numbers!Bits(T) \in Nat /\ Numbers!Bits(T) >= 1
         /\ Half(T) \in Nat /\ Half(T) >= 1
         /\ Numbers!Pow2[Numbers!Bits(T)] = 2 * Half(T)
         /\ T.signed => Numbers!LowestOf(T) = -Half(T)
              /\ Numbers!HighestOf(T) = Half(T) - 1
         /\ ~T.signed => Numbers!LowestOf(T) = 0
              /\ Numbers!HighestOf(T) = 2 * Half(T) - 1
<1>1. UnitBits \in Nat /\ UnitBits >= 1 /\ T.size \in Nat /\ T.size >= 1
  BY DEF Numbers!NumericsAssumption, IsType
<1>2. Numbers!Bits(T) \in Nat /\ Numbers!Bits(T) >= T.size
  BY <1>1, Facts!ProductGrows DEF Numbers!Bits
<1>3. Numbers!Bits(T) - 1 \in Nat /\ Numbers!Bits(T) # 0
          /\ Numbers!Bits(T) >= 1
  BY <1>1, <1>2
<1>4. Half(T) \in Nat /\ Half(T) >= 1
  BY <1>3, Facts!PowNat, SamePowers DEF Half
<1>5. Numbers!Pow2[Numbers!Bits(T)] = 2 * Half(T)
  BY <1>2, <1>3, Facts!PowIs, SamePowers DEF Half
<1> QED
  BY <1>2, <1>3, <1>4, <1>5 DEF Numbers!LowestOf, Numbers!HighestOf, Half

\* The limits are integers around zero.
LEMMA LimitsAround ==
  ASSUME Numbers!NumericsAssumption, NEW T, IsType(T)
  PROVE  /\ Numbers!LowestOf(T) \in Int /\ Numbers!HighestOf(T) \in Int
         /\ Numbers!LowestOf(T) <= 0 /\ 0 <= Numbers!HighestOf(T)
         /\ Numbers!Values(T) = Numbers!LowestOf(T) .. Numbers!HighestOf(T)
<1>1. T.signed \in BOOLEAN
  BY DEF IsType
<1>2. CASE T.signed
  BY <1>2, LimitsAre DEF Numbers!Values
<1>3. CASE ~T.signed
  BY <1>3, LimitsAre DEF Numbers!Values
<1> QED
  BY <1>1, <1>2, <1>3

\* A conversion keeps what the type holds.
LEMMA CastKeeps ==
  ASSUME Numbers!NumericsAssumption, NEW T, IsType(T),
         NEW v \in Numbers!Values(T)
  PROVE  Numbers!Cast(T, v) = v
<1> DEFINE P == Numbers!Pow2[Numbers!Bits(T)]
           H == Half(T)
           lo == Numbers!LowestOf(T)
           hi == Numbers!HighestOf(T)
<1>1. /\ H \in Nat /\ H >= 1 /\ P = 2 * H
      /\ \/ T.signed /\ lo = -H /\ hi = H - 1
         \/ ~T.signed /\ lo = 0 /\ hi = 2 * H - 1
  BY LimitsAre DEF IsType
<1>2. Numbers!Values(T) = lo .. hi /\ lo \in Int /\ hi \in Int
  BY LimitsAround
<1> HIDE DEF P, H, lo, hi
<1>3. P \in Nat \ {0} /\ v \in Int /\ lo <= v /\ v <= hi
  BY <1>1, <1>2
<1>4. CASE v >= 0
  <2>1. v \in 0 .. (P - 1)
    BY <1>1, <1>3, <1>4
  <2>2. v % P = v
    BY <1>3, <2>1, Facts!ModOf
  <2> QED
    BY <2>2 DEF Numbers!Cast, P
<1>5. CASE v < 0
  <2>1. (v + P) \in 0 .. (P - 1) /\ v = P * (-1) + (v + P) /\ v + P > hi
    BY <1>1, <1>3, <1>5
  <2> DEFINE m == v + P
  <2>2. m \in 0 .. (P - 1) /\ v = P * (-1) + m /\ m > hi
    BY <2>1
  <2> HIDE DEF m
  <2>3. v % P = m
    BY <1>3, <2>2, Facts!DivisionIs
  <2>4. ~ (m \in Numbers!Values(T))
    BY <1>2, <1>3, <2>2
  <2>5. m - P = v
    BY <1>3 DEF m
  <2> QED
    BY <2>3, <2>4, <2>5 DEF Numbers!Cast, P
<1> QED
  BY <1>3, <1>4, <1>5

\* One more than the highest number of a type is a power of two.
LEMMA HighestIsPower ==
  ASSUME Numbers!NumericsAssumption, NEW T, IsType(T)
  PROVE  /\ Numbers!MaxExponent(T) \in Nat
         /\ Numbers!Pow2[Numbers!MaxExponent(T)] \in Nat
         /\ Numbers!HighestOf(T) = Numbers!Pow2[Numbers!MaxExponent(T)] - 1
         /\ T.signed
              => Numbers!LowestOf(T) = -Numbers!Pow2[Numbers!MaxExponent(T)]
<1>1. /\ T.signed \in BOOLEAN /\ Numbers!Bits(T) \in Nat
           /\ Numbers!Bits(T) - 1 \in Nat
  BY LimitsAre DEF IsType
<1>2. Numbers!MaxExponent(T) \in Nat
  BY <1>1 DEF Numbers!MaxExponent
<1>3. Numbers!Pow2[Numbers!MaxExponent(T)] \in Nat
  BY <1>2, Facts!PowNat, SamePowers
<1> QED
  BY <1>1, <1>2, <1>3 DEF Numbers!MaxExponent, Numbers!LowestOf,
     Numbers!HighestOf

\* More bits for the magnitude reach higher.
LEMMA ExponentsOrder ==
  ASSUME Numbers!NumericsAssumption, NEW S, IsType(S), NEW T, IsType(T)
  PROVE  /\ Numbers!MaxExponent(S) <= Numbers!MaxExponent(T)
              => Numbers!HighestOf(S) <= Numbers!HighestOf(T)
         /\ S.signed /\ T.signed
              /\ Numbers!MaxExponent(S) <= Numbers!MaxExponent(T)
              => Numbers!LowestOf(S) >= Numbers!LowestOf(T)
<1>1. /\ Numbers!MaxExponent(S) \in Nat
           /\ Numbers!Pow2[Numbers!MaxExponent(S)] \in Nat
      /\ Numbers!HighestOf(S) = Numbers!Pow2[Numbers!MaxExponent(S)] - 1
      /\ S.signed
           => Numbers!LowestOf(S) = -Numbers!Pow2[Numbers!MaxExponent(S)]
  BY HighestIsPower
<1>2. /\ Numbers!MaxExponent(T) \in Nat
           /\ Numbers!Pow2[Numbers!MaxExponent(T)] \in Nat
      /\ Numbers!HighestOf(T) = Numbers!Pow2[Numbers!MaxExponent(T)] - 1
      /\ T.signed
           => Numbers!LowestOf(T) = -Numbers!Pow2[Numbers!MaxExponent(T)]
  BY HighestIsPower
<1>3. Numbers!MaxExponent(S) <= Numbers!MaxExponent(T)
        => Numbers!Pow2[Numbers!MaxExponent(S)]
             <= Numbers!Pow2[Numbers!MaxExponent(T)]
  BY <1>1, <1>2, Facts!PowGrows, SamePowers
<1> QED
  BY <1>1, <1>2, <1>3

\* A larger type has more bits.
LEMMA SizesOrder ==
  ASSUME Numbers!NumericsAssumption, NEW S, IsType(S), NEW T, IsType(T),
         S.size < T.size
  PROVE  Numbers!Bits(S) < Numbers!Bits(T)
<1>1. /\ UnitBits \in Nat /\ UnitBits >= 1
      /\ S.size \in Nat /\ T.size \in Nat
      /\ T.size - S.size >= 1
  BY DEF Numbers!NumericsAssumption, IsType
<1> DEFINE k == T.size - S.size
<1>2. k \in Nat /\ k >= 1 /\ T.size = S.size + k
  BY <1>1
<1> HIDE DEF k
<1>3. UnitBits * k >= UnitBits
  BY <1>1, <1>2, Facts!ProductGrows
<1>4. (S.size + k) * UnitBits = S.size * UnitBits + UnitBits * k
      /\ S.size * UnitBits \in Nat
  BY <1>1, <1>2
<1> QED
  BY <1>1, <1>2, <1>3, <1>4 DEF Numbers!Bits

\* What a range check is to answer for a value.
Judged(r, T, v) ==
  /\ v < Numbers!LowestOf(T) => r = "TYPE_UNDERFLOW"
  /\ v > Numbers!HighestOf(T) => r = "TYPE_OVERFLOW"
  /\ v >= Numbers!LowestOf(T) /\ v <= Numbers!HighestOf(T) => r = "TYPE_VALID"

\* The answer is made from two tests.
LEMMA TestsJudge ==
  ASSUME Numbers!NumericsAssumption, NEW T, IsType(T), NEW v \in Int,
         NEW up \in BOOLEAN, NEW low \in BOOLEAN,
         up <=> v <= Numbers!HighestOf(T), low <=> v >= Numbers!LowestOf(T)
  PROVE  Judged(Numbers!RangeCheckResult(up, low), T, v)
<1>1. /\ Numbers!LowestOf(T) \in Int /\ Numbers!HighestOf(T) \in Int
      /\ Numbers!LowestOf(T) <= Numbers!HighestOf(T)
  BY LimitsAround
<1>2. CASE ~up
  <2>1. v > Numbers!HighestOf(T) /\ v > Numbers!LowestOf(T)
    BY <1>1, <1>2
  <2>2. Numbers!RangeCheckResult(up, low) = "TYPE_OVERFLOW"
    <3>1. low
      BY <1>1, <2>1
    <3> QED
      BY <1>2, <3>1, Zenon DEF Numbers!RangeCheckResult
  <2> QED
    BY <1>1, <2>1, <2>2 DEF Judged
<1>3. CASE up /\ ~low
  <2>1. v < Numbers!LowestOf(T) /\ v <= Numbers!HighestOf(T)
    BY <1>1, <1>3
  <2>2. Numbers!RangeCheckResult(up, low) = "TYPE_UNDERFLOW"
    BY <1>3 DEF Numbers!RangeCheckResult
  <2> QED
    BY <1>1, <2>1, <2>2 DEF Judged
<1>4. CASE up /\ low
  <2>1. v >= Numbers!LowestOf(T) /\ v <= Numbers!HighestOf(T)
    BY <1>1, <1>4
  <2>2. Numbers!RangeCheckResult(up, low) = "TYPE_VALID"
    BY <1>4 DEF Numbers!RangeCheckResult
  <2> QED
    BY <1>1, <2>1, <2>2 DEF Judged
<1> QED
  BY <1>2, <1>3, <1>4

\* Whichever specialisation the types select, it answers for each value of
\* the source whether the destination holds it, and which limit it passed.
LEMMA RangeCheckIs ==
  ASSUME Numbers!NumericsAssumption, NEW dst, IsType(dst), NEW src,
         IsType(src),
         NEW v \in Numbers!Values(src)
  PROVE  Judged(Numbers!RangeCheck(dst, src, v), dst, v)
<1> DEFINE hs == Numbers!HighestOf(src)
           ls == Numbers!LowestOf(src)
           hd == Numbers!HighestOf(dst)
           ld == Numbers!LowestOf(dst)
           es == Numbers!MaxExponent(src)
           ed == Numbers!MaxExponent(dst)
<1>1. /\ hs \in Int /\ ls \in Int /\ ls <= 0 /\ 0 <= hs
      /\ hd \in Int /\ ld \in Int /\ ld <= 0 /\ 0 <= hd
      /\ Numbers!Values(src) = ls .. hs
  BY LimitsAround
<1>2. /\ es \in Nat /\ ed \in Nat
      /\ src.signed \in BOOLEAN /\ dst.signed \in BOOLEAN
      /\ Numbers!Bits(src) \in Nat /\ Numbers!Bits(dst) \in Nat
      /\ es <= ed => hs <= hd
      /\ ed <= es => hd <= hs
      /\ src.signed /\ dst.signed /\ es <= ed => ls >= ld
      /\ src.signed /\ dst.signed /\ ed <= es => ld >= ls
      /\ src.signed => es = Numbers!Bits(src) - 1
      /\ ~src.signed => es = Numbers!Bits(src)
      /\ dst.signed => ed = Numbers!Bits(dst) - 1
      /\ ~dst.signed => ed = Numbers!Bits(dst)
  BY HighestIsPower, ExponentsOrder, LimitsAre DEF IsType, Numbers!MaxExponent
<1>3. /\ src.signed \/ ls = 0
      /\ dst.signed \/ ld = 0
  BY <1>2, LimitsAre
<1>4. v \in Int /\ ls <= v /\ v <= hs
  BY <1>1
<1>5. hd <= hs => Numbers!Cast(src, hd) = hd
  <2>1. hd <= hs => hd \in Numbers!Values(src)
    BY <1>1
  <2> QED
    BY <2>1, CastKeeps
<1>6. ld >= ls => Numbers!Cast(src, ld) = ld
  <2>1. ld >= ls => ld \in Numbers!Values(src)
    BY <1>1
  <2> QED
    BY <2>1, CastKeeps
<1>7. dst.size > src.size => Numbers!Bits(dst) > Numbers!Bits(src)
  <2>1. dst.size \in Nat /\ src.size \in Nat
    BY DEF IsType
  <2>2. dst.size > src.size => src.size < dst.size
    BY <2>1
  <2>3. dst.size > src.size => Numbers!Bits(src) < Numbers!Bits(dst)
    BY <2>2, SizesOrder
  <2> QED
    BY <1>2, <2>3
<1> HIDE DEF hs, ls, hd, ld, es, ed
<1>8. CASE Numbers!StaticRangeCheck(dst, src)
  <2>1. (src.signed => dst.signed) /\ ed >= es
    BY <1>8 DEF Numbers!StaticRangeCheck, es, ed
  <2>2. es <= ed
    BY <1>2, <2>1
  <2>3. hs <= hd
    BY <1>2, <2>2
  <2>4. ld <= ls
    <3>1. CASE src.signed
      BY <1>1, <1>2, <2>1, <2>2, <3>1
    <3>2. CASE ~src.signed
      BY <1>1, <1>3, <3>2
    <3> QED
      BY <1>2, <3>1, <3>2
  <2>5. ~ (v < ld) /\ ~ (v > hd)
    BY <1>1, <1>4, <2>3, <2>4
  <2>6. Numbers!RangeCheck(dst, src, v) = "TYPE_VALID"
    BY <1>8 DEF Numbers!RangeCheck
  <2> QED
    BY <2>5, <2>6 DEF Judged, hd, ld
<1>9. CASE ~Numbers!StaticRangeCheck(dst, src)
  <2>0. (src.signed => dst.signed) => ed < es
    BY <1>2, <1>9 DEF Numbers!StaticRangeCheck, es, ed
  <2>1. CASE src.signed /\ dst.signed
    <3>1. ed <= es
      BY <1>2, <2>0, <2>1
    <3>2. Numbers!Cast(src, hd) = hd /\ Numbers!Cast(src, ld) = ld
      BY <1>2, <1>5, <1>6, <2>1, <3>1
    <3> DEFINE up == v <= Numbers!Cast(src, hd)
               low == v >= Numbers!Cast(src, ld)
    <3>3. Numbers!RangeCheck(dst, src, v) = Numbers!SignedToSigned(dst, src, v)
      BY <1>9, <2>1 DEF Numbers!RangeCheck
    <3>4. Numbers!SignedToSigned(dst, src, v)
              = Numbers!RangeCheckResult(up, low)
      BY DEF Numbers!SignedToSigned, hd, ld
    <3>5. up <=> v <= hd
      BY <3>2
    <3>6. low <=> v >= ld
      BY <3>2
    <3>7. up \in BOOLEAN /\ low \in BOOLEAN
      OBVIOUS
    <3> HIDE DEF up, low
    <3>8. Judged(Numbers!RangeCheckResult(up, low), dst, v)
      BY <1>4, <3>5, <3>6, <3>7, TestsJudge DEF hd, ld
    <3> QED
      BY <3>3, <3>4, <3>8
  <2>2. CASE src.signed /\ ~dst.signed
    <3> DEFINE up == \/ Numbers!Bits(dst) >= Numbers!Bits(src) - 1
                     \/ v <= Numbers!Cast(src, hd)
               low == v >= 0
    <3>1. Numbers!RangeCheck(dst, src, v) = Numbers!RangeCheckResult(up, low)
      BY <1>9, <2>2 DEF Numbers!RangeCheck, Numbers!SignedToUnsigned, hd
    <3>2. up <=> v <= hd
      <4>1. CASE Numbers!Bits(dst) >= Numbers!Bits(src) - 1
        <5>1. es <= ed
          BY <1>2, <2>2, <4>1
        <5>2. v <= hd
          BY <1>1, <1>2, <1>4, <5>1
        <5> QED
          BY <4>1, <5>2
      <4>2. CASE ~ (Numbers!Bits(dst) >= Numbers!Bits(src) - 1)
        <5>1. ed <= es
          BY <1>2, <2>2, <4>2
        <5>2. Numbers!Cast(src, hd) = hd
          BY <1>2, <1>5, <5>1
        <5> QED
          BY <4>2, <5>2
      <4> QED
        BY <4>1, <4>2
    <3>3. low <=> v >= ld
      BY <1>3, <2>2
    <3>4. up \in BOOLEAN /\ low \in BOOLEAN
      OBVIOUS
    <3> HIDE DEF up, low
    <3>5. Judged(Numbers!RangeCheckResult(up, low), dst, v)
      BY <1>4, <3>2, <3>3, <3>4, TestsJudge DEF hd, ld
    <3> QED
      BY <3>1, <3>5
  <2>3. CASE ~src.signed /\ dst.signed
    <3> DEFINE up == dst.size > src.size \/ v <= Numbers!Cast(src, hd)
    <3>1. Numbers!RangeCheck(dst, src, v) = Numbers!RangeCheckResult(up, TRUE)
      BY <1>9, <2>3 DEF Numbers!RangeCheck, Numbers!UnsignedToSigned, hd
    <3>2. ed < es
      BY <2>0, <2>3
    <3>3. ~ (dst.size > src.size)
      BY <1>2, <1>7, <2>3, <3>2
    <3>4. Numbers!Cast(src, hd) = hd
      BY <1>2, <1>5, <3>2
    <3>5. up <=> v <= hd
      BY <3>3, <3>4
    <3>6. TRUE <=> v >= ld
      BY <1>1, <1>3, <1>4, <2>3
    <3>7. up \in BOOLEAN
      OBVIOUS
    <3> HIDE DEF up
    <3>8. Judged(Numbers!RangeCheckResult(up, TRUE), dst, v)
      BY <1>4, <3>5, <3>6, <3>7, TestsJudge DEF hd, ld
    <3> QED
      BY <3>1, <3>8
  <2>4. CASE ~src.signed /\ ~dst.signed
    <3>1. ed < es
      BY <2>0, <2>4
    <3>2. Numbers!Cast(src, hd) = hd
      BY <1>2, <1>5, <3>1
    <3> DEFINE up == v <= Numbers!Cast(src, hd)
    <3>3. Numbers!RangeCheck(dst, src, v) = Numbers!RangeCheckResult(up, TRUE)
      BY <1>9, <2>4 DEF Numbers!RangeCheck, Numbers!UnsignedToUnsigned, hd
    <3>4. TRUE <=> v >= ld
      BY <1>1, <1>3, <1>4, <2>4
    <3>5. (up <=> v <= hd) /\ up \in BOOLEAN
      BY <3>2
    <3> HIDE DEF up
    <3>6. Judged(Numbers!RangeCheckResult(up, TRUE), dst, v)
      BY <1>4, <3>4, <3>5, TestsJudge DEF hd, ld
    <3> QED
      BY <3>3, <3>6
  <2> QED
    BY <1>2, <2>1, <2>2, <2>3, <2>4
<1> QED
  BY <1>8, <1>9

\* The number of an interval that is nearest to n.
LEMMA NearestIs ==
  ASSUME NEW a \in Int, NEW b \in Int, a <= b, NEW n \in Int
  PROVE  Numbers!Nearest(a .. b, n)
           = IF n < a THEN a ELSE IF n > b THEN b ELSE n
<1> DEFINE Near(m) == \A k \in a .. b :
                        (IF n > m THEN n - m ELSE m - n) <=
                        (IF n > k THEN n - k ELSE k - n)
           c == IF n < a THEN a ELSE IF n > b THEN b ELSE n
<1>1. c \in a .. b
  OBVIOUS
<1>2. Near(c)
  OBVIOUS
<1>3. ASSUME NEW m \in a .. b, Near(m) PROVE m = c
  <2>1. (IF n > m THEN n - m ELSE m - n) <= (IF n > c THEN n - c ELSE c - n)
    BY <1>1, <1>3
  <2> QED
    BY <1>3, <2>1
<1> HIDE DEF c
<1>4. (CHOOSE m \in a .. b : Near(m)) = c
  <2> HIDE DEF Near
  <2> QED
    BY <1>1, <1>2, <1>3
<1> QED
  BY <1>4 DEF Numbers!Nearest, c

\* A value with its type.
LEMMA TypedIs ==
  ASSUME Numbers!NumericsAssumption, NEW v \in Numbers!Typed
  PROVE  IsType(v.type) /\ v.value \in Numbers!Values(v.type)
           /\ v.value \in Int
<1>1. PICK T \in Numbers!Types : v \in [type : {T}, value : Numbers!Values(T)]
  BY DEF Numbers!Typed
<1>2. v.type = T /\ v.value \in Numbers!Values(T)
  BY <1>1
<1>3. IsType(T)
  BY DEF Numbers!Types, IsType, Numbers!NumericsAssumption
<1>4. v.value \in Int
  BY <1>2, <1>3, LimitsAround
<1> QED
  BY <1>2, <1>3, <1>4

\* What is converted is checked against the limits, or pushed to one.
LEMMA ConvertedIs ==
  ASSUME Numbers!NumericsAssumption, NEW to \in Numbers!Types,
         NEW v \in Numbers!Typed
  PROVE  /\ Numbers!checked_cast(to, v.type, v.value)
               = {v.value} \cap Numbers!Values(to)
         /\ Numbers!saturated_cast(to, v.type, v.value)
              = Numbers!Nearest(Numbers!Values(to), v.value)
<1> DEFINE n == v.value
           r == Numbers!RangeCheck(to, v.type, n)
           lo == Numbers!LowestOf(to)
           hi == Numbers!HighestOf(to)
<1>1. IsType(to)
  BY DEF Numbers!Types, IsType, Numbers!NumericsAssumption
<1>2. IsType(v.type) /\ n \in Numbers!Values(v.type) /\ n \in Int
  BY TypedIs
<1>3. /\ n < lo => r = "TYPE_UNDERFLOW"
      /\ n > hi => r = "TYPE_OVERFLOW"
      /\ n >= lo /\ n <= hi => r = "TYPE_VALID"
  <2> HIDE DEF n
  <2>1. Judged(r, to, n)
    BY <1>1, <1>2, RangeCheckIs
  <2> QED
    BY <2>1 DEF Judged
<1>4. /\ lo \in Int /\ hi \in Int /\ lo <= hi
      /\ Numbers!Values(to) = lo .. hi
  BY <1>1, LimitsAround
<1>5. n \in Numbers!Values(to) => Numbers!Cast(to, n) = n
  BY <1>1, CastKeeps
<1>6. /\ Numbers!checked_cast(to, v.type, n) = IF r = "TYPE_VALID"
           THEN {Numbers!Cast(to, n)} ELSE {}
      /\ Numbers!saturated_cast(to, v.type, n)
           = CASE r = "TYPE_VALID" -> Numbers!Cast(to, n)
               [] r = "TYPE_UNDERFLOW" -> lo
               [] r = "TYPE_OVERFLOW" -> hi
  BY DEF Numbers!checked_cast, Numbers!saturated_cast, Numbers!IsValueInRange
<1> HIDE DEF r, lo, hi, n
<1>7. Numbers!Nearest(lo .. hi, n) = IF n < lo THEN lo ELSE IF n > hi THEN hi
          ELSE n
  BY <1>2, <1>4, NearestIs
<1>8. CASE n < lo
  <2>1. r = "TYPE_UNDERFLOW" /\ ~ (n \in Numbers!Values(to))
    BY <1>2, <1>3, <1>4, <1>8
  <2>2. Numbers!saturated_cast(to, v.type, n) = lo
    BY <1>6, <2>1
  <2>3. Numbers!checked_cast(to, v.type, n) = {}
    BY <1>6, <2>1
  <2> QED
    BY <1>4, <1>7, <1>8, <2>1, <2>2, <2>3 DEF n
<1>9. CASE n > hi
  <2>1. r = "TYPE_OVERFLOW" /\ ~ (n \in Numbers!Values(to)) /\ ~ (n < lo)
    BY <1>2, <1>3, <1>4, <1>9
  <2>2. Numbers!saturated_cast(to, v.type, n) = hi
    BY <1>6, <2>1
  <2>3. Numbers!checked_cast(to, v.type, n) = {}
    BY <1>6, <2>1
  <2> QED
    BY <1>4, <1>7, <1>9, <2>1, <2>2, <2>3 DEF n
<1>10. CASE n >= lo /\ n <= hi
  <2>1. r = "TYPE_VALID" /\ n \in Numbers!Values(to) /\ ~ (n < lo)
            /\ ~ (n > hi)
    BY <1>2, <1>3, <1>4, <1>10
  <2>2. Numbers!Cast(to, n) = n
    BY <1>5, <2>1
  <2>3. Numbers!saturated_cast(to, v.type, n) = n
    BY <1>6, <2>1, <2>2
  <2>4. Numbers!checked_cast(to, v.type, n) = {n}
    BY <1>6, <2>1, <2>2
  <2> QED
    BY <1>4, <1>7, <2>1, <2>3, <2>4 DEF n
<1> QED
  BY <1>2, <1>4, <1>8, <1>9, <1>10

\* The common type of two types is a type, and does not depend on which of
\* them comes first.
LEMMA CommonIs ==
  ASSUME Numbers!NumericsAssumption, NEW S, IsType(S), NEW T, IsType(T)
  PROVE  /\ IsType(Numbers!CommonType(S, T))
         /\ Numbers!Values(Numbers!CommonType(S, T))
              = Numbers!Values(Numbers!CommonType(T, S))
<1> DEFINE p == Numbers!Promoted(S)
           q == Numbers!Promoted(T)
<1>1. IsType(Numbers!Int_)
  BY DEF Numbers!Int_, IsType, Numbers!NumericsAssumption
<1>2. IsType(p) /\ IsType(q)
  BY <1>1 DEF Numbers!Promoted
<1>3. /\ p.size \in Nat /\ q.size \in Nat
      /\ p.signed \in BOOLEAN /\ q.signed \in BOOLEAN
  BY <1>2 DEF IsType
<1>4. /\ Numbers!CommonType(S, T) = CASE p.size > q.size -> p
                              [] p.size < q.size -> q
                              [] OTHER -> IF p.signed THEN q ELSE p
      /\ Numbers!CommonType(T, S) = CASE q.size > p.size -> q
                              [] q.size < p.size -> p
                              [] OTHER -> IF q.signed THEN p ELSE q
  BY DEF Numbers!CommonType
<1> HIDE DEF p, q
<1>5. CASE p.size > q.size
  <2>1. ~ (p.size < q.size) /\ ~ (q.size > p.size) /\ q.size < p.size
    BY <1>3, <1>5
  <2> QED
    BY <1>2, <1>4, <1>5, <2>1
<1>6. CASE p.size < q.size
  <2>1. ~ (p.size > q.size) /\ q.size > p.size /\ ~ (q.size < p.size)
    BY <1>3, <1>6
  <2> QED
    BY <1>2, <1>4, <1>6, <2>1
<1>7. CASE p.size = q.size
  <2>1. /\ ~ (p.size > q.size) /\ ~ (p.size < q.size)
        /\ ~ (q.size > p.size) /\ ~ (q.size < p.size)
    BY <1>3, <1>7
  <2>2. /\ Numbers!CommonType(S, T) = IF p.signed THEN q ELSE p
        /\ Numbers!CommonType(T, S) = IF q.signed THEN p ELSE q
    BY <1>4, <2>1
  <2>3. p.signed = q.signed => Numbers!Values(p) = Numbers!Values(q)
    BY <1>7 DEF Numbers!Values, Numbers!LowestOf, Numbers!HighestOf,
       Numbers!Bits
  <2> QED
    BY <1>2, <1>3, <2>2, <2>3
<1> QED
  BY <1>3, <1>5, <1>6, <1>7

\* Comparisons are those of the integers when both operands are kept.
LEMMA ComparesIs ==
  ASSUME Numbers!NumericsAssumption, NEW S, IsType(S), NEW T, IsType(T),
         NEW a, a \in Numbers!Values(Numbers!CommonType(S, T)),
         NEW b, b \in Numbers!Values(Numbers!CommonType(T, S))
  PROVE  /\ Numbers!SafeLt(S, a, T, b) <=> a < b
         /\ Numbers!SafeGt(S, a, T, b) <=> b < a
         /\ Numbers!SafeLe(S, a, T, b) <=> a <= b
         /\ Numbers!SafeGe(S, a, T, b) <=> b <= a
<1>1. /\ IsType(Numbers!CommonType(S, T)) /\ IsType(Numbers!CommonType(T, S))
      /\ Numbers!Values(Numbers!CommonType(S, T))
           = Numbers!Values(Numbers!CommonType(T, S))
  BY CommonIs
<1>2. Numbers!Cast(Numbers!CommonType(S, T), a) = a
          /\ Numbers!Cast(Numbers!CommonType(S, T), b) = b
  BY <1>1, CastKeeps
<1>3. Numbers!Cast(Numbers!CommonType(T, S), a) = a
          /\ Numbers!Cast(Numbers!CommonType(T, S), b) = b
  BY <1>1, CastKeeps
<1> QED
  BY <1>2, <1>3 DEF Numbers!SafeLt, Numbers!SafeGt, Numbers!SafeLe,
     Numbers!SafeGe

\* Whether the comparison of two arguments keeps them.
Kept(v, w) ==
  /\ v.value \in Numbers!Values(Numbers!CommonType(v.type, w.type))
  /\ w.value \in Numbers!Values(Numbers!CommonType(w.type, v.type))

\* Of two values that the comparison keeps, the smaller and the larger.
LEMMA MinMaxIs ==
  ASSUME Numbers!NumericsAssumption, NEW to, NEW v \in Numbers!Typed,
         NEW w \in Numbers!Typed, Kept(v, w)
  PROVE  /\ Numbers!SafeMin(to, v.type, v.value, w.type, w.value)
              = Numbers!Cast(to, IF v.value < w.value THEN v.value
                  ELSE w.value)
         /\ Numbers!SafeMax(to, v.type, v.value, w.type, w.value)
              = Numbers!Cast(to, IF v.value > w.value THEN v.value
                  ELSE w.value)
<1>1. /\ IsType(v.type) /\ v.value \in Int
      /\ IsType(w.type) /\ w.value \in Int
  BY TypedIs
<1>2. /\ Numbers!SafeLt(v.type, v.value, w.type, w.value) <=> v.value < w.value
      /\ Numbers!SafeGt(v.type, v.value, w.type, w.value) <=> w.value < v.value
  BY <1>1, ComparesIs DEF Kept
<1>3. v.value > w.value <=> w.value < v.value
  BY <1>1
<1> QED
  BY <1>2, <1>3 DEF Numbers!SafeMin, Numbers!SafeMax

\* What SafeClamp is to return: the number of the interval nearest to x.
Nearby(to, x, a, b) ==
  IF a > b THEN {} ELSE {Numbers!Cast(to, Numbers!Nearest(a .. b, x))}

\* A value that is kept in the comparisons with two limits is clamped.
LEMMA ClampIs ==
  ASSUME Numbers!NumericsAssumption, NEW to, NEW v \in Numbers!Typed,
         NEW lo \in Numbers!Typed,
         NEW hi \in Numbers!Typed, Kept(v, lo), Kept(v, hi), Kept(lo, hi)
  PROVE  Numbers!SafeClamp(to, v.type, v.value, lo.type, lo.value, hi.type,
         hi.value)
           = Nearby(to, v.value, lo.value, hi.value)
<1> DEFINE x == v.value
           a == lo.value
           b == hi.value
<1>1. /\ IsType(v.type) /\ x \in Int
      /\ IsType(lo.type) /\ a \in Int
      /\ IsType(hi.type) /\ b \in Int
  BY TypedIs
<1>2. Numbers!SafeLe(lo.type, a, hi.type, b) <=> a <= b
  BY <1>1, ComparesIs DEF Kept
<1>3. Numbers!SafeLe(v.type, x, lo.type, a) <=> x <= a
  BY <1>1, ComparesIs DEF Kept
<1>4. Numbers!SafeGe(v.type, x, hi.type, b) <=> b <= x
  BY <1>1, ComparesIs DEF Kept
<1> DEFINE r == Numbers!SafeClamp(to, v.type, x, lo.type, a, hi.type, b)
<1>5. r = IF ~ (a <= b) THEN {}
          ELSE {CASE x <= a -> Numbers!Cast(to, a)
                  [] ~ (x <= a) /\ b <= x -> Numbers!Cast(to, b)
                  [] OTHER -> Numbers!Cast(to, x)}
  BY <1>2, <1>3, <1>4 DEF Numbers!SafeClamp
<1> HIDE DEF r, x, a, b
<1>6. CASE ~ (a <= b)
  <2>1. a > b
    BY <1>1, <1>6
  <2> QED
    BY <1>5, <1>6, <2>1 DEF r, x, a, b, Nearby
<1>7. CASE a <= b
  <2>0. ~ (a > b)
    BY <1>1, <1>7
  <2>1. Numbers!Nearest(a .. b, x) = IF x < a THEN a ELSE IF x > b THEN b
            ELSE x
    BY <1>1, <1>7, NearestIs
  <2>2. CASE x <= a
    <3>1. Numbers!Nearest(a .. b, x) = a
      BY <1>1, <1>7, <2>1, <2>2
    <3>2. r = {Numbers!Cast(to, a)}
      BY <1>5, <1>7, <2>2
    <3> QED
      BY <2>0, <3>1, <3>2 DEF r, x, a, b, Nearby
  <2>3. CASE ~ (x <= a) /\ b <= x
    <3>1. Numbers!Nearest(a .. b, x) = b
      BY <1>1, <1>7, <2>1, <2>3
    <3>2. r = {Numbers!Cast(to, b)}
      BY <1>5, <1>7, <2>3
    <3> QED
      BY <2>0, <3>1, <3>2 DEF r, x, a, b, Nearby
  <2>4. CASE ~ (x <= a) /\ ~ (b <= x)
    <3>1. Numbers!Nearest(a .. b, x) = x
      BY <1>1, <1>7, <2>1, <2>4
    <3>2. r = {Numbers!Cast(to, x)}
      BY <1>5, <1>7, <2>4
    <3> QED
      BY <2>0, <3>1, <3>2 DEF r, x, a, b, Nearby
  <2> QED
    BY <2>2, <2>3, <2>4
<1> QED
  BY <1>6, <1>7

\* The calls that were made, with what they returned.
Converted(to, v) ==
  [op |-> "convert", to |-> to, args |-> <<v>>,
   result |-> <<Numbers!checked_cast(to, v.type, v.value),
                {Numbers!saturated_cast(to, v.type, v.value)}>>]

Compared(to, v, w) ==
  [op |-> "minmax", to |-> to, args |-> <<v, w>>,
   result |-> <<{Numbers!SafeMin(to, v.type, v.value, w.type, w.value)},
                {Numbers!SafeMax(to, v.type, v.value, w.type, w.value)}>>]

Clamped(to, v, lo, hi) ==
  [op |-> "clamp", to |-> to, args |-> <<v, lo, hi>>,
   result |-> <<Numbers!SafeClamp(to, v.type, v.value, lo.type, lo.value,
                          hi.type, hi.value)>>]

Called(c) ==
  \/ c.op = "none"
  \/ \E to \in Numbers!Types, v \in Numbers!Typed : c = Converted(to, v)
  \/ \E to \in Numbers!Types, v, w \in Numbers!Typed : c = Compared(to, v, w)
  \/ \E to \in Numbers!Types, v, lo, hi \in Numbers!Typed :
       c = Clamped(to, v, lo, hi)

\* The properties of one call that was made.
LEMMA CalledExact ==
  ASSUME Numbers!NumericsAssumption, Called(call)
  PROVE  Numbers!ConversionsAreExact /\ Numbers!MinMaxAreMath
<1>1. CASE call.op = "none"
  BY <1>1 DEF Numbers!ConversionsAreExact, Numbers!MinMaxAreMath
<1>2. ASSUME NEW to \in Numbers!Types, NEW v \in Numbers!Typed,
             call = Converted(to, v)
      PROVE  Numbers!ConversionsAreExact /\ Numbers!MinMaxAreMath
  <2>1. /\ call.op = "convert" /\ call.to = to /\ call.args[1] = v
        /\ call.result[1] = Numbers!checked_cast(to, v.type, v.value)
        /\ call.result[2] = {Numbers!saturated_cast(to, v.type, v.value)}
    BY <1>2 DEF Converted
  <2>2. /\ call.result[1] = {v.value} \cap Numbers!Values(to)
        /\ call.result[2] = {Numbers!Nearest(Numbers!Values(to), v.value)}
    BY <2>1, ConvertedIs
  <2> QED
    BY <2>1, <2>2 DEF Numbers!ConversionsAreExact, Numbers!MinMaxAreMath
<1>3. ASSUME NEW to \in Numbers!Types, NEW v \in Numbers!Typed,
             NEW w \in Numbers!Typed,
             call = Compared(to, v, w)
      PROVE  Numbers!ConversionsAreExact /\ Numbers!MinMaxAreMath
  <2>1. /\ call.op = "minmax" /\ call.to = to
        /\ call.args = <<v, w>> /\ call.args[1] = v /\ call.args[2] = w
        /\ call.result[1]
             = {Numbers!SafeMin(to, v.type, v.value, w.type, w.value)}
        /\ call.result[2]
             = {Numbers!SafeMax(to, v.type, v.value, w.type, w.value)}
    BY <1>3 DEF Compared
  <2>2. Len(call.args) = 2
    BY <2>1
  <2>3. ASSUME Numbers!ArgsKept PROVE Kept(v, w)
    <3>1. 1 \in 1 .. Len(call.args) /\ 2 \in 1 .. Len(call.args)
      BY <2>2
    <3>2. /\ call.args[1].value
               \in Numbers!Values(Numbers!CommonType(call.args[1].type,
                 call.args[2].type))
          /\ call.args[2].value
               \in Numbers!Values(Numbers!CommonType(call.args[2].type,
                 call.args[1].type))
      BY <2>3, <3>1 DEF Numbers!ArgsKept
    <3> QED
      BY <2>1, <3>2 DEF Kept
  <2>4. ASSUME Numbers!ArgsKept
        PROVE  /\ call.result[1]
                    = {Numbers!Cast(to, IF v.value < w.value THEN v.value
                        ELSE w.value)}
               /\ call.result[2]
                    = {Numbers!Cast(to, IF v.value > w.value THEN v.value
                        ELSE w.value)}
    <3>1. Kept(v, w)
      BY <2>3, <2>4
    <3>2. /\ Numbers!SafeMin(to, v.type, v.value, w.type, w.value)
               = Numbers!Cast(to, IF v.value < w.value THEN v.value
                   ELSE w.value)
          /\ Numbers!SafeMax(to, v.type, v.value, w.type, w.value)
               = Numbers!Cast(to, IF v.value > w.value THEN v.value
                   ELSE w.value)
      BY <3>1, MinMaxIs
    <3> QED
      BY <2>1, <3>2, Zenon
  <2>5. Numbers!ConversionsAreExact
    BY <2>1 DEF Numbers!ConversionsAreExact
  <2>6. Numbers!MinMaxAreMath
    BY <2>1, <2>4 DEF Numbers!MinMaxAreMath
  <2> QED
    BY <2>5, <2>6
<1>4. ASSUME NEW to \in Numbers!Types, NEW v \in Numbers!Typed,
             NEW lo \in Numbers!Typed,
             NEW hi \in Numbers!Typed, call = Clamped(to, v, lo, hi)
      PROVE  Numbers!ConversionsAreExact /\ Numbers!MinMaxAreMath
  <2>1. /\ call.op = "clamp" /\ call.to = to
        /\ call.args = <<v, lo, hi>>
        /\ call.args[1] = v /\ call.args[2] = lo /\ call.args[3] = hi
        /\ call.result[1]
             = Numbers!SafeClamp(to, v.type, v.value, lo.type, lo.value,
                                      hi.type, hi.value)
    BY <1>4 DEF Clamped
  <2>2. Len(call.args) = 3
    BY <2>1
  <2>3. ASSUME Numbers!ArgsKept PROVE Kept(v, lo) /\ Kept(v, hi)
                 /\ Kept(lo, hi)
    <3>1. /\ 1 \in 1 .. Len(call.args) /\ 2 \in 1 .. Len(call.args)
          /\ 3 \in 1 .. Len(call.args)
      BY <2>2
    <3>2. \A i, j \in {1, 2, 3} :
            call.args[i].value
              \in Numbers!Values(Numbers!CommonType(call.args[i].type,
                call.args[j].type))
      BY <2>3, <3>1 DEF Numbers!ArgsKept
    <3> QED
      BY <2>1, <3>2 DEF Kept
  <2>4. ASSUME Numbers!ArgsKept
        PROVE  call.result[1]
                 = IF lo.value > hi.value THEN {}
                   ELSE {Numbers!Cast(to,
                     Numbers!Nearest(lo.value .. hi.value, v.value))}
    <3>1. Kept(v, lo) /\ Kept(v, hi) /\ Kept(lo, hi)
      BY <2>3, <2>4
    <3>2. Numbers!SafeClamp(to, v.type, v.value, lo.type, lo.value, hi.type,
            hi.value)
            = Nearby(to, v.value, lo.value, hi.value)
      BY <3>1, ClampIs, ZenonT(30)
    <3>3. Nearby(to, v.value, lo.value, hi.value)
            = IF lo.value > hi.value THEN {}
              ELSE {Numbers!Cast(to,
                Numbers!Nearest(lo.value .. hi.value, v.value))}
      BY DEF Nearby
    <3> QED
      BY <2>1, <3>2, <3>3, Zenon
  <2>5. Numbers!ConversionsAreExact
    BY <2>1 DEF Numbers!ConversionsAreExact
  <2>6. Numbers!MinMaxAreMath
    BY <2>1, <2>4 DEF Numbers!MinMaxAreMath
  <2> QED
    BY <2>5, <2>6
<1> QED
  BY <1>1, <1>2, <1>3, <1>4 DEF Called

\* The conversions and comparisons of numerics/ are exact for types of any
\* size: checked_cast accepts what the destination holds, saturated_cast
\* gives the nearest value, and SafeMin, SafeMax and SafeClamp are those of
\* the integers as long as the conversions of C++ keep the arguments
\* (src/numerics/safe_conversions.h:34-72, safe_minmax.h:230-357).
THEOREM NumbersAreExact ==
  ASSUME Numbers!NumericsAssumption
  PROVE  Numbers!Spec
           => [](Numbers!ConversionsAreExact /\ Numbers!MinMaxAreMath)
<1>1. Numbers!Init => Called(call)
  BY DEF Numbers!Init, Called
<1>2. Called(call) /\ [Numbers!Next]_call => Called(call)'
  <2> SUFFICES ASSUME Called(call), [Numbers!Next]_call PROVE Called(call')
    BY DEF Called, Converted, Compared, Clamped, Numbers!Types, Numbers!Typed
  <2>1. CASE Numbers!Next
    <3>1. PICK to \in Numbers!Types, v \in Numbers!Typed :
            \/ Numbers!Convert(to, v)
            \/ \E w \in Numbers!Typed : Numbers!MinMax(to, v, w)
            \/ \E lo, hi \in Numbers!Typed : lo.type = hi.type
                 /\ Numbers!Clamp(to, v, lo, hi)
      BY <2>1 DEF Numbers!Next
    <3>2. CASE Numbers!Convert(to, v)
      BY <3>2 DEF Numbers!Convert, Called, Converted
    <3>3. ASSUME NEW w \in Numbers!Typed, Numbers!MinMax(to, v, w)
          PROVE Called(call')
      BY <3>3 DEF Numbers!MinMax, Called, Compared
    <3>4. ASSUME NEW lo \in Numbers!Typed, NEW hi \in Numbers!Typed,
                 Numbers!Clamp(to, v, lo, hi)
          PROVE  Called(call')
      BY <3>4 DEF Numbers!Clamp, Called, Clamped
    <3> QED
      BY <3>1, <3>2, <3>3, <3>4
  <2>2. CASE call' = call
    BY <2>2
  <2> QED
    BY <2>1, <2>2
<1>3. Called(call) => Numbers!ConversionsAreExact /\ Numbers!MinMaxAreMath
  BY CalledExact
<1> QED
  BY <1>1, <1>2, <1>3, PTL DEF Numbers!Spec

-----------------------------------------------------------------------------
(* Random numbers.                                                         *)

\* A word holds at least two numbers, and the state a word times a word.
LEMMA WordSizes ==
  ASSUME Draws!RandomAssumption
  PROVE  /\ RandomBits \in Nat /\ 2 * RandomBits \in Nat
         /\ Draws!Word \in Nat /\ Draws!Word >= 2 /\ Draws!Word # 0
         /\ Draws!StateSize \in Nat \ {0}
         /\ Multiplier \in Nat
         /\ ShiftA \in Nat /\ ShiftA >= 1
         /\ ShiftB \in Nat /\ ShiftB >= 1
         /\ ShiftC \in Nat /\ ShiftC >= 1
<1>1. /\ RandomBits \in Nat /\ RandomBits # 0 /\ 2 * RandomBits \in Nat
      /\ Multiplier \in Nat
      /\ ShiftA \in Nat /\ ShiftA >= 1
      /\ ShiftB \in Nat /\ ShiftB >= 1
      /\ ShiftC \in Nat /\ ShiftC >= 1
  BY DEF Draws!RandomAssumption
<1>2. Draws!Word = 2 * Draws!Pow2[RandomBits - 1]
  BY <1>1, Facts!PowIs, SamePowers DEF Draws!Word
<1>3. Draws!Pow2[RandomBits - 1] \in Nat /\ Draws!Pow2[RandomBits - 1] >= 1
  <2>1. RandomBits - 1 \in Nat
    BY <1>1
  <2> QED
    BY <2>1, Facts!PowNat, SamePowers
<1>4. Draws!Word \in Nat /\ Draws!Word >= 2 /\ Draws!Word # 0
  BY <1>2, <1>3
<1>5. Draws!Word * Draws!Word \in Nat /\ Draws!Word * Draws!Word >= Draws!Word
  BY <1>4, Facts!ProductGrows
<1>6. Draws!StateSize \in Nat \ {0}
  BY <1>4, <1>5 DEF Draws!StateSize
<1> QED
  BY <1>1, <1>4, <1>6

\* The highest one bit stays when lower ones are changed.
LEMMA RightKeeps ==
  ASSUME NEW s \in SUBSET Nat, s \subseteq Draws!StateBits, s # {},
         2 * RandomBits \in Nat, NEW n \in Nat, n >= 1
  PROVE  Draws!Xor(s, Draws!Right(s, n)) # {}
           /\ Draws!Xor(s, Draws!Right(s, n)) \subseteq Draws!StateBits
<1> DEFINE N == 2 * RandomBits
           T == {N - i : i \in s}
<1>0. Draws!StateBits = 0 .. N - 1 /\ N \in Nat
  BY DEF Draws!StateBits
<1> HIDE DEF N
<1>1. T \subseteq Nat /\ T # {}
  <2>1. ASSUME NEW i \in s PROVE N - i \in Nat
    <3>1. i \in 0 .. N - 1
      BY <1>0
    <3> QED
      BY <1>0, <3>1
  <2> QED
    BY <2>1
<1>2. PICK x \in T : \A y \in T : x <= y
  BY <1>1, Facts!LeastElement
<1>3. PICK h \in s : x = N - h
  BY <1>2
<1>4. \A i \in s : i <= h
  <2> TAKE i \in s
  <2>1. N - i \in T
    OBVIOUS
  <2>2. N - h <= N - i /\ i \in Nat /\ h \in Nat
    BY <1>2, <1>3, <2>1
  <2> QED
    BY <1>0, <2>2
<1> HIDE DEF T
<1>5. ~ (h \in Draws!Right(s, n))
  <2> SUFFICES ASSUME h \in Draws!Right(s, n) PROVE FALSE
    OBVIOUS
  <2>1. PICK i \in s : h = i - n
    BY DEF Draws!Right
  <2>2. i \in Nat /\ h \in Nat /\ i <= h
    BY <1>4
  <2> QED
    BY <2>1, <2>2
<1>6. h \in Draws!Xor(s, Draws!Right(s, n))
  BY <1>3, <1>5 DEF Draws!Xor
<1> QED
  BY <1>6 DEF Draws!Xor, Draws!Right

\* The lowest one bit stays when higher ones are changed.
LEMMA LeftKeeps ==
  ASSUME NEW s \in SUBSET Nat, s \subseteq Draws!StateBits, s # {},
         2 * RandomBits \in Nat, NEW n \in Nat, n >= 1
  PROVE  Draws!Xor(s, Draws!Left(s, n)) # {}
           /\ Draws!Xor(s, Draws!Left(s, n)) \subseteq Draws!StateBits
<1>1. PICK l \in s : \A i \in s : l <= i
  BY Facts!LeastElement
<1>2. ~ (l \in Draws!Left(s, n))
  <2> SUFFICES ASSUME l \in Draws!Left(s, n) PROVE FALSE
    OBVIOUS
  <2>1. PICK i \in s : l = i + n
    BY DEF Draws!Left
  <2>2. i \in Nat /\ l \in Nat /\ l <= i
    BY <1>1
  <2> QED
    BY <2>1, <2>2
<1>3. l \in Draws!Xor(s, Draws!Left(s, n))
  BY <1>1, <1>2 DEF Draws!Xor
<1> QED
  BY <1>3 DEF Draws!Xor, Draws!Left

\* NextOutput keeps the state from becoming zero.
LEMMA StepKeeps ==
  ASSUME Draws!RandomAssumption, NEW s \in (SUBSET Draws!StateBits) \ {{}}
  PROVE  Draws!Step(s) \in (SUBSET Draws!StateBits) \ {{}}
<1> DEFINE a == Draws!Xor(s, Draws!Right(s, ShiftA))
           b == Draws!Xor(a, Draws!Left(a, ShiftB))
<1>1. /\ 2 * RandomBits \in Nat
      /\ ShiftA \in Nat /\ ShiftA >= 1
      /\ ShiftB \in Nat /\ ShiftB >= 1
      /\ ShiftC \in Nat /\ ShiftC >= 1
  BY WordSizes
<1>2. Draws!StateBits \subseteq Nat
  BY <1>1 DEF Draws!StateBits
<1>0. Draws!Step(s) = Draws!Xor(b, Draws!Right(b, ShiftC))
  BY DEF Draws!Step
<1>3. a # {} /\ a \subseteq Draws!StateBits
  <2>1. s \in SUBSET Nat /\ s \subseteq Draws!StateBits /\ s # {}
    BY <1>2
  <2> QED
    BY <1>1, <2>1, RightKeeps
<1> HIDE DEF a
<1>4. b # {} /\ b \subseteq Draws!StateBits
  <2>1. a \in SUBSET Nat
    BY <1>2, <1>3
  <2> QED
    BY <1>1, <1>3, <2>1, LeftKeeps
<1> HIDE DEF b
<1>5. Draws!Xor(b, Draws!Right(b, ShiftC)) # {}
          /\ Draws!Xor(b, Draws!Right(b, ShiftC)) \subseteq Draws!StateBits
  <2>1. b \in SUBSET Nat
    BY <1>2, <1>4
  <2> QED
    BY <1>1, <1>4, <2>1, RightKeeps
<1> QED
  BY <1>0, <1>5

\* The one bits of a state spell an integer.
LEMMA NumberOfIs ==
  ASSUME Draws!RandomAssumption, NEW s
  PROVE  Draws!NumberOf(s) \in Int
<1> DEFINE n == 2 * RandomBits
           G(i, y) == y + (IF i - 1 \in s THEN Draws!Pow2[i - 1] ELSE 0)
           F == [x \in (1 .. n) \X Int |-> G(x[1], x[2])]
           f == CHOOSE u : u
               = [i \in 0 .. n |-> IF i = 0 THEN 0 ELSE G(i, u[i - 1])]
<1>1. n \in Nat
  BY WordSizes
<1>2. \A i \in 1 .. n, y \in Int : G(i, y) \in Int
  <2> TAKE i \in 1 .. n, y \in Int
  <2>1. i - 1 \in Nat
    BY <1>1
  <2>2. Draws!Pow2[i - 1] \in Int
    BY <2>1, Facts!PowNat, SamePowers
  <2> QED
    BY <2>2
<1>3. Draws!NumberOf(s) = f[n]
  BY DEF Draws!NumberOf
<1>4. F \in [(1 .. n) \X Int -> Int] /\ \A i \in 1 .. n,
        y \in Int : F[<<i, y>>] = G(i, y)
  <2> HIDE DEF G, n
  <2> QED
    BY <1>2
<1> HIDE DEF F, G, n
<1>5. PICK v : Facts!Solves(v, n, Int, 0, F)
  <2>1. 0 \in Int
    OBVIOUS
  <2>2. \A a \in Int : \E v : Facts!Solves(v, n, Int, a, F)
    BY <1>1, <1>4, Facts!Recursion, Zenon
  <2> QED
    BY <2>1, <2>2
<1>6. v \in [0 .. n -> Int] /\ v[0] = 0
          /\ \A i \in 1 .. n : v[i] = F[<<i, v[i - 1]>>]
  BY <1>5 DEF Facts!Solves
<1>7. v = [i \in 0 .. n |-> IF i = 0 THEN 0 ELSE G(i, v[i - 1])]
  <2>1. ASSUME NEW i \in 0 .. n, i # 0 PROVE v[i] = G(i, v[i - 1])
    <3>1. i \in 1 .. n /\ i - 1 \in 0 .. n
      BY <1>1, <2>1
    <3>2. v[i - 1] \in Int
      BY <1>6, <3>1
    <3> QED
      BY <1>4, <1>6, <3>1, <3>2
  <2>2. \A i \in 0 .. n : v[i] = IF i = 0 THEN 0 ELSE G(i, v[i - 1])
    BY <1>6, <2>1
  <2> QED
    BY <1>6, <2>2
<1>8. f = [i \in 0 .. n |-> IF i = 0 THEN 0 ELSE G(i, f[i - 1])]
  BY <1>7
<1> HIDE DEF f
<1>9. \A i \in 0 .. n : f[i] = v[i]
  <2>1. 0 \in 0 .. n
    BY <1>1
  <2>2. f[0] = v[0]
    BY <1>6, <1>8, <2>1
  <2>3. ASSUME NEW i \in 1 .. n, f[i - 1] = v[i - 1] PROVE f[i] = v[i]
    <3>1. i \in 0 .. n /\ i # 0
      BY <1>1
    <3>2. f[i] = G(i, f[i - 1])
      BY <1>8, <3>1
    <3>3. v[i] = G(i, v[i - 1])
      BY <1>7, <3>1
    <3> QED
      BY <2>3, <3>2, <3>3
  <2> QED
    BY <1>1, <2>2, <2>3, Facts!SameSolution
<1>10. n \in 0 .. n
  BY <1>1
<1> QED
  BY <1>3, <1>6, <1>9, <1>10

\* What is drawn is cut to a word.
LEMMA OutputIs ==
  ASSUME Draws!RandomAssumption
  PROVE  Draws!Output \in 0 .. Draws!Word - 1
<1>1. /\ Draws!Word \in Nat \ {0} /\ Draws!StateSize \in Nat \ {0}
           /\ Multiplier \in Nat
  BY WordSizes
<1>2. Draws!NumberOf(Draws!Step(state_)) * Multiplier \in Int
  BY <1>1, NumberOfIs
<1> DEFINE x == Draws!NumberOf(Draws!Step(state_)) * Multiplier
<1> HIDE DEF x
<1>3. (x % Draws!StateSize) \in Int
  BY <1>1, <1>2 DEF x
<1>4. ((x % Draws!StateSize) % Draws!Word) \in 0 .. (Draws!Word - 1)
  <2> DEFINE y == x % Draws!StateSize
  <2> HIDE DEF y
  <2>1. y \in Int
    BY <1>3 DEF y
  <2>2. (y % Draws!Word) \in 0 .. (Draws!Word - 1)
    BY <1>1, <2>1
  <2> QED
    BY <2>2 DEF y
<1> QED
  BY <1>4 DEF Draws!Output, x

\* A quotient that is between bounds.
LEMMA QuotientIs ==
  ASSUME NEW n \in Nat \ {0}, NEW x \in Int, NEW q \in Int,
         n * q <= x, x < n * q + n
  PROVE  x \div n = q
<1> DEFINE r == x - n * q
<1>1. n * q \in Int
  OBVIOUS
<1>2. r \in 0 .. (n - 1) /\ x = n * q + r
  BY <1>1
<1> HIDE DEF r
<1> QED
  BY <1>2, Facts!DivisionIs

\* Scaling a word to t + 1 values leaves it a product that fits.
LEMMA ScaledIs ==
  ASSUME Draws!RandomAssumption, NEW x \in 0 .. Draws!Word - 1,
         NEW t \in 0 .. Draws!Word - 1
  PROVE  /\ Draws!Scaled(x, t) = (x * (t + 1)) \div Draws!Word
         /\ Draws!Scaled(x, t) \in 0 .. t
<1> DEFINE y == x * (t + 1)
           q == y \div Draws!Word
<1>1. Draws!Word \in Nat /\ Draws!Word >= 2 /\ Draws!StateSize \in Nat \ {0}
          /\ Draws!Word # 0
  BY WordSizes
<1>2. y \in Nat /\ y <= (Draws!Word - 1) * (t + 1)
  <2>1. x \in Nat /\ t + 1 \in Nat /\ x <= Draws!Word - 1
    BY <1>1
  <2>2. \A a, b, c \in Nat : a <= b => a * c <= b * c
    OBVIOUS
  <2>3. Draws!Word - 1 \in Nat
    BY <1>1
  <2>4. x * (t + 1) <= (Draws!Word - 1) * (t + 1)
    BY <2>1, <2>2, <2>3
  <2> QED
    BY <2>1, <2>4
<1>3. (Draws!Word - 1) * (t + 1) = Draws!Word * (t + 1) - (t + 1)
          /\ Draws!Word * (t + 1) \in Nat
  BY <1>1
<1>4. y < Draws!Word * (t + 1)
  BY <1>1, <1>2, <1>3
<1>5. Draws!Word * (t + 1) <= Draws!StateSize
  <2>1. \A a, b, c \in Nat : a <= b => c * a <= c * b
    OBVIOUS
  <2>2. t + 1 \in Nat /\ t + 1 <= Draws!Word
    BY <1>1
  <2> QED
    BY <1>1, <2>1, <2>2 DEF Draws!StateSize
<1> HIDE DEF y
<1>6. y \in 0 .. (Draws!StateSize - 1)
  BY <1>1, <1>2, <1>3, <1>4, <1>5
<1>7. y % Draws!StateSize = y
  BY <1>1, <1>6, Facts!ModOf
<1>8. q \in Nat /\ q <= t
  <2>1. q \in Int /\ (y % Draws!Word) \in 0 .. (Draws!Word - 1)
            /\ y = (Draws!Word * q) + (y % Draws!Word)
    BY <1>1, <1>2, Facts!DivMod
  <2> HIDE DEF q
  <2>2. Draws!Word * q < Draws!Word * (t + 1)
            /\ Draws!Word * q > Draws!Word * (-1)
    BY <1>1, <1>2, <1>3, <1>4, <2>1
  <2>3. ~ (q >= t + 1)
    <3> SUFFICES ASSUME q - (t + 1) >= 0 PROVE FALSE
      BY <2>1
    <3>1. Draws!Word * (q - (t + 1)) >= 0
      <4>1. q - (t + 1) \in Nat
        BY <2>1
      <4> QED
        BY <1>1, <4>1
    <3>2. Draws!Word * (q - (t + 1)) = Draws!Word * q - Draws!Word * (t + 1)
      BY <1>1, <2>1
    <3> QED
      BY <1>1, <1>3, <2>1, <2>2, <3>1, <3>2
  <2>4. ~ (q < 0)
    <3> SUFFICES ASSUME -1 - q >= 0 PROVE FALSE
      BY <2>1
    <3>1. Draws!Word * (-1 - q) >= 0
      <4>1. -1 - q \in Nat
        BY <2>1
      <4> QED
        BY <1>1, <4>1
    <3>2. Draws!Word * (-1 - q) = Draws!Word * (-1) - Draws!Word * q
      BY <1>1, <2>1
    <3> QED
      BY <1>1, <2>1, <2>2, <3>1, <3>2
  <2> QED
    BY <2>1, <2>3, <2>4
<1>9. Draws!Scaled(x, t) = q
  BY <1>7 DEF Draws!Scaled, y
<1> HIDE DEF q
<1>10. q \in 0 .. t
  BY <1>8
<1>11. q = (x * (t + 1)) \div Draws!Word
  BY DEF q, y
<1> QED
  BY <1>9, <1>10, <1>11

\* Each number up to t is that of some word: the first whose product reaches
\* its multiple of a word.
LEMMA ScaledReaches ==
  ASSUME Draws!RandomAssumption, NEW t \in 0 .. Draws!Word - 1,
         NEW d \in 0 .. t
  PROVE  \E x \in 0 .. Draws!Word - 1 : Draws!Scaled(x, t) = d
<1> DEFINE m == t + 1
           z == Draws!Word * d + t
           x == z \div m
           r == z % m
<1>1. Draws!Word \in Nat /\ Draws!Word >= 2 /\ Draws!Word # 0
  BY WordSizes
<1>2. m \in Nat \ {0} /\ t \in Nat /\ t <= Draws!Word - 1 /\ d \in Nat
          /\ d <= t
  BY <1>1
<1>3. Draws!Word * d \in Nat /\ z \in Nat
  BY <1>1, <1>2
<1>4. x \in Int /\ r \in 0 .. (m - 1) /\ z = (m * x) + r
  <2> HIDE DEF m, z
  <2> QED
    BY <1>2, <1>3, Facts!DivMod
<1> HIDE DEF x, r
<1>5. m * x \in Int /\ Draws!Word * d <= m * x /\ m * x <= Draws!Word * d + t
  BY <1>1, <1>2, <1>3, <1>4
<1>6. x * (t + 1) = m * x
  BY <1>2, <1>4
<1>7. x \in 0 .. Draws!Word - 1
  <2>1. ~ (x < 0)
    <3> SUFFICES ASSUME -1 - x >= 0 PROVE FALSE
      BY <1>4
    <3>1. -1 - x \in Nat
      BY <1>4
    <3>2. m * (-1 - x) >= 0
      BY <1>2, <3>1
    <3>3. m * (-1 - x) = -m - m * x
      BY <1>2, <1>4
    <3> QED
      BY <1>2, <1>3, <1>5, <3>2, <3>3
  <2>2. ~ (x >= Draws!Word)
    <3> SUFFICES ASSUME x - Draws!Word >= 0 PROVE FALSE
      BY <1>1, <1>4
    <3>1. x - Draws!Word \in Nat
      BY <1>1, <1>4
    <3>2. m * (x - Draws!Word) >= 0
      BY <1>2, <3>1
    <3>3. m * (x - Draws!Word) = m * x - (Draws!Word * t + Draws!Word)
      BY <1>1, <1>2, <1>4
    <3>4. Draws!Word * d <= Draws!Word * t
      <4>1. \A a, b, c \in Nat : a <= b => c * a <= c * b
        OBVIOUS
      <4> QED
        BY <1>1, <1>2, <4>1
    <3>5. Draws!Word * t \in Nat
      BY <1>1, <1>2
    <3> QED
      BY <1>1, <1>2, <1>3, <1>5, <3>2, <3>3, <3>4, <3>5
  <2> QED
    BY <1>1, <1>4, <2>1, <2>2
<1>8. Draws!Scaled(x, t) = (x * (t + 1)) \div Draws!Word
  BY <1>7, ScaledIs
<1>9. (x * (t + 1)) \div Draws!Word = d
  <2> DEFINE y == x * (t + 1)
  <2>1. y \in Int /\ Draws!Word * d <= y /\ y < Draws!Word * d + Draws!Word
    BY <1>1, <1>2, <1>3, <1>5, <1>6
  <2> HIDE DEF y
  <2>2. y \div Draws!Word = d
    BY <1>1, <1>2, <2>1, QuotientIs
  <2> QED
    BY <2>2 DEF y
<1> QED
  BY <1>7, <1>8, <1>9

\* What was drawn, in and all over the range that was asked for.
DrawnInv ==
  /\ state_ \in (SUBSET Draws!StateBits) \ {{}}
  /\ drawn.low \in Int /\ drawn.high \in Int
  /\ drawn.high - drawn.low \in 0 .. Draws!Word - 1
  /\ drawn.value \in drawn.low .. drawn.high

\* The invariant says more than the property.
LEMMA DrawnFill ==
  ASSUME Draws!RandomAssumption, DrawnInv
  PROVE  Draws!DrawsFillTheirRange
<1> DEFINE t == drawn.high - drawn.low
<1>1. ASSUME NEW v \in drawn.low .. drawn.high
      PROVE  \E x \in 0 .. Draws!Word - 1 : v
               = Draws!Scaled(x, drawn.high - drawn.low) + drawn.low
  <2>1. t \in 0 .. Draws!Word - 1 /\ v - drawn.low \in 0 .. t
    BY <1>1 DEF DrawnInv
  <2> DEFINE d == v - drawn.low
  <2>2. d \in 0 .. t
    BY <2>1
  <2> HIDE DEF t
  <2>3. PICK x \in 0 .. Draws!Word - 1 : Draws!Scaled(x, t) = d
    <3> HIDE DEF d
    <3> QED
      BY <2>1, <2>2, ScaledReaches
  <2>4. v = d + drawn.low
    BY <1>1 DEF DrawnInv
  <2> QED
    BY <2>3, <2>4 DEF t
<1> DEFINE D == {Draws!Scaled(x, drawn.high - drawn.low) + drawn.low :
                   x \in 0 .. Draws!Word - 1}
<1>2. drawn.low .. drawn.high \subseteq D
  BY <1>1
<1>3. state_ # {} /\ drawn.value \in drawn.low .. drawn.high
  BY DEF DrawnInv
<1> QED
  BY <1>2, <1>3, Zenon DEF Draws!DrawsFillTheirRange

\* A draw from a range of at most a word's numbers.
Asked(low, high) ==
  low \in Int /\ high \in Int /\ (high - low) \in 0 .. Draws!Word - 1

\* The draws from low .. high as they are scaled.
LEMMA ScaledInRange ==
  ASSUME Draws!RandomAssumption, NEW low, NEW high, Asked(low, high),
         NEW x \in 0 .. Draws!Word - 1
  PROVE  Draws!FromSignedRange(x, low, high) \in low .. high
<1> DEFINE t == high - low
<1>1. t \in 0 .. Draws!Word - 1 /\ low \in Int /\ high \in Int
  BY DEF Asked
<1> HIDE DEF t
<1>2. Draws!Scaled(x, t) \in 0 .. t
  BY <1>1, ScaledIs
<1>3. Draws!Scaled(x, t) + low \in low .. high
  BY <1>1, <1>2 DEF t
<1> QED
  BY <1>3 DEF Draws!FromSignedRange, t

\* In a word, where low .. high is one of its ranges, nothing wraps.
LEMMA UnsignedInRange ==
  ASSUME Draws!RandomAssumption, NEW low \in 0 .. Draws!Word - 1,
         NEW high \in 0 .. Draws!Word - 1,
         low <= high, NEW x \in 0 .. Draws!Word - 1
  PROVE  Asked(low, high) /\ Draws!FromRange(x, low, high) \in low .. high
<1> DEFINE t == high - low
<1>1. Draws!Word \in Nat \ {0} /\ Draws!Word >= 2
  BY WordSizes
<1>2. t \in 0 .. Draws!Word - 1 /\ t \in 0 .. (Draws!Word - 1)
  BY <1>1
<1>3. Asked(low, high)
  BY <1>1, <1>2 DEF Asked
<1> HIDE DEF t
<1>4. t % Draws!Word = t
  BY <1>1, <1>2, Facts!ModOf
<1>5. Draws!Scaled(x, t) \in 0 .. t
  BY <1>2, ScaledIs
<1> DEFINE y == Draws!Scaled(x, t) + low
<1>6. y \in low .. high /\ y \in 0 .. (Draws!Word - 1)
  BY <1>1, <1>5 DEF t
<1>7. y % Draws!Word = y
  <2> HIDE DEF y
  <2> QED
    BY <1>1, <1>6, Facts!ModOf
<1>8. Draws!FromRange(x, low, high) = y
  BY <1>4, <1>7 DEF Draws!FromRange, t
<1> QED
  BY <1>3, <1>6, <1>8

\* A draw from a range that was asked for, of a value in it.
LEMMA DrawKeeps ==
  ASSUME Draws!RandomAssumption, DrawnInv, NEW low, NEW high, Asked(low, high),
         NEW v \in low .. high, Draws!Draw(low, high, v)
  PROVE  DrawnInv'
<1>1. state_' \in (SUBSET Draws!StateBits) \ {{}}
  BY StepKeeps DEF DrawnInv, Draws!Draw
<1>2. drawn'.low = low /\ drawn'.high = high /\ drawn'.value = v
  BY DEF Draws!Draw
<1> QED
  BY <1>1, <1>2 DEF DrawnInv, Asked, Draws!StateBits, Draws!Word

\* Random draws what it was asked for, for every size of a word: its state is
\* never zero, and Rand is in the range and reaches all of it
\* (src/random.h:66-73, src/random.cc:24-47).
THEOREM DrawsAreInRange ==
  ASSUME Draws!RandomAssumption
  PROVE  Draws!Spec => []Draws!DrawsFillTheirRange
<1>0. Draws!Word \in Nat \ {0} /\ Draws!Word >= 2
  BY WordSizes
<1>1. Draws!Init => DrawnInv
  <2> SUFFICES ASSUME Draws!Init PROVE DrawnInv
    OBVIOUS
  <2>1. drawn.low = 0 /\ drawn.high = 0 /\ drawn.value = 0
    BY DEF Draws!Init
  <2>2. 0 \in 0 .. Draws!Word - 1 /\ 0 - 0 = 0
    BY <1>0
  <2> QED
    BY <2>1, <2>2 DEF Draws!Init, DrawnInv
<1>2. DrawnInv /\ [Draws!Next]_<<state_, drawn>> => DrawnInv'
  <2> SUFFICES ASSUME DrawnInv, [Draws!Next]_<<state_, drawn>> PROVE DrawnInv'
    OBVIOUS
  <2>0. Draws!Output \in 0 .. Draws!Word - 1
    BY OutputIs
  <2>1. CASE Draws!RandUpTo
    <3>1. PICK t \in 0 .. Draws!Word - 1 : Draws!Draw(0, t,
               Draws!Scaled(Draws!Output, t))
      BY <2>1 DEF Draws!RandUpTo
    <3>2. Draws!Scaled(Draws!Output, t) \in 0 .. t
      BY <2>0, ScaledIs
    <3>3. Asked(0, t)
      BY <1>0 DEF Asked
    <3> QED
      BY <3>1, <3>2, <3>3, DrawKeeps
  <2>2. CASE Draws!RandUnsigned
    <3>1. PICK low \in 0 .. Draws!Word - 1, high \in 0 .. Draws!Word - 1 :
            low <= high
                /\ Draws!Draw(low, high,
                   Draws!FromRange(Draws!Output, low, high))
      BY <2>2 DEF Draws!RandUnsigned
    <3>2. Asked(low, high)
              /\ Draws!FromRange(Draws!Output, low, high) \in low .. high
      BY <2>0, <3>1, UnsignedInRange
    <3> QED
      BY <3>1, <3>2, DrawKeeps
  <2>3. CASE Draws!RandSigned
    <3>1. PICK low \in Draws!Signed, high \in Draws!Signed :
            low <= high
                /\ Draws!Draw(low, high,
                   Draws!FromSignedRange(Draws!Output, low, high))
      BY <2>3 DEF Draws!RandSigned
    <3>2. Asked(low, high)
      <4>1. Draws!Word \div 2 \in Nat /\ 2 * (Draws!Word \div 2) <= Draws!Word
        BY <1>0
      <4> DEFINE h == Draws!Word \div 2
      <4>2. low \in -h .. h - 1 /\ high \in -h .. h - 1
        BY <3>1 DEF Draws!Signed
      <4> HIDE DEF h
      <4>3. h \in Nat /\ 2 * h <= Draws!Word
        BY <4>1 DEF h
      <4> QED
        BY <1>0, <3>1, <4>2, <4>3 DEF Asked
    <3>3. Draws!FromSignedRange(Draws!Output, low, high) \in low .. high
      BY <2>0, <3>2, ScaledInRange
    <3> QED
      BY <3>1, <3>2, <3>3, DrawKeeps
  <2>4. CASE Draws!RandBool
    <3>1. Draws!Draw(0, 1, Draws!FromSignedRange(Draws!Output, 0, 1))
      BY <2>4 DEF Draws!RandBool
    <3>2. Asked(0, 1)
      BY <1>0 DEF Asked
    <3>3. Draws!FromSignedRange(Draws!Output, 0, 1) \in 0 .. 1
      BY <2>0, <3>2, ScaledInRange
    <3> QED
      BY <3>1, <3>2, <3>3, DrawKeeps
  <2>5. CASE Draws!RandWhole
    <3>1. Draws!Draw(0, Draws!Word - 1, Draws!Output)
      BY <2>5 DEF Draws!RandWhole
    <3>2. Asked(0, Draws!Word - 1)
      BY <1>0 DEF Asked
    <3> QED
      BY <2>0, <3>1, <3>2, DrawKeeps
  <2>6. CASE UNCHANGED <<state_, drawn>>
    BY <2>6 DEF DrawnInv
  <2> QED
    BY <2>1, <2>2, <2>3, <2>4, <2>5, <2>6 DEF Draws!Next
<1>3. DrawnInv => Draws!DrawsFillTheirRange
  BY DrawnFill
<1> QED
  BY <1>1, <1>2, <1>3, PTL DEF Draws!Spec

-----------------------------------------------------------------------------
(* All of them.                                                            *)

\* A behaviour of Data is one of each component.
LEMMA DataRuns ==
  DataSpec =>
    Spec /\ Bits!Spec /\ Times!Spec /\ Numbers!Spec /\ Draws!Spec
<1>1. DataInit =>
        Init /\ Bits!Init /\ Times!Init /\ Numbers!Init /\ Draws!Init
  BY DEF DataInit
<1> USE DEF DataNext, data_vars
<1>2. [DataNext]_data_vars => [Next]_vars
  OBVIOUS
<1>3. [DataNext]_data_vars => [Bits!Next]_buf
  BY DEF bits_vars
<1>4. [DataNext]_data_vars => [Times!NextDay]_(Times!vars)
  BY DEF times_vars, Times!vars
<1>5. [DataNext]_data_vars => [Numbers!Next]_call
  BY DEF numbers_vars
<1>6. [DataNext]_data_vars => [Draws!Next]_<<state_, drawn>>
  BY DEF random_vars
<1> QED
  BY <1>1, <1>2, <1>3, <1>4, <1>5, <1>6, PTL
  DEF DataSpec, Spec, Bits!Spec, Times!Spec, Numbers!Spec, Draws!Spec

\* The bit buffer of Data is that of BitBufferProofs: what one defines, the
\* other defines with other names.
LEMMA SameBits ==
  /\ Bits!Spec <=> Facts!Spec
  /\ Bits!TypeOK <=> Facts!TypeOK
  /\ Bits!ReadsWhatIsSpelled <=> Facts!ReadsWhatIsSpelled
  /\ Bits!WrittenIsRead <=> Facts!WrittenIsRead
  /\ Bits!BitBufferAssumption <=> Facts!BitBufferAssumption
<1>1. Bits!Pow2 = Facts!Pow2
  BY DEF Bits!Pow2, Facts!Pow2
<1>2. \A b, n : Bits!ConsumeBits(b, n) = Facts!ConsumeBits(b, n)
  BY DEF Bits!ConsumeBits, Facts!ConsumeBits,
      Bits!RemainingBitCount, Facts!RemainingBitCount,
      Bits!Fail, Facts!Fail,
      Bits!Failed, Facts!Failed,
      Bits!Done, Facts!Done
<1>3. \A b : Bits!AfterZeros(b) = Facts!AfterZeros(b)
  BY DEF Bits!AfterZeros, Facts!AfterZeros,
      Bits!PeekBits, Facts!PeekBits,
      Bits!PeekValue, Facts!PeekValue,
      Bits!LowestBits, Facts!LowestBits,
      Bits!HighestBits, Facts!HighestBits,
      Bits!UInt8, Facts!UInt8,
      Bits!UInt32, Facts!UInt32,
      Bits!ConsumeBits, Facts!ConsumeBits,
      Bits!RemainingBitCount, Facts!RemainingBitCount,
      Bits!Fail, Facts!Fail,
      Bits!Failed, Facts!Failed,
      Bits!Done, Facts!Done,
      Bits!Pow2, Facts!Pow2
<1>4. \A b, n : Bits!ReadBits(b, n) = Facts!ReadBits(b, n)
  <2> TAKE b, n
  <2>1. Bits!PeekValue(b, n) = Facts!PeekValue(b, n)
    BY DEF Bits!PeekValue, Facts!PeekValue,
        Bits!LowestBits, Facts!LowestBits,
        Bits!HighestBits, Facts!HighestBits,
        Bits!UInt8, Facts!UInt8,
        Bits!UInt32, Facts!UInt32,
        Bits!Pow2, Facts!Pow2
  <2>2. Bits!PeekBits(b, n) = Facts!PeekBits(b, n)
    BY <2>1 DEF Bits!PeekBits, Facts!PeekBits,
        Bits!RemainingBitCount, Facts!RemainingBitCount,
        Bits!Fail, Facts!Fail,
        Bits!Failed, Facts!Failed,
        Bits!Done, Facts!Done
  <2> QED
    BY <1>2, <2>2 DEF Bits!ReadBits, Facts!ReadBits,
        Bits!Done, Facts!Done
<1>5. \A b, x, n : Bits!WriteBits(b, x, n) = Facts!WriteBits(b, x, n)
  <2> TAKE b, x, n
  <2> QED
    BY DEF Bits!WriteBits, Facts!WriteBits,
        Bits!WritePartialByte, Facts!WritePartialByte,
        Bits!HighestByte, Facts!HighestByte,
        Bits!LowestBits, Facts!LowestBits,
        Bits!UInt64, Facts!UInt64,
        Bits!ConsumeBits, Facts!ConsumeBits,
        Bits!RemainingBitCount, Facts!RemainingBitCount,
        Bits!Fail, Facts!Fail,
        Bits!Failed, Facts!Failed,
        Bits!Done, Facts!Done,
        Bits!Pow2, Facts!Pow2
<1>6. \A x : Bits!CountBits(x) = Facts!CountBits(x)
  BY Zenon DEF Bits!CountBits, Facts!CountBits, Bits!Pow2, Facts!Pow2
<1>7. \A b, i, j : Bits!Seek(b, i, j) = Facts!Seek(b, i, j)
  BY Zenon DEF Bits!Seek, Facts!Seek, Bits!Fail, Facts!Fail,
      Bits!Done, Facts!Done,
      Bits!Failed, Facts!Failed
<1>8. /\ \A x : Bits!UInt32(x) = Facts!UInt32(x)
      /\ \A b, v : Bits!Done(v, b) = Facts!Done(v, b)
      /\ \A b : Bits!Fail(b) = Facts!Fail(b)
      /\ \A b : Bits!RemainingBitCount(b) = Facts!RemainingBitCount(b)
      /\ Bits!UInt32Max = Facts!UInt32Max /\ Bits!Int32Min = Facts!Int32Min
      /\ Bits!Codes = Facts!Codes
      /\ \A b : Bits!Position(b) = Facts!Position(b)
      /\ Bits!Size = Facts!Size
  BY Zenon DEF Bits!UInt32, Facts!UInt32,
      Bits!Done, Facts!Done,
      Bits!Fail, Facts!Fail,
      Bits!Failed, Facts!Failed,
      Bits!RemainingBitCount, Facts!RemainingBitCount,
      Bits!UInt32Max, Facts!UInt32Max,
      Bits!Int32Min, Facts!Int32Min,
      Bits!Codes, Facts!Codes,
      Bits!Widths, Facts!Widths,
      Bits!UIntWidths, Facts!UIntWidths,
      Bits!Position, Facts!Position,
      Bits!Size, Facts!Size,
      Bits!Pow2, Facts!Pow2
<1>9. \A b : Bits!ReadExponentialGolomb(b) = Facts!ReadExponentialGolomb(b)
  BY <1>3, <1>4, <1>7, <1>8 DEF Bits!ReadExponentialGolomb,
     Facts!ReadExponentialGolomb
<1>10. /\ \A n : Bits!NumMinBitsValues(n) = Facts!NumMinBitsValues(n)
       /\ \A b, n : Bits!ReadNonSymmetric(b, n) = Facts!ReadNonSymmetric(b, n)
  <2>1. \A n : Bits!NumMinBitsValues(n) = Facts!NumMinBitsValues(n)
    BY <1>1, <1>6, <1>8 DEF Bits!NumMinBitsValues, Facts!NumMinBitsValues
  <2>2. \A b, n : Bits!ReadNonSymmetric(b, n) = Facts!ReadNonSymmetric(b, n)
    BY <1>4, <1>6, <1>8, <2>1 DEF Bits!ReadNonSymmetric,
       Facts!ReadNonSymmetric
  <2> QED
    BY <2>1, <2>2
<1>11. \A b, code : Bits!Read(b, code) = Facts!Read(b, code)
  BY <1>4, <1>8, <1>9, <1>10 DEF Bits!Read, Facts!Read,
     Bits!ReadSignedExponentialGolomb, Facts!ReadSignedExponentialGolomb
<1>12. \A b,
         x : Bits!WriteExponentialGolomb(b, x)
             = Facts!WriteExponentialGolomb(b, x)
  BY <1>5, <1>6, <1>8 DEF Bits!WriteExponentialGolomb,
     Facts!WriteExponentialGolomb
<1>13. \A b, code, x : Bits!Write(b, code, x) = Facts!Write(b, code, x)
  <2>1. \A b, x, n :
          Bits!WriteNonSymmetric(b, x, n) = Facts!WriteNonSymmetric(b, x, n)
    BY <1>5, <1>6, <1>10 DEF Bits!WriteNonSymmetric, Facts!WriteNonSymmetric
  <2>2. \A b, x : Bits!WriteSignedExponentialGolomb(b, x)
                  = Facts!WriteSignedExponentialGolomb(b, x)
    <3> TAKE b, x
    <3> QED
      BY <1>8, <1>12 DEF Bits!WriteSignedExponentialGolomb,
         Facts!WriteSignedExponentialGolomb
  <2> QED
    BY <1>5, <1>12, <2>1, <2>2 DEF Bits!Write, Facts!Write
<1>14. /\ \A code : Bits!Values(code) = Facts!Values(code)
       /\ \A code, x : Bits!CodeLength(code, x) = Facts!CodeLength(code, x)
       /\ \A code, x : Bits!CodeWord(code, x) = Facts!CodeWord(code, x)
       /\ \A b, p : Bits!BitAt(b, p) = Facts!BitAt(b, p)
       /\ \A b, p, n : Bits!Number(b, p, n) = Facts!Number(b, p, n)
  BY Zenon DEF Bits!Values, Facts!Values,
      Bits!CodeLength, Facts!CodeLength,
      Bits!CodeWord, Facts!CodeWord,
      Bits!BitAt, Facts!BitAt,
      Bits!Number, Facts!Number,
      Bits!UInt32Max, Facts!UInt32Max,
      Bits!Int32Min, Facts!Int32Min,
      Bits!CountBits, Facts!CountBits,
      Bits!Pow2, Facts!Pow2
<1>15. \A b, code : Bits!Spelled(b, code) = Facts!Spelled(b, code)
  BY <1>1, <1>8, <1>14 DEF Bits!Spelled, Facts!Spelled
<1>16. \A code, x : Bits!Encodable(code, x) <=> Facts!Encodable(code, x)
  BY <1>1, <1>14 DEF Bits!Encodable, Facts!Encodable
<1>17. Bits!ReadsWhatIsSpelled <=> Facts!ReadsWhatIsSpelled
  BY <1>8, <1>11, <1>14, <1>15 DEF Bits!ReadsWhatIsSpelled,
     Facts!ReadsWhatIsSpelled
<1>18. Bits!WrittenIsRead <=> Facts!WrittenIsRead
  <2>1. \A x, n : Bits!SizeNonSymmetricBits(x, n)
                  = Facts!SizeNonSymmetricBits(x, n)
    BY <1>1, <1>6, <1>10 DEF Bits!SizeNonSymmetricBits,
       Facts!SizeNonSymmetricBits
  <2> QED
    BY <1>7, <1>8, <1>11, <1>13, <1>14, <1>16, <2>1 DEF Bits!WrittenIsRead,
       Facts!WrittenIsRead
<1>19. Bits!TypeOK <=> Facts!TypeOK
  BY Zenon DEF Bits!TypeOK, Facts!TypeOK,
      Bits!Buffers, Facts!Buffers,
      Bits!Byte, Facts!Byte,
      Bits!RemainingBitCount, Facts!RemainingBitCount,
      Bits!Pow2, Facts!Pow2
<1>20. Bits!BitBufferAssumption <=> Facts!BitBufferAssumption
  BY <1>1 DEF Bits!BitBufferAssumption, Facts!BitBufferAssumption
<1>21. Bits!Init <=> Facts!Init
  BY DEF Bits!Init, Facts!Init
<1>22. Bits!Next <=> Facts!Next
  BY <1>2, <1>7, <1>8, <1>11, <1>13, <1>14 DEF Bits!Next, Facts!Next,
      Bits!ReadValue, Facts!ReadValue,
      Bits!WriteValue, Facts!WriteValue,
      Bits!ConsumeBytes, Facts!ConsumeBytes
<1> QED
  BY <1>17, <1>18, <1>19, <1>20, <1>21, <1>22, PTL DEF Bits!Spec, Facts!Spec

\* Bit buffers of any size, with bytes and words of any widths: a value that
\* is written is read back, nothing around it changes, and what is read is
\* what the bits spell (src/bit_buffer.cc:59-320).
THEOREM BitsReadBack == DataSpec => []BitsRoundTrip
<1>1. Facts!BitBufferAssumption
  BY DataAssumption, SameBits DEF DataAssumption
<1>2. Facts!Spec =>
        [](Facts!TypeOK /\ Facts!ReadsWhatIsSpelled /\ Facts!WrittenIsRead)
  BY <1>1, Facts!BitsAreKept
<1>3. Bits!Spec <=> Facts!Spec
  BY SameBits
<1>4. Facts!TypeOK /\ Facts!ReadsWhatIsSpelled /\ Facts!WrittenIsRead
        => BitsRoundTrip
  BY SameBits DEF BitsRoundTrip
<1> QED
  BY <1>2, <1>3, <1>4, DataRuns, PTL

\* The closed form of TmToTime, which answers in milliseconds, counts the days
\* of the calendar on every day of the walk, and milliseconds survive timespec
\* arithmetic (src/time_utils.cc:78-132, features/time_c_inl.h:5-26).
THEOREM TimesAreRight == DataSpec => []TimesAgree
<1>1. Times!Spec => []Times!CountsDays /\ []Times!KeepsMilliseconds
  BY DataAssumption, DaysAreCounted, MillisecondsAreKept DEF DataAssumption
<1>2. Times!CountsDays /\ Times!KeepsMilliseconds => TimesAgree
  BY DEF TimesAgree, Times!TimesAgree
<1> QED
  BY <1>1, <1>2, DataRuns, PTL

\* For every width of the types, conversions are exact, and SafeMin, SafeMax
\* and SafeClamp are those of the integers when the compiled comparisons keep
\* the values (src/numerics/safe_conversions.h, safe_minmax.h).
THEOREM ConversionsAreRight == DataSpec => []ConversionsAgree
<1>1. Numbers!Spec
        => [](Numbers!ConversionsAreExact /\ Numbers!MinMaxAreMath)
  BY DataAssumption, NumbersAreExact DEF DataAssumption
<1>2. Numbers!ConversionsAreExact /\ Numbers!MinMaxAreMath => ConversionsAgree
  BY DEF ConversionsAgree
<1> QED
  BY <1>1, <1>2, DataRuns, PTL

\* For every width of the state, what is drawn is in the range asked for, the
\* range is filled, and the state is never zero (src/random.cc:24-57).
THEOREM DrawsAreRight == DataSpec => []DrawsFillTheirRange
<1>1. Draws!Spec => []Draws!DrawsFillTheirRange
  BY DataAssumption, DrawsAreInRange DEF DataAssumption
<1>2. Draws!DrawsFillTheirRange => DrawsFillTheirRange
  BY DEF DrawsFillTheirRange
<1> QED
  BY <1>1, <1>2, DataRuns, PTL

===============================================================================
