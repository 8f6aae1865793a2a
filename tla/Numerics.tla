------------------------------ MODULE Numerics ------------------------------
(***************************************************************************)
(* The integer conversions and comparisons of numerics/: the range check   *)
(* that templates pick from the sizes and the signs of two types,          *)
(* checked_cast and saturated_cast on top of it, the comparisons SafeLt,   *)
(* ..., and SafeMin, SafeMax and SafeClamp on top of those.                *)
(*                                                                         *)
(* A type is its sign and its size; UnitBits stands for the 8 bits of a    *)
(* byte, so that every value of every type is checked.  The variable is    *)
(* the last call with its arguments and its result.  Floating-point types  *)
(* are left out.                                                           *)
(***************************************************************************)
EXTENDS Integers, Sequences, Powers

CONSTANTS
  UnitBits,  \* bits of one unit of size (8 in the code)
  Sizes,     \* the sizes of the integer types
  IntSize    \* sizeof(int): smaller operands are promoted to it

\* What the constants have to satisfy; the instance assumes it.
NumericsAssumption ==
  /\ UnitBits \in Nat \ {0}
  /\ Sizes \subseteq Nat \ {0}
  /\ IntSize \in Nat \ {0}

VARIABLE call   \* the last call, with the set of what each function returns

Types == [signed : BOOLEAN, size : Sizes]

Int_ == [signed |-> TRUE, size |-> IntSize]

Bits(T) == T.size * UnitBits

\* numeric_limits<T>::min(), max()
LowestOf(T) == IF T.signed THEN -(Pow2[Bits(T) - 1]) ELSE 0
HighestOf(T) == IF T.signed THEN Pow2[Bits(T) - 1] - 1 ELSE Pow2[Bits(T)] - 1
Values(T) == LowestOf(T) .. HighestOf(T)

\* static_cast<T>(v) of an integer
Cast(T, v) ==
  LET low == v % Pow2[Bits(T)]
  IN  IF low \in Values(T) THEN low ELSE low - Pow2[Bits(T)]

(***************************************************************************)
(* safe_conversions_impl.h                                                 *)
(***************************************************************************)
\* The bits that hold a magnitude.
MaxExponent(T) == IF T.signed THEN Bits(T) - 1 ELSE Bits(T)

\* Mutant: the sign bit of the destination counts as one of its magnitude.
StaticRangeCheckNoSignBit(dst, src) ==
  (src.signed => dst.signed) /\ Bits(dst) >= MaxExponent(src)

\* value == CONTAINS_RANGE of StaticRangeCheck<Dst, Src>
StaticRangeCheck(dst, src) ==
  (src.signed => dst.signed) /\ MaxExponent(dst) >= MaxExponent(src)

\* BASE_NUMERIC_RANGE_CHECK_RESULT; integers never fail both
RangeCheckResult(is_in_upper_bound, is_in_lower_bound) ==
  CASE ~is_in_upper_bound -> "TYPE_OVERFLOW"
    [] ~is_in_lower_bound -> "TYPE_UNDERFLOW"
    [] OTHER -> "TYPE_VALID"

SignedToSigned(dst, src, value) ==
  RangeCheckResult(value <= Cast(src, HighestOf(dst)),
                   value >= Cast(src, LowestOf(dst)))

UnsignedToUnsigned(dst, src, value) ==
  RangeCheckResult(value <= Cast(src, HighestOf(dst)), TRUE)

UnsignedToSigned(dst, src, value) ==
  RangeCheckResult(\/ dst.size > src.size
                   \/ value <= Cast(src, HighestOf(dst)), TRUE)

SignedToUnsigned(dst, src, value) ==
  RangeCheckResult(\/ Bits(dst) >= Bits(src) - 1
                   \/ value <= Cast(src, HighestOf(dst)), value >= 0)

\* RangeCheck<Dst>(value): the specialisation the two types select
RangeCheck(dst, src, value) ==
  IF StaticRangeCheck(dst, src) THEN "TYPE_VALID"
  ELSE CASE src.signed /\ dst.signed -> SignedToSigned(dst, src, value)
         [] src.signed /\ ~dst.signed -> SignedToUnsigned(dst, src, value)
         [] ~src.signed /\ dst.signed -> UnsignedToSigned(dst, src, value)
         [] OTHER -> UnsignedToUnsigned(dst, src, value)

IsValueInRange(dst, src, value) == RangeCheck(dst, src, value) = "TYPE_VALID"

\* What a call returns that a failing check may stop: at most one value.
checked_cast(dst, src, value) ==
  IF IsValueInRange(dst, src, value) THEN {Cast(dst, value)} ELSE {}

saturated_cast(dst, src, value) ==
  CASE RangeCheck(dst, src, value) = "TYPE_VALID" -> Cast(dst, value)
    [] RangeCheck(dst, src, value) = "TYPE_UNDERFLOW" -> LowestOf(dst)
    [] RangeCheck(dst, src, value) = "TYPE_OVERFLOW" -> HighestOf(dst)

(***************************************************************************)
(* safe_compare.h and safe_minmax.h: the branches that are compiled apply  *)
(* the operator of C++, after the usual arithmetic conversions.            *)
(***************************************************************************)
Promoted(T) == IF T.size < IntSize THEN Int_ ELSE T

CommonType(T1, T2) ==
  LET p == Promoted(T1)
      q == Promoted(T2)
  IN  CASE p.size > q.size -> p
        [] p.size < q.size -> q
        [] OTHER -> IF p.signed THEN q ELSE p

SafeLt(T1, a, T2, b) ==
  Cast(CommonType(T1, T2), a) < Cast(CommonType(T1, T2), b)
SafeGt(T1, a, T2, b) == SafeLt(T2, b, T1, a)

SafeLe(T1, a, T2, b) ==
  Cast(CommonType(T1, T2), a) <= Cast(CommonType(T1, T2), b)
SafeGe(T1, a, T2, b) == SafeLe(T2, b, T1, a)

SafeMin(R, T1, a, T2, b) == Cast(R, IF SafeLt(T1, a, T2, b) THEN a ELSE b)
SafeMax(R, T1, a, T2, b) == Cast(R, IF SafeGt(T1, a, T2, b) THEN a ELSE b)

\* Mutant: the test against max comes first and its branches are swapped.
SafeClampSwapped(R, T, x, L, min, H, max) ==
  CASE ~SafeLe(L, min, H, max) -> {}
    [] SafeGe(T, x, H, max) -> {Cast(R, min)}
    [] SafeLe(T, x, L, min) -> {Cast(R, max)}
    [] OTHER -> {Cast(R, x)}

SafeClamp(R, T, x, L, min, H, max) ==
  IF ~SafeLe(L, min, H, max) THEN {}
  ELSE {CASE SafeLe(T, x, L, min) -> Cast(R, min)
          [] ~SafeLe(T, x, L, min) /\ SafeGe(T, x, H, max) -> Cast(R, max)
          [] OTHER -> Cast(R, x)}

(***************************************************************************)
(* The calls                                                               *)
(***************************************************************************)
Typed == UNION {[type : {T}, value : Values(T)] : T \in Types}

Convert(to, v) ==
  call' = [op |-> "convert", to |-> to, args |-> <<v>>,
           result |-> <<checked_cast(to, v.type, v.value),
                        {saturated_cast(to, v.type, v.value)}>>]

MinMax(to, v, w) ==
  call' = [op |-> "minmax", to |-> to, args |-> <<v, w>>,
           result |-> <<{SafeMin(to, v.type, v.value, w.type, w.value)},
                        {SafeMax(to, v.type, v.value, w.type, w.value)}>>]

Clamp(to, v, lo, hi) ==
  call' = [op |-> "clamp", to |-> to, args |-> <<v, lo, hi>>,
           result |-> <<SafeClamp(to, v.type, v.value, lo.type, lo.value,
                                  hi.type, hi.value)>>]

Init == call = [op |-> "none", to |-> Int_, args |-> <<>>, result |-> <<>>]

\* The calls are independent of each other: each starts from no call.  As a
\* bound, the two limits of a SafeClamp have the same type.
Next ==
  /\ call.op = "none"
  /\ \E to \in Types, v \in Typed :
       \/ Convert(to, v)
       \/ \E w \in Typed : MinMax(to, v, w)
       \/ \E lo, hi \in Typed : lo.type = hi.type /\ Clamp(to, v, lo, hi)

Spec == Init /\ [][Next]_call

-----------------------------------------------------------------------------
(***************************************************************************)
(* Properties                                                              *)
(***************************************************************************)
\* Of the numbers in s the one nearest to n, for an interval s.
Nearest(s, n) == CHOOSE m \in s : \A k \in s :
                   (IF n > m THEN n - m ELSE m - n) <=
                   (IF n > k THEN n - k ELSE k - n)

\* checked_cast accepts a value exactly when the destination type holds it,
\* and saturated_cast gives the value of that type nearest to it: the static
\* choice between seven specialisations, made from sizes and signs, never
\* skips a test a value needs (safe_conversions.h:34-72).
ConversionsAreExact ==
  call.op = "convert" =>
    LET n == call.args[1].value IN
    /\ call.result[1] = {n} \cap Values(call.to)
    /\ call.result[2] = {Nearest(Values(call.to), n)}

\* The conversions of C++ keep the values of the arguments.
ArgsKept ==
  \A i, j \in 1 .. Len(call.args) :
    call.args[i].value
      \in Values(CommonType(call.args[i].type, call.args[j].type))

\* When no argument changes its value in the comparisons and the result type
\* holds the result, SafeMin, SafeMax and SafeClamp answer what their names
\* say over the integers (safe_minmax.h:229-238, 351-357).  For the other
\* arguments, of mixed signs, they need not: safe_compare.h:20-27 promises the
\* mathematical order, but the overloads that give it are between #if 0 and
\* #endif (safe_compare.h:49-178).
MinMaxAreMath ==
  LET value(i) == call.args[i].value IN
  /\ call.op = "minmax" /\ ArgsKept =>
       /\ call.result[1] = {Cast(call.to, IF value(1) < value(2)
                                          THEN value(1) ELSE value(2))}
       /\ call.result[2] = {Cast(call.to, IF value(1) > value(2)
                                          THEN value(1) ELSE value(2))}
  /\ call.op = "clamp" /\ ArgsKept =>
       call.result[1] = IF value(2) > value(3) THEN {}
                        ELSE {Cast(call.to, Nearest(value(2) .. value(3),
                                                    value(1)))}
=============================================================================
