------------------------------- MODULE Random -------------------------------
(***************************************************************************)
(* The pseudo-random numbers of random.cc: an xorshift state of twice      *)
(* WordBits bits (64 in the code), of whose output the low half is scaled  *)
(* to a range.  The state is the set of the positions of its one bits, so  *)
(* that ^ is the symmetric difference and a shift moves the positions.     *)
(* Floating-point numbers are left out.                                    *)
(***************************************************************************)
EXTENDS Integers, Powers

CONSTANTS
  WordBits,    \* bits of a uint32_t; the state has twice as many
  ShiftA, ShiftB, ShiftC,   \* 12, 25, 27 in the code
  Multiplier   \* 2685821657736338717 in the code: an odd number

\* What the constants have to satisfy; the instance assumes it.
RandomAssumption ==
  /\ WordBits \in Nat \ {0}
  /\ {ShiftA, ShiftB, ShiftC} \subseteq Nat \ {0}
  /\ Multiplier \in Nat

VARIABLES
  state_,
  drawn        \* the last number drawn, with the range asked for

Word == Pow2[WordBits]      \* the numbers of a uint32_t, and one more
StateSize == Word * Word    \* the same of a uint64_t

StateBits == 0 .. 2 * WordBits - 1

Xor(a, b) == (a \ b) \cup (b \ a)
Left(a, n) == {i + n : i \in a} \cap StateBits
Right(a, n) == {i - n : i \in a} \cap StateBits

\* The number with these one bits.
NumberOf(a) ==
  LET below[i \in 0 .. 2 * WordBits] ==
        IF i = 0 THEN 0
        ELSE below[i - 1] + (IF i - 1 \in a THEN Pow2[i - 1] ELSE 0)
  IN below[2 * WordBits]

(***************************************************************************)
(* NextOutput                                                              *)
(***************************************************************************)
\* Mutant: the second shift is by zero, so that equal bits cancel.
StepRotated(s) ==
  LET a == Xor(s, Right(s, ShiftA))
      b == Xor(a, Left(a, 0))
  IN  Xor(b, Right(b, ShiftC))

\* The state after NextOutput.
Step(s) ==
  LET a == Xor(s, Right(s, ShiftA))
      b == Xor(a, Left(a, ShiftB))
  IN  Xor(b, Right(b, ShiftC))

\* What NextOutput returns, cut to a uint32_t.
Output == ((NumberOf(Step(state_)) * Multiplier) % StateSize) % Word

(***************************************************************************)
(* Rand                                                                    *)
(***************************************************************************)
\* Mutant: t + 1 is computed in 32 bits.
ScaledIn32Bits(x, t) == (x * ((t + 1) % Word)) \div Word

\* Rand(t) of a 32-bit x: x * (t + 1) / 2^32
Scaled(x, t) == ((x * (t + 1)) % StateSize) \div Word

\* Rand(low, high) of unsigned numbers, in uint32_t
FromRange(x, low, high) == (Scaled(x, (high - low) % Word) + low) % Word

\* Rand(low, high) of signed numbers: the difference is computed in 64 bits
FromSignedRange(x, low, high) == Scaled(x, high - low) + low

Signed == -(Word \div 2) .. Word \div 2 - 1

(***************************************************************************)
(* The calls                                                               *)
(***************************************************************************)
Draw(low, high, value) ==
  /\ state_' = Step(state_)
  /\ drawn' = [low |-> low, high |-> high, value |-> value]

RandUpTo == \E t \in 0 .. Word - 1 : Draw(0, t, Scaled(Output, t))

RandUnsigned ==
  \E low, high \in 0 .. Word - 1 :
    low <= high /\ Draw(low, high, FromRange(Output, low, high))

RandSigned ==
  \E low, high \in Signed :
    low <= high /\ Draw(low, high, FromSignedRange(Output, low, high))

\* Rand<bool>() draws from 0 .. 1, Rand<T>() takes the output as it is.
RandBool == Draw(0, 1, FromSignedRange(Output, 0, 1))
RandWhole == Draw(0, Word - 1, Output)

Init ==
  /\ state_ \in (SUBSET StateBits) \ {{}}
  /\ drawn = [low |-> 0, high |-> 0, value |-> 0]

Next == RandUpTo \/ RandUnsigned \/ RandSigned \/ RandBool \/ RandWhole

Spec == Init /\ [][Next]_<<state_, drawn>>

-----------------------------------------------------------------------------
(***************************************************************************)
(* Property                                                                *)
(***************************************************************************)
\* The state never becomes zero, where it would stay (the assertion of
\* NextOutput, random.h:71); every number drawn is in the range asked for;
\* and every number of that range can be drawn: the scaling of Rand loses
\* none, up to the full range of the type (random.cc:24-47).
DrawsFillTheirRange ==
  /\ state_ # {}
  /\ drawn.value \in drawn.low .. drawn.high
  /\ drawn.low .. drawn.high \subseteq
       {Scaled(x, drawn.high - drawn.low) + drawn.low : x \in 0 .. Word - 1}
=============================================================================
