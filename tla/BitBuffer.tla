------------------------------ MODULE BitBuffer -------------------------------
(***************************************************************************)
(* BitBuffer and BitBufferWriter (src/bit_buffer.cc): a cursor over the    *)
(* bits of an array of bytes, with fixed width, non symmetric and          *)
(* exponential Golomb codes.  The members of an object are a record; each  *)
(* method is an operator that returns the value, or Failed, and the object *)
(* after it.  The widths of the integer types are constants.               *)
(***************************************************************************)
EXTENDS Integers, Powers

CONSTANTS
  ByteBits,   \* bits in a uint8_t
  WordBits,   \* bits in a uint32_t; a uint64_t has twice as many
  ByteCount,  \* byte_count_
  NumValues,  \* the sizes of the ranges of non symmetric values
  Overshift   \* what uint32_t{1} << WordBits is in a build

\* What the constants have to satisfy; the instances assume it.  A range of
\* one value, which RTC_DCHECK_GT lets pass, would be read and written with no
\* bits: PeekBits asserts that there are some (bit_buffer.cc:104-108), and
\* WriteBits would shift by all 64.  The range of 2^31 values shifts a 1 by
\* all 32 bits, which C++ does not define: builds make it 0, or 1 when the
\* count is taken modulo 32.
BitBufferAssumption ==
  /\ ByteBits \in Nat \ {0}
  /\ WordBits \in Nat /\ WordBits >= 2 * ByteBits
  /\ ByteCount \in Nat \ {0}
  /\ NumValues \subseteq 2..(Pow2[WordBits - 1])
  /\ Overshift \in {0, 1}

VARIABLE buf  \* the object

Failed == -1

Byte == 0..(Pow2[ByteBits] - 1)
Buffers == [bytes: [0..(ByteCount - 1) -> Byte],
            byte_offset_: 0..ByteCount,
            bit_offset_: 0..(ByteBits - 1)]

\* What a conversion to uint8_t, uint32_t and uint64_t keeps.
UInt8(x) == x % Pow2[ByteBits]
UInt32(x) == x % Pow2[WordBits]
UInt64(x) == x % Pow2[2 * WordBits]

UInt32Max == Pow2[WordBits] - 1
Int32Min == -(Pow2[WordBits - 1])

-----------------------------------------------------------------------------
(* The helpers on bytes                                                    *)

LowestBits(byte, bit_count) == byte % Pow2[bit_count]

HighestBits(byte, bit_count) == UInt8(byte) \div Pow2[ByteBits - bit_count]

HighestByte(val) == val \div Pow2[2 * WordBits - ByteBits]

\* Mutant: the bits of the target below those written are lost.
WritePartialByteLow(source, source_bit_count, target, target_bit_offset) ==
  (target - LowestBits(target, ByteBits - target_bit_offset))
    + source \div Pow2[target_bit_offset]

\* target, but for source_bit_count bits after target_bit_offset.
WritePartialByte(source, source_bit_count, target, target_bit_offset) ==
  LET below == ByteBits - target_bit_offset - source_bit_count
  IN (target - LowestBits(target, below + source_bit_count))
       + LowestBits(target, below) + source \div Pow2[target_bit_offset]

CountBits(val) == CHOOSE n \in 0..(2 * WordBits) :
                    /\ val < Pow2[n]
                    /\ n = 0 \/ val >= Pow2[n - 1]

-----------------------------------------------------------------------------
(* The cursor                                                              *)

RemainingBitCount(b) ==
  (ByteCount - b.byte_offset_) * ByteBits - b.bit_offset_

\* A call: did it succeed, the value it returned, the object after it.
Fail(b) == [ok |-> FALSE, val |-> Failed, buf |-> b]
Done(v, b) == [ok |-> TRUE, val |-> v, buf |-> b]

ConsumeBits(b, bit_count) ==
  IF bit_count > RemainingBitCount(b) THEN Fail(b)
  ELSE Done(0, [b EXCEPT
         !.byte_offset_ = @ + (b.bit_offset_ + bit_count) \div ByteBits,
         !.bit_offset_ = (@ + bit_count) % ByteBits])

ConsumeBytes(b, byte_count) == ConsumeBits(b, byte_count * ByteBits)

Seek(b, byte_offset, bit_offset) ==
  IF \/ byte_offset > ByteCount
     \/ bit_offset > ByteBits - 1
     \/ byte_offset = ByteCount /\ bit_offset > 0
  THEN Fail(b)
  ELSE Done(0, [b EXCEPT !.byte_offset_ = byte_offset,
                         !.bit_offset_ = bit_offset])

GetCurrentOffset(b) == <<b.byte_offset_, b.bit_offset_>>

-----------------------------------------------------------------------------
(* Reading                                                                 *)

\* The current byte, the whole bytes after it, then what is left.
PeekValue(b, bit_count) ==
  LET at == b.byte_offset_
      remaining_bits_in_current_byte == ByteBits - b.bit_offset_
      first == LowestBits(b.bytes[at], remaining_bits_in_current_byte)
      count == bit_count - remaining_bits_in_current_byte
      whole == count \div ByteBits
      left == count % ByteBits
      bits[i \in 0..whole] ==
        IF i = 0 THEN first
        ELSE UInt32(bits[i - 1] * Pow2[ByteBits]) + b.bytes[at + i]
  IN IF bit_count < remaining_bits_in_current_byte
       THEN HighestBits(first, b.bit_offset_ + bit_count)
     ELSE IF left = 0 THEN bits[whole]
     ELSE UInt32(bits[whole] * Pow2[left])
            + HighestBits(b.bytes[at + whole + 1], left)

PeekBits(b, bit_count) ==
  IF bit_count > RemainingBitCount(b) \/ bit_count > WordBits
    THEN Fail(b)
    ELSE Done(PeekValue(b, bit_count), b)

ReadBits(b, bit_count) ==
  LET p == PeekBits(b, bit_count)
  IN IF p.ok THEN Done(p.val, ConsumeBits(b, bit_count).buf) ELSE p

\* (uint32_t{1} << count_bits) - num_values
NumMinBitsValues(num_values) ==
  LET count_bits == CountBits(num_values)
      one_shifted == IF count_bits < WordBits THEN Pow2[count_bits]
                     ELSE Overshift
  IN UInt32(one_shifted - num_values)

\* Mutant: the limit is taken one too high.
ReadNonSymmetricAtMost(b, num_values) ==
  LET count_bits == CountBits(num_values)
      num_min_bits_values == NumMinBitsValues(num_values)
      short == ReadBits(b, count_bits - 1)
      extra == ReadBits(short.buf, 1)
  IN IF ~short.ok \/ short.val <= num_min_bits_values THEN short
     ELSE IF ~extra.ok THEN extra
     ELSE Done(UInt32(short.val * 2 + extra.val - num_min_bits_values),
               extra.buf)

\* One bit less than num_values has, and one more for the larger values.
ReadNonSymmetric(b, num_values) ==
  LET count_bits == CountBits(num_values)
      num_min_bits_values == NumMinBitsValues(num_values)
      short == ReadBits(b, count_bits - 1)
      extra == ReadBits(short.buf, 1)
  IN IF ~short.ok \/ short.val < num_min_bits_values THEN short
     ELSE IF ~extra.ok THEN extra
     ELSE Done(UInt32(short.val * 2 + extra.val - num_min_bits_values),
               extra.buf)

\* The object after the zeros that come next.
AfterZeros(b) ==
  LET n == RemainingBitCount(b)
      at[i \in 0..n] ==
        IF i = 0 THEN b
        ELSE IF PeekBits(at[i - 1], 1).val = 0
          THEN ConsumeBits(at[i - 1], 1).buf
          ELSE at[i - 1]
  IN at[n]

\* Mutant: a value that is cut off leaves the cursor behind its zeros.
ReadExponentialGolombMoved(b) ==
  LET zeros == AfterZeros(b)
      value_bit_count == RemainingBitCount(b) - RemainingBitCount(zeros) + 1
      value == ReadBits(zeros, value_bit_count)
  IN IF value_bit_count > WordBits \/ ~value.ok
       THEN Fail(zeros)
       ELSE Done(value.val - 1, value.buf)

\* As many zeros as the value, plus one, has bits after its first.
ReadExponentialGolomb(b) ==
  LET zeros == AfterZeros(b)
      value_bit_count == RemainingBitCount(b) - RemainingBitCount(zeros) + 1
      value == ReadBits(zeros, value_bit_count)
  IN IF value_bit_count > WordBits \/ ~value.ok
       THEN Fail(Seek(zeros, b.byte_offset_, b.bit_offset_).buf)
       ELSE Done(value.val - 1, value.buf)

\* 0, 1, -1, 2, -2, ...
ReadSignedExponentialGolomb(b) ==
  LET u == ReadExponentialGolomb(b)
  IN IF ~u.ok THEN u
     ELSE IF u.val % 2 = 0 THEN Done(-(u.val \div 2), u.buf)
     ELSE Done(UInt32(u.val + 1) \div 2, u.buf)

-----------------------------------------------------------------------------
(* Writing                                                                 *)

\* The bits of val are shifted to the top of a uint64_t and taken from there.
WriteBits(b, val, bit_count) ==
  LET at == b.byte_offset_
      top == UInt64(val * Pow2[2 * WordBits - bit_count])
      in_first == IF bit_count < ByteBits - b.bit_offset_
                    THEN bit_count ELSE ByteBits - b.bit_offset_
      rest == bit_count - in_first
      whole == rest \div ByteBits
      left == rest % ByteBits
      \* What is left of val when i bytes after the first have been taken.
      shifted(i) == UInt64(top * Pow2[in_first + i * ByteBits])
      Written(i) ==
        CASE i = at -> WritePartialByte(HighestByte(top), in_first,
                                        b.bytes[i], b.bit_offset_)
          [] i \in (at + 1)..(at + whole) -> HighestByte(shifted(i - at - 1))
          [] i = at + whole + 1 /\ left > 0 ->
               WritePartialByte(HighestByte(shifted(whole)), left,
                                b.bytes[i], 0)
          [] OTHER -> b.bytes[i]
  IN IF bit_count > RemainingBitCount(b) THEN Fail(b)
     ELSE ConsumeBits([b EXCEPT !.bytes = [i \in DOMAIN @ |-> Written(i)]],
                      bit_count)

WriteNonSymmetric(b, val, num_values) ==
  LET count_bits == CountBits(num_values)
      num_min_bits_values == NumMinBitsValues(num_values)
  IN IF val < num_min_bits_values
       THEN WriteBits(b, val, count_bits - 1)
       ELSE WriteBits(b, val + num_min_bits_values, count_bits)

SizeNonSymmetricBits(val, num_values) ==
  LET count_bits == CountBits(num_values)
  IN IF val < NumMinBitsValues(num_values) THEN count_bits - 1 ELSE count_bits

WriteExponentialGolomb(b, val) ==
  IF val = UInt32Max THEN Fail(b)
  ELSE WriteBits(b, val + 1, CountBits(val + 1) * 2 - 1)

WriteSignedExponentialGolomb(b, val) ==
  CASE val = 0 -> WriteExponentialGolomb(b, 0)
    [] val > 0 -> WriteExponentialGolomb(b, UInt32(val * 2) - 1)
    [] val = Int32Min -> Fail(b)
    [] OTHER -> WriteExponentialGolomb(b, UInt32(-val * 2))

-----------------------------------------------------------------------------
(* Calls.  A code names a method and its argument.                         *)

\* ReadUInt8, ReadUInt16 and ReadUInt32, and the same for writing.
UIntWidths == {ByteBits, 2 * ByteBits, WordBits}
Widths == UIntWidths \cup 1..WordBits
Codes == {<<"bits", w>> : w \in Widths}
           \cup {<<"nonsymmetric", n>> : n \in NumValues}
           \cup {<<"golomb", 0>>, <<"signed", 0>>}

Values(code) ==
  CASE code[1] = "bits" -> 0..(Pow2[code[2]] - 1)
    [] code[1] = "nonsymmetric" -> 0..(code[2] - 1)
    [] code[1] = "golomb" -> 0..UInt32Max
    [] code[1] = "signed" -> Int32Min..(-Int32Min - 1)

Read(b, code) ==
  CASE code[1] = "bits" -> ReadBits(b, code[2])
    [] code[1] = "nonsymmetric" -> ReadNonSymmetric(b, code[2])
    [] code[1] = "golomb" -> ReadExponentialGolomb(b)
    [] code[1] = "signed" -> ReadSignedExponentialGolomb(b)

Write(b, code, val) ==
  CASE code[1] = "bits" -> WriteBits(b, val, code[2])
    [] code[1] = "nonsymmetric" -> WriteNonSymmetric(b, val, code[2])
    [] code[1] = "golomb" -> WriteExponentialGolomb(b, val)
    [] code[1] = "signed" -> WriteSignedExponentialGolomb(b, val)

Init == buf = [bytes |-> [i \in 0..(ByteCount - 1) |-> 0],
               byte_offset_ |-> 0, bit_offset_ |-> 0]

ReadValue(code) == buf' = Read(buf, code).buf
WriteValue(code, val) == buf' = Write(buf, code, val).buf

Next ==
  \/ \E code \in Codes : ReadValue(code)
  \/ \E code \in Codes : \E val \in Values(code) : WriteValue(code, val)
  \/ \E n \in 0..(ByteBits + 1) : buf' = ConsumeBits(buf, n).buf
  \/ \E n \in 0..ByteCount : buf' = ConsumeBytes(buf, n).buf
  \/ \E i \in 0..(ByteCount + 1), j \in 0..ByteBits :
       buf' = Seek(buf, i, j).buf

Spec == Init /\ [][Next]_buf

TypeOK == buf \in Buffers /\ RemainingBitCount(buf) >= 0

-----------------------------------------------------------------------------
(* The reference: the bits of the buffer in one sequence.                  *)

Size == ByteCount * ByteBits
Position(b) == b.byte_offset_ * ByteBits + b.bit_offset_
BitAt(b, p) == (b.bytes[p \div ByteBits]
                  \div Pow2[ByteBits - 1 - (p % ByteBits)]) % 2

\* The number that the n bits from p on spell, most significant bit first.
Number(b, p, n) ==
  LET v[i \in 0..n] == IF i = 0 THEN 0 ELSE 2 * v[i - 1] + BitAt(b, p + i - 1)
  IN v[n]

\* How many bits a code takes for a value, and the number they spell.
CodeLength(code, val) ==
  CASE code[1] = "bits" -> code[2]
    [] code[1] = "nonsymmetric" ->
         IF val < Pow2[CountBits(code[2])] - code[2]
         THEN CountBits(code[2]) - 1 ELSE CountBits(code[2])
    [] code[1] = "golomb" -> 2 * CountBits(val + 1) - 1
    [] code[1] = "signed" ->
         2 * CountBits(IF val > 0 THEN 2 * val ELSE 1 - 2 * val) - 1

CodeWord(code, val) ==
  CASE code[1] = "bits" -> val
    [] code[1] = "nonsymmetric" ->
         IF val < Pow2[CountBits(code[2])] - code[2] THEN val
         ELSE val + Pow2[CountBits(code[2])] - code[2]
    [] code[1] = "golomb" -> val + 1
    [] code[1] = "signed" -> IF val > 0 THEN 2 * val ELSE 1 - 2 * val

\* The values whose code word is what comes next in b; at most one.
Spelled(b, code) ==
  {val \in Values(code) :
     /\ Position(b) + CodeLength(code, val) <= Size
     /\ CodeWord(code, val) < Pow2[WordBits]
     /\ Number(b, Position(b), CodeLength(code, val)) = CodeWord(code, val)}

\* A read returns the value whose code word comes next and steps over it.
\* It fails when the buffer ends before the word does, and then leaves the
\* cursor where it was, but for a non symmetric value without its last bit
\* (PeekBits, ReadNonSymmetric, ReadExponentialGolomb).  The Golomb word of a
\* value is the value plus one, as bit_buffer.h:67-69 says and the writer does,
\* so that the reader takes one away (bit_buffer.cc:213); that it has to
\* "increment the result by 1" (bit_buffer.h:70-71) is wrong.
ReadsWhatIsSpelled ==
  \A code \in Codes :
    LET r == Read(buf, code)
    IN IF r.ok
         THEN /\ Spelled(buf, code) = {r.val}
              /\ r.buf.bytes = buf.bytes
              /\ Position(r.buf) = Position(buf) + CodeLength(code, r.val)
         ELSE /\ Spelled(buf, code) = {}
              /\ code[1] # "nonsymmetric" => r.buf = buf

\* Whether the code has a word for the value: not for the largest of the
\* unsigned and the smallest of the signed Golomb values.
Encodable(code, val) == CodeWord(code, val) < Pow2[WordBits]

\* A value that is written is read again from where it was written; the
\* write changes no bit around it, and none at all when the value does not
\* fit (WriteBits, WritePartialByte and the codes built on them); the length
\* of a non symmetric value is what SizeNonSymmetricBits says.  The range of
\* 2^31 values comes through whatever its undefined shift gives: all values
\* of that range are below the limit, be it 2^31 or 2^31 + 1.
WrittenIsRead ==
  \A code \in Codes : \A val \in Values(code) :
    LET w == Write(buf, code, val)
        end == Position(buf) + CodeLength(code, val)
        r == Read(Seek(w.buf, buf.byte_offset_, buf.bit_offset_).buf, code)
    IN /\ code[1] = "nonsymmetric" =>
            SizeNonSymmetricBits(val, code[2]) = CodeLength(code, val)
       /\ IF Encodable(code, val) /\ end <= Size
          THEN /\ w.ok /\ r.ok /\ r.val = val
               /\ Position(w.buf) = end
               /\ \A p \in (0..(Size - 1)) \ (Position(buf)..(end - 1)) :
                    BitAt(w.buf, p) = BitAt(buf, p)
          ELSE ~w.ok /\ w.buf = buf

=============================================================================
