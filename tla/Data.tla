--------------------------------- MODULE Data ---------------------------------
(***************************************************************************)
(* The components that keep or compute data for one thread, side by side:  *)
(* RateStatistics, the four of Storage, bit buffers, dates and times,      *)
(* conversions of numbers and random numbers.  They have nothing to do     *)
(* with each other; in a behaviour one of them, the subject, takes steps.  *)
(***************************************************************************)
EXTENDS RateStatistics, Storage

CONSTANTS ByteBits, WordBits, ByteCount, NumValues, Overshift
                                                     \* of BitBuffer
VARIABLE buf
bits_vars == <<buf>>
Bits == INSTANCE BitBuffer

CONSTANTS
  MS_PER_SEC, NS_PER_MS, Hours, Minutes, Seconds, LastYear, MsBefore
                                                     \* of TimeUtils
VARIABLES tm, days, ms
times_vars == <<tm, days, ms>>
Times == INSTANCE TimeUtils

CONSTANTS UnitBits, Sizes, IntSize                   \* of Numerics
VARIABLE call
numbers_vars == <<call>>
Numbers == INSTANCE Numerics

CONSTANTS RandomBits, ShiftA, ShiftB, ShiftC, Multiplier   \* of Random
VARIABLES state_, drawn
random_vars == <<state_, drawn>>
Draws == INSTANCE Random WITH WordBits <- RandomBits

ASSUME DataAssumption ==
  /\ Bits!BitBufferAssumption
  /\ Times!TimeUtilsAssumption
  /\ Numbers!NumericsAssumption
  /\ Draws!RandomAssumption

Subjects ==
  {"rate", "bits", "buffers", "optionals", "files", "memory", "times",
   "numbers", "random"}

\* Every component starts as it may; the states of random numbers are not
\* enumerated where none is drawn.
DataInit ==
  /\ subject \in Subjects
  /\ Init
  /\ Bits!Init
  /\ StorageInit
  /\ Times!Init
  /\ Numbers!Init
  /\ Draws!Init
  /\ subject # "random" => state_ = {0}

\* The subject takes a step.
DataNext ==
  /\ StorageNext
  /\ IF subject = "rate" THEN Next ELSE UNCHANGED vars
  /\ IF subject = "bits" THEN Bits!Next ELSE UNCHANGED bits_vars
  /\ IF subject = "times" THEN Times!NextDay ELSE UNCHANGED times_vars
  /\ IF subject = "numbers" THEN Numbers!Next ELSE UNCHANGED numbers_vars
  /\ IF subject = "random" THEN Draws!Next ELSE UNCHANGED random_vars

data_vars ==
  <<vars, storage_vars, bits_vars, times_vars, numbers_vars, random_vars>>

DataSpec == DataInit /\ [][DataNext]_data_vars

-----------------------------------------------------------------------------
(* The properties of the components, each looked at in its own behaviours.   *)

\* What is written to a bit buffer is read back, and what is read is what the
\* bits spell (BitBuffer).
BitsRoundTrip ==
  subject = "bits" =>
    Bits!TypeOK /\ Bits!ReadsWhatIsSpelled /\ Bits!WrittenIsRead

\* The closed form of TmToTime counts the days of the calendar and answers in
\* milliseconds, and milliseconds survive the way to a timespec and back
\* (TimeUtils).  time_utils.h:114-117 promises seconds; time_utils.cc:117
\* multiplies them by kNumMillisecsPerSec, and this is about what it answers.
TimesAgree == subject = "times" => Times!TimesAgree

\* Conversions are exact.  SafeMin, SafeMax and SafeClamp are those of the
\* integers when the comparisons compiled here keep the values of their
\* arguments: the mathematical comparison that safe_compare.h:20-27 promises
\* for all arguments is in code between #if 0 and #endif (Numerics).
ConversionsAgree ==
  subject = "numbers" => /\ Numbers!ConversionsAreExact
                         /\ Numbers!MinMaxAreMath

\* Numbers drawn from a range are in it and leave none of it out, and the
\* state never becomes zero (Random).
DrawsFillTheirRange == subject = "random" => Draws!DrawsFillTheirRange
===============================================================================
