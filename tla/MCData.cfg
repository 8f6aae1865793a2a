\* A ring of three, counts that overflow an accumulator of up to seven.  Bytes
\* of two bits and words of four; types of one to three bits; random numbers of
\* three bits.
CONSTANTS
  MaxWindow = 3
  Scale = 2
  IntMax = 7
  Counts = {0, 1, 4}
  MaxTime = 4
  MaxUpdates = 3
  o1 = o1  o2 = o2  o3 = o3  f1 = f1  f2 = f2
  BufferObjects = {o1, o2}
  Elements = {1, 2}
  ZeroOnFree = TRUE
  DcheckOn = TRUE
  MaxData = 1
  MaxSize = 2
  OptionalObjects = {o1, o2, o3}
  OptionalValues = {1, 2}
  FileObjects = {o1, o2, o3}
  Files = {f1, f2}
  LastAddress = 18
  HeaderSize = 2
  Alignments = {0, 1, 2, 3, 4}
  MaxBytes = 2
  MaxBlocks = 2
  nullptr = nullptr  Destroyed = Destroyed
  ByteBits = 2
  WordBits = 4
  ByteCount = 4
  NumValues = {2, 3, 5, 7, 8}
  Overshift = 1
  MS_PER_SEC = 3
  NS_PER_MS = 2
  Hours = 3
  Minutes = 2
  Seconds = 2
  LastYear = 2101
  MsBefore = 10
  UnitBits = 1
  Sizes = {1, 2, 3}
  IntSize = 2
  RandomBits = 3
  ShiftA = 2
  ShiftB = 3
  ShiftC = 4
  Multiplier = 29
SPECIFICATION DataSpec
INVARIANTS
  RateIsWindowed
  RateLeavesNoTrace
  BitsRoundTrip
  BuffersKeep
  OwnedOnce
  TimesAgree
  ConversionsAgree
  DrawsFillTheirRange
CHECK_DEADLOCK FALSE
