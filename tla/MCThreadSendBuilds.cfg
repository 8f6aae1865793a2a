\* Three threads that could send in a circle, in a debug build; the release
\* build is in MCThreadSendBuilds.
CONSTANTS
  ta = ta  tb = tb  tc = tc  out = out
  Threads = {ta, tb, tc}
  Outsiders = {out}
  Calls <- RingCalls
  Kind <- RingKind
  From <- RingFrom
  To <- RingTo
  Checked = TRUE
  NoCall = NoCall
  NoOne = NoOne
SPECIFICATION MCSpec
INVARIANTS
  NoCircularWait
  SendIsSynchronous
  NoSleepThrough
PROPERTY
  EverySendReturns
CHECK_DEADLOCK FALSE
