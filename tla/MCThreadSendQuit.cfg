\* A release build in which the target of a Send is told to quit.
CONSTANTS
  ta = ta  tb = tb  tc = tc  out = out
  Threads = {ta, tb}
  Outsiders = {out}
  Calls <- QuitCalls
  Kind <- QuitKind
  From <- QuitFrom
  To <- QuitTo
  Checked = FALSE
  NoCall = NoCall
  NoOne = NoOne
SPECIFICATION FairSpec
PROPERTY
  SendReturns
CHECK_DEADLOCK FALSE
