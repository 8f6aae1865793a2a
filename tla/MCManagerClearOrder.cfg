\* Two threads, one queue: a payload re-enters Clear under the queue's crit_.
CONSTANTS
  ta = ta  tb = tb  tc = tc  qa = qa  qb = qb  qc = qc  h1 = h1  h2 = h2
  Threads = {ta, tb}
  Queues = {qa}
  Listed <- OrderListed
  Handlers = {h1, h2}
  Messages = {"a1"}
  HandlerOf <- OrderOf
  Reenters <- OrderReenters
  Ready <- OrderReady
  Timers <- OrderTimers
  Calls = {"all2", "one1"}
  Kind <- OrderKind
  By <- OrderBy
  About <- OrderAbout
  For <- OrderFor
  Nil = Nil
SPECIFICATION FairSpec
PROPERTY
  CallsReturn
CHECK_DEADLOCK FALSE
