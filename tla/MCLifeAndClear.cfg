\* Two threads clear, add and destroy queues; payloads in the lists re-enter.
CONSTANTS
  ta = ta  tb = tb  tc = tc  qa = qa  qb = qb  qc = qc  h1 = h1  h2 = h2
  Threads = {ta, tb, tc}
  Queues = {qa, qb, qc}
  Listed <- ListedAB
  Handlers = {h1, h2}
  Messages = {"a1", "a2", "a3", "b1", "b2", "b3"}
  HandlerOf <- Kept
  Reenters <- NoLoop
  Ready <- ReadyAB
  Timers <- TimersAB
  Calls <- ABCalls
  Kind <- ABKind
  By <- ABBy
  About <- ABAbout
  For <- ABFor
  Nil = Nil
  None = None
  Programs = {main}
  Objects = {oa, ob}
  MaxStarts = 2
SPECIFICATION MCSpec
INVARIANTS
  StoppedIsClean
  NoDangling
  TypeOK
  DeletedOnce
  LoopsUndisturbed
  ClearsAll
PROPERTIES
  StopReturns
  QuitIsObeyed
  CallsReturnOrReverse
CHECK_DEADLOCK FALSE
