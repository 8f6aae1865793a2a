\* Liveness: every accepted message is served, every Quit ends the loop.
CONSTANTS
  m1 = m1  m2 = m2  m3 = m3
  h1 = h1
  c1 = c1  c2 = c2
  w = w
  Worker = w
  Clients = {c1, c2}
  Messages = {m1, m2}
  Handlers = {h1}
  NoHandler = NoHandler
  NoMsg = NoMsg
  HandlerOf <- HandlersB
  Delays = {0, 1}
  MaxTime = 2
  IntMod = 64
  NumMod = 16
  CmsLoops <- Forever
  Posters = {c1, c2, w}
  Clearers = {}
  Quitters = {c2}
  Starters = {}
  UsePeek = FALSE
  Mortal = {}
  ClearFirst = TRUE
SPECIFICATION FairSpec
PROPERTIES
  AcceptedIsServed
  QuitEndsLoop
CHECK_DEADLOCK FALSE
