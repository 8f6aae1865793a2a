\* Clear from another thread while the owner peeks.
CONSTANTS
  m1 = m1  m2 = m2  m3 = m3
  h1 = h1
  c1 = c1  c2 = c2
  w = w
  Worker = w
  Clients = {c1}
  Messages = {m1, m2, m3}
  Handlers = {h1}
  NoHandler = NoHandler
  NoMsg = NoMsg
  HandlerOf <- HandlersA
  Delays = {1}
  MaxTime = 1
  IntMod = 64
  NumMod = 16
  CmsLoops <- Polling
  Posters = {c1, w}
  Clearers = {c1}
  Quitters = {w}
  Starters = {}
  UsePeek = TRUE
  Mortal = {}
  ClearFirst = TRUE
SPECIFICATION Spec
INVARIANT
  OneOwner
CHECK_DEADLOCK FALSE
