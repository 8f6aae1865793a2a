\* An owner that polls, peeks, disposes, clears, quits, destroys handlers and
\* is started again; one client.
CONSTANTS
  m1 = m1  m2 = m2  m3 = m3
  h1 = h1
  c1 = c1  c2 = c2
  w = w
  Worker = w
  Clients = {c1}
  Messages = {m1, m2, m3}
  Handlers = {h1}
  NoHandler = NoHandler
  NoMsg = NoMsg
  HandlerOf <- HandlersA
  Delays = {1}
  MaxTime = 1
  IntMod = 64
  NumMod = 16
  CmsLoops <- Polling
  Posters = {c1, w}
  Clearers = {w}
  Quitters = {w}
  Starters = {c1}
  UsePeek = TRUE
  Mortal = {h1}
  ClearFirst = TRUE
SPECIFICATION Spec
INVARIANTS
  OneOwner
  QuitDrains
PROPERTY
  DispatchToLive
CHECK_DEADLOCK FALSE
