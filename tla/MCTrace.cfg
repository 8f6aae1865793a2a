\* Two threads, a stream of two rows that keeps the first.
CONSTANTS
  t1 = t1  t2 = t2  f1 = f1
  stdout = stdout
  NoFile = NoFile
  Threads = {t1, t2}
  Files = {f1}
  Levels = {1}
  MaxStreams = 1
  MaxRows = 2
  WrapLines = {1}
  MaxMessage = 100
  MsgLengths = {0}
  MaxLines = 4
SPECIFICATION Spec
PROPERTY
  KeepsFirstLines
CHECK_DEADLOCK FALSE
