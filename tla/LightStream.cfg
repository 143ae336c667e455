\* Two logging threads beside main and two streams of two slots: three threads can
\* sleep on one ring, and its head wraps. One poll of the flush stands for all.
CONSTANTS
  NStreams = 2
  Producers = {p1, p2}
  Main = main
  Depth = 2
  FlushPolls = 1
  Budget = 1
  NoOne = NoOne
  NoMsg = NoMsg
SPECIFICATION FairSpec
INVARIANTS
  TypeOK
  NoLostWakeup
  ShutdownWritesEverything
  FlushLeavesOnlyTheLast
PROPERTIES
  ImplementsMessageLog
  EveryCallReturns
  EverythingWritten
