\* light_fatal() against the promise of light_stream_flush().
CONSTANTS
  NStreams = 2
  Producers = {p1}
  Main = main
  Depth = 2
  FlushPolls = 2
  Budget = 1
  NoOne = NoOne
  NoMsg = NoMsg
SPECIFICATION Spec
INVARIANT FlushWritesEverything
