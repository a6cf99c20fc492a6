CONSTANTS
  NumChunks = 2
  PartStarts <- EachChunk
  tabA = tabA
  tabB = tabB
  Tabs = {tabA, tabB}
  Reports <- TabAEmpty
  rejoin = rejoin
  Rejoins = {}
  Host = Host
  w1 = w1
  w2 = w2
  Runs = {w1}
  Attempts = 2
  MaxFaults <- OneRetry
  None = None
SPECIFICATION Spec
INVARIANTS NoChunkForgotten ReadyHasOutput NoDowngrade
 

\* The system may come to rest: everything uploaded and settled.
CHECK_DEADLOCK FALSE
