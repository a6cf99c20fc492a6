CONSTANTS
  NumChunks = 1
  PartStarts <- EachChunk
  tabA = tabA
  tabB = tabB
  Tabs = {tabA}
  Reports <- AllReport
  rejoin = rejoin
  Rejoins = {rejoin}
  Host = Host
  w1 = w1
  w2 = w2
  Runs = {w1, w2}
  Attempts = 2
  MaxFaults <- OtherFaults
  None = None
SPECIFICATION Spec
INVARIANTS ReadyHasMaster
SYMMETRY Workers
\* The system may come to rest: everything uploaded and settled.
CHECK_DEADLOCK FALSE
