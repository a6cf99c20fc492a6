CONSTANTS
  NumChunks = 2
  PartStarts <- EachChunk
  tabA = tabA
  tabB = tabB
  Tabs = {tabA}
  Reports <- AllReport
  rejoin = rejoin
  Rejoins = {}
  Host = Host
  w1 = w1
  w2 = w2
  Runs = {w1, w2}
  Attempts = 1
  MaxFaults <- Outages
  None = None
SPECIFICATION FairSpec
PROPERTIES MasterNeverShrinks  EventuallySettled
\* The system may come to rest: everything uploaded and settled.
CHECK_DEADLOCK FALSE
