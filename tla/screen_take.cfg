CONSTANTS
  Screen = Screen
  Camera = Camera
  Host = Host
  None = None
  Tracks <- ScreenOnly
  Last <- TwoOfScreen
  Reports <- AnyReport
  Attempts = 2
  MaxFaults = 2
  MaxRequests = 1
SPECIFICATION Spec
INVARIANT NothingForgotten
PROPERTIES  TakeSettles

\* The take may come to rest: everything uploaded and settled.
CHECK_DEADLOCK FALSE
