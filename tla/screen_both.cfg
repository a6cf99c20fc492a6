CONSTANTS
  Screen = Screen
  Camera = Camera
  Host = Host
  None = None
  Tracks <- ScreenAndCamera
  Last <- OneEach
  Reports <- CameraEmpty
  Attempts = 2
  MaxFaults = 1
  MaxRequests = 1
SPECIFICATION Untimed
INVARIANTS ReadyHasVideo

\* The take may come to rest: everything uploaded and settled.
CHECK_DEADLOCK FALSE
