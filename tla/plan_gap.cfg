CONSTANTS
  MaxTime = 5
  Period = 2
  DemoWindow = 1
  ProWindow = 4
  MaxEvents = 3
SPECIFICATION Spec
PROPERTIES PaidKeepsRecordings
\* The clock stops at MaxTime.
CHECK_DEADLOCK FALSE
