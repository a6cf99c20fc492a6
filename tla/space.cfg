CONSTANTS
  s1 = s1
  s2 = s2
  s3 = s3
  r1 = r1
  r2 = r2
  e1 = e1
  e2 = e2
  j1 = j1
  Sessions = {s1, s2}
  Stops = {}
  Ends = {e1}
  Joins = {j1}
  Sweep = Sweep
  None = None
SPECIFICATION FairSpec
INVARIANTS OneActive  
PROPERTIES SettledStaysSettled OrphansStopped

\* Everything may be stopped, ended and settled.
CHECK_DEADLOCK FALSE
