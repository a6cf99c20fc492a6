CONSTANTS
  h1 = h1
  Beats = {}
  Sweep = Sweep
  Hosts = {h1}
  Lead = 1
  Credit = 2
  MaxTime = 3
  MaxCrashes = 1
  None = None
SPECIFICATION FairSpec
INVARIANTS NeverOverbilled BooksAgree
PROPERTIES OrphanIsFree SpentTakeStops
\* A stopped take stays stopped.
CHECK_DEADLOCK FALSE
