CONSTANTS
  t1 = t1
  t2 = t2
  t3 = t3
  laptop = laptop
  phone = phone
  Tabs = {t1, t2}
  BrowserOf <- OneBrowser
  MaxChunks = 1
  Concurrency = 1
  MaxHard = 1
  MaxFaults = 1
  None = None
SPECIFICATION FairSpec
INVARIANTS NumberedOnce DrainedIsSafe
PROPERTIES  ChunksArrive
\* Everything may be uploaded.
CHECK_DEADLOCK FALSE
