CONSTANTS
  a = a
  b = b
  c = c
  Keys <- ThreeKeys
  TimeOf <- ThreeTimes
  Window = 2
  Second = 2
  Span = 2
  PageLines = 3
  MaxTime = 4
  MaxCopies = 2
  MaxConnections = 2
SPECIFICATION FairSpec
INVARIANTS TypeOK ShownOncePerConnection NewestOnTop
PROPERTIES NewestStreamed
\* The user may turn away for good, with the bounds used up.
CHECK_DEADLOCK FALSE
