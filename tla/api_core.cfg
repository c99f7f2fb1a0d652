CONSTANTS
  q = q
  r = r
  s = s
  q1 = q1
  q2 = q2
  r1 = r1
  s1 = s1
  Requests <- ThreeRequests
  Events <- ThreeEvents
  EventsOf <- ThreeEventsOf
  Body <- ThreeOk
  Size <- ThreeSizes
  MaxBytes = 1
  MaxInFlight = 2
  MaxRestarts = 1
SPECIFICATION Spec
INVARIANTS TypeOK SpoolBound
PROPERTIES HandsOver
