CONSTANTS
  q = q
  r = r
  s = s
  q1 = q1
  q2 = q2
  r1 = r1
  s1 = s1
  Requests <- TwoRequests
  Events <- TwoEvents
  EventsOf <- TwoEventsOf
  Body <- TwoOk
  Size <- TwoSizes
  MaxBytes = 3
  MaxInFlight = 2
  MaxRestarts = 0
SPECIFICATION Spec
INVARIANTS UnavailableOnlyWithoutDisk
