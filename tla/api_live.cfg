CONSTANTS
  c1 = c1
  e1 = e1
  Clients <- OneClient
  PerClient = 1
  Attempts = 2
  Mode = "steady"
  Requests <- AllRequests
  Events <- OneRecord
  EventsOf <- SameEvents
  Body <- AllOk
  Size <- AllSizes
  MaxBytes = 0
  MaxInFlight = 2
  MaxRestarts = 0
SPECIFICATION FairSystem
INVARIANTS GeneratorTypeOK CountedIsStored BatchesAccounted
PROPERTIES AcceptedReachesKafka ShutdownEnds ClientsAdvance RunEnds
