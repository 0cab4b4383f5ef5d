SPECIFICATION FairSpec
CONSTANTS
  r1 = r1
  r2 = r2
  host = host
  operation = operation
  disconnect = disconnect
  Requests <- TwoRequests
  Actors <- TwoRequestsActors
  Boot = host
  Op = operation
  Disc = disconnect
  Drains <- Disconnects
INVARIANTS RestoringIsQuiet NothingIsAbandoned
PROPERTIES DisconnectEnds
