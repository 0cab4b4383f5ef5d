SPECIFICATION Spec
CONSTANTS
  r1 = r1
  r2 = r2
  host = host
  operation = operation
  disconnect = disconnect
  Requests <- OneRequest
  Actors <- OneRequestActors
  Boot = host
  Op = operation
  Disc = disconnect
  Drains <- Disconnects
INVARIANT CleanupFailuresAreReal
