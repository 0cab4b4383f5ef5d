SPECIFICATION Spec
CONSTANTS
  w1 = w1
  w2 = w2
  ra = ra
  rb = rb
  sa = sa
  ia = ia
  NoRow = NoRow
  Idle = Idle
  NoWorker = NoWorker
  Workers <- MCWorkers
  Requests <- TwoRequests
  Sessions = {sa}
  Inputs = {ia}
  Req <- OwnRequests
  SessionOf <- SameSession
  Input <- SameInput
  MaxRetries = 2
  MaxLeases = 2
  Oversized = {}
  ReplayLimit = 1
  MaxRestarts = 0
CHECK_DEADLOCK FALSE
INVARIANTS NoTurnLeftOpen
