SPECIFICATION FairTurns
CONSTANTS
  w1 = w1
  w2 = w2
  ra = ra
  rb = rb
  sa = sa
  ia = ia
  NoRow = NoRow
  Idle = Idle
  NoWorker = NoWorker
  Workers <- MCWorkers
  Requests <- OneRequest
  Sessions = {sa}
  Inputs = {ia}
  Req <- SameRequest
  SessionOf <- SameSession
  Input <- SameInput
  MaxRetries = 1
  MaxLeases = 2
  Oversized = {}
  ReplayLimit = 1
  MaxRestarts = 1
CHECK_DEADLOCK FALSE
INVARIANTS OneSenderPerRequest IntentBeforeSend RecordsAgree
PROPERTIES KeepsPromise NoTurnHangs
