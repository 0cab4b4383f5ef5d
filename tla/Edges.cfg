SPECIFICATION EdgesSpec
CONSTANTS
  Callers = {c1, c2}
  RECEIPTS = 2
  MaxStarts = 1
  MaxCalls = 13
  Tasks = {t1, t2}
  Routes = {a, b}
  Writers = {b}
  Events <- MCEvents
  Clients = {k1}
  Texts = {x, y}
  Budget = 1
  StageItems = 1
  MaxItems = 3
  StageLimit = 2
  MaxAsks = 3
  MaxChanges = 1
  Accounts = {p1, p2}
  MaxVersions = 1
SYMMETRY Symmetry
CHECK_DEADLOCK FALSE
INVARIANTS RunsOnceOrRefused StatusShowsNoLostTest RecordIsTrue OneTurnForItsHistory CheckpointOpensAtHome ListIsCurrent
