SPECIFICATION PartsSpec
CONSTANTS
  Requests = {r1, r2}
  Sessions = {s1, s2}
  Inputs = {i1, i2}
  NoRow = NoRow
  w1 = w1
  w2 = w2
  w3 = w3
  w4 = w4
  sa = sa
  sb = sb
  sc = sc
  Workers <- MCWorkers
  SessionOf <- MCSessionOf
  Active = 1
  Queued = 2
  Accounts = {a, b}
  NoAccount = NoAccount
  NoSession = NoSession
  MaxInst = 2
  Families = {f1, f2}
  Names = {low, mid, high}
  f1 = f1
  low = low
  mid = mid
  high = high
  MaxMoves = 1
  Owners = {a1, a2}
  Workspaces = {w}
  NoOwner = NoOwner
  Personal = Personal
  MaxSwitches = 2
  Tabs = {t1, t2}
  MaxMishaps = 3
INVARIANTS OneCallPerSession SessionHasOneUser SessionIsWhatWasTested MenuIsTrue ScopeWasShown BrowserIsReplaced EffortsAreHonoured
PROPERTIES NeverTreatedAsUnsent ImplementsLease NoStarvation
