\* The process of the configuration journal may really stop for good: no startup task
\* and no process.
SPECIFICATION DiskSpec
CONSTANTS
  Originals <- MCOriginals
  MaxEdits = 2
  MaxFaults = 1
  MaxCrashes = 1
  MaxWeb = 2
  p1 = p1
  Corpus = 2
  Places = {p1, p2}
  MaxClock = 2
  MaxFailures = 2
  Installations = {i1, i2}
  Installers = {u1, u2}
  OldProgram = OldProgram
  Foreign = Foreign
  NoProgram = NoProgram
  MaxMishaps = 2
  Homes = {h1, h2}
  MaxDisturbances = 2
CHECK_DEADLOCK FALSE
INVARIANTS NoKeyIsForgotten UserTextSurvives FirstAttemptsCount UpdateIsSafe UninstallIsClean
PROPERTIES KeepsUndoLog RouteGoesAway
