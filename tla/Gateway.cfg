SPECIFICATION MCSpec
CONSTANTS
  w1 = w1
  w2 = w2
  w3 = w3
  d1 = d1
  d2 = d2
  Actors <- Holders
  Drains <- Closers
  Statuses = {p, q}
  Settings = {low, high}
  QUEUE = 1
  MaxFrames = 3
  MaxPages = 2
  Clients = {app}
  Checks = {"installed", "conflict"}
  Failures = {"auth", "unavailable"}
  Outcomes = {"error"}
  SLOTS = 2
  MaxNatives = 2
  MaxLists = 2
  MaxChanges = 7
  Exercises = {"text", "read_patch", "read_patch_test", "read_test_repair", "denied_read", "checkpoint", "tool_checkpoint", "automatic"}
  MaxGrow = 3
  MaxCompactions = 2
  MaxFaults = 2
SYMMETRY Symmetry
INVARIANTS MaintenanceIsAlone NoLostWakeup DrainHolds IdleCloseCutsNoTurn EventsAreNeverRevised SidesDoNotMix ReportIsTrue
PROPERTIES ReadyIsEarned
