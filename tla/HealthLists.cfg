SPECIFICATION ListsSpec
CONSTANTS
  Clients = {app}
  Checks = {"installed"}
  Failures = {"auth"}
  Outcomes = {"error"}
  SLOTS = 1
  MaxNatives = 1
  MaxLists = 3
  MaxChanges = 0
CHECK_DEADLOCK FALSE
INVARIANT EarlierListsAreInvalid
