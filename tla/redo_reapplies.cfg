SPECIFICATION Spec
CONSTANTS
  c1 = c1
  c2 = c2
  NoOne = NoOne
  Callers <- MCCallers
  Versions <- MCVersions
  Registered <- MCRegistered
  Commands <- RedoCommands
  UseLock = TRUE
  Transactional = TRUE
  BodySteps = 1
  Faults = {}
  MaxTime = 2
  MaxCommands = 3
INVARIANTS RedoReappliesReverted
