SPECIFICATION Spec
CONSTANTS
  c1 = c1
  c2 = c2
  NoOne = NoOne
  Callers <- MCCallers
  Versions <- MCVersions
  Registered <- MCRegistered
  Commands <- ForwardCommands
  UseLock = TRUE
  Transactional = FALSE
  BodySteps = 2
  Faults = {"stmt", "commit", "crash"}
  MaxTime = 1
  MaxCommands = 3
INVARIANTS NoHalfRecorded
