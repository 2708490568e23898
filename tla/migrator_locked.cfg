SPECIFICATION Spec
CONSTANTS
  c1 = c1
  c2 = c2
  NoOne = NoOne
  Callers <- MCCallers
  Versions <- MCVersions
  Registered <- MCRegistered
  Commands <- LockedCommands
  UseLock = TRUE
  Transactional = TRUE
  BodySteps = 1
  Faults = {"stmt", "commit", "crash"}
  MaxTime = 2
  MaxCommands = 4
INVARIANTS TypeOK HistoryMatchesSchema  MarkStopsBetween
PROPERTIES NewestRevertedFirst ImplementsLedger
