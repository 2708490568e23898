SPECIFICATION FairSpec
CONSTANTS
  c1 = c1
  c2 = c2
  NoOne = NoOne
  Callers <- MCCallers
  Versions <- MCVersions
  Registered <- MCRegistered
  Commands <- UnlockedCommands
  UseLock = FALSE
  Transactional = TRUE
  BodySteps = 1
  Faults = {"stmt", "commit", "crash"}
  MaxTime = 1
  MaxCommands = 3
INVARIANTS NoUnrecordedSchema
PROPERTIES DryRunHarmless CommandsReturn
