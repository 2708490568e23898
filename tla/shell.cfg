SPECIFICATION Spec
CONSTANTS
  Processes = {p1, p2}
  Environments <- MCEnvironments
  Invocations <- MCInvocations
  FieldLists <- MCFieldLists
  Faults = {"open", "write", "crash"}
  MaxClock = 1
INVARIANTS TypeOK CreatedFilesStay FieldsAsDocumented FileRunsOnItsDialect CreateMatchesDatabase RequestIsAsDocumented
