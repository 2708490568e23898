SPECIFICATION Spec
CONSTANTS
  b1 = b1
  b2 = b2
  article = article
  slug = slug
  slug_index = slug_index
  primary_key = primary_key
  user_key = user_key
  Sessions = {b1, b2}
  Objects <- MCObjects
  Kind <- MCKind
  Table <- MCTable
  Scripts <- MCScripts
  Dialects = {"mysql", "postgres", "sqlite", "sqlserver"}
  Faults = {"probe", "stmt", "crash"}
  MaxRuns = 3
INVARIANTS TypeOK DoneMeansAsAsked RerunNeverFails RacersLeaveItAsAsked FailedPlanExecutesNothing PreviewCoversRun
