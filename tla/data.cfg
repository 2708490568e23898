SPECIFICATION Spec
CONSTANTS
  Columns = {1, 2}
  Migrations <- MCMigrations
  Tables <- MCTables
  Faults = {"query", "stmt", "crash"}
  MaxRuns = 3
INVARIANTS TypeOK DataAsAsked OnlyFaultsStopIt SeededOnce
