SPECIFICATION Spec
CONSTANTS
  Starts <- MCStarts
  MaxBuilders = 4
INVARIANTS TypeOK ColumnIsAsAsked OneClauseEach
