SPECIFICATION Spec
CONSTANTS
  Starts <- MCStarts
  MaxBuilders = 2
INVARIANTS SQLiteKeysAutoincrement
