CONSTANTS
  NoTable = NoTable
  Tables <- MCTables
  Foreign <- MCForeign
  ReadSize = 3
  ConvertSize = 2
  MaxStarts = 2
  Reread <- MCReread
SPECIFICATION ImportSpec
CHECK_DEADLOCK FALSE
INVARIANTS
  ImportTypeOK
  RowsFollowTheFile
  ImportsEachRowOnce
  ExportedComesBack
PROPERTIES
  ParsingEnds
