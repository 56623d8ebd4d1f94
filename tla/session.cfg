CONSTANTS
  mine = mine
  other = other
  shipped = shipped
  NoFile = NoFile
  Files <- MCFiles
  ReadOnly <- MCReadOnly
  MaxContent = 3
SPECIFICATION Spec
SYMMETRY Symmetric
INVARIANTS
  TypeOK
PROPERTIES
  OnlyTwoOperationsForget
  OpeningForgetsNoServer
