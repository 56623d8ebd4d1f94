CONSTANTS
  N = 4
  MaxDepth = 10
  Designs <- MCDesigns
SPECIFICATION Spec
INVARIANTS
  TypeOK
  ConsistentWhenDone
  CrashesOnlyAfterLookups
PROPERTIES
  ChangesEnd
