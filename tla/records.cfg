CONSTANTS
  ann = ann
  bob = bob
  Clients <- MCClients
  MaxKey = 1
  None = None
SPECIFICATION Spec
SYMMETRY Symmetry
INVARIANTS
  TypeOK
  CalmKeysAreFree
  UsedKeysWereMade
  CalmDetailsShowTheNewRecord
