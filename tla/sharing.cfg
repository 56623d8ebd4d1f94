CONSTANTS
  ann = ann
  bob = bob
  cai = cai
  Default = Default
  NoUser = NoUser
  Users <- MCUsers
SPECIFICATION Spec
CHECK_DEADLOCK FALSE
SYMMETRY Symmetric
INVARIANTS
  TypeOK
  UnsharedHasDefault
  OpenOnlyWhileShared
PROPERTIES
  SharingKeepsADeveloper
  SharedWithoutDefault
