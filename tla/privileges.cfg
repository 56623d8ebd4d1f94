CONSTANTS
  Groups = {g1}
  Tables = {t1}
  Rights = {"view", "edit", "create", "delete"}
  None = None
SPECIFICATION Spec
INVARIANTS
  TypeOK
  CreatorsMayFetchKeys
PROPERTIES
  RecreatingInventsNoRights
  RevokedIsNoticed
