CONSTANTS
  people = people
  jobs = jobs
  spare = spare
  id = id
  text = text
  r1 = r1
  r2 = r2
  owner = owner
  plain = plain
  translated = translated
  None = None
  Tables <- MCTables
  FieldNames <- MCFieldNames
  Key <- id
  RelNames <- MCRelNames
  Titles <- MCTitles
  Rels <- MCRels
  MaxTables = 2
  MaxUses = 1
SPECIFICATION Spec
SYMMETRY Symmetric
INVARIANTS
  TypeOK
  RelationshipsJoin
  LayoutsKeepRelationships
  ReloadAgrees
  FileKnowsTheSchema
