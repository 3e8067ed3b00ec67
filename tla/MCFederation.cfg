SPECIFICATION Spec
CONSTANTS
  Services <- MCServices
  Types <- MCTypes
  Rels <- MCRels
  Worlds <- MCWorlds
  MaxTries = 2
  MaxLost = 1
INVARIANTS
  TypeOK
  SchemaClosed
  SubsetsBoundTogether
  FieldLoadersMatch
  EntityCacheFresh
  ComposedLoadersRoute
  RenderingsAgree
  SchemaWellFormed
PROPERTIES
  BringUpEnds
CHECK_DEADLOCK FALSE
