SPECIFICATION Spec
CONSTANTS
  Class <- MCClass
  App <- MCApp
  Worlds <- MCWorlds
  MaxLegs = 3
  MaxSteps = 64
  Buildable <- BuiltSchemas
  Projects <- SelectionFits
INVARIANTS
  TypeOK
  MutationsSerial
  WritesAccounted
  ConfirmedFirst
  BatchAligned
  RegistryOneMeaning
  FragmentsClosed
  SurfacesAgree
PROPERTIES
  RequestsEnd
CHECK_DEADLOCK FALSE
