SPECIFICATION Spec
CONSTANTS
  Calls = {1, 2}
  Nodes = {"n1", "n2", "n3", "n4", "n5", "n6", "n7", "n8"}
  Classes <- MCClasses
  Aliases = {"a", "b"}
  FieldOrder <- MCFields
  Desc <- MCDesc
  Docs <- MCDocs
  KeyNamed <- MCKeyNamed
INVARIANTS
  TypeOK
  GuardIsTheRunningCall
  NearestAncestorIsExposed
  CollectorsComplete
  PostsAfterDescendants
  EveryNodeVisitedOnce
  DeclaredRelationshipsLoad
PROPERTIES
  EveryCallEnds
CHECK_DEADLOCK FALSE
