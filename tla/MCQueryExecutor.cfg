SPECIFICATION FairSpec
CONSTANTS
  Requests = {"mutation", "query"}
  Document <- MixedDocument
  Addresses = {a1, a2, a3}
  NoAddress = NoAddress
  Relations = {"owner", "team"}
  Miss = Miss
INVARIANTS
  TypeOK
  SkippedIffPriorFailure
  LoadedRelationshipIsOwn
  OneAnswerPerField
PROPERTIES
  RequestAnswered
  ExecutesSerially
