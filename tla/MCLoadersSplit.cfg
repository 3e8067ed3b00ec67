SPECIFICATION FairSpec
CONSTANTS
  Requests = {g, r}
  GraphqlRequests = {g}
  Classes = {"owner"}
  Keys = {1, 2}
  Columns <- MCColumns
  SqlColumn <- MCSqlColumn
  Added <- MCAdded
  Pages = {}
  NoPage = NoPage
  Declared <- MCDeclared
  Raw <- MCRaw
  Collections <- MCCollections
  Stray = Stray
  DefaultPageSize = 2
  MaxPageSize = 3
  NoRequest = NoRequest
  Jobs <- SplitJobs
  Offers <- SplitOffers
  SplitMode = TRUE
  MaxLevels = 2
  MaxWidth = 2
INVARIANTS
  TypeOK
  OneFetchPerKey
  NoLostWakeup
  RowsCoverSelection
  ReadsSinceBegin
PROPERTY
  LevelSettles
