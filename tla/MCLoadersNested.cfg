SPECIFICATION FairSpec
CONSTANTS
  Requests = {g}
  GraphqlRequests = {g}
  Classes = {"reviews"}
  Keys = {1, 2}
  Columns <- NestedColumns
  SqlColumn <- NestedSql
  Added <- MCAdded
  Pages = {"all"}
  NoPage = NoPage
  Declared <- MCDeclared
  Raw <- MCRaw
  Collections <- MCCollections
  Stray = Stray
  DefaultPageSize = 2
  MaxPageSize = 3
  NoRequest = NoRequest
  Jobs <- NestedJobs
  Offers <- NestedOffers
  SplitMode = FALSE
  MaxLevels = 2
  MaxWidth = 2
INVARIANTS
  RowsCoverSelection
