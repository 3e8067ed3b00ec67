SPECIFICATION FairSpec
CONSTANTS
  Requests = {g}
  GraphqlRequests = {g}
  Classes = {"owner"}
  Keys = {1, 2}
  Columns <- MCColumns
  SqlColumn <- MCSqlColumn
  Added <- MCAdded
  Pages = {}
  NoPage = NoPage
  Declared <- MCDeclared
  Raw <- MCRaw
  Collections <- MCCollections
  Stray = Stray
  DefaultPageSize = 2
  MaxPageSize = 3
  NoRequest = NoRequest
  Jobs <- RevisitJobs
  Offers <- RevisitOffers
  SplitMode = FALSE
  MaxLevels = 2
  MaxWidth = 1
INVARIANTS
  RowsCoverSelection
