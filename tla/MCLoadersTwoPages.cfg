SPECIFICATION FairSpec
CONSTANTS
  Requests = {g}
  GraphqlRequests = {g}
  Classes = {"tasksPage"}
  Keys = {1, 2}
  Columns <- MCColumns
  SqlColumn <- MCSqlColumn
  Added <- MCAdded
  Pages = {"limit1", "limit5"}
  NoPage = NoPage
  Declared <- MCDeclared
  Raw <- MCRaw
  Collections <- MCCollections
  Stray = Stray
  DefaultPageSize = 2
  MaxPageSize = 3
  NoRequest = NoRequest
  Jobs <- TwoPagesJobs
  Offers <- TwoPagesOffers
  SplitMode = FALSE
  MaxLevels = 2
  MaxWidth = 2
INVARIANTS
  PageParamsHonoured
