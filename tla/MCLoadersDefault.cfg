SPECIFICATION FairSpec
CONSTANTS
  Requests = {"g", "r", "s"}
  GraphqlRequests = {"g"}
  Classes = {"owner", "reviewsPage", "tasksPage"}
  Keys = {1, 2}
  Columns <- MCColumns
  SqlColumn <- MCSqlColumn
  Added <- MCAdded
  Pages = {"none", "excess", "past", "default"}
  NoPage = NoPage
  Declared <- MCDeclared
  Raw <- MCRaw
  Collections <- MCCollections
  Stray = Stray
  DefaultPageSize = 2
  MaxPageSize = 3
  NoRequest = NoRequest
  Jobs <- DefaultJobs
  Offers <- DefaultOffers
  SplitMode = FALSE
  MaxLevels = 1
  MaxWidth = 2
INVARIANTS
  FreshRowsCoverSelection
  PageParamsHonoured
