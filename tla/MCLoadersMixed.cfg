SPECIFICATION FairSpec
CONSTANTS
  Requests = {r}
  GraphqlRequests = {}
  Classes = {"owner"}
  Keys = {1, 2}
  Columns <- MCColumns
  SqlColumn <- MCSqlColumn
  Added <- MCAdded
  Pages = {}
  NoPage = NoPage
  Declared <- MCDeclared
  Raw <- MCRaw
  Collections <- MCCollections
  Stray = Stray
  DefaultPageSize = 2
  MaxPageSize = 3
  NoRequest = NoRequest
  Jobs <- MixedJobs
  Offers <- MixedOffers
  SplitMode = TRUE
  MaxLevels = 2
  MaxWidth = 2
PROPERTY
  NoShapeClash
