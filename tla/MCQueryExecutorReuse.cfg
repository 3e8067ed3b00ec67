SPECIFICATION FairSpec
CONSTANTS
  Requests = {"one"}
  Document <- ReuseDocument
  Addresses = {a1, a2, a3}
  NoAddress = NoAddress
  Relations = {"owner"}
  Miss = Miss
INVARIANT
  NullKeyServesNull
