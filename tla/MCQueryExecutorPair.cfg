SPECIFICATION FairSpec
CONSTANTS
  Requests = {"one", "two"}
  Document <- PairDocument
  Addresses = {a1, a2, a3}
  NoAddress = NoAddress
  Relations = {"owner"}
  Miss = Miss
INVARIANT
  NothingLost
