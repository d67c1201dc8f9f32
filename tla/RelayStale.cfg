CONSTANTS
  Any = Any
  NoRelay = NoRelay
  Ids <- MCIds
  Countries = {"nl", "de"}
  Cities = {"nl", "de"}
  Lists <- StaleLists
  Queries <- MCQueries
SPECIFICATION RelaySpec
PROPERTY StaleIsNeverACandidate
