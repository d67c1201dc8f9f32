CONSTANTS
  Any = Any
  NoRelay = NoRelay
  Ids <- MCIds
  Countries = {"nl", "de"}
  Cities = {"nl", "de"}
  Lists <- MCLists
  Queries <- MCQueries
SPECIFICATION FairClientSpec
INVARIANTS ShownIsTrue
PROPERTIES FailoverIsSound HoldsUntilIntended NeverBricked ProtectedAgain
