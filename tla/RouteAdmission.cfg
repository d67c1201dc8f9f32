CONSTANTS
  None = None
  ServerKeys = {"server", "other"}
  Server = "server"
  Foreign = "other"
  Exits = {"x", "y"}
  MaxRoutes = 1
  AnchorTtl = 2
  RouteTtl = 1
  RestoreWindow = 1
  Validity = 1
  MaxKey = 2
  MaxTime = 2
SPECIFICATION FairSpec
PROPERTIES SealedToVouchedKey OutlivesRestart RoutesEndWithAnchor
CHECK_DEADLOCK FALSE
