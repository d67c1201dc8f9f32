CONSTANTS
  NoDirectory = NoDirectory
  Ids = {1, 2}
  Geos = {"nl", "de"}
  OpKeys = {"op1", "op2"}
  Roots = {"root1", "root2"}
  Fields <- MCFull
  Clients = {"c"}
  ClientBuilds <- MCClientBuilds
  ServerBuilds <- MCServerBuilds
  FrozenFields <- MCFrozen
  Drafts <- MCDrafts
  Keys = {"k1", "k2"}
  Pins = {"hex", "malformed"}
  Forms = {"intact", "oversized", "not_json", "other_version", "bad_hex"}
  MaxDrafts = 2
  MaxServed = 2
SPECIFICATION RolloutSpec
INVARIANTS NothingLost ServedIsReadable DialMaterialIsBound
