CONSTANTS
  None = None
  Exits = {"a", "b"}
  Canary = "a"
  RamExits = {"b"}
  Signers = {"offline", "other"}
  Pin = "offline"
  Foreign = "other"
  Releases = {"v1", "v2", "v3", "v1-dirty"}
  Binaries = {"old", "new", "bad"}
  VersionOf <- MCVersionOf
  Plans <- MCPlans
  MaxTime = 2
SPECIFICATION FairSpec
INVARIANTS BootsWhatWasSigned BadReleaseStopsAtCanary
PROPERTIES NeverOlder Converges
