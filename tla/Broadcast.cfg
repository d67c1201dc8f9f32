CONSTANTS
  None = None
  MaxComponent = 20
  UnreadSaturated = 15
  Items <- MCItems
  CountLists <- MCCounts
  Slots = {0, 1}
  Versions <- MCVersions
  Keys = {"k1", "k2"}
  Pins = {"k1"}
  Forms = {"intact", "oversized", "not_json", "other_version", "bad_hex", "off_curve", "grown", "bad_counts"}
  Lags = {0, 1}
  Lifetime = 1
  MaxGeneration = 3
  MaxCached = 2
  MaxTime = 3
SPECIFICATION Spec
INVARIANTS WithdrawnCeiling SeenIsGone TargetedOnly BadgeIsTrue
