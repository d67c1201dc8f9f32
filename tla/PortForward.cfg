CONSTANTS
  None = None
  Accounts = {a1, a2}
  Exits = {x1, x2}
  Ports = {1}
  Serials = {s1, s2}
  Cases = {c1}
  Forms = {"intact", "garbled", "bare", "truncated", "other_envelope", "other_tag"}
  Cooldown = 1
  Prefetch = 1
  MaxKey = 2
  MaxEpoch = 2
  MaxTime = 1
SPECIFICATION Spec
SYMMETRY Symmetry
INVARIANTS GrantIsAccountable OnePortPerEntitlement StrikeHitsHolder
