CONSTANTS
  None = None
  Endpoints = {"e1"}
  Rtts = {1, 9, 10, 30}
  SteadyRtt = 9
  Ttl = 2
  PruneTtls = {2, 3}
  MaxTime = 4
SPECIFICATION SteadySpec
INVARIANTS SmoothedWithinChain PruneUnobservable
PROPERTIES Converges
