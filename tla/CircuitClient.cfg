CONSTANTS
  None = None
  Countries = {"nl", "de", "us"}
  Pubkeys <- MCIds
  Dials <- MCIds
  Seals <- MCIds
  NeutralRtt = 60
  HalfScoreRtt = 50
  DegradedDiv = 8
  SwitchMarginPct = 25
  StaleAfter = 1
  ScoreScale = 1000
  MaxWeight = 5
  Directories <- MCDirectories
  Legs <- MCLegs
  Qualities <- MCQualities
  Rtts = {10}
  Measured = {1}
  Drainable = {2}
  Hints <- MCHints
  Ttl = 2
  MaxTime = 2
  Timezones <- MCTimezones
SPECIFICATION FairSpec
INVARIANTS PollChoiceAllowed PollIsStable ViewsAgree ReorderNeverMoves FollowsNoSignalOrder
PROPERTIES SwitchImproves DrainedNodeIsLeft
