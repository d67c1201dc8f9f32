CONSTANTS
  None = None
  Accounts = {"a", "b"}
  Vouchers = {"bought", "campaign"}
  Duration <- MCDuration
  Quota <- MCQuota
  Deadline <- MCDeadline
  Rates = {7}
  MaxGeneration = 1
  MaxTime = 0
  Reasons = {"port-forwarding-abuse", "two lines"}
  LineBreaks = {"two lines"}
  Admin = "admin"
  Foreign = "other"
  MaxVersion = 2
SPECIFICATION FairSpec
PROPERTIES LapseReachesExit
CHECK_DEADLOCK FALSE
