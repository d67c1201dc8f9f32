CONSTANTS
  None = None
  Accounts = {"a", "b"}
  Vouchers = {"bought", "campaign"}
  Duration <- MCDuration
  Quota <- MCQuota
  Deadline <- MCDeadline
  Rates = {7}
  MaxGeneration = 3
  MaxTime = 1
  Reasons = {"port-forwarding-abuse", "two lines"}
  LineBreaks = {"two lines"}
  Admin = "admin"
  Foreign = "other"
  MaxVersion = 2
SPECIFICATION FairSpec
INVARIANTS AllowlistIsGeneration NoMoreThanPaid
PROPERTIES PaidIsServed RevocationReachesExit
CHECK_DEADLOCK FALSE
