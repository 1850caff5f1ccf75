CONSTANTS
  MaxJobs = 2
  Sessions = {"monday", "tuesday", "partial"}
  Wanted <- MCWanted
  OtherChecks = {TRUE}
  Independent = {"monday", "tuesday"}
  LockedTest = {"tuesday"}
  Strategies = {"u", "v", "baseline"}
  BaselineOf <- MCBaselineOf
  Rankings <- MCRankings
  MinSessions = 2
  MinLocked = 1
  MaxReports = 1
  MaxCalls = 3
SPECIFICATION Spec
INVARIANTS PromotedOnEvidence OnePaperActive
PROPERTY RunningComesToRest
CHECK_DEADLOCK FALSE
