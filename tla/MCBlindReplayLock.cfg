SPECIFICATION Spec
CONSTANTS
  s1 = s1
  s2 = s2
  locked = locked
  practice = practice
  None = None
  Sessions <- MCSessions
  Plans <- MCPlans
  Runs = {r1, r2}
  GroupCount <- MCGroupCount
  Prime <- MCPrime
  Complete <- MCComplete
  ReadyGroups <- MCReadyGroups
  TradeGroups <- MCTradeGroups
  EndTime <- MCEndTime
  FrameSizes = {1, 2}
  FirstFrame = 2
  Clients = {c1}
  PlanMode <- MCPlanMode
  PlanSessions <- MCPlanSessions
  Trades = {t1}
INVARIANT
  LockHolds
