SPECIFICATION RangeSpec
CONSTANTS
  e1 = e1
  e2 = e2
  mbo1 = mbo1
  mbo2 = mbo2
  Estimates <- MCEstimates
  Jobs <- MCJobs
  EstimateOf <- MCEstimateOf
  LegacyJobs <- MCLegacyJobs
  Amounts <- MCAmounts
  ConfiguredLimits <- MCConfiguredLimits
  RangeBudgets <- MCRangeBudgets
  MaxOrders = 1
  Offers <- MCOffers
  Modes <- MCDryRun
  WeekLength = 2
  MonthLength = 3
  LastDay = 0
INVARIANTS
  ReservationsWithinLimits
