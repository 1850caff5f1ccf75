SPECIFICATION FairSpec
CONSTANTS
  e1 = e1
  e2 = e2
  trades = trades
  bars = bars
  mbo = mbo
  Estimates <- MCEstimates
  Jobs <- MCJobs
  EstimateOf <- MCEstimateOf
  LegacyJobs <- MCLegacyJobs
  Amounts <- MCAmounts
  Offers <- MCOffers
  Modes <- MCModes
  ConfiguredLimits <- MCConfiguredLimits
  WeekLength = 2
  MonthLength = 3
  LastDay = 2
INVARIANTS
  TypeOK
  AtMostOneOrder
  RetrySafeMeansNoOrder
  QueuedMeansOrdered
  EstimateFollowsAuthorization
  ReservationsWithinOwnLimits
PROPERTIES
  KeepsContract
  SemaphoreIsReleased
