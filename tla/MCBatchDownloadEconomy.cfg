SPECIFICATION BatchSpec
CONSTANTS
  e1 = e1
  trades = trades
  mbo = bars
  d1 = d1
  d2 = d2
  Estimates <- MCEstimates
  Jobs <- MCJobs
  EstimateOf <- MCEstimateOf
  BookJobs <- MCNoBooks
  Downloaders <- MCDownloaders
  LegacyJobs <- MCLegacyJobs
  Amounts <- MCAmounts
  Offers <- MCOffers
  Modes <- MCModes
  ConfiguredLimits <- MCConfiguredLimits
  WeekLength = 1
  MonthLength = 1
  LastDay = 0
INVARIANTS
  CompletedMeansEverySchema
