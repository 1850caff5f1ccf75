SPECIFICATION BatchSpec
CONSTANTS
  e1 = e1
  trades = trades
  mbo = mbo
  d1 = d1
  d2 = d2
  Estimates <- MCEstimates
  Jobs <- MCJobs
  EstimateOf <- MCEstimateOf
  BookJobs <- MCBookJobs
  Downloaders <- MCDownloaders
  LegacyJobs <- MCLegacyJobs
  Amounts <- MCAmounts
  Offers <- MCOffers
  Modes <- MCModes
  ConfiguredLimits <- MCConfiguredLimits
  WeekLength = 1
  MonthLength = 1
  LastDay = 0
SYMMETRY MCSymmetry
INVARIANTS
  BatchTypeOK
  DownloadsAreReserved
  CompletedIsLocal
  BooksAreChecked
  EstimateFollowsDownload
PROPERTIES
  CompletedIsFinal
