SPECIFICATION MCSpec
CONSTANTS
  OrderIds = {1, 2}
  Prices = {1, 2, 3, 4}
  UndefPrice = 9
  Channels = {1}
  Events <- MCEvents
  NoInstrument = 0
  WindowSize = 1
  MaxWarnings = 1
  MboFiles <- MCMboFiles
  TopDepth = 1
  WindowLength = 3
  Requested <- MCRequested
  FileEnd = 6
  TailLength = 2
  SessionLength = 4
  Groups = {1, 2}
  Latency = 1
  EntrySlip = 0
  StopSlip = 2
  ExitSlip = 1
  SessionFiles <- MCSessionFiles
  SpecOf <- MCSpecOf
  Signals <- MCSignals
  DayStart = 1
  DayEnd = 5
  SignalBucket = 1
  Validity = 3
INVARIANTS LevelsAggregateOrders PassedMeansEqual FaithfulReferencePasses
INVARIANTS GroupsRunAlone StreamingAgreesWithRun SimulatedBookAgrees NoVolumeInvented
INVARIANT TradesAreExecutable
CHECK_DEADLOCK FALSE
