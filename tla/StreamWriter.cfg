SPECIFICATION StreamWriterFairSpec
CONSTANTS
  FileNames = {6, 236, 240}
  Extensions = {2, 3}
  Rates <- MCRates
  RolloverTimes = {0, 1}
  Times = {0, 5, 61}
  MaxPackets = 3
INVARIANTS
  StreamWriterTypeOK
  RolloverAlwaysOrNever
  WholeFileHoldsAll
  DeathNeedsFailure
  EveryNameLeaks
  LaterFilesAreNew
PROPERTIES
  FailedHeaderIsFatal
