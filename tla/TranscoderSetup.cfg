SPECIFICATION SetupSpec
CONSTANTS
  Inputs <- MCInputs
  Extensions = {2, 3, 4, 5, 7}
  FileName = 6
INVARIANTS
  NeedsBothMedia
  EncodersNeedFormat
