CONSTANTS
  Comma <- MCComma
  CipherIDs <- MCCipherIDs
  InsecureCipherNames <- MCInsecureCipherNames
  TLSFlagValues <- MCTLSFlagValues
SPECIFICATION Spec
INVARIANT MaxUnspecifiedMeansNoUpperBound
CHECK_DEADLOCK FALSE
