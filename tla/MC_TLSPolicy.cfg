CONSTANTS
  Comma <- MCComma
  CipherIDs <- MCCipherIDs
  InsecureCipherNames <- MCInsecureCipherNames
  TLSFlagValues <- MCTLSFlagValues
SPECIFICATION Spec
INVARIANTS
  BuildSucceedsIff
  AppliedConfigHonoursFlags
  CipherWarningsFaithful
  EmptyCipherNameRejected
\* The builder is a function: once it returned, or the server started, the
\* component takes no further step.
CHECK_DEADLOCK FALSE
