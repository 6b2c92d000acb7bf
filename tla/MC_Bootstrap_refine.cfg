CONSTANTS
  Comma <- MCComma
  CipherIDs <- MCCipherIDs
  InsecureCipherNames <- MCInsecureCipherNames
  TLSFlagValues <- MCTLSFlagValues
  ConcurrencyFlags <- MCConcurrencyFlags
  WaitForMetal3Controller = TRUE
SPECIFICATION Spec
PROPERTY ImplementsAbstract
\* main ends: after os.Exit, a return from main or death by a signal the
\* process takes no further step.
CHECK_DEADLOCK FALSE
