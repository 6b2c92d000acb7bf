CONSTANTS
  Comma <- MCComma
  CipherIDs <- MCCipherIDs
  InsecureCipherNames <- MCInsecureCipherNames
  TLSFlagValues <- MCTLSFlagValues
  ConcurrencyFlags <- MCConcurrencyFlags
  WaitForMetal3Controller = FALSE
SPECIFICATION FairSpec
INVARIANTS
  TypeOK
  RunningOnlyWhenFullySetUp
  ExitStatusSound
PROPERTIES
  NoRegistrationAfterError
  SignalTerminates
\* main ends: after os.Exit, a return from main or death by a signal the
\* process takes no further step.
CHECK_DEADLOCK FALSE
