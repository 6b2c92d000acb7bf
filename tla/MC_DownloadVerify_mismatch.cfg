CONSTANTS
  KernelOSValues <- MCKernelOSValues
  SkipValues <- MCSkipValues
SPECIFICATION Spec
INVARIANT MismatchReportsChecksum
CHECK_DEADLOCK FALSE
