CONSTANTS
  KernelOSValues <- MCKernelOSValues
  SkipValues <- MCSkipValues
SPECIFICATION Spec
INVARIANTS InstalledOnlyIfVerified ExitStatusMeansInstalled
\* The script ends: once it exited no step is possible.
CHECK_DEADLOCK FALSE
