CONSTANTS
  KernelOSValues <- MCKernelOSValues
  SkipValues <- MCSkipValues
SPECIFICATION Spec
PROPERTY ImplementsAbstract
\* The script ends: once it exited no step is possible.
CHECK_DEADLOCK FALSE
