CONSTANTS
  SelectionDelay = 3
  SafeGraceDelay = 4
  DangerousGraceDelay = 8
  AbortDelay = 2
  DisplayDelay = 0
  GpioFaults = FALSE
SPECIFICATION Spec
PROPERTY GraceNotSkipped
