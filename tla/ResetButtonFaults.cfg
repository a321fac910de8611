CONSTANTS
  SelectionDelay = 3
  SafeGraceDelay = 4
  DangerousGraceDelay = 8
  AbortDelay = 2
  DisplayDelay = 6
  GpioFaults = TRUE
SPECIFICATION Spec
PROPERTY PolicyImplemented
