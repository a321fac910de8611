CONSTANTS
  StaleDelay = 6
  CloseDelay = 2
  StopDelay = 4
  RpcDelay = 3
  Settle = 21
  MaxEvents = 3
SPECIFICATION Spec
INVARIANT AccessPointWhenNeeded
