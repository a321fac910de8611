CONSTANTS
  MaxStarts = 3
  MaxPresses = 2
  MaxCrashes = 1
SPECIFICATION FairSpec
CHECK_DEADLOCK FALSE
INVARIANT TypeOK
INVARIANT OneHeartbeat
INVARIANT HeartbeatFollowsDisplay
INVARIANT Confined
PROPERTY ControlKept
INVARIANT InterfaceUp
