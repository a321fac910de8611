CONSTANTS
  SelectionDelay = 3
  SafeGraceDelay = 4
  DangerousGraceDelay = 8
  AbortDelay = 2
  DisplayDelay = 0
  GpioFaults = FALSE
SPECIFICATION FairSpec
INVARIANT TypeOK
INVARIANT TimerFaithful
INVARIANT ChoiceConsistent
INVARIANT OutcomeIsCommitted
PROPERTY GraceCutByStrayOnly
PROPERTY PressHonoured
PROPERTY PhasesEnd
PROPERTY EveryModeOffered
