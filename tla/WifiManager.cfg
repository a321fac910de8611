CONSTANTS
  Attempts = {a1, a2}
  Old = Old
  Main = Main
  Nil = Nil
  MaxEvents = 3
SPECIFICATION Spec
CHECK_DEADLOCK FALSE
SYMMETRY AttemptSymmetry
INVARIANT TypeOK
INVARIANT WatchersHearAll
INVARIANT NoOrphanWatcher
INVARIANT ExitAfterAck
