CONSTANTS
  Attempts = {a1}
  Old = Old
  Main = Main
  Nil = Nil
  MaxEvents = 4
SPECIFICATION Spec
CHECK_DEADLOCK FALSE
INVARIANT CallbackNotLost
