SPECIFICATION Spec
CONSTANTS
  None = None
  Calls = {"x/y", "x_y", "z"}
  IdOf <- Sanitized
  Updates <- SomeUpdates
  MaxHeard = 4
INVARIANTS
  ItemsAreWhatWasHeard
  CompletedTurnHasItsMessage
CHECK_DEADLOCK FALSE
