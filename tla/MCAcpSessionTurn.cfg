SPECIFICATION Spec
CONSTANTS
  r1 = r1  r2 = r2  s1 = s1  s2 = s2
  None = None
  Runs = {r1}
  Sessions = {s1}
  StoredSessions <- Stored
  OptionSets <- SomeOptions
  MaxSent = 3
INVARIANTS
  TurnHasItsOwnUpdates
  PermissionsAreObeyed
  PromptInOpenSession
CHECK_DEADLOCK FALSE
