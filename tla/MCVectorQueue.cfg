\* Two good items and one the model refuses; restarts and changes of the search bindings.
SPECIFICATION FairSpec
CONSTANTS
  Item = {a, b, bad}
  Poison = {bad}
  MaxAttempts = 2
  Batch = 2
  MaxCalls = 2
  MaxCrashes = 2
  Redeploys = TRUE
INVARIANTS QueueInv NothingLost InFlightUntouched AlarmCoversQueue
PROPERTIES Settles SettlesOnceAsked
