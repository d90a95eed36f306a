SPECIFICATION Spec
CONSTANTS
  One = one
  Two = two
  Books = {one, two}
  Series = {s, t}
  Accounts = {a, b}
  Order <- MCOrder
  VolumeOf <- MCVolumeOf
  Places <- MCPlaces
  Start <- MCStart
  Choices <- MCChoices
  Edits <- MCEdits
  Limit = 2
  MaxRequests = 2
  MaxFaults = 1
  MaxReads = 1
  None = None
INVARIANTS AcksTrue
PROPERTIES NeverLowered ProgressArrives
CHECK_DEADLOCK FALSE
