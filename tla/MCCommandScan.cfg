SPECIFICATION Spec
CONSTANTS
  Users = {alice, lib}
  Libraries = {lib}
  Books = {b1}
  Paths = {x}
  Watches = {w1}
  Requests = {r1, r2}
  Commands = {r2}
  Gone = Gone
  None = None
INVARIANTS RowsHaveObjects
CHECK_DEADLOCK FALSE
