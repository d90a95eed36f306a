SPECIFICATION FairSpec
CONSTANTS
  Users = {alice, lib}
  Libraries = {lib}
  Books = {b1}
  Paths = {x}
  Watches = {w1}
  Requests = {r1, r2}
  Commands = {}
  Gone = Gone
  None = None
INVARIANTS RowsHaveObjects RowsHaveWatch RowsHaveUser BackupComplete
PROPERTIES CatalogueReplacedWhole HandlersFinish
CHECK_DEADLOCK FALSE
