SPECIFICATION DSpec
CONSTANTS
  Bodies = {x}
  Folders = {}
  Formats = {}
  Absent = Absent
  NoFolder = NoFolder
  MaxFolders = 32
  Note = note
  Keys = {note}
  BookKeys = {}
  p1 = p1
  p2 = p2
  d1 = d1
  OpIds = {p1, p2, d1}
  MaxCandidates = 16
  PageSize = 1
  MaxBatch = 2
  NoTx = NoTx
  Operations = {}
  Phone = phone
  Desk = desk
  Devices = {phone, desk}
  Plans <- MCPlans
  MaxLosses = 2
  None = None
INVARIANTS NothingUnseenReplaced NeverRefused EditsKept
PROPERTIES PullsLog Converges
CHECK_DEADLOCK FALSE
