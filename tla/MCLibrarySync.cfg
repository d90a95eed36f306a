SPECIFICATION Spec
CONSTANTS
  Bodies <- MCBodies
  FolderA = a
  Folders = {a}
  Formats = {}
  Absent = Absent
  NoFolder = NoFolder
  MaxFolders = 32
  Book = book
  Keys = {book}
  BookKeys = {book}
  legacyId = legacy
  deviceId = device
  OpIds = {l1, l2, l3, legacy, device}
  LongIds = {l1, l2, l3, legacy}
  MaxCandidates = 2
  PageSize = 100
  Owner = owner
  Members = {m1}
  Edits <- MCEdits
  AdminValues <- MCAdminValues
  FileTitle = file
  Untitled = untitled
  Given = given
  NoText = NoText
  Parsed <- MCParsed
  ScanFolders = {a}
  LegacySeeds <- MCLegacySeeds
  Requests = {r1, r2}
  None = None
SYMMETRY Symmetry
INVARIANTS StoresConsistent EditsSurviveSeeds
PROPERTIES SeedsOnlyAvailable MigrationKeepsContent
CHECK_DEADLOCK FALSE
