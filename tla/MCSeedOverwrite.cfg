SPECIFICATION Spec
CONSTANTS
  Bodies <- MCBodies
  FolderA = a
  Folders = {a}
  Formats = {}
  Absent = Absent
  NoFolder = NoFolder
  MaxFolders = 32
  Book = book
  Keys = {book}
  BookKeys = {book}
  legacyId = legacy
  deviceId = device
  OpIds = {l1, l2, l3, legacy, device}
  LongIds = {l1, l2, l3, legacy}
  MaxCandidates = 16
  PageSize = 100
  Owner = owner
  Members = {m1}
  Edits = {}
  AdminValues <- OrganizingValues
  FileTitle = file
  Untitled = untitled
  Given = given
  NoText = NoText
  Parsed <- MCParsed
  ScanFolders = {NoFolder}
  LegacySeeds <- MCLegacySeeds
  Requests = {r1}
  None = None
SYMMETRY Symmetry
INVARIANTS ScansKeepManualMetadata
CHECK_DEADLOCK FALSE
