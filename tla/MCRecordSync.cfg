SPECIFICATION Spec
CONSTANTS
  Bodies = {x}
  Folders = {a, b, c}
  FolderA = a
  FolderB = b
  FolderC = c
  Formats = {}
  Absent = Absent
  NoFolder = NoFolder
  MaxFolders = 32
  Book = book
  Note = note
  Keys = {book, note}
  BookKeys = {book}
  OpIds = {o1, o2, o3}
  MaxCandidates = 2
  PageSize = 2
  MaxBatch = 2
  MaxBase = 2
  NoTx = NoTx
  Operations <- MCOperations
INVARIANTS LogAgrees OneEffectPerOperation NoEditLost WithinCapacity AnswersDurable
PROPERTIES LogAppendOnly LegacyEditKeepsFolders
