SPECIFICATION Spec
CONSTANTS
  Small = small
  Other = other
  Large = large
  Requests = {p, q, r}
  Keys = {small, other, large}
  Stored = {small, large}
  Size <- MCSize
  MaxEntries = 2
  MaxBytes = 4
  MaxChanges = 2
  None = None
INVARIANTS CacheAgrees OneDecoding AnswersTrue
PROPERTIES EveryoneAnswered
