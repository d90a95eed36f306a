SPECIFICATION Spec
CONSTANTS
  Phone = phone
  Desk = desk
  Devices = {phone, desk}
  Code = code
  Passcodes = {code}
  Book = book
  Restrictions = {book}
  Paths = {x}
  Sources = {s, t}
  MaxSources = 2
  Home = home
  HomePage = page
  Away = away
  Urls = {home, page, away}
  Origin <- MCOrigin
  Credentials = {c}
  Keep = Keep
  OpIds = {o1, o2, o3}
  Wanted <- MCWanted
  MaxWrites = 3
  None = None
SYMMETRY Symmetry
INVARIANTS NothingUnseenOverwritten WritesApplyOnce AnswersTrue PasscodeKept SecretStaysWithOrigin
CHECK_DEADLOCK FALSE
