SPECIFICATION Spec
CONSTANTS
  Names = {ann, bob, cyd}
  Libraries = {lib}
  Passwords = {pw1}
  SessionIds = {s1}
  MaxSessions = 1
  Invites = {i1}
  Requests = {r1}
  None = None
SYMMETRY Symmetry
INVARIANTS InvitesSingleUse OwnersInert GrantsExist
