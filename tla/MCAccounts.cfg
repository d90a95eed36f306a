SPECIFICATION Spec
CONSTANTS
  Names = {ann, bob}
  Libraries = {}
  Passwords = {pw1, pw2}
  SessionIds = {s1, s2, s3}
  MaxSessions = 2
  Invites = {}
  Requests = {r1, r2}
  None = None
SYMMETRY Symmetry
INVARIANTS SetupOnce SessionsCurrent
PROPERTIES SomebodyAdministers
