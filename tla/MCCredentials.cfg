SPECIFICATION Spec
CONSTANTS
  a = a
  b = b
  c = c
  m1 = m1
  m2 = m2
  Slots = {a, b, c}
  Roles <- MCRoles
  Invites = {1, 2}
  Emails = {m1, m2}
  MaxTokens = 6
INVARIANTS
  ConsentHasOneCredential
  SignInHasOneSession
  InviteMakesOneMember
PROPERTIES
  OverStaysOver
CHECK_DEADLOCK FALSE
