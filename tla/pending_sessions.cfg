SPECIFICATION Spec
CONSTANTS
  e1 = e1
  e2 = e2
  e3 = e3
  p1 = p1
  p2 = p2
  c1 = c1
  c2 = c2
  a1 = a1
  a2 = a2
  Clients = {c1, c2}
  Emails <- MCEmails
  Passwords = {p1, p2}
  Apps = {a1, a2}
  Norm <- MCNorm
  Right <- MCRight
  Minute = 2
  MaxSessions = 2
  MaxNow = 3
  NoEmail = NoEmail
  NoPassword = NoPassword
  NoApp = NoApp
INVARIANTS TypeOK PasswordChecked WindowKept OneTenant
PROPERTIES InWindow
SYMMETRY Symmetry
