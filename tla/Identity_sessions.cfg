SPECIFICATION Spec
CONSTANTS
  c1 = c1  c2 = c2  x = x  y = y  z = z  NoEmail = NoEmail
  Clients = {c1, c2}
  Calls = {"register", "verify", "rename", "login", "refresh", "logout", "password", "deleteSelf", "cleanup"}
  Emails = {x}
  Bootstrap = NoEmail
  MaxUsers = 1
  MaxHash = 4
  MaxVersion = 4
INVARIANTS SingleUse OldSessionsEnd
SYMMETRY Symmetric
CHECK_DEADLOCK FALSE
