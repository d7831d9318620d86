SPECIFICATION Spec
CONSTANTS
  c1 = c1  c2 = c2  x = x  y = y  z = z  NoEmail = NoEmail
  Clients = {c1, c2}
  Calls = {"register", "verify", "role", "delete"}
  Emails = {x, y, z}
  Bootstrap = x
  MaxUsers = 3
  MaxHash = 3
  MaxVersion = 4
PROPERTY DeletionAuthorised
SYMMETRY Symmetric
CHECK_DEADLOCK FALSE
