SPECIFICATION Spec
CONSTANTS
  c1 = c1  c2 = c2  x = x  y = y  z = z  NoEmail = NoEmail
  Clients = {c1, c2}
  Calls = {"register", "create", "resend", "update", "rename", "verify", "role", "delete", "deleteSelf"}
  Emails = {x, y}
  Bootstrap = x
  MaxUsers = 2
  MaxHash = 3
  MaxVersion = 3
INVARIANTS TypeOK UnverifiedAddressClaimedOnce
PROPERTIES RoleChangesAuthorised
SYMMETRY Symmetric
CHECK_DEADLOCK FALSE
