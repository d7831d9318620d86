SPECIFICATION Spec
CONSTANTS
  c1 = c1  c2 = c2
  Clients = {c1, c2}
  MaxUsers = 3
  Newcomers = {1}
  Bootstrap = 1
  MaxVersion = 2
INVARIANTS TypeOK
PROPERTIES AdminRemains TransactionsEnd ImplementsAccounts
CHECK_DEADLOCK FALSE
