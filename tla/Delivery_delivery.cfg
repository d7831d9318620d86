SPECIFICATION Spec
CONSTANTS
  Workers = {w1}
  Nobody = nobody
  MaxJobs = 3
  Queues = {"default", "maintenance", "mail"}
  Configured = {"default"}
  Clients = {c1, c2}
  Emails = {a1, a2}
  NoEmail = none
  MaxUsers = 1
  MaxHash = 2
SYMMETRY Symmetry
CHECK_DEADLOCK FALSE
INVARIANTS TypeOK AllMeansAll StatsMissNone RegisteredIsNotified DoneMeansDelivered WelcomeAfterVerification
PROPERTY AddressProven
