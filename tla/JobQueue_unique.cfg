SPECIFICATION Spec
CONSTANTS
  w1 = w1  w2 = w2  p1 = p1  T = T  K = K  NoTask = NoTask  Nobody = Nobody
  TaskIDs = {T}
  Keys = {K}
  Queues = {"default", "mail"}
  Requests = {"task", "mail"}
  Opt <- TaskAndMail
  Workers = {w1, w2}
  Procs = {p1}
  ProcOf <- SameProcess
  Reservation = 2
  CleanupInterval = 1
  CleanupLimit = 1
  ClockLag = 1
  MaxTime = 2
  MaxDispatch = 3
  MaxFaults = 0
INVARIANTS TypeOK TaskLockIffRow FailedAfterRetries
PROPERTIES UniqueOncePerWindow CleanupTakesKept
SYMMETRY Symmetric
