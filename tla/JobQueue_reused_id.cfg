SPECIFICATION Spec
CONSTANTS
  w1 = w1  w2 = w2  p1 = p1  T = T  K = K  NoTask = NoTask  Nobody = Nobody
  TaskIDs = {T}
  Keys = {K}
  Queues = {"default"}
  Requests = {"task"}
  Opt <- KeptTask
  Workers = {w1, w2}
  Procs = {w1, w2}
  ProcOf <- OwnProcess
  Reservation = 2
  CleanupInterval = 1
  CleanupLimit = 1
  ClockLag = 0
  MaxTime = 3
  MaxDispatch = 2
  MaxFaults = 0
PROPERTY CleanupSparesOthers
SYMMETRY Symmetric
