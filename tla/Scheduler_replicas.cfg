SPECIFICATION Spec
CONSTANTS
  s1 = s1  s2 = s2  w = w  K = K  NoTask = NoTask
  T0 = T0  T1 = T1  T2 = T2  T3 = T3  U0 = U0  U1 = U1  U2 = U2  U3 = U3
  Schedulers = {s1, s2}
  Names <- TwoNames
  Due <- Staggered
  Minute = 1
  MaxMinute = 2
  TaskIDFor <- TaskIDTable
  JobOptions <- Unique
  MaxErrors = 1
  TaskIDs = {T0, T1, T2, U0, U1, U2}
  Keys = {K}
  Queues = {"maintenance"}
  Workers = {w}
  Procs = {w}
  ProcOf <- OneProcess
  Reservation = 2
  CleanupInterval = 1
  CleanupLimit = 1
  ClockLag = 0
  MaxTime = 2
  MaxDispatch = 2
  MaxFaults = 0
INVARIANTS SchedulerTypeOK
PROPERTIES RunServesDue DispatchedOncePerMinute
SYMMETRY Symmetric
CHECK_DEADLOCK FALSE
