SPECIFICATION FairSpec
CONSTANTS
  Appointments = {a1, a2}
  Staff = {s1}
  Customers = {c1}
  NoOne = NoOne
  Requests = {r1}
  Jobs = {j1}
  Durations = {2}
  Endpoints = {"bulk", "finalize", "reschedule", "decide", "auto"}
  Starts = {0, 1, 2}
  UpdateStatuses = {}
  Keep = Keep
  MaxTime = 4
  DayLength = 2
  Skew = 0
  ServiceMinNotice = 0
  BusinessMinNotice = 0
  MaxAdvanceDays = 1
  ServiceMaxAdvance = 1
  MaxDaily = 2
  DefaultDuration = 2
INVARIANTS
  IntervalIntact
PROPERTIES
  
  EndedIsCompleted
CHECK_DEADLOCK FALSE
