SPECIFICATION Spec
CONSTANTS
  Appointments = {a1, a2, a3}
  Staff = {s1}
  Customers = {c1, c2}
  NoOne = NoOne
  Requests = {r1}
  Jobs = {}
  Durations = {2}
  Endpoints = {"reschedule", "bulk", "decide"}
  Starts = {1, 3}
  UpdateStatuses = {"CANCELED"}
  Keep = Keep
  MaxTime = 0
  DayLength = 6
  Skew = 1
  ServiceMinNotice = 0
  BusinessMinNotice = 0
  MaxAdvanceDays = 1
  ServiceMaxAdvance = 1
  MaxDaily = 2
  DefaultDuration = 1
SYMMETRY Symmetry
INVARIANTS
  ActiveSlotsDisjoint
  CustomerNotTwice
  DailyLimitKept
  
CHECK_DEADLOCK FALSE
