SPECIFICATION Spec
CONSTANTS
  Appointments = {a1, a2}
  Staff = {s1}
  Customers = {c1}
  NoOne = NoOne
  Requests = {r1, r2}
  Jobs = {j1}
  Durations = {2}
  Endpoints = {}
  Starts = {1, 2}
  UpdateStatuses = {}
  Keep = Keep
  MaxTime = 3
  DayLength = 4
  Skew = 0
  ServiceMinNotice = 0
  BusinessMinNotice = 0
  MaxAdvanceDays = 1
  ServiceMaxAdvance = 1
  MaxDaily = 2
  DefaultDuration = 2
SYMMETRY Symmetry
INVARIANTS
  ActiveSlotsDisjoint
CHECK_DEADLOCK FALSE
