SPECIFICATION Spec
CONSTANTS
  Appointments = {a1, a2}
  Staff = {s1}
  Customers = {c1}
  NoOne = NoOne
  Requests = {r1, r2}
  Jobs = {}
  Durations = {3}
  Endpoints = {"decide", "status", "monitor", "auto"}
  Starts = {0, 2}
  UpdateStatuses = {"IN_PROGRESS"}
  Keep = Keep
  MaxTime = 0
  DayLength = 2
  Skew = 0
  ServiceMinNotice = 0
  BusinessMinNotice = 0
  MaxAdvanceDays = 1
  ServiceMaxAdvance = 1
  MaxDaily = 2
  DefaultDuration = 2
SYMMETRY Symmetry
INVARIANTS
  TypeOK
  NoDoubleBooking
PROPERTIES
  ImplementsCalendar
CHECK_DEADLOCK FALSE
