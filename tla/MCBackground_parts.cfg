SPECIFICATION BackgroundSpec
CONSTANTS
  Appointments = {a1}
  Runs = {r1, r2}
  NoRun = NoRun
  Starts = {3, 4}
  Near = 1
  Far = 2
  Timings = {1}
  Tolerance = 1
  QuietHours = {}
  Skew = 0
  PageSize = 2
  LockTtl = 1
  MaxRetries = 2
  MaxTime = 2
  Faults = {"send", "throw", "unrecorded", "database", "redis", "crash", "move", "slow"}
  Channels <- SmsOnly
  Pushes = {n1, n2, n3}
  Devices = {d1}
  Concurrency = 2
  MaxAttempts = 2
  MaxFaults = 1
  Readers = {q1, q2}
  NoReader = NoReader
  Absent = Absent
  Ttl = 2
  LockTime = 2
  MaxLooks = 2
  MaxWrites = 2
INVARIANTS
  
  BackgroundTypeOK
  NoIdleWorker
  StatusTellsDelivery
  HoldersHold
PROPERTIES
  LockFreed
  PushSettles
  Answered
  EventuallyTrue
