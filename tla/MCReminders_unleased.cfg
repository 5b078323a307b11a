SPECIFICATION FairSpec
CONSTANTS
  Appointments = {a1}
  Runs = {r1, r2}
  NoRun = NoRun
  Starts = {5, 6}
  Near = 2
  Far = 4
  Timings = {2}
  Tolerance = 1
  QuietHours = {}
  Skew = 0
  PageSize = 2
  LockTtl = 2
  MaxRetries = 2
  MaxTime = 6
  Faults = {"slow", "crash", "unleased"}
  Channels <- PushAndSms
PROPERTIES LockFreed
