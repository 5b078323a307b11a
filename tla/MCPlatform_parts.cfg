SPECIFICATION PlatformSpec
CONSTANTS
  Customers = {c1}
  Businesses = {b1}
  Bookings = {a1, a2}
  Tasks = {t1, t2}
  Nobody = Nobody
  MaxCancels = 1
  MaxNoShows = 1
  MinNotice = 1
  GraceDays = 0
  AutoBan = TRUE
  PolicyBan = 1
  LateBan = 1
  StrikeDays = 1
  WeekDays = 1
  MonthDays = 2
  UtcServer = FALSE
  MaxStrikes = 3
  BanDays <- OneDayEach
  RecountAt <- Recount123
  ListedAt <- Listed
  AutoAt <- Automatic
  Mixes <- Everything
  Clients = {app, web}
  Browsers = {web}
  Calls = {t1, t2}
  MaxTokens = 3
  MaxEpoch = 1
  MaxBreaks = 1
  Companies = {o1, o2}
  Users = {boss, u1}
  Owner = boss
  StaffLimit = 1
  Managers = {t1, t2}
  Senders = {s1, s2, s3}
  SmsQuota = 2
  MaxLost = 2
  MaxCodes = 2
  Sends = {t1, t2}
  Checks = {t1, t2}
  MaxAttempts = 2
  DailyLimit = 1
  Instances = {a1, a2}
  Loads = {l1, l2}
  Askers = {t1, t2}
  NoLoad = NoLoad
  NoEntry = NoEntry
  Nothing = Nothing
  MaxChanges = 1
  Appointments = {row1, row2}
  Runs = {r1, r2, r3}
  NoRun = NoRun
  Starts = {5, 6}
  Near = 2
  Far = 4
  Timings = {2}
  Tolerance = 1
  QuietHours = {}
  Skew = 0
  PageSize = 2
  LockTtl = 2
  MaxRetries = 2
  MaxTime = 6
  Faults = {}
  Channels <- AllChannels
SYMMETRY Symmetry
CHECK_DEADLOCK FALSE
INVARIANTS
  PlatformTypeOK
  OneRunAtATime
  Reminded
  NoRepeats
  BannedHoldsNothing
  StillSignedIn
  RevokedForGood
  
  SmsWithinQuota
  CodeIsSpent
  ClearedIsSeen
PROPERTIES
  BansHold
