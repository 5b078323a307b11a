SPECIFICATION CustomerSpec
CONSTANTS
  Customers = {c1}
  Businesses = {b1, b2}
  Bookings = {a1, a2}
  Tasks = {t1, t2}
  Nobody = Nobody
  MaxCancels = 1
  MaxNoShows = 1
  MinNotice = 1
  GraceDays = 0
  AutoBan = TRUE
  PolicyBan = 1
  LateBan = 1
  StrikeDays = 1
  WeekDays = 1
  MonthDays = 2
  UtcServer = FALSE
  MaxStrikes = 4
  BanDays <- OneDayEach
  RecountAt <- Recount123
  ListedAt <- Listed
  AutoAt <- Automatic
  Mixes <- Bans
SYMMETRY Symmetry
PROPERTIES
  RefusedForOwnDeeds
CHECK_DEADLOCK FALSE
