SPECIFICATION OwnerSpec
CONSTANTS
  NoCharge = NoCharge
  MaxUses = 0
  Grace = 0
  MaxRetries = 3
  Charges = {c1, c2}
  Interval = 1
  TrialDays = 1
  MaxDay = 1
  MaxFailed = 0
  Tasks = {t1, t2}
  Operations = {"trial", "subscribe", "pay", "refund"}
  Faults = {"database", "answer", "crash"}
  Buyers = {c1, c2}
  Tills = {t1, t2}
  MaxUsages = 1
  MaxRecurring = 1
  MaxSlips = 1
  Closures = {c1, c2}
  Owners = {t1, t2}
  LastDay = 1
  MaxAsked = 3
  Columns = {c1, c2}
  NoColumn = NoColumn
  BookDays = {1}
  Amounts = {0, 1}
  Blank = Blank
  Visits = {t1, t2}
  Urls = {u1, u2, u3}
  NoUrl = NoUrl
  MaxGallery = 2
  Editors = {t1, t2}
SYMMETRY Symmetry
INVARIANTS
  LedgerIsTrue
  PeriodsWerePaid
  OwnerTypeOK
  CodeWithinLimit
  OverlapsAreDoubtful
  
PROPERTIES
  NotebookTellsRevenue
CHECK_DEADLOCK FALSE
