SPECIFICATION Spec
CONSTANTS
  NoCharge = NoCharge
  MaxUses = 1
  Grace = 0
  MaxRetries = 3
  Charges = {c1}
  Interval = 1
  TrialDays = 1
  MaxDay = 2
  MaxFailed = 0
  Tasks = {t1}
  Operations = {"trial", "renewal", "retry", "expire", "subscribe", "pay", "cancel", "cancelNow", "reactivate", "upgrade", "change", "convert", "renewAll", "settings", "void", "refund", "discount"}
  Faults = {"database", "answer", "crash"}
SYMMETRY Symmetry
INVARIANTS
  ThreeFailuresStop

  
CHECK_DEADLOCK FALSE
