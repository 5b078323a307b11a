SPECIFICATION Spec
CONSTANTS
  NoCharge = NoCharge
  MaxUses = 0
  Grace = 0
  MaxRetries = 3
  Charges = {c1, c2, c3}
  Interval = 2
  TrialDays = 1
  MaxDay = 2
  MaxFailed = 0
  Tasks = {t1, t2}
  Operations = {"trial", "renewal", "subscribe"}
  Faults = {}
SYMMETRY Symmetry
INVARIANTS
  OneChargePerPeriod
CHECK_DEADLOCK FALSE
