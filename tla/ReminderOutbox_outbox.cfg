SPECIFICATION FairSpec
CONSTANTS
  w1 = w1
  w2 = w2
  None = None
  Workers = {w1, w2}
  MaxDay = 2
  Thresholds = {1, 2}
  MaxFaults = 1
CONSTRAINTS OneExpiry TwoExpiries UnfitAfterConsent
INVARIANTS
  TypeOK
  RemindedOnce
  ChangesWin
PROPERTY
  EveryReminderSettles
