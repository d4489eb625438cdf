SPECIFICATION Spec
CONSTANTS
  p1 = p1
  free = free
  test = test
  legacy = legacy
  w1 = w1
  w2 = w2
  None = None
  Payments = {p1, free, test, legacy}
  Workers = {w1, w2}
  EventKinds = {"COMPLETED", "CANCELED", "REFUNDED"}
  FreePayments = {free}
  TestPayments = {test}
  DirectPayments = {free, test}
  LegacyPayments = {legacy}
  Conflicting <- CompletedOfP1
  Invalid <- CanceledOfLegacy
  WebhookMaxAttempts = 1
  PanelMaxAttempts = 2
  MaxFaults = 2
SYMMETRY TwoWorkers
CONSTRAINTS OnePayment TwoReports TwoFaults
INVARIANTS
  TypeOK
  CheckConstraintHolds
  AppliedAtMostOnce
  SucceededIsProof
  FenceIsNeverLost
  NothingAcknowledgedIsLost
PROPERTIES
  ImplementsPromise
