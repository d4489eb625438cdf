SPECIFICATION Spec
CONSTANTS
  p1 = p1
  free = free
  test = test
  legacy = legacy
  w1 = w1
  w2 = w2
  None = None
  Payments = {p1}
  Workers = {w1, w2}
  EventKinds = {"COMPLETED", "REFUNDED"}
  FreePayments = {}
  TestPayments = {}
  DirectPayments = {}
  LegacyPayments = {}
  Conflicting <- NoCallbacks
  Invalid <- NoCallbacks
  WebhookMaxAttempts = 2
  PanelMaxAttempts = 3
  MaxFaults = 0
PROPERTIES
  UnreachablePanelIsReplayed
