SPECIFICATION Spec
CONSTANTS
  news = news
  svc = svc
  u1 = u1
  u2 = u2
  s1 = s1
  s2 = s2
  w1 = w1
  w2 = w2
  t1 = t1
  t2 = t2
  None = None
  Users = {u1, u2}
  Channels = {"EMAIL", "PUSH"}
  Messages = {news, svc}
  Subscriptions = {s1, s2}
  Workers = {w1, w2}
  Tasks = {t1, t2}
  MaxAttempts = 2
  MaxFaults = 1
  BatchSize = 1
SYMMETRY Symmetry
CONSTRAINTS
  OneSide
  OneChannel
  OneMessage
INVARIANTS
  SentOnce
  OptOutWins
  CountsAddUp
  CancelStops
  RecallMissesNoPush
