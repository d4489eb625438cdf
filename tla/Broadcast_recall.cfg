SPECIFICATION Spec
CONSTANTS
  news = news
  svc = svc
  u1 = u1
  u2 = u2
  s1 = s1
  s2 = s2
  w1 = w1
  w2 = w2
  t1 = t1
  t2 = t2
  None = None
  Users = {u1}
  Channels = {"PUSH"}
  Messages = {news}
  Subscriptions = {s1}
  Workers = {w1}
  Tasks = {t1}
  MaxAttempts = 2
  MaxFaults = 0
  BatchSize = 1
CONSTRAINTS
  OneSide
  OneChannel
PROPERTY
  RevokedStaysRevoked
