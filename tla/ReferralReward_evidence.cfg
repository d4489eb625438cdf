SPECIFICATION MCSpec
CONSTANTS
  a = a
  b = b
  s1 = s1
  s2 = s2
  u1 = u1
  w1 = w1
  w2 = w2
  None = None
  Rewards = {a, b}
  Sources = {s1, s2}
  Recipients = {u1}
  Workers = {w1, w2}
  SourceOf <- TwoPayments
  RecipientOf <- OneRecipient
  GroupOf <- OneRecipient
  Days = 1
  MaxDay = 0
  MaxExpiry = 1
  MaxFaults = 1
SYMMETRY Symmetry
CONSTRAINT OneType
INVARIANT
  ConfirmedWasApplied
