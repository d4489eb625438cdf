SPECIFICATION FairSpec
CONSTANTS
  a = a
  b = b
  s1 = s1
  s2 = s2
  u1 = u1
  w1 = w1
  w2 = w2
  None = None
  Rewards = {a}
  Sources = {s1}
  Recipients = {u1}
  Workers = {w1, w2}
  SourceOf <- OnePayment
  RecipientOf <- OneReward
  GroupOf <- OneReward
  Days = 1
  MaxDay = 1
  MaxExpiry = 1
  MaxFaults = 1
PROPERTIES
  EveryRewardSettles
  RefundsReachTheOperator
