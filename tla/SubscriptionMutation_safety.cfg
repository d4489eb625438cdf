SPECIFICATION Spec
CONSTANTS
  u1 = u1
  u2 = u2
  w1 = w1
  w2 = w2
  small = small
  None = None
  Users = {u1, u2}
  Workers = {w1, w2}
  Plans = {small}
  Kinds = {"TOGGLE", "DELETE", "LIMITS", "DAYS", "LEAVE", "REJOIN", "SET_PLAN", "NEW", "CHANGE", "TRIAL", "PROMO", "PULL", "PUSH"}
  Days = 1
  MaxUses = 1
  MaxDay = 1
  MaxExpiry = 2
  MaxUuid = 2
  MaxFaults = 1
SYMMETRY Symmetry
CONSTRAINTS PromoOfTwo TornIsSpent FewKindsWithFaults SecondUserIsNew FewKindsWithPromo
INVARIANTS
  TypeOK
  PanelAgrees
  GrantedWithinLimits
PROPERTIES
  PaidDaysStand
