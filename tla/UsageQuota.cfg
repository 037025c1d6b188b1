CONSTANTS
  r1 = r1
  r2 = r2
  r3 = r3
  k1 = k1
  k2 = k2
  trial = trial
  base = base
  Request = {r1, r2, r3}
  Key = {k1, k2}
  KeyOf <- MCKeyOf
  UnitsOf <- MCUnitsOf
  Plan = {trial, base}
  LimitOf <- MCLimitOf
  Unlimited = {}
  NoPlan = NoPlan
  Periods = 2
SPECIFICATION Spec
INVARIANTS
  TypeOK
  CountersMatch
  NeverOversold
  ChargedOnce
PROPERTY SettledForGood
CHECK_DEADLOCK FALSE
