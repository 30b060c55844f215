SPECIFICATION Spec
CONSTANTS
  Tasks = {t1, t2}
  m1 = m1
  m2 = m2
  i1 = i1
  i2 = i2
  Maps = {m1, m2}
  Ifaces = {i1, i2}
  Configs <- EmptyConfigs
  MaxCrashes = 0
INVARIANT
  NoPanic
