CONSTANTS
  u1 = u1
  s1 = s1
  s2 = s2
  t1 = t1
  t2 = t2
  t3 = t3
  t4 = t4
  Users = {u1}
  Seeders = {s1, s2}
  TypeIds = {t1, t2, t3, t4}
  GlobalNames <- FirstGlobals
  Names = {"unit"}
  DeletableDefault = TRUE
  NoValue = none
SPECIFICATION Spec
INVARIANT TypeOK
