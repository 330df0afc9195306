CONSTANTS
  u1 = u1
  u2 = u2
  c1 = c1
  x1 = x1
  r1 = r1
  r2 = r2
  r3 = r3
  r4 = r4
  d1 = d1
  e1 = e1
  e2 = e2
  f1 = f1
  f2 = f2
  Users = {u1}
  NetIds = {c1, x1}
  CuidV1 = {c1}
  RowIds = {r1, r2, r3, r4}
  Devices = {d1}
  Events = {e1, e2}
  FieldsOf <- TwoEventFields
  Missing = missing
  Names = {n1}
  Values = {v1}
  NoValue = none
  OnDeleteRun = "Restrict"
  OnDeleteConstant = "Restrict"
SPECIFICATION Spec
INVARIANT TypeOK
 
