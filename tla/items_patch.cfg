SPECIFICATION Spec
CONSTANTS
  c2 = c2
  c1 = c1
  Clients = {c1, c2}
  Ids = {i1, i2}
  i1 = i1
  i2 = i2
  s1 = s1
  s2 = s2
  Skus = {s1, s2}
  EmptySku = EmptySku
  Absent = Absent
  Nothing = Nothing
  Categories <- Cats
  CreateBodies <- Creates
  UpdateBodies <- Updates
  InitTables <- Tables
  MaxRequests = 1
  MaxErrors = 0
SYMMETRY Symmetry
PROPERTIES
  UpdateIsPartial
