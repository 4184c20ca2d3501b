SPECIFICATION Spec
CONSTANTS
  t1 = t1
  t2 = t2
  k1 = k1
  k2 = k2
  v1 = v1
  v2 = v2
  Threads = {t1, t2}
  Keys = {k1, k2}
  Values = {v1, v2}
  Ttls <- MCTtls
  DefaultTtl = 1
  Nothing = Nothing
  Forever = Forever
  MaxTime = 3
  MaxSetBacks = 1
SYMMETRY Symmetry
INVARIANTS
  TypeOK
PROPERTIES
  ImplementsMap
  SweepsOnlyExpired
