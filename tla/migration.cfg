SPECIFICATION FairSpec
CONSTANTS
  i1 = i1
  i2 = i2
  i3 = i3
  Instances = {i1, i2, i3}
  Files <- ThreeFiles
  Versions <- TwoVersions
  MaxFaults = 2
INVARIANTS
  TypeOK
  RanOnce
  ServesMigratedSchema
PROPERTIES
  InOrder
  AllServe
