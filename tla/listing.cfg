SPECIFICATION Spec
CONSTANTS
  c1 = c1
  i1 = i1
  i2 = i2
  i3 = i3
  i4 = i4
  tools = tools
  Clients = {c1}
  Ids = {i1, i2, i3, i4}
  Rows <- MCRows
  Params <- MCParams
  Unset = Unset
  Invalid = Invalid
  NotHex = NotHex
  Nothing = Nothing
  InitTables <- MCInitTables
  IntMax = 31
  MaxPages = 5
  MaxWrites = 3
  MaxErrors = 1
INVARIANTS
  TypeOK
  TotalsAgree
  WalkMissesNothing
  NothingTwice
  NewestFirst
