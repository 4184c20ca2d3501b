SPECIFICATION Spec
CONSTANTS
  c1 = c1
  c2 = c2
  admin = admin
  guest = guest
  ann = ann
  bob = bob
  good = good
  bad = bad
  Clients = {c1, c2}
  Ids = {admin, guest}
  Usernames = {ann, bob}
  Passwords = {good, bad}
  Empty = Empty
  Absent = Absent
  Malformed = Malformed
  Garbled = Garbled
  OtherTokens <- MCOtherTokens
  Nothing = Nothing
  Sha256 <- MCSha256
  Rows <- MCRows
  InitTables <- MCInitTables
  MaxRequests = 1
  MaxWrites = 2
  MaxErrors = 1
SYMMETRY Symmetry
INVARIANTS
  TypeOK
  GrantedWhileActive
  StableAccountLogsIn
  AttributesAreCurrent
