SPECIFICATION MsigSpec
CONSTANTS
  alice = alice
  bob = bob
  carol = carol
  A = A
  B = B
  t = t
  u = u
  n = n
  Accounts = {alice, bob, carol}
  Proposers = {alice}
  Names = {n}
  Trxs = {t, u}
  NoTrx = NoTrx
  Expiration <- MCExpiration
  Levels = {A, B}
  Actor <- MCActor
  RequestLists <- MCDistinct
  Authorities <- MCAuthorities
  Legacy <- MCLegacy
  MaxSlot = 4
INVARIANTS MsigTypeOK OneRowOfApprovals
PROPERTIES NobodyIsLost ConsentImplemented
CHECK_DEADLOCK FALSE
