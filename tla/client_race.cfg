SPECIFICATION FairSpec
CONSTANTS
  a = a
  b = b
  d = d
  t = t
  u = u
  NoAccount = NoAccount
  Callers <- MCCallersShared
  Tenants = {t}
  TenantOf <- MCTenantShared
  Names = {"n"}
  Fates = {"delivered", "refused", "http", "lost"}
  MaxVolumes = 4
  MaxFaults = 1
INVARIANTS
  TypeOK
  TenantAgreement
  SameNameBound
  NameBoundInv
PROPERTIES
  DeleteConfirmed
  EventuallyConnected
