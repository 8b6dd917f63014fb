SPECIFICATION Spec
CONSTANTS
  a = a
  b = b
  d = d
  t = t
  u = u
  NoAccount = NoAccount
  Callers <- MCCallersShared
  Tenants = {t}
  TenantOf <- MCTenantShared
  Names = {"n"}
  Fates = {"delivered", "http"}
  MaxVolumes = 1
  MaxFaults = 1
INVARIANTS
  NilErrorHasVolume
