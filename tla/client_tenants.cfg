SPECIFICATION Spec
CONSTANTS
  a = a
  b = b
  d = d
  t = t
  u = u
  NoAccount = NoAccount
  Callers <- MCCallersApart
  Tenants = {t, u}
  TenantOf <- MCTenantApart
  Names = {"n", "m"}
  Fates = {"delivered", "lost"}
  MaxVolumes = 2
  MaxFaults = 1
INVARIANTS
  ReturnedVolumeMatches
PROPERTIES
  ServicePromise
