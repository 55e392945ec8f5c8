SPECIFICATION FairSpec
CONSTANTS
  Absent = Absent
  Null = Null
  None = None
  Tenants = {t1, t2}
  Items = {i1, i2}
  MaxKills = 2
INVARIANTS TypeOK ItemsHaveTenants CompletedRolesAreGranted
PROPERTIES MigratedUnlessStuck RolesInTheEnd
