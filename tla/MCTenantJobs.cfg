SPECIFICATION FairSpec
CONSTANTS
  None = None
  Workers = {w1}
  Jobs = {j1}
  Tenants = {t1, t2}
  Public = public
  Slugs = {public, acme}
  Items = {i1}
  ReqIds = {r1, r2}
  Users <- MCUsers
INVARIANTS InductiveInvariant
PROPERTIES DeactivationTakesEffect ImplementsCatalog
