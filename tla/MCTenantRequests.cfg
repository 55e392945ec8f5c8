SPECIFICATION Spec
CONSTANTS
  None = None
  Workers = {w1, w2}
  Jobs = {}
  Tenants = {t1, t2}
  Public = public
  Slugs = {public, acme}
  Items = {i1}
  ReqIds = {r1}
  Users <- MCUsers
SYMMETRY Symmetry
INVARIANTS TypeOK ContextCoherent ReferentialIntegrity SlugsUnique LogsAttributed
PROPERTIES WritesGoToResolvedTenant ReadIsolation ImplementsCatalog
