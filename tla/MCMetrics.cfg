SPECIFICATION Spec
CONSTANTS
  None = None
  p1 = p1
  p2 = p2
  Processes = {p1, p2}
  Threads = {t1, t2}
  Deployments <- MCDeployments
  Clients <- MCClients
  Paths = {"/a"}
  AllowedCidrs = {"cluster", "malformed"}
  NetworkOf <- MCNetworkOf
  MetricsToken = None
  MaxRequests = 2
  MaxTotal = 4
INVARIANTS TypeOK RegistryCountsEachRequestOnce SeriesAreBounded OneProcessIsNotOvercounted
