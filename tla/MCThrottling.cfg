SPECIFICATION FairSpec
CONSTANTS
  p1 = p1
  p2 = p2
  Processes = {p1, p2}
  Threads = {t1, t2}
  Deployments <- MCDeployments
  Rate <- MCRate
  Window = 2
INVARIANTS TypeOK AllowedWithinRate
PROPERTIES RefusalsEnd
