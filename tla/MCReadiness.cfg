SPECIFICATION FairSpec
CONSTANTS
  None = None
  Workers = {w1, w2}
  FailureThreshold = 2
  Deployments <- MCDeployments
INVARIANTS TypeOK OutagesBetweenRequestsAreHidden
PROPERTIES LosesOneStatement OutageStopsTraffic TrafficReturns
