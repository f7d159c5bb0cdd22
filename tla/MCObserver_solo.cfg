SPECIFICATION LiveSpec
CONSTANTS
  o1 = o1
  o2 = o2
  m1 = m1
  m2 = m2
  d1 = d1
  d2 = d2
  n1 = n1
  n2 = n2
  Observers = {o1}
  Modes <- AllModes
  SecondaryConn = TRUE
  FailoverDelay = 2
  Namespaces = {n1, n2}
  CMs = {m1, m2}
  Deps = {d1, d2}
  NamespaceOf <- MCNamespaceOf
  ReadsFrom <- MCReadsFrom
  ConfigMaps <- BothConfigMaps
  Deployments <- BothDeployments
  Primary = "primary"
  Secondary = "secondary"
  RestartCap = 3
INVARIANTS
  ObserverInv ActiveRegionIsLatch HealthFollowsSwitch NoStaleSeries
  WebhookLatchMeansDelivered FailoverCountedOnce
PROPERTIES
  MovesOnlyAfterSustainedDown NeverRepeatsCompletedFailover
  EventuallyFailsOver LatchImplementsRegionSwitch
