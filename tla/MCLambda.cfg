SPECIFICATION LambdaLiveSpec
CONSTANTS
  c1 = c1
  c2 = c2
  m1 = m1
  m2 = m2
  d1 = d1
  n1 = n1
  Callers = {c1, c2}
  Cfg <- MCCfg
  Namespaces = {n1}
  CMs = {m1, m2}
  Deps = {d1}
  NamespaceOf <- MCNamespaceOf
  ReadsFrom <- MCReadsFrom
  Primary = "primary"
  Secondary = "secondary"
  RestartCap = 4
  NotJSON = NotJSON
  Events <- MCEvents
  MaxRetries = 1
INVARIANTS DoneMeansConverged RestartsBoundedByPatches
PROPERTIES MovesOnlyOnAlarm AlarmIsServed
CHECK_DEADLOCK FALSE
