SPECIFICATION Spec
CONSTANTS
  o1 = o1
  o2 = o2
  m1 = m1
  m2 = m2
  d1 = d1
  d2 = d2
  n1 = n1
  n2 = n2
  Observers = {o1, o2}
  Modes <- K8sMode
  SecondaryConn = TRUE
  FailoverDelay = 1
  Namespaces = {n1}
  CMs = {m1}
  Deps = {d1}
  NamespaceOf <- OneNamespaceOf
  ReadsFrom <- OneReadsFrom
  ConfigMaps <- OneConfigMap
  Deployments <- OneDeployment
  Primary = "primary"
  Secondary = "secondary"
  RestartCap = 3
SYMMETRY SwapObservers
PROPERTY LatchImplementsRegionSwitch
