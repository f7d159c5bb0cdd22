SPECIFICATION FailbackSpec
CONSTANTS
  c1 = c1
  c2 = c2
  m1 = m1
  m2 = m2
  m3 = m3
  d1 = d1
  d2 = d2
  n1 = n1
  n2 = n2
  Callers = {c1}
  Cfg <- MCCfg
  Namespaces = {n1, n2}
  CMs = {m1, m2, m3}
  Deps = {d1, d2}
  NamespaceOf <- MCNamespaceOf
  ReadsFrom <- MCReadsFrom
  Primary = "primary"
  Secondary = "secondary"
  RestartCap = 3
  MaxFailbacks = 2
INVARIANT RetriedSuccessConverges
