SPECIFICATION Spec
CONSTANTS
  k1 = k1
  k2 = k2
  k3 = k3
  a1 = a1
  a2 = a2
  n1 = n1
  n2 = n2
  dir = dir
  r1 = r1
  r2 = r2
  c1 = c1
  c2 = c2
  set2 = set2
  ips1 = ips1
  ips2 = ips2
  Key = {k1, k2, k3}
  Address = {a1, a2}
  Network = {n1, n2}
  In <- MCIn
  Url = {dir, r1, r2, c1, c2, set2, ips1, ips2}
  None = None
  BadKey = BadKey
  BadPrefix = BadPrefix
  Directory = dir
  Registries <- MCRegistries
  Worlds <- MCWorlds
  MaxLabels = 2
CHECK_DEADLOCK FALSE
INVARIANTS
  StrictIsComplete
  SourcesSurvive
  AdmittedFromListed
