SPECIFICATION DiscoverySpec
CONSTANTS
  x = x
  y = y
  site = site
  Hosts <- TwoHosts
  Key = {k1, k2, k3, k4, k5}
  Handler = {h1, h2, h3}
  ListLimit = 1
  None = None
  Undefined = Undefined
  Null = Null
  Wrong = Wrong
  Text = Text
  Refused = Refused
  Site = {site}
  Schemes = {"http"}
  Cards <- MCCards
  KeySets <- MCKeySets
  Registries <- MCRegistries
SYMMETRY Symmetry
INVARIANTS
  TypeOK
  SettledAnswer
  DiscoveryFindsStoredKey
  KeysAreTheAgents
  RegistryLeadsToKeys
  LibrariesAgree
PROPERTIES
  SettledStays
