SPECIFICATION Spec
CONSTANTS
  Id = {"tBot", "tProxy"}
  Key = {"kBot", "kProxy"}
  Material = {"xBot", "xProxy"}
  Bytes <- MCBytes
  Jwk <- MCJwk
  Thumbprint <- MCThumbprint
  l1 = l1
  l2 = l2
  u1 = u1
  u2 = u2
  Label = {l1, l2}
  Uri = {u1, u2}
  Inlined = {u2}
  Authority = {origin, other}
  Tag = {"web-bot-auth", "other"}
  Get = Get
  HeaderValue = HeaderValue
  None = None
  Coverage <- MCOneCoverage
  AgentHeader <- MCOneAgent
  SignerAlg = {"Ed25519"}
  BotJwk <- MCBotJwk
  ForeignKey = "kProxy"
  ForeignList <- MCTwoForeignLists
  Preloaded <- ProxyKnown
  KeepRing = TRUE
  Ttl = 1
  MaxTime = 1
  MaxSigned = 2
  MaxMessages = 3
INVARIANTS
SYMMETRY Symmetry
PROPERTIES
  AdmitsOnlyAuthenticated
