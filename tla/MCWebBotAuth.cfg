SPECIFICATION Spec
CONSTANTS
  Id = {"tBot", "tProxy"}
  Key = {"kBot", "kProxy"}
  Material = {"xBot", "xProxy"}
  Bytes <- MCBytes
  Jwk <- MCJwk
  Thumbprint <- MCThumbprint
  l1 = l1
  l2 = l2
  u1 = u1
  u2 = u2
  Label = {l1, l2}
  Uri = {u1, u2}
  Inlined = {}
  Authority = {origin, other}
  Tag = {"web-bot-auth", "other"}
  Get = Get
  HeaderValue = HeaderValue
  None = None
  Coverage <- MCCoverage
  AgentHeader <- MCAgentHeader
  SignerAlg = {"Ed25519"}
  BotJwk <- MCBotJwk
  ForeignKey = "kProxy"
  ForeignList <- MCForeignList
  Preloaded <- NoKeys
  KeepRing = FALSE
  Ttl = 1
  MaxTime = 0
  MaxSigned = 1
  MaxMessages = 3
INVARIANTS
  TypeOK
  AcceptedWereSigned
  KeyIdBinding
  AgentVouchesForKey
  IntactIsAccepted
SYMMETRY Symmetry
PROPERTIES
  AdmitsOnlyAuthenticated
