SPECIFICATION Spec
CONSTANTS
  Id = {"kid", "not-set-yet"}
  Key = {"kExample", "kForeign"}
  Material = {}
  Bytes <- NoBytes
  Jwk <- NoJwk
  Thumbprint <- NoThumbprint
  l1 = l1
  l2 = l2
  own = own
  dir = dir
  card = card
  data = data
  quoted = quoted
  Label = {l1, l2}
  Uri = {own, dir, card, data, quoted}
  Inlined = {data, quoted}
  TsRefuses = {data}
  Authority = {origin, other}
  Tag = {"web-bot-auth", "other"}
  Get = Get
  HeaderValue = HeaderValue
  None = None
  Own = own
  Card = {card}
  SigningAgent = {own, dir}
  SigningLabel = l1
  PageHeader <- MCPageHeader
  ExampleKey = "kExample"
  ExampleId = "kid"
  NotSet = "not-set-yet"
  ForeignKey = "kForeign"
  ForeignList <- MCForeignList
  AddedAgent <- MCAddedAgent
  KeyLists <- MCKeyLists
  Ttl = 1
  MaxTime = 2
  MaxSigned = 1
  MaxHops = 2
SYMMETRY Symmetry
INVARIANTS
  KeyIdIsComputed
