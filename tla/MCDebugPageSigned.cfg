SPECIFICATION PageSpec
CONSTANTS
  Id <- MCId
  Key = {"k1", "k2"}
  Material = {}
  Bytes <- NoBytes
  Jwk <- NoJwk
  Thumbprint <- NoThumbprint
  l1 = l1
  l2 = l2
  agent = agent
  quoted = quoted
  origin = origin
  raw = raw
  other = other
  valid = valid
  mixed = mixed
  private = private
  text = text
  Label = {l1, l2}
  Uri = {agent, quoted}
  Inlined = {quoted}
  TsRefuses = {}
  Authority = {origin, other, raw}
  Elsewhere = other
  Unnormalised = {raw}
  PageRefuses = {quoted}
  Tag = {"web-bot-auth"}
  Get = Get
  HeaderValue = HeaderValue
  None = None
  NotJson = NotJson
  Null = Null
  Garbled = "garbled"
  Digest <- MCDigest
  Request = {r1}
  Url <- MCUrl
  Token = {t1, t2}
  Genuine = {t1, t2}
  Body = {valid, mixed, private, text}
  Document <- MCDocument
  Size <- MCSize
  Limit = 3
  Program <- MCKeyedProgram
  Pasted <- MCPasted
  MaxClock = 1
  MaxSubmits = 1
INVARIANTS
  SignedIsValidOnPage
