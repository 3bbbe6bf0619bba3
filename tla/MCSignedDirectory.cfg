SPECIFICATION DirectorySpec
CONSTANTS
  Id = {"t1", "t2", "t3", "t4"}
  Key = {"k1", "k2"}
  Material <- MCMaterial
  Bytes <- MCBytes
  Jwk <- MCJwk
  Thumbprint <- MCThumbprint
  Authority = {"host", "other"}
  KeyLists <- MCKeyLists
  SignerLists <- MCSignerLists
  Ttl = 1
  MaxTime = 2
CHECK_DEADLOCK FALSE
INVARIANTS
  PassedIsBound
  CompletePasses
