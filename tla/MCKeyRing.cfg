SPECIFICATION Spec
CONSTANTS
  Id = {"t1", "t2", "t3", "t4", "t5", "name"}
  Key = {"k1", "k2", "k3"}
  Material <- MCMaterial
  Bytes <- MCBytes
  Jwk <- MCJwk
  Thumbprint <- MCThumbprint
  RawId = {"t1", "name"}
  RawEntry <- MCRawEntry
  MaxKeys = 3
INVARIANTS
  TypeOK
  ThumbprintBound
  BatchReport
PROPERTIES
  FirstImportWins
  KeysAreNotLost
