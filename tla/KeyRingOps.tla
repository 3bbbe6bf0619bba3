------------------------------ MODULE KeyRingOps ------------------------------
(***************************************************************************)
(* The data of crates/web-bot-auth/src/keyring.rs: JSON Web Keys, what     *)
(* they decode to, and the keyring as a partial function from identifiers  *)
(* to entries.  Only operators: KeyRing gives them a state machine, and    *)
(* WebBotAuth uses them for the keyring its verifiers share.               *)
(***************************************************************************)
EXTENDS Naturals

CONSTANTS
  Id,          \* strings that name a key: thumbprints and names chosen by hand
  Key,         \* public key bytes
  Material,    \* the x, k or n member of a JWK, as it is written there
  Bytes,       \* [Material -> Key or a DecodeError]: base64url, then the curve point
  Jwk,         \* the JSON Web Keys an application meets, records of JwkShape
  Thumbprint   \* [Jwk -> Id], RFC 7638

Algorithm == { "Ed25519", "RsaPssSha512", "RsaV1_5Sha256", "HmacSha256",
               "EcdsaP256Sha256", "EcdsaP384Sha384" }

DecodeError == { "ParsingError", "ConversionError" }

JwkShape == [ kty : {"OKP", "EC", "RSA", "oct"}, crv : {"Ed25519", "other"}, x : Material ]

ASSUME JwkAssumption == Jwk \subseteq JwkShape

ASSUME BytesAssumption ==
  /\ Bytes \in [Material -> Key \cup DecodeError]
  /\ Key \cap (DecodeError \cup {"UnsupportedAlgorithm"}) = {}

\* SHA-256 over the canonical members: distinct keys have distinct thumbprints.
ASSUME ThumbprintAssumption ==
  /\ Thumbprint \in [Jwk -> Id]
  /\ \A j, k \in Jwk : Thumbprint[j] = Thumbprint[k] => j = k

Supported(jwk) == jwk.kty = "OKP" /\ jwk.crv = "Ed25519"

PublicKey(jwk) == IF Supported(jwk) THEN Bytes[jwk.x] ELSE "UnsupportedAlgorithm"

AlgorithmOf(jwk) == IF Supported(jwk) THEN "Ed25519" ELSE "UnsupportedAlgorithm"

Entry == Algorithm \X Key

IsRing(r) == DOMAIN r \subseteq Id /\ r \in [DOMAIN r -> Entry]

EmptyRing == [id \in {} |-> {}]

\* HashMap::insert: a known identifier is overwritten.
Insert(r, id, entry) == [i \in DOMAIN r \cup {id} |-> IF i = id THEN entry ELSE r[i]]

Remove(r, id) == [i \in DOMAIN r \ {id} |-> r[i]]

\* Mutant: an identifier already known is overwritten.
ImportRawInto_Overwrites(r, id, entry) == Insert(r, id, entry)

\* KeyRing::import_raw: never overwrites.
ImportRawInto(r, id, entry) == IF id \in DOMAIN r THEN r ELSE Insert(r, id, entry)

\* Mutant: the old name is removed, but a new name already taken is left alone.
RenameIn_KeepsNew(r, old, new) ==
  IF old \in DOMAIN r THEN ImportRawInto(Remove(r, old), new, r[old]) ELSE r

\* KeyRing::rename_key: the entry moves, over whatever the new name held.
RenameIn(r, old, new) ==
  IF old \in DOMAIN r THEN Insert(Remove(r, old), new, r[old]) ELSE r

\* Mutant: KeyAlreadyExists is forgotten.
JwkOutcome_NoExists(r, jwk) == IF PublicKey(jwk) \notin Key THEN PublicKey(jwk) ELSE "Imported"

\* KeyRing::try_import_jwk: the outcome, checked in the order of the code ...
JwkOutcome(r, jwk) ==
  IF PublicKey(jwk) \notin Key      THEN PublicKey(jwk)
  ELSE IF Thumbprint[jwk] \in DOMAIN r THEN "KeyAlreadyExists"
  ELSE "Imported"

\* Mutant: the pair's members are swapped.
JwkEntry_Swapped(jwk) == <<PublicKey(jwk), AlgorithmOf(jwk)>>

JwkEntry(jwk) == <<AlgorithmOf(jwk), PublicKey(jwk)>>

\* Mutant: the key is stored under the thumbprint of another key of the set.
TryImportJwkInto_OtherThumbprint(r, jwk) ==
  IF JwkOutcome(r, jwk) = "Imported"
  THEN Insert(r, Thumbprint[CHOOSE j \in Jwk : j # jwk], JwkEntry(jwk))
  ELSE r

\* Mutant: a key that does not decode is stored all the same.
TryImportJwkInto_Unchecked(r, jwk) ==
  IF Thumbprint[jwk] \notin DOMAIN r THEN Insert(r, Thumbprint[jwk], JwkEntry(jwk)) ELSE r

\* ... and the keyring it leaves.
TryImportJwkInto(r, jwk) ==
  IF JwkOutcome(r, jwk) = "Imported" THEN Insert(r, Thumbprint[jwk], JwkEntry(jwk)) ELSE r

Outcome == {"Imported", "KeyAlreadyExists", "UnsupportedAlgorithm"} \cup DecodeError
===============================================================================
