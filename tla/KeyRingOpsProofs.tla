--------------------------- MODULE KeyRingOpsProofs ---------------------------
(***************************************************************************)
(* What each method of the keyring does to the map, for every ring: lemmas *)
(* about the operators of KeyRingOps, used wherever a keyring is.          *)
(***************************************************************************)
EXTENDS KeyRingOps, WellFoundedInduction, TLAPS

\* Induction over the naturals, where one is needed: a set of counterexamples has a smallest one.
LEMMA SmallestExists ==
  ASSUME NEW S \in SUBSET Nat, S # {}
  PROVE  \E i \in S : \A j \in S : i <= j
<1>1. IsWellFoundedOn(OpToRel(<, Nat), Nat)
  BY NatLessThanWellFounded
<1>2. \E i \in S : \A j \in S : ~ (<<j, i>> \in OpToRel(<, Nat))
  BY <1>1, WFMin
<1>3. \A i, j \in Nat : ~ (<<j, i>> \in OpToRel(<, Nat)) => i <= j
  BY DEF OpToRel
<1>4. QED
  BY <1>2, <1>3

LEMMA InsertIsRing ==
  ASSUME NEW r, IsRing(r), NEW id \in Id, NEW entry \in Entry
  PROVE  /\ IsRing(Insert(r, id, entry))
         /\ DOMAIN Insert(r, id, entry) = DOMAIN r \cup {id}
         /\ Insert(r, id, entry)[id] = entry
         /\ \A i \in DOMAIN r \ {id} : Insert(r, id, entry)[i] = r[i]
BY DEF IsRing, Insert

LEMMA RemoveIsRing ==
  ASSUME NEW r, IsRing(r), NEW id
  PROVE  /\ IsRing(Remove(r, id))
         /\ DOMAIN Remove(r, id) = DOMAIN r \ {id}
         /\ \A i \in DOMAIN r \ {id} : Remove(r, id)[i] = r[i]
BY DEF IsRing, Remove

\* The entry an importable JWK is stored as.
LEMMA JwkEntryType ==
  ASSUME NEW jwk \in Jwk, PublicKey(jwk) \in Key
  PROVE  Thumbprint[jwk] \in Id /\ JwkEntry(jwk) \in Entry
<1>1. Supported(jwk)
  BY BytesAssumption DEF PublicKey
<1>2. QED
  BY <1>1, ThumbprintAssumption DEF JwkEntry, AlgorithmOf, Entry, Algorithm

\* An outcome is one of the code's error variants or success, and only success and
\* KeyAlreadyExists are reported of a key that decodes.
LEMMA OutcomeType ==
  ASSUME NEW r, NEW jwk \in Jwk
  PROVE  /\ JwkOutcome(r, jwk) \in Outcome
         /\ JwkOutcome(r, jwk) \in {"Imported", "KeyAlreadyExists"} <=> PublicKey(jwk) \in Key
         /\ JwkOutcome(r, jwk) = "Imported"
              <=> PublicKey(jwk) \in Key /\ Thumbprint[jwk] \notin DOMAIN r
         /\ JwkOutcome(r, jwk) = "KeyAlreadyExists" => Thumbprint[jwk] \in DOMAIN r
<1>1. PublicKey(jwk) \in Key \cup DecodeError \cup {"UnsupportedAlgorithm"}
  BY JwkAssumption, BytesAssumption DEF PublicKey, JwkShape
<1>2. PublicKey(jwk) \notin Key => PublicKey(jwk) \notin {"Imported", "KeyAlreadyExists"}
  BY <1>1 DEF DecodeError
<1>3. QED
  BY <1>1, <1>2 DEF JwkOutcome, Outcome, DecodeError

\* try_import_jwk either leaves the ring alone or adds the key under its own thumbprint.
LEMMA TryImportStep ==
  ASSUME NEW r, IsRing(r), NEW jwk \in Jwk
  PROVE  /\ IsRing(TryImportJwkInto(r, jwk))
         /\ JwkOutcome(r, jwk) # "Imported" => TryImportJwkInto(r, jwk) = r
         /\ JwkOutcome(r, jwk) = "Imported" =>
              /\ Thumbprint[jwk] \notin DOMAIN r
              /\ PublicKey(jwk) \in Key
              /\ DOMAIN TryImportJwkInto(r, jwk) = DOMAIN r \cup {Thumbprint[jwk]}
              /\ TryImportJwkInto(r, jwk)[Thumbprint[jwk]] = JwkEntry(jwk)
         /\ \A id \in DOMAIN r : /\ id \in DOMAIN TryImportJwkInto(r, jwk)
                                 /\ TryImportJwkInto(r, jwk)[id] = r[id]
<1>1. CASE JwkOutcome(r, jwk) # "Imported"
  BY <1>1 DEF TryImportJwkInto
<1>2. CASE JwkOutcome(r, jwk) = "Imported"
  <2>1. PublicKey(jwk) \in Key /\ Thumbprint[jwk] \notin DOMAIN r
    BY <1>2, OutcomeType
  <2>2. TryImportJwkInto(r, jwk) = Insert(r, Thumbprint[jwk], JwkEntry(jwk))
    BY <1>2 DEF TryImportJwkInto
  <2>3. Thumbprint[jwk] \in Id /\ JwkEntry(jwk) \in Entry
    BY <2>1, JwkEntryType
  <2>4. /\ IsRing(Insert(r, Thumbprint[jwk], JwkEntry(jwk)))
        /\ DOMAIN Insert(r, Thumbprint[jwk], JwkEntry(jwk)) = DOMAIN r \cup {Thumbprint[jwk]}
        /\ Insert(r, Thumbprint[jwk], JwkEntry(jwk))[Thumbprint[jwk]] = JwkEntry(jwk)
        /\ \A i \in DOMAIN r \ {Thumbprint[jwk]} :
             Insert(r, Thumbprint[jwk], JwkEntry(jwk))[i] = r[i]
    BY <2>3, InsertIsRing
  <2>5. QED
    BY <1>2, <2>1, <2>2, <2>4
<1>3. QED
  BY <1>1, <1>2

\* import_raw adds at most the identifier it was given and changes no other.
LEMMA ImportRawStep ==
  ASSUME NEW r, IsRing(r), NEW id \in Id, NEW entry \in Entry
  PROVE  /\ IsRing(ImportRawInto(r, id, entry))
         /\ DOMAIN ImportRawInto(r, id, entry) = DOMAIN r \cup {id}
         /\ \A i \in DOMAIN r : ImportRawInto(r, id, entry)[i] = r[i]
<1>1. CASE id \in DOMAIN r
  BY <1>1 DEF ImportRawInto
<1>2. CASE id \notin DOMAIN r
  BY <1>2, InsertIsRing DEF ImportRawInto
<1>3. QED
  BY <1>1, <1>2

\* rename_key moves one entry and touches no identifier but the two it was given.
LEMMA RenameStep ==
  ASSUME NEW r, IsRing(r), NEW old \in Id, NEW new \in Id
  PROVE  /\ IsRing(RenameIn(r, old, new))
         /\ old \notin DOMAIN r => RenameIn(r, old, new) = r
         /\ old \in DOMAIN r =>
              /\ DOMAIN RenameIn(r, old, new) = (DOMAIN r \ {old}) \cup {new}
              /\ RenameIn(r, old, new)[new] = r[old]
              /\ \A i \in DOMAIN r \ {old, new} : RenameIn(r, old, new)[i] = r[i]
<1>1. CASE old \notin DOMAIN r
  BY <1>1 DEF RenameIn
<1>2. CASE old \in DOMAIN r
  <2>1. r[old] \in Entry
    BY <1>2 DEF IsRing
  <2>2. RenameIn(r, old, new) = Insert(Remove(r, old), new, r[old])
    BY <1>2 DEF RenameIn
  <2>3. /\ IsRing(Remove(r, old))
        /\ DOMAIN Remove(r, old) = DOMAIN r \ {old}
        /\ \A i \in DOMAIN r \ {old} : Remove(r, old)[i] = r[i]
    BY RemoveIsRing
  <2>4. /\ IsRing(Insert(Remove(r, old), new, r[old]))
        /\ DOMAIN Insert(Remove(r, old), new, r[old]) = DOMAIN Remove(r, old) \cup {new}
        /\ Insert(Remove(r, old), new, r[old])[new] = r[old]
        /\ \A i \in DOMAIN Remove(r, old) \ {new} :
             Insert(Remove(r, old), new, r[old])[i] = Remove(r, old)[i]
    BY <2>1, <2>3, InsertIsRing
  <2>5. QED
    BY <1>2, <2>2, <2>3, <2>4
<1>3. QED
  BY <1>1, <1>2
===============================================================================
