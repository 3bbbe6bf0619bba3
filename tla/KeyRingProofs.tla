----------------------------- MODULE KeyRingProofs -----------------------------
(***************************************************************************)
(* The keyring's properties for every set of identifiers, keys and JWKs,   *)
(* and those of the directory validator, which fills a keyring of its own  *)
(* with the key set it judges.                                             *)
(*                                                                         *)
(* The lemmas of KeyRingOpsProofs say what one keyring method does to the  *)
(* map; the theorems then go through the actions of KeyRing.  For the      *)
(* validator RingsHold says what import_jwks makes of a whole key set.     *)
(***************************************************************************)
EXTENDS KeyRing, SignedDirectory, KeyRingOpsProofs, SequenceTheorems

-------------------------------------------------------------------------------
(***************************************************************************)
(* What each action does to the ring, from the type invariant.             *)
(***************************************************************************)
LEMMA ImportRawEffect ==
  ASSUME TypeOK, NEW id \in RawId, NEW entry \in RawEntry, ImportRaw(id, entry)
  PROVE  /\ IsRing(ring')
         /\ DOMAIN ring' = DOMAIN ring \cup {id}
         /\ \A i \in DOMAIN ring : ring'[i] = ring[i]
<1>1. id \in Id /\ entry \in Entry /\ IsRing(ring) /\ ring' = ImportRawInto(ring, id, entry)
  BY RawAssumption DEF TypeOK, ImportRaw
<1>2. /\ IsRing(ImportRawInto(ring, id, entry))
      /\ DOMAIN ImportRawInto(ring, id, entry) = DOMAIN ring \cup {id}
      /\ \A i \in DOMAIN ring : ImportRawInto(ring, id, entry)[i] = ring[i]
  BY <1>1, ImportRawStep
<1>3. QED
  BY <1>1, <1>2

LEMMA RenameEffect ==
  ASSUME TypeOK, NEW old \in Id, NEW new \in RawId, RenameKey(old, new)
  PROVE  /\ IsRing(ring')
         /\ call'.op = "rename_key" /\ call'.new = new
         /\ old \notin DOMAIN ring => ring' = ring
         /\ old \in DOMAIN ring =>
              /\ DOMAIN ring' = (DOMAIN ring \ {old}) \cup {new}
              /\ ring'[new] = ring[old]
              /\ \A i \in DOMAIN ring \ {old, new} : ring'[i] = ring[i]
<1>1. new \in Id /\ IsRing(ring) /\ ring' = RenameIn(ring, old, new)
  BY RawAssumption DEF TypeOK, RenameKey
<1>2. /\ IsRing(RenameIn(ring, old, new))
      /\ old \notin DOMAIN ring => RenameIn(ring, old, new) = ring
      /\ old \in DOMAIN ring =>
           /\ DOMAIN RenameIn(ring, old, new) = (DOMAIN ring \ {old}) \cup {new}
           /\ RenameIn(ring, old, new)[new] = ring[old]
           /\ \A i \in DOMAIN ring \ {old, new} : RenameIn(ring, old, new)[i] = ring[i]
  BY <1>1, RenameStep
<1>3. call'.op = "rename_key" /\ call'.new = new
  BY DEF RenameKey
<1>4. QED
  BY <1>1, <1>2, <1>3

LEMMA TryImportJwkEffect ==
  ASSUME TypeOK, TryImportJwk
  PROVE  LET jwk == call.keys[Len(ret) + 1]  outcome == JwkOutcome(ring, jwk) IN
         /\ call.op = "import_jwks" /\ call' = call
         /\ ret \in Seq(Outcome) /\ Len(ret) < Len(call.keys) /\ call.keys \in Seq(Jwk)
         /\ jwk \in Jwk
         /\ IsRing(ring')
         /\ ret' = Append(ret, outcome)
         /\ outcome \in Outcome
         /\ outcome # "Imported" => ring' = ring
         /\ outcome = "Imported" => /\ Thumbprint[jwk] \notin DOMAIN ring
                                    /\ PublicKey(jwk) \in Key
                                    /\ DOMAIN ring' = DOMAIN ring \cup {Thumbprint[jwk]}
                                    /\ ring'[Thumbprint[jwk]] = JwkEntry(jwk)
         /\ \A i \in DOMAIN ring : i \in DOMAIN ring' /\ ring'[i] = ring[i]
<1> DEFINE jwk == call.keys[Len(ret) + 1]
           outcome == JwkOutcome(ring, jwk)
<1>1. /\ call.op = "import_jwks" /\ call' = call
      /\ call.keys \in Seq(Jwk) /\ ret \in Seq(Outcome) /\ Len(ret) < Len(call.keys)
  BY DEF TypeOK, Call, TryImportJwk, InJwks
<1>2. jwk \in Jwk
  BY <1>1
<1>3. IsRing(ring) /\ ring' = TryImportJwkInto(ring, jwk) /\ ret' = Append(ret, outcome)
  BY DEF TypeOK, TryImportJwk
<1>4. /\ IsRing(TryImportJwkInto(ring, jwk))
      /\ JwkOutcome(ring, jwk) # "Imported" => TryImportJwkInto(ring, jwk) = ring
      /\ JwkOutcome(ring, jwk) = "Imported" =>
           /\ Thumbprint[jwk] \notin DOMAIN ring
           /\ PublicKey(jwk) \in Key
           /\ DOMAIN TryImportJwkInto(ring, jwk) = DOMAIN ring \cup {Thumbprint[jwk]}
           /\ TryImportJwkInto(ring, jwk)[Thumbprint[jwk]] = JwkEntry(jwk)
      /\ \A i \in DOMAIN ring : /\ i \in DOMAIN TryImportJwkInto(ring, jwk)
                                /\ TryImportJwkInto(ring, jwk)[i] = ring[i]
  <2> HIDE DEF jwk
  <2> QED BY <1>2, <1>3, TryImportStep
<1>5. outcome \in Outcome
  <2> HIDE DEF jwk
  <2> QED BY <1>2, OutcomeType
<1>6. QED
  <2> HIDE DEF jwk, outcome
  <2> SUFFICES /\ call.op = "import_jwks" /\ call' = call
               /\ ret \in Seq(Outcome) /\ Len(ret) < Len(call.keys) /\ call.keys \in Seq(Jwk)
               /\ jwk \in Jwk
               /\ IsRing(ring')
               /\ ret' = Append(ret, outcome)
               /\ outcome \in Outcome
               /\ outcome # "Imported" => ring' = ring
               /\ outcome = "Imported" => /\ Thumbprint[jwk] \notin DOMAIN ring
                                          /\ PublicKey(jwk) \in Key
                                          /\ DOMAIN ring' = DOMAIN ring \cup {Thumbprint[jwk]}
                                          /\ ring'[Thumbprint[jwk]] = JwkEntry(jwk)
               /\ \A i \in DOMAIN ring : i \in DOMAIN ring' /\ ring'[i] = ring[i]
    BY DEF jwk, outcome
  <2> QED BY <1>1, <1>2, <1>3, <1>4, <1>5 DEF outcome

-------------------------------------------------------------------------------
\* The next theorem: every reachable ring maps identifiers to (algorithm, key) pairs, and a
\* batch never reports more outcomes than it has keys.
THEOREM TypeCorrect == Spec => []TypeOK
<1>1. Init => TypeOK
  BY DEF Init, TypeOK, IsRing, EmptyRing, Call
<1>2. TypeOK /\ [Next]_vars => TypeOK'
  <2> SUFFICES ASSUME TypeOK, [Next]_vars  PROVE TypeOK'
    OBVIOUS
  <2>1. ASSUME NEW id \in RawId, NEW entry \in RawEntry, ImportRaw(id, entry)
        PROVE  TypeOK'
    <3>1. IsRing(ring')
      BY <2>1, ImportRawEffect
    <3>2. call' \in Call /\ call'.op = "import_raw" /\ ret' \in BOOLEAN
      BY <2>1 DEF ImportRaw, Call
    <3>3. QED
      BY <3>1, <3>2 DEF TypeOK
  <2>2. ASSUME NEW old \in Id, NEW new \in RawId, RenameKey(old, new)
        PROVE  TypeOK'
    <3>1. IsRing(ring')
      BY <2>2, RenameEffect
    <3>2. call' \in Call /\ call'.op = "rename_key" /\ ret' \in BOOLEAN
      BY <2>2 DEF RenameKey, Call
    <3>3. QED
      BY <3>1, <3>2 DEF TypeOK
  <2>3. ASSUME NEW keys \in KeySet, ImportJwks(keys)
        PROVE  TypeOK'
    <3>1. keys \in Seq(Jwk)
      BY DEF KeySet
    <3>2. call' \in Call /\ call'.op = "import_jwks" /\ call'.keys = keys
      BY <2>3, <3>1 DEF ImportJwks, Call
    <3>3. ret' \in Seq(Outcome) /\ Len(ret') <= Len(keys)
      BY <2>3, <3>1 DEF ImportJwks
    <3>4. QED
      BY <2>3, <3>2, <3>3 DEF TypeOK, ImportJwks
  <2>4. CASE TryImportJwk
    <3>1. /\ call.op = "import_jwks" /\ call' = call /\ IsRing(ring')
          /\ ret \in Seq(Outcome) /\ Len(ret) < Len(call.keys) /\ call.keys \in Seq(Jwk)
          /\ ret' = Append(ret, JwkOutcome(ring, call.keys[Len(ret) + 1]))
          /\ JwkOutcome(ring, call.keys[Len(ret) + 1]) \in Outcome
      BY <2>4, TryImportJwkEffect
    <3>2. ret' \in Seq(Outcome) /\ Len(ret') = Len(ret) + 1
      BY <3>1
    <3>3. QED
      BY <3>1, <3>2 DEF TypeOK
  <2>5. CASE UNCHANGED vars
    BY <2>5 DEF TypeOK, vars
  <2>6. QED
    BY <2>1, <2>2, <2>3, <2>4, <2>5 DEF Next
<1>3. QED
  BY <1>1, <1>2, PTL DEF Spec

\* The next theorem: an identifier that no application chooses by hand resolves to the JWK it
\* is the thumbprint of.  Only import_raw and rename_key could bind another key to it, and
\* both only bind names chosen by hand.
THEOREM ThumbprintBinding == Spec => []ThumbprintBound
<1>1. Init => ThumbprintBound
  BY DEF Init, ThumbprintBound, EmptyRing
<1>2. TypeOK /\ ThumbprintBound /\ [Next]_vars => ThumbprintBound'
  <2> SUFFICES ASSUME TypeOK, ThumbprintBound, [Next]_vars, NEW jwk \in Jwk,
                      Thumbprint[jwk] \in DOMAIN ring' \ RawId
               PROVE  PublicKey(jwk) \in Key /\ ring'[Thumbprint[jwk]] = JwkEntry(jwk)
    BY DEF ThumbprintBound
  <2>0. Thumbprint[jwk] \in DOMAIN ring =>
          PublicKey(jwk) \in Key /\ ring[Thumbprint[jwk]] = JwkEntry(jwk)
    BY DEF ThumbprintBound
  <2>1. ASSUME NEW id \in RawId, NEW entry \in RawEntry, ImportRaw(id, entry)
        PROVE  Thumbprint[jwk] \in DOMAIN ring /\ ring'[Thumbprint[jwk]] = ring[Thumbprint[jwk]]
    BY <2>1, ImportRawEffect
  <2>2. ASSUME NEW old \in Id, NEW new \in RawId, RenameKey(old, new)
        PROVE  Thumbprint[jwk] \in DOMAIN ring /\ ring'[Thumbprint[jwk]] = ring[Thumbprint[jwk]]
    <3>1. CASE old \notin DOMAIN ring
      BY <2>2, <3>1, RenameEffect
    <3>2. CASE old \in DOMAIN ring
      <4>1. /\ DOMAIN ring' = (DOMAIN ring \ {old}) \cup {new}
            /\ \A i \in DOMAIN ring \ {old, new} : ring'[i] = ring[i]
        BY <2>2, <3>2, RenameEffect
      <4>2. QED
        BY <4>1
    <3>3. QED
      BY <3>1, <3>2
  <2>3. ASSUME NEW keys \in KeySet, ImportJwks(keys)
        PROVE  Thumbprint[jwk] \in DOMAIN ring /\ ring'[Thumbprint[jwk]] = ring[Thumbprint[jwk]]
    BY <2>3 DEF ImportJwks
  <2>4. CASE TryImportJwk
    <3>1. PICK k \in Jwk :
            /\ JwkOutcome(ring, k) # "Imported" => ring' = ring
            /\ JwkOutcome(ring, k) = "Imported" =>
                 /\ PublicKey(k) \in Key
                 /\ DOMAIN ring' = DOMAIN ring \cup {Thumbprint[k]}
                 /\ ring'[Thumbprint[k]] = JwkEntry(k)
            /\ \A i \in DOMAIN ring : ring'[i] = ring[i]
      BY <2>4, TryImportJwkEffect
    <3>2. CASE Thumbprint[jwk] \in DOMAIN ring
      BY <2>0, <3>1, <3>2
    <3>3. CASE Thumbprint[jwk] \notin DOMAIN ring
      <4>1. JwkOutcome(ring, k) = "Imported"
        BY <3>1, <3>3
      <4>2. jwk = k
        BY <3>1, <3>3, <4>1, ThumbprintAssumption
      <4>3. QED
        BY <3>1, <4>1, <4>2
    <3>4. QED
      BY <3>2, <3>3
  <2>5. CASE UNCHANGED vars
    BY <2>0, <2>5 DEF vars
  <2>6. QED
    BY <2>0, <2>1, <2>2, <2>3, <2>4, <2>5 DEF Next
<1>3. QED
  BY <1>1, <1>2, TypeCorrect, PTL DEF Spec

\* The next theorem: imports leave every known identifier as it was.
THEOREM ImportsKeepEntries == Spec => FirstImportWins
<1>1. TypeOK /\ [Next]_vars =>
        [call'.op # "rename_key" =>
           \A id \in DOMAIN ring : id \in DOMAIN ring' /\ ring'[id] = ring[id]]_vars
  <2> SUFFICES ASSUME TypeOK, Next, call'.op # "rename_key", NEW i \in DOMAIN ring
               PROVE  i \in DOMAIN ring' /\ ring'[i] = ring[i]
    OBVIOUS
  <2>1. ASSUME NEW id \in RawId, NEW entry \in RawEntry, ImportRaw(id, entry)
        PROVE  i \in DOMAIN ring' /\ ring'[i] = ring[i]
    BY <2>1, ImportRawEffect
  <2>2. ASSUME NEW old \in Id, NEW new \in RawId, RenameKey(old, new)
        PROVE  FALSE
    BY <2>2 DEF RenameKey
  <2>3. ASSUME NEW keys \in KeySet, ImportJwks(keys)
        PROVE  i \in DOMAIN ring' /\ ring'[i] = ring[i]
    BY <2>3 DEF ImportJwks
  <2>4. ASSUME TryImportJwk
        PROVE  i \in DOMAIN ring' /\ ring'[i] = ring[i]
    BY <2>4, TryImportJwkEffect
  <2>5. QED
    BY <2>1, <2>2, <2>3, <2>4 DEF Next
<1>2. QED
  BY <1>1, TypeCorrect, PTL DEF Spec, FirstImportWins

\* The next theorem: a key leaves the ring only when another is renamed over its name.
THEOREM NoKeyLost == Spec => KeysAreNotLost
<1>1. TypeOK /\ [Next]_vars =>
        [\A id \in DOMAIN ring :
           \/ \E other \in DOMAIN ring' : ring'[other] = ring[id]
           \/ call'.op = "rename_key" /\ call'.new = id]_vars
  <2> SUFFICES ASSUME TypeOK, Next, NEW i \in DOMAIN ring
               PROVE  \/ \E other \in DOMAIN ring' : ring'[other] = ring[i]
                      \/ call'.op = "rename_key" /\ call'.new = i
    OBVIOUS
  <2>1. ASSUME NEW id \in RawId, NEW entry \in RawEntry, ImportRaw(id, entry)
        PROVE  i \in DOMAIN ring' /\ ring'[i] = ring[i]
    BY <2>1, ImportRawEffect
  <2>2. ASSUME NEW old \in Id, NEW new \in RawId, RenameKey(old, new), i # new
        PROVE  \E other \in DOMAIN ring' : ring'[other] = ring[i]
    <3>1. CASE old \notin DOMAIN ring
      BY <2>2, <3>1, RenameEffect
    <3>2. CASE old \in DOMAIN ring
      <4>1. /\ DOMAIN ring' = (DOMAIN ring \ {old}) \cup {new}
            /\ ring'[new] = ring[old]
            /\ \A id \in DOMAIN ring \ {old, new} : ring'[id] = ring[id]
        BY <2>2, <3>2, RenameEffect
      <4>2. CASE i = old
        BY <4>1, <4>2
      <4>3. CASE i # old
        BY <2>2, <4>1, <4>3
      <4>4. QED
        BY <4>2, <4>3
    <3>3. QED
      BY <3>1, <3>2
  <2>3. ASSUME NEW keys \in KeySet, ImportJwks(keys)
        PROVE  i \in DOMAIN ring' /\ ring'[i] = ring[i]
    BY <2>3 DEF ImportJwks
  <2>4. ASSUME TryImportJwk
        PROVE  i \in DOMAIN ring' /\ ring'[i] = ring[i]
    BY <2>4, TryImportJwkEffect
  <2>5. ASSUME NEW old \in Id, NEW new \in RawId, RenameKey(old, new)
        PROVE  call'.op = "rename_key" /\ call'.new = new
    BY <2>5 DEF RenameKey
  <2>6. QED
    BY <2>1, <2>2, <2>3, <2>4, <2>5 DEF Next
<1>2. QED
  BY <1>1, TypeCorrect, PTL DEF Spec, KeysAreNotLost

(***************************************************************************)
(* BatchReport is not inductive: that no earlier occurrence of a key was   *)
(* reported imported follows only if the report also says of the earlier   *)
(* keys which of them do not decode.                                       *)
(***************************************************************************)
BatchReported(i) ==
  LET jwk == call.keys[i] IN
  /\ ret[i] = "Imported" =>
       /\ Thumbprint[jwk] \in DOMAIN ring
       /\ ring[Thumbprint[jwk]] = JwkEntry(jwk)
       /\ \A k \in 1..(i - 1) : call.keys[k] # jwk
  /\ ret[i] = "KeyAlreadyExists" => Thumbprint[jwk] \in DOMAIN ring
  /\ ret[i] \notin {"Imported", "KeyAlreadyExists"} => PublicKey(jwk) \notin Key

BatchInv == call.op = "import_jwks" => \A i \in 1..Len(ret) : BatchReported(i)

LEMMA BatchInvariant == Spec => []BatchInv
<1>1. Init => BatchInv
  BY DEF Init, BatchInv
<1>2. TypeOK /\ BatchInv /\ [Next]_vars => BatchInv'
  <2> SUFFICES ASSUME TypeOK, BatchInv, [Next]_vars  PROVE BatchInv'
    OBVIOUS
  <2>1. ASSUME NEW id \in RawId, NEW entry \in RawEntry, ImportRaw(id, entry)
        PROVE  BatchInv'
    BY <2>1 DEF ImportRaw, BatchInv
  <2>2. ASSUME NEW old \in Id, NEW new \in RawId, RenameKey(old, new)
        PROVE  BatchInv'
    BY <2>2 DEF RenameKey, BatchInv
  <2>3. ASSUME NEW keys \in KeySet, ImportJwks(keys)
        PROVE  BatchInv'
    BY <2>3 DEF ImportJwks, BatchInv
  <2>4. CASE TryImportJwk
    <3>1. PICK n \in Nat, key \in Jwk, outcome \in Outcome :
            /\ n = Len(ret) + 1 /\ key = call.keys[n] /\ outcome = JwkOutcome(ring, key)
            /\ call.op = "import_jwks" /\ call' = call
            /\ ret \in Seq(Outcome) /\ Len(ret) < Len(call.keys) /\ call.keys \in Seq(Jwk)
            /\ ret' = Append(ret, outcome)
            /\ outcome = "Imported" => /\ Thumbprint[key] \notin DOMAIN ring
                                       /\ Thumbprint[key] \in DOMAIN ring'
                                       /\ ring'[Thumbprint[key]] = JwkEntry(key)
            /\ \A i \in DOMAIN ring : i \in DOMAIN ring' /\ ring'[i] = ring[i]
      BY <2>4, TryImportJwkEffect
    <3>2. /\ outcome \in {"Imported", "KeyAlreadyExists"} <=> PublicKey(key) \in Key
          /\ outcome = "KeyAlreadyExists" => Thumbprint[key] \in DOMAIN ring
      BY <3>1, OutcomeType
    <3>3. /\ Len(ret') = n
          /\ \A i \in 1..Len(ret) : ret'[i] = ret[i]
          /\ ret'[n] = outcome
      BY <3>1
    <3>4. ASSUME NEW i \in 1..Len(ret)  PROVE BatchReported(i)'
      <4>1. BatchReported(i)
        BY <3>1, <3>4 DEF BatchInv
      <4>2. ret'[i] = ret[i] /\ call' = call
        BY <3>1, <3>3, <3>4
      <4>3. QED
        BY <3>1, <4>1, <4>2 DEF BatchReported
    <3>5. BatchReported(n)'
      <4>1. ASSUME outcome = "Imported", NEW k \in 1..(n - 1), call.keys[k] = key
            PROVE  FALSE
        <5>1. k \in 1..Len(ret) /\ BatchReported(k)
          BY <3>1, <4>1 DEF BatchInv
        <5>2. ret[k] \in Outcome
          BY <3>1, <5>1
        <5>3. PublicKey(key) \in Key /\ Thumbprint[key] \notin DOMAIN ring
          BY <3>1, <3>2, <4>1
        <5>4. QED
          BY <4>1, <5>1, <5>2, <5>3 DEF BatchReported
      <4>2. ret'[n] = outcome /\ call'.keys[n] = key /\ call' = call
        BY <3>1, <3>3
      <4>3. outcome = "KeyAlreadyExists" => Thumbprint[key] \in DOMAIN ring'
        BY <3>1, <3>2
      <4>4. outcome \notin {"Imported", "KeyAlreadyExists"} => PublicKey(key) \notin Key
        BY <3>2
      <4>5. QED
        BY <3>1, <4>1, <4>2, <4>3, <4>4 DEF BatchReported
    <3>6. \A i \in 1..n : i = n \/ i \in 1..Len(ret)
      BY <3>1
    <3>7. QED
      BY <3>3, <3>4, <3>5, <3>6 DEF BatchInv
  <2>5. CASE UNCHANGED vars
    BY <2>5 DEF vars, BatchInv, BatchReported
  <2>6. QED
    BY <2>1, <2>2, <2>3, <2>4, <2>5 DEF Next
<1>3. QED
  BY <1>1, <1>2, TypeCorrect, PTL DEF Spec

\* The next theorem: what import_jwks reports of each key is true of the ring it leaves.
THEOREM BatchReportTrue == Spec => []BatchReport
<1>1. BatchInv => BatchReport
  BY DEF BatchInv, BatchReported, BatchReport
<1>2. QED
  BY <1>1, BatchInvariant, PTL

-------------------------------------------------------------------------------
(***************************************************************************)
(* The directory validator.  What import_jwks makes of an empty keyring.   *)
(***************************************************************************)

\* The rings of a key set are those its definition describes.
LEMMA RingsDefined ==
  ASSUME NEW keys \in Seq(Jwk)
  PROVE  /\ Rings(keys)[0] = EmptyRing
         /\ \A i \in 1 .. Len(keys) : Rings(keys)[i] = TryImportJwkInto(Rings(keys)[i - 1], keys[i])
<1> DEFINE Steps(f, n) ==
             [i \in 0 .. n |-> IF i = 0 THEN EmptyRing ELSE TryImportJwkInto(f[i - 1], keys[i])]
           Missing == { n \in 0 .. Len(keys) : ~ \E f : f = Steps(f, n) }
<1>1. Len(keys) \in Nat
  OBVIOUS
<1>2. ASSUME Missing # {} PROVE FALSE
  <2>1. PICK n \in Missing : \A m \in Missing : n <= m
    <3>1. Missing \in SUBSET Nat
      BY <1>1
    <3>2. QED
      BY <1>2, <3>1, SmallestExists
  <2>2. CASE n = 0
    <3> DEFINE f == [i \in 0 .. 0 |-> EmptyRing]
    <3>1. f = Steps(f, 0)
      OBVIOUS
    <3>2. QED
      BY <2>1, <2>2, <3>1
  <2>3. CASE n # 0
    <3>1. n - 1 \in 0 .. Len(keys) /\ n - 1 \notin Missing /\ n \in Nat
      BY <1>1, <2>1, <2>3
    <3>2. PICK f : f = Steps(f, n - 1)
      BY <3>1
    <3> DEFINE g == [i \in 0 .. n |-> IF i = n THEN TryImportJwkInto(f[n - 1], keys[n]) ELSE f[i]]
    <3>3. ASSUME NEW i \in 0 .. n PROVE g[i] = Steps(g, n)[i]
      <4>1. CASE i = 0
        BY <2>3, <3>1, <3>2, <4>1
      <4>2. CASE i # 0
        <5>1. i - 1 \in 0 .. n /\ i - 1 # n
          BY <3>1, <4>2
        <5>2. g[i - 1] = f[i - 1]
          BY <5>1
        <5>3. Steps(g, n)[i] = TryImportJwkInto(f[i - 1], keys[i])
          BY <4>2, <5>2
        <5>4. CASE i = n
          BY <5>3, <5>4
        <5>5. CASE i # n
          <6>1. i \in 0 .. n - 1
            BY <3>1, <5>5
          <6>2. f[i] = TryImportJwkInto(f[i - 1], keys[i])
            BY <3>2, <4>2, <6>1
          <6>3. QED
            BY <5>3, <5>5, <6>2
        <5>6. QED
          BY <5>4, <5>5
      <4>3. QED
        BY <4>1, <4>2
    <3>4. g = Steps(g, n)
      BY <3>3
    <3>5. QED
      BY <2>1, <3>4
  <2>4. QED
    BY <2>2, <2>3
<1>3. \E f : f = Steps(f, Len(keys))
  BY <1>1, <1>2
<1>4. Rings(keys) = CHOOSE f : f = Steps(f, Len(keys))
  BY DEF Rings
<1> DEFINE R == Rings(keys)
<1>5. R = Steps(R, Len(keys))
  BY <1>3, <1>4
<1> HIDE DEF R
<1>6. QED
  <2>1. R[0] = EmptyRing
    BY <1>1, <1>5
  <2>2. ASSUME NEW i \in 1 .. Len(keys) PROVE R[i] = TryImportJwkInto(R[i - 1], keys[i])
    BY <1>1, <1>5
  <2>3. QED
    BY <2>1, <2>2 DEF R

Importable(keys, n) == { k \in 1 .. n : PublicKey(keys[k]) \in Key }

\* After some keys of the set the ring holds those that can be imported, each under its thumbprint.
RingHolds(keys, r, n) ==
  /\ IsRing(r)
  /\ DOMAIN r = { Thumbprint[keys[k]] : k \in Importable(keys, n) }
  /\ \A k \in Importable(keys, n) : r[Thumbprint[keys[k]]] = JwkEntry(keys[k])

LEMMA RingHoldsOneMore ==
  ASSUME NEW keys \in Seq(Jwk), NEW n \in 1 .. Len(keys), NEW r, RingHolds(keys, r, n - 1)
  PROVE  RingHolds(keys, TryImportJwkInto(r, keys[n]), n)
<1> DEFINE q == TryImportJwkInto(r, keys[n])
<1>1. keys[n] \in Jwk /\ n \in Nat /\ \A k \in 1 .. n : keys[k] \in Jwk
  BY ElementOfSeq
<1>2. IsRing(r)
  BY DEF RingHolds
<1>3. /\ IsRing(q)
      /\ JwkOutcome(r, keys[n]) # "Imported" => q = r
      /\ JwkOutcome(r, keys[n]) = "Imported" =>
           /\ Thumbprint[keys[n]] \notin DOMAIN r
           /\ PublicKey(keys[n]) \in Key
           /\ DOMAIN q = DOMAIN r \cup {Thumbprint[keys[n]]}
           /\ q[Thumbprint[keys[n]]] = JwkEntry(keys[n])
      /\ \A id \in DOMAIN r : id \in DOMAIN q /\ q[id] = r[id]
  BY <1>1, <1>2, TryImportStep
<1>4. Importable(keys, n) =
        Importable(keys, n - 1) \cup (IF PublicKey(keys[n]) \in Key THEN {n} ELSE {})
  BY <1>1 DEF Importable
<1> HIDE DEF q
<1>5. CASE JwkOutcome(r, keys[n]) = "Imported"
  <2>1. Importable(keys, n) = Importable(keys, n - 1) \cup {n}
    BY <1>3, <1>4, <1>5
  <2>2. DOMAIN q = { Thumbprint[keys[k]] : k \in Importable(keys, n) }
    BY <1>3, <1>5, <2>1 DEF RingHolds
  <2>3. \A k \in Importable(keys, n) : q[Thumbprint[keys[k]]] = JwkEntry(keys[k])
    BY <1>3, <1>5, <2>1 DEF RingHolds
  <2>4. QED
    BY <1>3, <2>2, <2>3 DEF RingHolds, q
<1>6. CASE JwkOutcome(r, keys[n]) # "Imported"
  <2>1. PublicKey(keys[n]) \in Key => Thumbprint[keys[n]] \in DOMAIN r
    BY <1>1, <1>6, OutcomeType
  <2>2. DOMAIN r = { Thumbprint[keys[k]] : k \in Importable(keys, n) }
    BY <1>4, <2>1 DEF RingHolds
  <2>3. ASSUME PublicKey(keys[n]) \in Key PROVE r[Thumbprint[keys[n]]] = JwkEntry(keys[n])
    <3>1. PICK k \in Importable(keys, n - 1) : Thumbprint[keys[k]] = Thumbprint[keys[n]]
      BY <2>1, <2>3 DEF RingHolds
    <3>2. keys[k] = keys[n]
      BY <1>1, <3>1, ThumbprintAssumption DEF Importable
    <3>3. QED
      BY <3>1, <3>2 DEF RingHolds
  <2>4. \A k \in Importable(keys, n) : r[Thumbprint[keys[k]]] = JwkEntry(keys[k])
    BY <1>4, <2>3 DEF RingHolds
  <2>5. QED
    BY <1>2, <1>3, <1>6, <2>2, <2>4 DEF RingHolds, q
<1>7. QED
  BY <1>5, <1>6

LEMMA RingsHold ==
  ASSUME NEW keys \in Seq(Jwk)
  PROVE  \A n \in 0 .. Len(keys) : RingHolds(keys, Rings(keys)[n], n)
<1> DEFINE Wrong == { n \in 0 .. Len(keys) : ~ RingHolds(keys, Rings(keys)[n], n) }
<1>1. Len(keys) \in Nat
  OBVIOUS
<1>2. SUFFICES ASSUME Wrong # {} PROVE FALSE
  OBVIOUS
<1>3. PICK n \in Wrong : \A m \in Wrong : n <= m
  <2>1. Wrong \in SUBSET Nat
    BY <1>1
  <2>2. QED
    BY <1>2, <2>1, SmallestExists
<1>4. CASE n = 0
  <2>1. Importable(keys, 0) = {}
    BY DEF Importable
  <2>2. IsRing(EmptyRing) /\ DOMAIN EmptyRing = {}
    BY DEF IsRing, EmptyRing
  <2>3. RingHolds(keys, Rings(keys)[0], 0)
    BY <2>1, <2>2, RingsDefined DEF RingHolds
  <2>4. QED
    BY <1>3, <1>4, <2>3
<1>5. CASE n # 0
  <2>1. n \in 1 .. Len(keys) /\ n - 1 \in 0 .. Len(keys) /\ n - 1 \notin Wrong
    BY <1>1, <1>3, <1>5
  <2>2. RingHolds(keys, Rings(keys)[n - 1], n - 1)
    BY <2>1
  <2>3. RingHolds(keys, Rings(keys)[n], n)
    BY <2>1, <2>2, RingsDefined, RingHoldsOneMore
  <2>4. QED
    BY <1>3, <2>3
<1>6. QED
  BY <1>4, <1>5

\* A key of the set is reported imported if it can be and did not come before.
LEMMA ImportedIsFirst ==
  ASSUME NEW keys \in Seq(Jwk), NEW i \in 1 .. Len(keys)
  PROVE  JwkOutcome(Rings(keys)[i - 1], keys[i]) = "Imported" <=>
           PublicKey(keys[i]) \in Key /\ \A k \in 1 .. (i - 1) : keys[k] # keys[i]
<1>1. /\ i \in Nat /\ i - 1 \in 0 .. Len(keys)
      /\ \A k \in 1 .. Len(keys) : keys[k] \in Jwk
  BY ElementOfSeq
<1>2. RingHolds(keys, Rings(keys)[i - 1], i - 1)
  BY <1>1, RingsHold
<1>3. JwkOutcome(Rings(keys)[i - 1], keys[i]) = "Imported" <=>
        PublicKey(keys[i]) \in Key /\ Thumbprint[keys[i]] \notin DOMAIN Rings(keys)[i - 1]
  BY <1>1, OutcomeType
<1>4. ASSUME PublicKey(keys[i]) \in Key
      PROVE  Thumbprint[keys[i]] \in DOMAIN Rings(keys)[i - 1] <=> \E k \in 1 .. (i - 1) : keys[k] = keys[i]
  <2>1. ASSUME NEW k \in 1 .. (i - 1)
        PROVE  Thumbprint[keys[k]] = Thumbprint[keys[i]] <=> keys[k] = keys[i]
    <3>1. k \in 1 .. Len(keys)
      BY <1>1
    <3>2. QED
      BY <1>1, <3>1, ThumbprintAssumption
  <2>2. QED
    BY <1>2, <1>4, <2>1 DEF RingHolds, Importable
<1>5. QED
  BY <1>3, <1>4

-------------------------------------------------------------------------------
(***************************************************************************)
(* The verdict.  What is known of a run of the validator: its answer is    *)
(* one that directoryResponseHeaders makes, each key checked so far was    *)
(* judged by that answer, and the verdict is Success of the judgements.    *)
(***************************************************************************)
Info == [valid : BOOLEAN, verified : BOOLEAN, error : BOOLEAN, at : Nat]

ValidatorTypeOK ==
  /\ now \in 0 .. MaxTime
  /\ validator \in
       [pc : {"idle"}] \cup [pc : {"failed"}, url : Url]
         \cup [pc : {"checking", "passed", "failed"}, url : Url, infos : Seq(Info), answer : Answer]

HasAnswer == "answer" \in DOMAIN validator

\* directoryResponseHeaders: a binding for each signer, with a keyid of its own.
Made(answer) ==
  /\ ~Duplicated(answer.signers)
  /\ DOMAIN answer.bindings = DOMAIN answer.signers
  /\ \A b \in DOMAIN answer.signers : /\ answer.bindings[b].keyid = answer.signers[b].keyid
                                      /\ answer.bindings[b].by = answer.signers[b].key

Found(answer, i) == Candidates(answer.bindings, Thumbprint[answer.keys[i]])

First(answer, i) ==
  answer.bindings[CHOOSE b \in Found(answer, i) : \A c \in Found(answer, i) : b <= c]

Vouched(answer, i, url) ==
  Found(answer, i) # {} /\ Verifies(First(answer, i), url, Rings(answer.keys)[Len(answer.keys)])

Judged(info, answer, i, url) ==
  /\ info.valid <=>
       /\ Supported(answer.keys[i])
       /\ JwkOutcome(Rings(answer.keys)[i - 1], answer.keys[i]) = "Imported"
  /\ info.valid =>
       (info.error <=> ~Vouched(answer, i, url) \/ info.at >= First(answer, i).expires)

KeysJudged ==
  HasAnswer =>
    LET answer == validator.answer  infos == validator.infos IN
    /\ Made(answer)
    /\ Len(infos) <= Len(answer.keys)
    /\ \A i \in DOMAIN infos : Judged(infos[i], answer, i, validator.url)
    /\ validator.pc # "checking" =>
         /\ Len(infos) = Len(answer.keys)
         /\ validator.pc = "passed" <=> Success(validator.url, infos)

ValidatorInv == ValidatorTypeOK /\ KeysJudged

LEMMA AnswersAreMade ==
  ASSUME now \in 0 .. MaxTime, NEW keys \in KeyLists, NEW signers \in SignerLists,
         NEW authority \in Authority, NEW covers \in Coverage, NEW created \in 0 .. now,
         ~Duplicated(signers)
  PROVE  /\ AnswerOf(keys, signers, authority, covers, created) \in Answer
         /\ Made(AnswerOf(keys, signers, authority, covers, created))
<1> DEFINE bindings == [i \in DOMAIN signers |-> BindingOf(signers, i, authority, covers, created)]
<1>1. signers \in Seq(Signer) /\ keys \in Seq(Jwk)
  BY KeyListsAssumption, SignerListsAssumption
<1>2. DOMAIN signers = 1 .. Len(signers) /\ Len(signers) \in Nat
  BY <1>1, LenProperties
<1>3. created + Ttl \in Time
  BY TimeAssumption DEF Time
<1>4. ASSUME NEW i \in 1 .. Len(signers)
      PROVE  BindingOf(signers, i, authority, covers, created) \in Binding
  <2>1. signers[i] \in Signer
    BY <1>1, <1>4, ElementOfSeq
  <2>2. QED
    BY <1>3, <2>1 DEF BindingOf, Binding, Signer
<1>5. bindings \in Seq(Binding)
  BY <1>2, <1>4, IsASeq
<1>6. AnswerOf(keys, signers, authority, covers, created)
        = [keys |-> keys, signers |-> signers, bindings |-> bindings]
  BY DEF AnswerOf
<1>7. \A i \in DOMAIN signers : bindings[i].keyid = signers[i].keyid /\ bindings[i].by = signers[i].key
  BY DEF BindingOf
<1>8. DOMAIN bindings = DOMAIN signers
  OBVIOUS
<1> HIDE DEF bindings
<1>9. QED
  BY <1>1, <1>5, <1>6, <1>7, <1>8 DEF Answer, Made

LEMMA AnalysisJudges ==
  ASSUME now \in Nat, NEW i, NEW url, NEW answer
  PROVE  Analysis(i, url, answer) \in Info /\ Judged(Analysis(i, url, answer), answer, i, url)
<1>1. Analysis(i, url, answer) =
        IF ~Supported(answer.keys[i])
           \/ JwkOutcome(Rings(answer.keys)[i - 1], answer.keys[i]) # "Imported"
        THEN [valid |-> FALSE, verified |-> FALSE, error |-> TRUE, at |-> now]
        ELSE [valid |-> TRUE, verified |-> Vouched(answer, i, url),
              error |-> ~Vouched(answer, i, url) \/ now >= First(answer, i).expires, at |-> now]
  BY DEF Analysis, Vouched, First, Found, Expired
<1>2. Vouched(answer, i, url) \in BOOLEAN
  BY DEF Vouched, Verifies
<1> DEFINE bad == ~Supported(answer.keys[i])
                    \/ JwkOutcome(Rings(answer.keys)[i - 1], answer.keys[i]) # "Imported"
           wrong == ~Vouched(answer, i, url) \/ now >= First(answer, i).expires
           info == Analysis(i, url, answer)
<1>3. CASE bad
  <2>1. info = [valid |-> FALSE, verified |-> FALSE, error |-> TRUE, at |-> now]
    BY <1>1, <1>3
  <2>2. info.valid = FALSE /\ info \in Info
    BY <2>1 DEF Info
  <2>3. QED
    BY <1>3, <2>2 DEF Judged
<1>4. CASE ~bad
  <2>1. info = [valid |-> TRUE, verified |-> Vouched(answer, i, url), error |-> wrong, at |-> now]
    BY <1>1, <1>4
  <2>2. wrong \in BOOLEAN
    OBVIOUS
  <2> HIDE DEF wrong, info
  <2>3. info \in Info /\ info.valid = TRUE /\ info.error = wrong /\ info.at = now
    BY <1>2, <2>1, <2>2 DEF Info
  <2> USE DEF wrong
  <2>4. info.error <=> ~Vouched(answer, i, url) \/ info.at >= First(answer, i).expires
    BY <2>3
  <2>5. Judged(info, answer, i, url)
    BY <1>4, <2>3, <2>4 DEF Judged
  <2>6. QED
    BY <2>3, <2>5 DEF info
<1>5. QED
  BY <1>3, <1>4

LEMMA ValidatorInitInv == DirectoryInit => ValidatorInv
BY TimeAssumption DEF DirectoryInit, ValidatorInv, ValidatorTypeOK, KeysJudged, HasAnswer

\* Of the shapes a run has, the one with an answer.
LEMMA AnswerShape ==
  ASSUME ValidatorTypeOK, HasAnswer
  PROVE  validator \in
           [pc : {"checking", "passed", "failed"}, url : Url, infos : Seq(Info), answer : Answer]
BY DEF ValidatorTypeOK, HasAnswer

LEMMA FetchStep ==
  ASSUME ValidatorInv, NEW url \in Url, NEW keys \in KeyLists, NEW signers \in SignerLists,
         NEW authority \in Authority, NEW covers \in Coverage, NEW created \in 0 .. now,
         Fetch(url, keys, signers, authority, covers, created)
  PROVE  ValidatorInv'
<1> PICK answer : answer = AnswerOf(keys, signers, authority, covers, created)
  OBVIOUS
<1>1. /\ now' = now /\ ~Duplicated(signers)
      /\ validator' = [pc |-> "checking", url |-> url, infos |-> <<>>, answer |-> answer]
  BY DEF Fetch
<1>2. now \in 0 .. MaxTime
  BY DEF ValidatorInv, ValidatorTypeOK
<1>3. answer \in Answer /\ Made(answer)
  BY <1>1, <1>2, AnswersAreMade
<1>4. ValidatorTypeOK'
  BY <1>1, <1>2, <1>3 DEF ValidatorTypeOK
<1>5. /\ validator'.answer = answer /\ validator'.infos = <<>> /\ validator'.pc = "checking"
      /\ Len(<<>>) = 0 /\ DOMAIN <<>> = {}
  BY <1>1
<1>6. Len(answer.keys) \in Nat
  BY <1>3 DEF Answer
<1>7. KeysJudged'
  BY <1>3, <1>5, <1>6 DEF KeysJudged
<1>8. QED
  BY <1>4, <1>7 DEF ValidatorInv

LEMMA CheckKeyStep ==
  ASSUME ValidatorInv, CheckKey
  PROVE  ValidatorInv'
<1> PICK answer, url, infos :
           answer = validator.answer /\ url = validator.url /\ infos = validator.infos
  OBVIOUS
<1> PICK info : info = Analysis(Len(infos) + 1, url, answer)
  OBVIOUS
<1>1. /\ validator.pc = "checking" /\ Len(infos) < Len(answer.keys) /\ now' = now
      /\ validator' = [validator EXCEPT !.infos = Append(infos, info)]
  BY DEF CheckKey
<1>2. validator.pc = "checking" => HasAnswer
  BY DEF ValidatorInv, ValidatorTypeOK, HasAnswer
<1>3. validator \in
        [pc : {"checking", "passed", "failed"}, url : Url, infos : Seq(Info), answer : Answer]
  BY <1>1, <1>2, AnswerShape DEF ValidatorInv
<1>4. now \in 0 .. MaxTime
  BY DEF ValidatorInv, ValidatorTypeOK
<1>5. info \in Info /\ Judged(info, answer, Len(infos) + 1, url)
  BY <1>4, AnalysisJudges, TimeAssumption
<1>6. infos \in Seq(Info) /\ Append(infos, info) \in Seq(Info) /\ Len(infos) \in Nat
  BY <1>3, <1>5
<1>7. /\ validator'.pc = "checking" /\ validator'.url = url /\ validator'.answer = answer
      /\ validator'.infos = Append(infos, info) /\ HasAnswer'
      /\ validator' \in
           [pc : {"checking", "passed", "failed"}, url : Url, infos : Seq(Info), answer : Answer]
  BY <1>1, <1>3, <1>6 DEF HasAnswer
<1>8. ValidatorTypeOK'
  BY <1>1, <1>4, <1>7 DEF ValidatorTypeOK
<1>9. /\ Made(answer) /\ \A i \in DOMAIN infos : Judged(infos[i], answer, i, url)
  BY <1>1, <1>2 DEF ValidatorInv, KeysJudged
<1>10. Len(Append(infos, info)) = Len(infos) + 1 /\ Len(answer.keys) \in Nat
  BY <1>3, <1>6 DEF Answer
<1>11. ASSUME NEW i \in DOMAIN Append(infos, info)
       PROVE  Judged(Append(infos, info)[i], answer, i, url)
  <2>1. CASE i = Len(infos) + 1
    BY <1>5, <1>6, <2>1
  <2>2. CASE i # Len(infos) + 1
    <3>1. i \in DOMAIN infos /\ Append(infos, info)[i] = infos[i]
      BY <1>6, <2>2
    <3>2. QED
      BY <1>9, <3>1
  <2>3. QED
    BY <2>1, <2>2
<1>12. KeysJudged'
  BY <1>1, <1>7, <1>9, <1>10, <1>11 DEF KeysJudged
<1>13. QED
  BY <1>8, <1>12 DEF ValidatorInv

LEMMA ReportStep ==
  ASSUME ValidatorInv, Report
  PROVE  ValidatorInv'
<1> PICK answer, url, infos :
           answer = validator.answer /\ url = validator.url /\ infos = validator.infos
  OBVIOUS
<1> PICK verdict : verdict = IF Success(url, infos) THEN "passed" ELSE "failed"
  OBVIOUS
<1>1. /\ validator.pc = "checking" /\ Len(infos) = Len(answer.keys) /\ now' = now
      /\ validator' = [validator EXCEPT !.pc = verdict]
  BY DEF Report
<1>2. validator.pc = "checking" => HasAnswer
  BY DEF ValidatorInv, ValidatorTypeOK, HasAnswer
<1>3. validator \in
        [pc : {"checking", "passed", "failed"}, url : Url, infos : Seq(Info), answer : Answer]
  BY <1>1, <1>2, AnswerShape DEF ValidatorInv
<1>4. verdict \in {"passed", "failed"} /\ (verdict = "passed" <=> Success(url, infos))
  OBVIOUS
<1>5. /\ validator'.pc = verdict /\ validator'.url = url /\ validator'.answer = answer
      /\ validator'.infos = infos /\ HasAnswer'
      /\ validator' \in
           [pc : {"checking", "passed", "failed"}, url : Url, infos : Seq(Info), answer : Answer]
  BY <1>1, <1>3, <1>4 DEF HasAnswer
<1>6. ValidatorTypeOK'
  BY <1>1, <1>5 DEF ValidatorInv, ValidatorTypeOK
<1>7. /\ Made(answer) /\ Len(infos) <= Len(answer.keys)
      /\ \A i \in DOMAIN infos : Judged(infos[i], answer, i, url)
  BY <1>1, <1>2 DEF ValidatorInv, KeysJudged
<1>8. KeysJudged'
  BY <1>1, <1>4, <1>5, <1>7 DEF KeysJudged
<1>9. QED
  BY <1>6, <1>8 DEF ValidatorInv

LEMMA ValidatorNextInv == ValidatorInv /\ [DirectoryNext]_directoryVars => ValidatorInv'
<1> SUFFICES ASSUME ValidatorInv, [DirectoryNext]_directoryVars PROVE ValidatorInv'
  OBVIOUS
<1>1. CASE UNCHANGED validator /\ now' \in 0 .. MaxTime
  BY <1>1 DEF ValidatorInv, ValidatorTypeOK, KeysJudged, HasAnswer
<1>2. CASE Tick \/ UNCHANGED directoryVars
  BY <1>1, <1>2, TimeAssumption DEF Tick, directoryVars, ValidatorInv, ValidatorTypeOK
<1>3. CASE \E url \in Url : FetchFails(url)
  BY <1>3 DEF FetchFails, ValidatorInv, ValidatorTypeOK, KeysJudged, HasAnswer
<1>4. QED
  BY <1>2, <1>3, FetchStep, CheckKeyStep, ReportStep DEF DirectoryNext

\* The binding the validator looks at is one that names the key.
LEMMA FirstIsFound ==
  ASSUME NEW answer \in Answer, NEW i \in DOMAIN answer.keys, Found(answer, i) # {}
  PROVE  \E b \in DOMAIN answer.bindings :
           /\ First(answer, i) = answer.bindings[b]
           /\ answer.bindings[b].keyid = Thumbprint[answer.keys[i]]
<1>1. answer.bindings \in Seq(Binding)
  BY DEF Answer
<1>2. Found(answer, i) \in SUBSET Nat
  BY <1>1 DEF Found, Candidates
<1> DEFINE first == CHOOSE b \in Found(answer, i) : \A c \in Found(answer, i) : b <= c
<1>3. first \in Found(answer, i)
  BY <1>2, SmallestExists
<1>4. First(answer, i) = answer.bindings[first]
  BY DEF First
<1>5. QED
  BY <1>3, <1>4 DEF Found, Candidates

\* The ring that verifies a binding holds each importable key of the set under its thumbprint.
LEMMA RingKnowsKey ==
  ASSUME NEW keys \in Seq(Jwk), NEW i \in DOMAIN keys, PublicKey(keys[i]) \in Key
  PROVE  Rings(keys)[Len(keys)][Thumbprint[keys[i]]][2] = PublicKey(keys[i])
<1>1. i \in 1 .. Len(keys) /\ Len(keys) \in Nat
  BY LenProperties
<1>2. RingHolds(keys, Rings(keys)[Len(keys)], Len(keys))
  BY <1>1, RingsHold
<1>3. i \in Importable(keys, Len(keys))
  BY <1>1 DEF Importable
<1>4. Rings(keys)[Len(keys)][Thumbprint[keys[i]]] = JwkEntry(keys[i])
  BY <1>2, <1>3 DEF RingHolds
<1>5. JwkEntry(keys[i])[2] = PublicKey(keys[i])
  BY DEF JwkEntry
<1>6. QED
  BY <1>4, <1>5

\* A directory passes the validator only if every key it serves is bound to its host (main of
\* crates/http-signature-directory).
THEOREM PassedDirectoriesAreBound == DirectorySpec => []PassedIsBound
<1>1. ASSUME ValidatorInv PROVE PassedIsBound
  <2> SUFFICES ASSUME validator.pc = "passed" PROVE PassedIsBound
    BY DEF PassedIsBound
  <2> PICK answer, url, infos :
             answer = validator.answer /\ url = validator.url /\ infos = validator.infos
    OBVIOUS
  <2>1. HasAnswer
    BY <1>1 DEF ValidatorInv, ValidatorTypeOK, HasAnswer
  <2>2. answer \in Answer /\ url \in Url /\ infos \in Seq(Info)
    BY <1>1, <2>1, AnswerShape DEF ValidatorInv
  <2>3. /\ Len(infos) = Len(answer.keys) /\ Success(url, infos)
        /\ \A i \in DOMAIN infos : Judged(infos[i], answer, i, url)
    BY <1>1, <2>1 DEF ValidatorInv, KeysJudged
  <2>4. answer.keys \in Seq(Jwk) /\ answer.bindings \in Seq(Binding)
    BY <2>2 DEF Answer
  <2>5. /\ DOMAIN infos = DOMAIN answer.keys /\ DOMAIN answer.keys = 1 .. Len(answer.keys)
        /\ Len(answer.keys) \in Nat
    BY <2>2, <2>3, <2>4, LenProperties
  <2>6. answer.keys # <<>> /\ url.https
    BY <2>3, <2>5 DEF Success
  <2>7. ASSUME NEW i \in DOMAIN answer.keys
        PROVE  /\ JwkOutcome(Rings(answer.keys)[i - 1], answer.keys[i]) = "Imported"
               /\ Vouched(answer, i, url) /\ ~(infos[i].at >= First(answer, i).expires)
    BY <2>3, <2>5 DEF Success, Judged
  <2>8. ASSUME NEW i \in DOMAIN answer.keys
        PROVE  /\ PublicKey(answer.keys[i]) \in Key
               /\ \A k \in 1 .. (i - 1) : answer.keys[k] # answer.keys[i]
    BY <2>4, <2>5, <2>7, ImportedIsFirst
  <2>9. \A i, j \in DOMAIN answer.keys : answer.keys[i] = answer.keys[j] => i = j
    <3>1. SUFFICES ASSUME NEW i \in DOMAIN answer.keys, NEW j \in DOMAIN answer.keys,
                          answer.keys[i] = answer.keys[j], i # j
                   PROVE  FALSE
      OBVIOUS
    <3>2. i \in 1 .. (j - 1) \/ j \in 1 .. (i - 1)
      BY <2>5, <3>1
    <3>3. QED
      BY <2>8, <3>1, <3>2
  <2>10. ASSUME NEW i \in DOMAIN answer.keys
         PROVE  \E b \in DOMAIN answer.bindings :
                  /\ Binds(answer.bindings[b], answer.keys[i], url)
                  /\ infos[i].at < answer.bindings[b].expires
    <3>1. PICK b \in DOMAIN answer.bindings :
            /\ First(answer, i) = answer.bindings[b]
            /\ answer.bindings[b].keyid = Thumbprint[answer.keys[i]]
      BY <2>2, <2>7, FirstIsFound DEF Vouched
    <3>2. /\ answer.bindings[b].covers = "req" /\ answer.bindings[b].authority = url.authority
          /\ answer.bindings[b].by = PublicKey(answer.keys[i])
      <4>1. Verifies(First(answer, i), url, Rings(answer.keys)[Len(answer.keys)])
        BY <2>7 DEF Vouched
      <4>2. Rings(answer.keys)[Len(answer.keys)][Thumbprint[answer.keys[i]]][2]
              = PublicKey(answer.keys[i])
        BY <2>4, <2>8, RingKnowsKey
      <4>3. QED
        BY <3>1, <4>1, <4>2 DEF Verifies
    <3>3. infos[i].at \in Nat /\ answer.bindings[b].expires \in Nat
      <4>1. infos[i] \in Info
        BY <2>2, <2>5, ElementOfSeq
      <4>2. answer.bindings[b] \in Binding
        BY <2>4
      <4>3. QED
        BY <4>1, <4>2, TimeAssumption DEF Info, Binding, Time
    <3>4. infos[i].at < answer.bindings[b].expires
      BY <2>7, <3>1, <3>3
    <3>5. QED
      BY <3>1, <3>2, <3>4 DEF Binds
  <2>11. QED
    BY <2>6, <2>9, <2>10 DEF PassedIsBound
<1>2. QED
  BY <1>1, ValidatorInitInv, ValidatorNextInv, PTL DEF DirectorySpec

\* The publisher's own answers pass, each key with a signer, whatever the order and whoever else
\* signs, unless a signature expired meanwhile (directoryResponseHeaders and the validator's main).
THEOREM CompleteDirectoriesPass == DirectorySpec => []CompletePasses
<1>1. ASSUME ValidatorInv PROVE CompletePasses
  <2> PICK answer, url, infos :
             answer = validator.answer /\ url = validator.url /\ infos = validator.infos
    OBVIOUS
  <2> SUFFICES ASSUME validator.pc = "failed", HasAnswer, url.https, answer.keys # <<>>,
                      \A i, j \in DOMAIN answer.keys : answer.keys[i] = answer.keys[j] => i = j
               PROVE  \E i \in DOMAIN answer.keys :
                        \A b \in DOMAIN answer.bindings :
                          Binds(Owed(answer, b), answer.keys[i], url)
                            => infos[i].at >= answer.bindings[b].expires
    BY DEF CompletePasses, HasAnswer
  <2>1. answer \in Answer /\ url \in Url /\ infos \in Seq(Info)
    BY <1>1, AnswerShape DEF ValidatorInv
  <2>2. /\ Made(answer) /\ Len(infos) = Len(answer.keys) /\ ~Success(url, infos)
        /\ \A i \in DOMAIN infos : Judged(infos[i], answer, i, url)
    BY <1>1 DEF ValidatorInv, KeysJudged
  <2>3. /\ answer.keys \in Seq(Jwk) /\ answer.bindings \in Seq(Binding)
        /\ answer.signers \in Seq(Signer)
    BY <2>1 DEF Answer
  <2>4. /\ DOMAIN infos = DOMAIN answer.keys /\ DOMAIN answer.keys = 1 .. Len(answer.keys)
        /\ Len(answer.keys) \in Nat
    BY <2>1, <2>2, <2>3, LenProperties
  <2>5. PICK i \in DOMAIN answer.keys : ~infos[i].valid \/ infos[i].error
    <3>1. infos # <<>>
      BY <2>3, <2>4, EmptySeq
    <3>2. QED
      BY <2>2, <2>4, <3>1 DEF Success
  <2>6. answer.keys[i] \in Jwk
    BY <2>3, <2>4, ElementOfSeq
  <2>7. SUFFICES ASSUME NEW b \in DOMAIN answer.bindings, Binds(Owed(answer, b), answer.keys[i], url)
                 PROVE  infos[i].at >= answer.bindings[b].expires
    BY <2>5
  <2>8. answer.bindings[b] \in Binding /\ answer.signers[b] \in Signer
    BY <2>2, <2>3 DEF Made
  <2>9. /\ answer.bindings[b].keyid = Thumbprint[answer.keys[i]]
        /\ answer.bindings[b].by = PublicKey(answer.keys[i]) /\ PublicKey(answer.keys[i]) \in Key
        /\ answer.bindings[b].authority = url.authority /\ answer.bindings[b].covers = "req"
    BY <2>2, <2>7, <2>8 DEF Made, Binds, Owed, Binding, Signer
  <2>10. infos[i].valid
    <3>1. JwkOutcome(Rings(answer.keys)[i - 1], answer.keys[i]) = "Imported"
      <4>1. i \in 1 .. Len(answer.keys)
        BY <2>4
      <4>2. \A k \in 1 .. (i - 1) : answer.keys[k] # answer.keys[i]
        BY <2>4, <4>1
      <4>3. QED
        BY <2>3, <2>9, <4>1, <4>2, ImportedIsFirst
    <3>2. Supported(answer.keys[i])
      BY <2>9, BytesAssumption DEF PublicKey
    <3>3. QED
      BY <2>2, <2>4, <3>1, <3>2 DEF Judged
  <2>11. Found(answer, i) = {b}
    <3>1. b \in Found(answer, i)
      BY <2>9 DEF Found, Candidates
    <3>2. ASSUME NEW c \in Found(answer, i) PROVE c = b
      <4>1. c \in DOMAIN answer.signers /\ b \in DOMAIN answer.signers
            /\ answer.signers[c].keyid = answer.signers[b].keyid
        BY <2>2, <2>9 DEF Made, Found, Candidates
      <4>2. QED
        BY <2>2, <4>1 DEF Made, Duplicated
    <3>3. QED
      BY <3>1, <3>2
  <2>12. First(answer, i) = answer.bindings[b]
    <3>1. b \in Nat
      BY <2>3
    <3>2. QED
      BY <2>11, <3>1 DEF First
  <2>13. Vouched(answer, i, url)
    BY <2>3, <2>9, <2>11, <2>12, RingKnowsKey DEF Vouched, Verifies
  <2>14. QED
    BY <2>2, <2>4, <2>5, <2>10, <2>12, <2>13 DEF Judged
<1>2. QED
  BY <1>1, ValidatorInitInv, ValidatorNextInv, PTL DEF DirectorySpec
===============================================================================
