-------------------------------- MODULE KeyRing --------------------------------
(***************************************************************************)
(* KeyRing of crates/web-bot-auth/src/keyring.rs as an application drives  *)
(* it: any sequence of import_raw, rename_key and import_jwks calls.       *)
(*                                                                         *)
(* A call keeps its arguments and what it returned (call, ret), so that    *)
(* the properties can relate what the caller was told to what the ring     *)
(* holds.  import_jwks works through its key set one key at a time; it     *)
(* borrows the ring mutably, so no other call starts before it is through. *)
(***************************************************************************)
EXTENDS KeyRingOps, Sequences

CONSTANTS
  RawId,     \* identifiers the application chooses by hand
  RawEntry,  \* (algorithm, key) pairs it imports by hand
  MaxKeys    \* bound: keys in one JSON Web Key Set

ASSUME RawAssumption == RawId \subseteq Id /\ RawEntry \subseteq Entry
ASSUME MaxKeysAssumption == MaxKeys \in Nat

VARIABLES
  ring,   \* the keyring
  call,   \* the call in progress, or the last one made
  ret     \* what it has returned so far

vars == <<ring, call, ret>>

Call ==
  [op : {"none"}]
    \cup [op : {"import_raw"}, id : RawId, entry : RawEntry, known : BOOLEAN]
    \cup [op : {"rename_key"}, old : Id, new : RawId, present : BOOLEAN]
    \cup [op : {"import_jwks"}, keys : Seq(Jwk)]

InJwks == call.op = "import_jwks" /\ Len(ret) < Len(call.keys)

TypeOK ==
  /\ IsRing(ring)
  /\ call \in Call
  /\ call.op = "import_jwks" => ret \in Seq(Outcome) /\ Len(ret) <= Len(call.keys)
  /\ call.op \in {"import_raw", "rename_key"} => ret \in BOOLEAN

Init ==
  /\ ring = EmptyRing
  /\ call = [op |-> "none"]
  /\ ret = <<>>

ImportRaw(id, entry) ==
  /\ ~InJwks
  /\ call' = [op |-> "import_raw", id |-> id, entry |-> entry, known |-> id \in DOMAIN ring]
  /\ ret' = (id \notin DOMAIN ring)
  /\ ring' = ImportRawInto(ring, id, entry)

\* Returns insert(..).is_none(): FALSE too when the new name was taken.
RenameKey(old, new) ==
  /\ ~InJwks
  /\ call' = [op |-> "rename_key", old |-> old, new |-> new, present |-> old \in DOMAIN ring]
  /\ ret' = (old \in DOMAIN ring /\ new \notin DOMAIN Remove(ring, old))
  /\ ring' = RenameIn(ring, old, new)

ImportJwks(keys) ==
  /\ ~InJwks
  /\ call' = [op |-> "import_jwks", keys |-> keys]
  /\ ret' = <<>>
  /\ UNCHANGED ring

\* One iteration of the map over the key set: a failure does not stop the rest.
TryImportJwk ==
  /\ InJwks
  /\ LET jwk == call.keys[Len(ret) + 1]
     IN /\ ring' = TryImportJwkInto(ring, jwk)
        /\ ret' = Append(ret, JwkOutcome(ring, jwk))
  /\ UNCHANGED call

KeySet == UNION { [1..n -> Jwk] : n \in 0..MaxKeys }

Next ==
  \/ \E id \in RawId, entry \in RawEntry : ImportRaw(id, entry)
  \/ \E old \in Id, new \in RawId : RenameKey(old, new)
  \/ \E keys \in KeySet : ImportJwks(keys)
  \/ TryImportJwk

Spec == Init /\ [][Next]_vars

-------------------------------------------------------------------------------
(***************************************************************************)
(* Properties                                                              *)
(***************************************************************************)

\* An import, by hand or from a key set, never changes or removes the entry of an identifier
\* that is already known, whatever the batch contains: the first import wins until a rename.
FirstImportWins ==
  [][call'.op # "rename_key" =>
       \A id \in DOMAIN ring : id \in DOMAIN ring' /\ ring'[id] = ring[id]]_vars

\* No call loses a key that a verifier could look up: it stays in the ring under some name,
\* except for the one a rename lands on.
KeysAreNotLost ==
  [][\A id \in DOMAIN ring :
       \/ \E other \in DOMAIN ring' : ring'[other] = ring[id]
       \/ call'.op = "rename_key" /\ call'.new = id]_vars

\* An identifier only JWK imports can produce (no application names a key that way by hand)
\* always resolves to the very JWK it is the thumbprint of, through any renames and re-imports.
ThumbprintBound ==
  \A jwk \in Jwk :
    Thumbprint[jwk] \in DOMAIN ring \ RawId =>
      PublicKey(jwk) \in Key /\ ring[Thumbprint[jwk]] = JwkEntry(jwk)

\* import_jwks's report can be trusted while the ring is as the call left it: a key reported
\* imported resolves to its own bytes; one reported as existing is known; and of several
\* occurrences of one key in the set at most one is reported imported, before any refusal.
BatchReport ==
  call.op = "import_jwks" =>
    \A i \in 1..Len(ret) :
      LET jwk == call.keys[i] IN
      /\ ret[i] = "Imported" =>
           /\ Thumbprint[jwk] \in DOMAIN ring
           /\ ring[Thumbprint[jwk]] = JwkEntry(jwk)
           /\ \A k \in 1..(i - 1) : call.keys[k] # jwk
      /\ ret[i] = "KeyAlreadyExists" => Thumbprint[jwk] \in DOMAIN ring
===============================================================================
