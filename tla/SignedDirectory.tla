---------------------------- MODULE SignedDirectory ----------------------------
(***************************************************************************)
(* A key directory and the two programs that meet over it: a server signs  *)
(* its answer once per signer (directoryResponseHeaders of                 *)
(* packages/http-message-sig/src/directory.ts), and the command line       *)
(* validator (crates/http-signature-directory) fetches an answer, perhaps  *)
(* one that was made earlier and cached, and checks its keys one after the *)
(* other while time passes.                                                *)
(*                                                                         *)
(* A binding is one signature of the answer with its parameters; whatever  *)
(* makes the answer unreadable (no connection, no body, no JSON key set)   *)
(* is one failure.                                                         *)
(***************************************************************************)
EXTENDS KeyRingOps, Naturals, Sequences

CONSTANTS
  Authority,
  KeyLists,     \* the key sets a server may serve: sequences of JWKs
  SignerLists,  \* the signers it may sign with: sequences of [keyid, key]
  Ttl,          \* expires - created
  MaxTime       \* bound: the clock

Signer == [keyid : Id, key : Key]

Coverage == {"req", "plain"}   \* "@authority";req and plain "@authority"

Time == 0..(MaxTime + Ttl)

Binding ==
  [keyid : Id, by : Key, authority : Authority, covers : Coverage, expires : Time]

ASSUME KeyListsAssumption == KeyLists \subseteq Seq(Jwk)
ASSUME SignerListsAssumption == SignerLists \subseteq Seq(Signer)
ASSUME TimeAssumption == Ttl \in Nat /\ MaxTime \in Nat

VARIABLES
  now,
  validator   \* the validator's progress

directoryVars == <<now, validator>>

Url == [https : BOOLEAN, authority : Authority]

\* signers (history): who made the bindings.
Answer == [keys : Seq(Jwk), bindings : Seq(Binding), signers : Seq(Signer)]

DirectoryInit ==
  /\ now = 0
  /\ validator = [pc |-> "idle"]

Tick == now < MaxTime /\ now' = now + 1 /\ UNCHANGED validator

-------------------------------------------------------------------------------
(* The server.                                                             *)

Duplicated(signers) ==
  \E i, j \in DOMAIN signers : i # j /\ signers[i].keyid = signers[j].keyid

\* Mutant: every binding is made with the first signer's key.
BindingOf_FirstSigner(signers, i, authority, covers, created) ==
  [keyid |-> signers[i].keyid, by |-> signers[1].key, authority |-> authority, covers |-> covers,
   expires |-> created + Ttl]

BindingOf(signers, i, authority, covers, created) ==
  [keyid |-> signers[i].keyid, by |-> signers[i].key, authority |-> authority, covers |-> covers,
   expires |-> created + Ttl]

\* What directoryResponseHeaders makes of an answer at a time.  It covers "@authority";req; a
\* server of another make may cover plain "@authority".
AnswerOf(keys, signers, authority, covers, created) ==
  [keys |-> keys, signers |-> signers,
   bindings |-> [i \in DOMAIN signers |-> BindingOf(signers, i, authority, covers, created)]]

-------------------------------------------------------------------------------
(* The validator.                                                          *)

\* With two signers of one keyid directoryResponseHeaders throws, and there is no answer.
Fetch(url, keys, signers, authority, covers, created) ==
  /\ validator.pc = "idle"
  /\ ~Duplicated(signers)
  /\ validator' = [ pc |-> "checking", url |-> url, infos |-> <<>>,
                    answer |-> AnswerOf(keys, signers, authority, covers, created) ]
  /\ UNCHANGED now

FetchFails(url) ==
  /\ validator.pc = "idle"
  /\ validator' = [pc |-> "failed", url |-> url]
  /\ UNCHANGED now

\* import_jwks: the ring after each key of the set.
Rings(keys) ==
  LET after[i \in 0..Len(keys)] == IF i = 0 THEN EmptyRing ELSE TryImportJwkInto(after[i - 1], keys[i])
  IN after

\* The signatures that name the key; those of other tags are left out of the model.
Candidates(bindings, thumbprint) == { b \in DOMAIN bindings : bindings[b].keyid = thumbprint }

\* MessageVerifier::parse takes the first, and cannot find a plain "@authority" in a response;
\* verify then asks for the key of the ring and the authority of the URL.
Verifies(binding, url, known) ==
  /\ binding.covers = "req"
  /\ binding.by = known[binding.keyid][2]
  /\ binding.authority = url.authority

Expired(binding) == now >= binding.expires

\* The analysis of one key.  A key that cannot be imported is not valid; one whose signature
\* does not verify is, but has an error.  at (history): when it was checked.
Analysis(i, url, answer) ==
  LET jwk == answer.keys[i]
      rings == Rings(answer.keys)
      candidates == Candidates(answer.bindings, Thumbprint[jwk])
      first == answer.bindings[CHOOSE b \in candidates : \A c \in candidates : b <= c]
      verified == candidates # {} /\ Verifies(first, url, rings[Len(answer.keys)])
  IN IF ~Supported(jwk) \/ JwkOutcome(rings[i - 1], jwk) # "Imported"
     THEN [valid |-> FALSE, verified |-> FALSE, error |-> TRUE, at |-> now]
     ELSE [valid |-> TRUE, verified |-> verified, error |-> ~verified \/ Expired(first), at |-> now]

CheckKey ==
  /\ validator.pc = "checking" /\ Len(validator.infos) < Len(validator.answer.keys)
  /\ validator' = [validator EXCEPT !.infos =
       Append(@, Analysis(Len(@) + 1, validator.url, validator.answer))]
  /\ UNCHANGED now

\* Mutant: errors of keys that are valid do not count.
Success_ValidIsEnough(url, infos) ==
  url.https /\ infos # <<>> /\ \A i \in DOMAIN infos : infos[i].valid

Success(url, infos) ==
  /\ url.https
  /\ infos # <<>>
  /\ \A i \in DOMAIN infos : infos[i].valid /\ ~infos[i].error

Report ==
  /\ validator.pc = "checking" /\ Len(validator.infos) = Len(validator.answer.keys)
  /\ validator' = [validator EXCEPT !.pc = IF Success(validator.url, validator.infos) THEN "passed" ELSE "failed"]
  /\ UNCHANGED now

DirectoryNext ==
  \/ Tick
  \/ \E url \in Url :
       \/ FetchFails(url)
       \/ \E keys \in KeyLists, signers \in SignerLists, authority \in Authority,
             covers \in Coverage, created \in 0..now :
            Fetch(url, keys, signers, authority, covers, created)
  \/ CheckKey
  \/ Report

DirectorySpec == DirectoryInit /\ [][DirectoryNext]_directoryVars

-------------------------------------------------------------------------------
(* Properties.                                                             *)

Binds(binding, jwk, url) ==
  /\ binding.keyid = Thumbprint[jwk] /\ binding.by = PublicKey(jwk)
  /\ binding.authority = url.authority /\ binding.covers = "req"

\* A directory that passes is bound to its host by every key it serves: each is a distinct
\* Ed25519 key with a signature of its own over the authority of the URL, made with the key
\* itself and not yet expired when the key was checked.
PassedIsBound ==
  validator.pc = "passed" =>
    LET keys == validator.answer.keys IN
    /\ keys # <<>> /\ validator.url.https
    /\ \A i, j \in DOMAIN keys : keys[i] = keys[j] => i = j
    /\ \A i \in DOMAIN keys :
         \E b \in DOMAIN validator.answer.bindings :
           /\ Binds(validator.answer.bindings[b], keys[i], validator.url)
           /\ validator.infos[i].at < validator.answer.bindings[b].expires

\* The binding the signer at a place owes an answer.
Owed(answer, b) ==
  [answer.bindings[b] EXCEPT !.keyid = answer.signers[b].keyid, !.by = answer.signers[b].key]

\* The two programs agree: an answer directoryResponseHeaders makes with a signer for each of its
\* distinct keys passes for its own https URL, in whatever order keys and signers are and
\* whoever else signs, unless a signature expired before its key was checked.
CompletePasses ==
  validator.pc = "failed" /\ "answer" \in DOMAIN validator =>
    LET answer == validator.answer
        url == validator.url
    IN \/ ~url.https \/ answer.keys = <<>>
       \/ \E i, j \in DOMAIN answer.keys : i # j /\ answer.keys[i] = answer.keys[j]
       \/ \E i \in DOMAIN answer.keys :
            \A b \in DOMAIN answer.bindings :
              Binds(Owed(answer, b), answer.keys[i], url)
                => validator.infos[i].at >= answer.bindings[b].expires
===============================================================================
