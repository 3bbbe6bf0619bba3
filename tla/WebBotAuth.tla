------------------------------ MODULE WebBotAuth ------------------------------
(***************************************************************************)
(* Bots that sign requests with MessageSigner, intermediaries that forward *)
(* them, and an origin that parses them with WebBotAuthVerifier, fetches   *)
(* the key directories they name into its keyring, and verifies them, as   *)
(* examples/rust/verify.rs does.                                           *)
(*                                                                         *)
(* The network is the set of messages put on it: a message may be lost,    *)
(* delivered late, twice, or in any order.  An intermediary forwards a     *)
(* changed copy: another authority, a Signature-Agent of its own, a        *)
(* signature of its own under any label (RFC 9421 allows several), or a    *)
(* signature header line damaged so that the parser drops it.              *)
(*                                                                         *)
(* The origin handles one request at a time, with the directory fetches    *)
(* and the clock free to move between its steps; several requests share    *)
(* its keyring when KeepRing, else each starts from a copy of Preloaded.   *)
(***************************************************************************)
EXTENDS MessageSignatures, FiniteSets

CONSTANTS
  Coverage,    \* sequences of items a bot may cover
  AgentHeader, \* Signature-Agent headers a bot may send
  SignerAlg,   \* algorithms the bots' signers implement (GenerateSignature)
  BotJwk,      \* JWKs whose private halves the bots hold; thumbprints are their key ids
  ForeignKey,  \* the key an intermediary signs with
  ForeignList, \* inner lists of an intermediary's signatures
  Preloaded,   \* the keyring the origin is configured with
  KeepRing,    \* whether the keyring outlives the request
  Ttl,         \* validity of a signature
  MaxTime,     \* bound on the clock
  MaxSigned,   \* bound on signed requests
  MaxMessages  \* bound on messages in the network

ASSUME WebBotAuthAssumption ==
  /\ Coverage \subseteq Seq(Item)
  /\ AgentHeader \subseteq Seq(AgentEntry)
  /\ ForeignList \subseteq InnerList
  /\ SignerAlg \subseteq Algorithm
  /\ BotJwk \subseteq Jwk /\ \A j \in BotJwk : PublicKey(j) \in Key
  /\ ForeignKey \in Key /\ ForeignKey \notin { PublicKey(j) : j \in BotJwk }
  /\ IsRing(Preloaded)
  /\ KeepRing \in BOOLEAN
  /\ Ttl \in Nat \ {0} /\ MaxTime \in Nat /\ MaxSigned \in Nat /\ MaxMessages \in Nat

VARIABLES
  now,       \* the clock, in units of the signatures' second
  signed,    \* every signature a bot has made: the key, the algorithm, the message as sent
  net,       \* messages in the network
  ring,      \* the origin's keyring
  handler,   \* the request being handled
  accepted   \* requests the origin has accepted

vars == <<now, signed, net, ring, handler, accepted>>

Idle == [pc |-> "idle"]

\* What the origin makes of a verified request: the key it trusts and what that key signed.
Admission(msg, parsed, r) ==
  [ key |-> r[parsed.base.params.keyid][2], keyid |-> parsed.base.params.keyid,
    authority |-> msg.authority ]

Init ==
  /\ now = 0
  /\ signed = {}
  /\ net = {}
  /\ ring = Preloaded
  /\ handler = Idle
  /\ accepted = {}

Tick == now < MaxTime /\ now' = now + 1 /\ UNCHANGED <<signed, net, ring, handler, accepted>>

-------------------------------------------------------------------------------
(* The bot: MessageSigner::generate_signature_headers_content.             *)

SignParams(jwk, algorithm) ==
  [ keyid |-> Thumbprint[jwk], tag |-> "web-bot-auth", alg |-> AlgorithmName(algorithm),
    created |-> now, expires |-> now + Ttl ]

SignedMessage(jwk, algorithm, label, unsigned, items) ==
  LET list == [items |-> items, params |-> SignParams(jwk, algorithm)] IN
  [unsigned EXCEPT
     !.inputs = <<[label |-> label, list |-> list]>>,
     !.sigs   = <<[label |-> label, sig |-> Signature(PublicKey(jwk), algorithm, Base(unsigned, list))]>>]

SignRequest(jwk, algorithm, label, authority, agents, items) ==
  /\ Cardinality(signed) < MaxSigned /\ Cardinality(net) < MaxMessages
  /\ LET unsigned == [authority |-> authority, agents |-> agents, inputs |-> <<>>, sigs |-> <<>>]
         msg == SignedMessage(jwk, algorithm, label, unsigned, items)
     IN /\ \A i \in DOMAIN items : Found(unsigned, items[i])
        /\ signed' = signed \cup {[key |-> PublicKey(jwk), algorithm |-> algorithm, msg |-> msg]}
        /\ net' = net \cup {msg}
  /\ UNCHANGED <<now, ring, handler, accepted>>

-------------------------------------------------------------------------------
(* Intermediaries (external): each forwards a changed copy of a message.   *)

Forward(msg) ==
  /\ Cardinality(net) < MaxMessages
  /\ net' = net \cup {msg}
  /\ UNCHANGED <<now, signed, ring, handler, accepted>>

Reroute(m, authority) == Forward([m EXCEPT !.authority = authority])

AddAgent(m, member) == Forward([m EXCEPT !.agents = Append(@, member)])

AddSignature(m, label, list, first) ==
  LET input == [label |-> label, list |-> list]
      sig == [label |-> label, sig |-> Signature(ForeignKey, "Ed25519", Base(m, list))]
  IN /\ \A item \in ItemsOf(list) : Found(m, item)
     /\ Forward([m EXCEPT !.inputs = IF first THEN <<input>> \o @ ELSE Append(@, input),
                          !.sigs   = IF first THEN <<sig>> \o @ ELSE Append(@, sig)])

Without(s, i) == SubSeq(s, 1, i - 1) \o SubSeq(s, i + 1, Len(s))

DamageInput(m, i) == Forward([m EXCEPT !.inputs = Without(@, i)])

DamageSignature(m, i) == Forward([m EXCEPT !.sigs = Without(@, i)])

-------------------------------------------------------------------------------
(* The origin.                                                             *)

\* WebBotAuthVerifier::parse on a message that arrived.
Parse(m) ==
  /\ handler.pc = "idle"
  /\ IF ParseError(m) = None
     THEN /\ handler' = [ pc |-> "parsed", msg |-> m, parsed |-> Parsed(m),
                          links |-> Links(m, PickedList(m)), expired |-> None, fetched |-> {} ]
          /\ ring' = IF KeepRing THEN ring ELSE Preloaded
     ELSE handler' = [pc |-> "rejected", msg |-> m, error |-> ParseError(m)] /\ UNCHANGED ring
  /\ UNCHANGED <<now, signed, net, accepted>>

\* ParameterDetails::possibly_insecure: advice, which verify does not ask for.
Advise ==
  /\ handler.pc = "parsed" /\ handler.expired = None
  /\ handler' = [handler EXCEPT !.expired = now >= handler.parsed.base.params.expires]
  /\ UNCHANGED <<now, signed, net, ring, accepted>>

\* The application fetches a directory the request named and imports one key it serves.
\* The directory may serve any key, and another one the next time.
FetchDirectory(uri, jwk) ==
  /\ handler.pc = "parsed" /\ uri \in handler.links
  /\ ring' = TryImportJwkInto(ring, jwk)
  /\ handler' = [handler EXCEPT !.fetched = @ \cup {<<uri, jwk>>}]
  /\ UNCHANGED <<now, signed, net, accepted>>

\* WebBotAuthVerifier::verify(keyring, None), after the advice has been read.
Verify ==
  /\ handler.pc = "parsed" /\ handler.expired # None
  /\ LET error == VerifyError(handler.parsed, ring) IN
     IF error = None
     THEN /\ handler' = [handler EXCEPT !.pc = "accepted"]
          /\ accepted' = accepted \cup {Admission(handler.msg, handler.parsed, ring)}
     ELSE /\ handler' = [pc |-> "rejected", msg |-> handler.msg, error |-> error]
          /\ UNCHANGED accepted
  /\ UNCHANGED <<now, signed, net, ring>>

Finish ==
  /\ handler.pc \in {"accepted", "rejected"}
  /\ handler' = Idle
  /\ UNCHANGED <<now, signed, net, ring, accepted>>

AddedMember == { [label |-> l, uri |-> u] : l \in Label, u \in Uri } \cup {Malformed}

Next ==
  \/ Tick
  \/ \E jwk \in BotJwk, alg \in SignerAlg, l \in Label, a \in Authority,
        agents \in AgentHeader, items \in Coverage : SignRequest(jwk, alg, l, a, agents, items)
  \/ \E m \in net :
       \/ \E a \in Authority : Reroute(m, a)
       \/ \E member \in AddedMember : AddAgent(m, member)
       \/ \E l \in Label, list \in ForeignList, first \in BOOLEAN : AddSignature(m, l, list, first)
       \/ \E i \in DOMAIN m.inputs : DamageInput(m, i)
       \/ \E i \in DOMAIN m.sigs : DamageSignature(m, i)
       \/ Parse(m)
  \/ Advise
  \/ \E uri \in Uri, jwk \in Jwk : FetchDirectory(uri, jwk)
  \/ Verify
  \/ Finish

Spec == Init /\ [][Next]_vars

-------------------------------------------------------------------------------
(***************************************************************************)
(* Properties                                                              *)
(***************************************************************************)

HandlerState ==
  {Idle}
    \cup [ pc : {"parsed", "accepted"}, msg : Message, parsed : ParsedLabel, links : SUBSET Uri,
           expired : BOOLEAN \cup {None}, fetched : SUBSET (Uri \X Jwk) ]
    \cup [ pc : {"rejected"}, msg : Message, error : Error ]

TypeOK ==
  /\ now \in 0..MaxTime
  /\ signed \subseteq [key : Key, algorithm : Algorithm, msg : Message]
  /\ net \subseteq Message
  /\ IsRing(ring)
  /\ handler \in HandlerState
  /\ accepted \subseteq [key : Key, keyid : Id, authority : Authority]

\* A request the origin accepts under a bot's key is one that bot signed for that very
\* authority, however the message was copied, rerouted, re-signed or damaged on its way.
AcceptedWereSigned ==
  \A a \in accepted :
    a.key # ForeignKey => \E s \in signed : s.key = a.key /\ s.msg.authority = a.authority

\* The key id of an accepted request names the key that verified it: when the id was not
\* configured by hand, the key is the JWK whose thumbprint it is.
KeyIdBinding ==
  \A a \in accepted :
    a.keyid \notin DOMAIN Preloaded =>
      \E jwk \in Jwk : Thumbprint[jwk] = a.keyid /\ PublicKey(jwk) = a.key

\* When a request is verified with keys fetched for it alone, the key that verified it was
\* configured or was served by a directory listed under a label the signer itself sent: adding
\* a Signature-Agent of its own never lets an intermediary vouch for the bot.  (Lines that
\* repeat the covered label are all listed, although only the last one is covered.)
AgentVouchesForKey ==
  handler.pc = "accepted" /\ ~KeepRing =>
    LET keyid == handler.parsed.base.params.keyid
        key == ring[keyid][2]
    IN keyid \notin DOMAIN Preloaded /\ key # ForeignKey =>
         \E f \in handler.fetched, s \in signed :
           /\ PublicKey(f[2]) = key
           /\ s.key = key /\ s.msg.authority = handler.msg.authority
           /\ \E i \in DOMAIN s.msg.agents, n \in DOMAIN handler.msg.agents :
                s.msg.agents[i].label = handler.msg.agents[n].label /\ handler.msg.agents[n].uri = f[1]

\* The signer kept to the rules of UnsignedMessage: an Ed25519 signature over the target and,
\* when the message has one, the Signature-Agent header, which names http(s) URLs.
Compliant(s) ==
  LET list == s.msg.inputs[1].list IN
  /\ s.algorithm = "Ed25519"
  /\ CoversTarget(list)
  /\ s.msg.agents # <<>> => CoversAgent(list)
  /\ ~AgentsRefused(s.msg)

ClaimsWebBotAuth(list) == list.params.tag = "web-bot-auth" /\ list.params.expires # None

\* A copy in which nothing that concerns the bot's signature was changed; signatures of other
\* kinds and under other labels may have been added before or after it, or damaged.
Intact(m, s) ==
  LET input == s.msg.inputs[1]  sig == s.msg.sigs[1] IN
  /\ m.authority = s.msg.authority /\ m.agents = s.msg.agents
  /\ input \in { m.inputs[i] : i \in DOMAIN m.inputs }
  /\ sig \in { m.sigs[i] : i \in DOMAIN m.sigs }
  /\ \A i \in DOMAIN m.inputs : m.inputs[i] # input =>
       m.inputs[i].label # input.label /\ ~ClaimsWebBotAuth(m.inputs[i].list)
  /\ \A i \in DOMAIN m.sigs : m.sigs[i] # sig => m.sigs[i].label # sig.label

\* Signer and verifier agree: a compliant signature that arrives intact is refused for one
\* reason only, that the keyring does not know its key, unless something was filed under its
\* key id by hand.
IntactIsAccepted ==
  handler.pc = "rejected" /\ handler.error # "NoSuchKey" =>
    \A s \in signed :
      Compliant(s) /\ Intact(handler.msg, s) => s.msg.inputs[1].list.params.keyid \in DOMAIN Preloaded

\* What lib.rs:128-133 says of errors on verifying a Web Bot Auth message: one is thrown when
\* the signature is detected to be expired.  No code throws it.
ExpiredIsRefused ==
  [][accepted' # accepted => now < handler.parsed.base.params.expires]_vars

\* The requests made and admitted, without messages, headers or keyrings: WebBotAuth
\* implements AuthenticatedRequests.
Abstract == INSTANCE AuthenticatedRequests WITH
  made     <- { [key |-> s.key, authority |-> s.msg.authority] : s \in signed },
  trusted  <- { ring[id][2] : id \in DOMAIN ring },
  admitted <- { [key |-> a.key, authority |-> a.authority] : a \in
                  { b \in accepted : b.key # ForeignKey } }

AdmitsOnlyAuthenticated == Abstract!Spec
===============================================================================
