--------------------------- MODULE VerificationWorker ---------------------------
(***************************************************************************)
(* The TypeScript programs at work: the browser extension                  *)
(* (examples/browser-extension) and the scheduled handler of the worker    *)
(* sign requests with the example key, intermediaries forward them, and    *)
(* the worker (examples/verification-workers) answers each with neutral,   *)
(* valid or invalid.                                                       *)
(*                                                                         *)
(* The worker looks up the directory the request names, awaiting one       *)
(* answer, or two for a card with a jwks_uri, and verifies afterwards:     *)
(* time passes in between.  Directories are not cached, and requests share *)
(* no state, so one request is followed at a time.                         *)
(***************************************************************************)
EXTENDS TypeScriptSignatures, FiniteSets

CONSTANTS
  Own,            \* the agent URI of the worker's own origin
  Card,           \* agent URIs announced as cimd; the others are directories or key sets
  SigningAgent,   \* agent URIs of the programs that sign
  SigningLabel,   \* the label they give it ("sig1")
  PageHeader,     \* Signature-Agent members a page has set before the extension signs
  ExampleKey,     \* the key of examples/rfc9421-keys/ed25519.json
  ExampleId,      \* its thumbprint
  NotSet,         \* the initial value of the extension's KEY_ID
  ForeignKey,     \* the key an intermediary signs with
  ForeignList,    \* inner lists of its signatures
  AddedAgent,     \* Signature-Agent members it adds
  KeyLists,       \* key sets a directory may serve
  Ttl, MaxTime, MaxSigned, MaxHops  \* bounds

ASSUME WorkerAssumption ==
  /\ Own \in Uri /\ Card \subseteq Uri \ {Own} /\ SigningAgent \subseteq Uri
  /\ SigningLabel \in Label /\ PageHeader \subseteq Seq(AgentEntry) /\ AddedAgent \subseteq AgentEntry
  /\ ExampleKey \in Key /\ ForeignKey \in Key \ {ExampleKey} /\ KeyLists \subseteq Seq(Key)
  /\ ExampleId \in Id /\ NotSet \in Id \ {ExampleId}
  /\ ForeignList \subseteq InnerList
  /\ Legacy \notin Label /\ <<>> \notin Uri
  /\ Ttl \in Nat /\ MaxTime \in Nat /\ MaxSigned \in Nat /\ MaxHops \in Nat

VARIABLES
  now,
  keyId,      \* KEY_ID of the extension
  signed,     \* history: every message as signed
  net,        \* the requests on their way
  hops,       \* how often requests were changed on their way, for the bound
  handler     \* the request the worker handles

vars == <<now, keyId, signed, net, hops, handler>>

\* The agents the worker fetches keys from.
Remote == Uri \ ({Own} \cup TsRefuses)

Idle == [pc |-> "idle"]

Init ==
  /\ now = 0
  /\ keyId = NotSet
  /\ signed = {}
  /\ net = {}
  /\ hops = 0
  /\ handler = Idle

Tick == now < MaxTime /\ now' = now + 1 /\ UNCHANGED <<keyId, signed, net, hops, handler>>

-------------------------------------------------------------------------------
(* The signing programs.                                                   *)

\* jwkToKeyID(jwk, ..).then(kid => KEY_ID = kid)
KeyIdComputed ==
  /\ keyId = NotSet
  /\ keyId' = ExampleId
  /\ UNCHANGED <<now, signed, net, hops, handler>>

\* recommendedComponents("sig1")
RecommendedComponents == <<Plain("@authority"), AgentMember(SigningLabel)>>

SignAs(id, authority, agents) ==
  LET unsigned == [authority |-> authority, agents |-> agents, inputs |-> <<>>, sigs |-> <<>>]
      list == [ items |-> RecommendedComponents,
                params |-> [ keyid |-> id, tag |-> "web-bot-auth", alg |-> "ed25519",
                             created |-> now, expires |-> now + Ttl ] ]
      msg == TsSigned(unsigned, SigningLabel, list, ExampleKey, "Ed25519")
  IN /\ Cardinality(signed) < MaxSigned
     /\ TsSignable(unsigned, list)
     /\ signed' = signed \cup {msg}
     /\ net' = net \cup {msg}
     /\ UNCHANGED <<now, keyId, hops, handler>>

SigningEntry(uri) == [label |-> SigningLabel, uri |-> uri]

\* onBeforeSendHeaders: adds the agent to what the page set; the signer reads KEY_ID, set or not.
Extension(authority, page, uri) == SignAs(keyId, authority, Append(page, SigningEntry(uri)))

\* scheduled: Ed25519Signer.fromJWK awaits the thumbprint.
Scheduled(authority, uri) == SignAs(ExampleId, authority, <<SigningEntry(uri)>>)

-------------------------------------------------------------------------------
(* Intermediaries (external): each sends on what it received, changed.     *)

Forward(m, msg) ==
  /\ hops < MaxHops /\ hops' = hops + 1
  /\ net' = (net \ {m}) \cup {msg}
  /\ UNCHANGED <<now, keyId, signed, handler>>

Reroute(m, authority) == Forward(m, [m EXCEPT !.authority = authority])

AddAgent(m, member, first) ==
  Forward(m, [m EXCEPT !.agents = IF first THEN <<member>> \o @ ELSE Append(@, member)])

DropAgents(m) == Forward(m, [m EXCEPT !.agents = <<>>])

\* What it covers is there: one that is not has no value to sign.
Resign(m, label, list, replace) ==
  LET input == [label |-> label, list |-> list]
      sig == [label |-> label, sig |-> Signature(ForeignKey, "Ed25519", TsBase(m, list))]
  IN /\ \A item \in ItemsOf(list) : TsFound(m, item)
     /\ Forward(m, [m EXCEPT !.inputs = IF replace THEN <<input>> ELSE Append(@, input),
                             !.sigs   = IF replace THEN <<sig>> ELSE Append(@, sig)])

Strip(m) == Forward(m, [m EXCEPT !.sigs = <<>>])

-------------------------------------------------------------------------------
(* The worker: verifySignature.                                            *)

Answered(m, status) == [pc |-> "answered", msg |-> m, status |-> status]
ToVerify(m, uri, keys) == [pc |-> "verify", msg |-> m, uri |-> uri, keys |-> keys]

\* A request without Signature is neutral; one whose agents cannot be read is invalid; the
\* worker's own directory, or none, is at hand; any other is fetched.
Start(m) ==
  /\ handler.pc = "idle"
  /\ handler' =
       IF m.sigs = <<>> THEN Answered(m, "neutral")
       ELSE IF m.agents = <<>> THEN ToVerify(m, None, <<ExampleKey>>)
       ELSE IF TsAgentsRefused(m) THEN Answered(m, "invalid")
       ELSE IF TsFirstAgent(m) = Own THEN ToVerify(m, Own, <<ExampleKey>>)
       ELSE [pc |-> IF TsFirstAgent(m) \in Card THEN "card" ELSE "fetch", msg |-> m,
             uri |-> TsFirstAgent(m)]
  /\ UNCHANGED <<now, keyId, signed, net, hops>>

\* The card of a cimd agent refers to its key set; a card with jwks is read like a key set.
FetchCard ==
  /\ handler.pc = "card"
  /\ handler' = [handler EXCEPT !.pc = "fetch"]
  /\ UNCHANGED <<now, keyId, signed, net, hops>>

\* What a directory serves is up to its owner, at every fetch.
FetchKeys(keys) ==
  /\ handler.pc \in {"card", "fetch"}
  /\ handler' = ToVerify(handler.msg, handler.uri, keys)
  /\ UNCHANGED <<now, keyId, signed, net, hops>>

FetchFails ==
  /\ handler.pc \in {"card", "fetch"}
  /\ handler' = Answered(handler.msg, "invalid")
  /\ UNCHANGED <<now, keyId, signed, net, hops>>

\* verifyEd25519 tries directory.keys[0] only; importing it throws when there is none.
Verdict(m, keys) == IF keys # <<>> /\ TsVerifies(m, keys[1], "Ed25519", now) THEN "valid" ELSE "invalid"

Verify ==
  /\ handler.pc = "verify"
  /\ handler' = [ pc |-> "verified", msg |-> handler.msg, status |-> Verdict(handler.msg, handler.keys),
                  uri |-> handler.uri, keys |-> handler.keys, at |-> now ]
  /\ UNCHANGED <<now, keyId, signed, net, hops>>

Finish ==
  /\ handler.pc \in {"answered", "verified"}
  /\ handler' = Idle
  /\ UNCHANGED <<now, keyId, signed, net, hops>>

Next ==
  \/ Tick
  \/ KeyIdComputed
  \/ \E a \in Authority, uri \in SigningAgent :
       Scheduled(a, uri) \/ \E page \in PageHeader : Extension(a, page, uri)
  \/ \E m \in net :
       \/ \E a \in Authority : Reroute(m, a)
       \/ \E member \in AddedAgent, first \in BOOLEAN : AddAgent(m, member, first)
       \/ \E l \in Label, list \in ForeignList, replace \in BOOLEAN : Resign(m, l, list, replace)
       \/ DropAgents(m)
       \/ Strip(m)
       \/ Start(m)
  \/ FetchCard
  \/ \E keys \in KeyLists : FetchKeys(keys)
  \/ FetchFails
  \/ Verify
  \/ Finish

Spec == Init /\ [][Next]_vars

-------------------------------------------------------------------------------
(* Properties.                                                             *)

HandlerState ==
  {Idle}
    \cup [pc : {"answered"}, msg : Message, status : {"neutral", "invalid"}]
    \cup [pc : {"card", "fetch"}, msg : Message, uri : Remote]
    \cup [pc : {"verify"}, msg : Message, uri : Uri \cup {None}, keys : Seq(Key)]
    \cup [ pc : {"verified"}, msg : Message, status : {"valid", "invalid"},
           uri : Uri \cup {None}, keys : Seq(Key), at : 0..MaxTime ]

\* The worker fetches only the directories of other origins that its header parser let through
\* (verification-workers/src/index.ts verifySignature); everything else has its type.
TypeOK ==
  /\ now \in 0..MaxTime /\ keyId \in {NotSet, ExampleId}
  /\ signed \subseteq Message /\ net \subseteq Message /\ hops \in 0..MaxHops
  /\ handler \in HandlerState

\* What a request's one signature says and covers.
Only(m) == m.inputs[1].list

\* A request answered valid under the example key is one a signing program signed, at the
\* authority it was signed for and naming the agent it was signed with, answered while the
\* signature lasted, whatever came in between: other lines, other signatures, other directories
\* (web-bot-auth verify, verification-workers verifySignature).
ValidIsAuthentic ==
  handler.pc = "verified" /\ handler.status = "valid" =>
    LET m == handler.msg IN
    /\ Only(m).params.created <= handler.at /\ handler.at <= Only(m).params.expires
    /\ handler.keys[1] = ExampleKey =>
         \E s \in signed :
           /\ s.inputs = m.inputs /\ s.sigs = m.sigs /\ s.authority = m.authority
           /\ Member(s.agents, SigningLabel) = Member(m.agents, SigningLabel)

\* A request that arrives as it was signed, before it expires and where the example key leads
\* the key set consulted, is answered valid.
IntactIsValid ==
  /\ handler.pc = "verified" /\ handler.msg \in signed
  /\ handler.keys # <<>> /\ handler.keys[1] = ExampleKey
  /\ handler.at <= Only(handler.msg).params.expires
  => handler.status = "valid"

\* WebBotAuthVerifier with one key, under the name the signature gives it.
RustAccepts(m, key) ==
  /\ ParseError(m) = None
  /\ VerifyError(Parsed(m), [id \in {Only(m).params.keyid} |-> <<"Ed25519", key>>]) = None

\* Given the same key, the Rust verifier accepts just those of the requests with one signature that
\* has not expired and covers only what is there which the worker finds valid and whose every agent
\* the crate reads (packages/web-bot-auth/src/index.ts "Mirrors crates/web-bot-auth/src/lib.rs").
\* It refuses more than the worker, which has read the header too: a member a later line replaces
\* (lib.rs:258-268 against registry.ts:164-177), and a type in quotes (registry.rs:240 against
\* registry.ts:137).
VerdictsAgree ==
  /\ handler.pc = "verified" /\ handler.keys # <<>>
  /\ TsSingle(handler.msg) /\ TsTimely(Only(handler.msg).params, handler.at)
  /\ \A item \in ItemsOf(Only(handler.msg)) : Found(handler.msg, item)
  => (RustAccepts(handler.msg, handler.keys[1])
        <=> /\ handler.status = "valid"
            /\ \A i \in DOMAIN handler.msg.agents : handler.msg.agents[i].uri \notin Inlined)

\* Every signature names the key that made it: "this MUST be computed from the public key bytes"
\* (examples/browser-extension/src/background.ts).
KeyIdIsComputed == \A m \in signed : Only(m).params.keyid = ExampleId
===============================================================================
