--------------------------- MODULE MessageSignatures ---------------------------
(***************************************************************************)
(* HTTP message signatures as crates/web-bot-auth builds, parses and       *)
(* verifies them (message_signatures.rs), with the choices                 *)
(* WebBotAuthVerifier::parse (lib.rs) makes.  Only operators; WebBotAuth   *)
(* gives them actors.                                                      *)
(*                                                                         *)
(* A message is what the code looks up in it:                              *)
(*   authority  the value of @authority (and the host of @target-uri);     *)
(*   agents     the members of its Signature-Agent header lines, in order; *)
(*   inputs     the members of its Signature-Input lines, in order;        *)
(*   sigs       the members of its Signature lines, in order.              *)
(* The parser drops a malformed Signature-Input or Signature line and goes *)
(* on, so such a line contributes no member; a malformed Signature-Agent   *)
(* line fails the whole parse and is the member Malformed.  A label occurs *)
(* at most once in a line.                                                 *)
(* A signature is symbolic: who made it, with which algorithm, over what.  *)
(***************************************************************************)
EXTENDS KeyRingOps, Sequences

CONSTANTS
  Label,       \* dictionary labels, of signatures and of signature agents
  Uri,         \* values of Signature-Agent members
  Inlined,     \* those the crate refuses: data URLs, types it does not know or written in quotes
  Authority,   \* values of @authority
  Tag,         \* values of the tag parameter, "web-bot-auth" among them
  Get,         \* the value of @method, which nothing here changes
  HeaderValue, \* that of any other header field: it is there, not empty, and nothing changes it
  None         \* an absent parameter

\* What parse and verify refuse a message with.
Error == { "NoValidHeader", "NoMatchingLabel", "NoSignatureForLabel", "LookupError",
           "MalformedSignatureAgent", "NoSuchKey", "UnsupportedAlgorithm", "FailedToVerify" }

AlgName == { "ed25519", "rsa-pss-sha512", "rsa-v1_5-sha256", "hmac-sha256",
             "ecdsa-p256-sha256", "ecdsa-p384-sha384" }

ASSUME MessageAssumption ==
  /\ Inlined \subseteq Uri
  /\ "web-bot-auth" \in Tag
  /\ None \notin Label \cup Id \cup Nat \cup Tag
  /\ None \notin Error

Legacy == "legacy"        \* the label of an unlabelled Signature-Agent string
Malformed == [label |-> "malformed", uri |-> "malformed"]

\* Covered components: a derived one has no parameter but req, any other is an error.  "header" is
\* any header field but Signature-Agent.
Item == [name : {"@authority", "@target-uri", "@method", "header"}, key : {None}, req : BOOLEAN]
          \cup [name : {"signature-agent"}, key : Label \cup {None}, req : BOOLEAN]

AgentEntry == [label : Label \cup {Legacy}, uri : Uri] \cup {Malformed}

Params == [ keyid : Id \cup {None}, tag : Tag \cup {None}, alg : AlgName \cup {None},
            created : Nat \cup {None}, expires : Nat \cup {None} ]

InnerList == [items : Seq(Item), params : Params]

ComponentValue == Authority \cup Uri \cup {Get, HeaderValue} \cup Seq(AgentEntry)

SignatureBase == [components : Seq(Item \X ComponentValue), params : Params]

SignatureBytes == [by : Key, algorithm : Algorithm, base : SignatureBase]

InputEntry == [label : Label, list : InnerList]

SigEntry == [label : Label, sig : SignatureBytes]

Message == [ authority : Authority, agents : Seq(AgentEntry),
             inputs : Seq(InputEntry), sigs : Seq(SigEntry) ]

ParsedLabel == [label : Label, signature : SignatureBytes, base : SignatureBase]

Plain(name) == [name |-> name, key |-> None, req |-> FALSE]
AgentMember(label) == [name |-> "signature-agent", key |-> label, req |-> FALSE]

-------------------------------------------------------------------------------
(* Dictionaries: Dictionary::extend over the header lines.  A label that   *)
(* occurs again keeps its place and takes the later value.                 *)

Labels(members) == { members[i].label : i \in DOMAIN members }

Occurrences(members, l) == { i \in DOMAIN members : members[i].label = l }

Member(members, l) ==
  members[CHOOSE i \in Occurrences(members, l) : \A j \in Occurrences(members, l) : j <= i]

Place(members, l) ==
  CHOOSE i \in Occurrences(members, l) : \A j \in Occurrences(members, l) : i <= j

-------------------------------------------------------------------------------
(* Looking up what a component covers (SignedMessage::lookup_component,    *)
(* written by the embedder) and building the signature base.               *)

Found(m, item) ==
  /\ ~item.req
  /\ item.name = "signature-agent" =>
       /\ m.agents # <<>>
       /\ item.key # None => Malformed.label \notin Labels(m.agents) /\ item.key \in Labels(m.agents)

Value(m, item) ==
  CASE item.name = "signature-agent" /\ item.key = None -> m.agents
    [] item.name = "signature-agent" /\ item.key # None -> Member(m.agents, item.key).uri
    [] item.name = "@method" -> Get
    [] item.name = "header" -> HeaderValue
    [] OTHER -> m.authority

Base(m, list) ==
  [ components |-> [i \in DOMAIN list.items |-> <<list.items[i], Value(m, list.items[i])>>],
    params     |-> list.params ]

Signature(key, algorithm, base) == [by |-> key, algorithm |-> algorithm, base |-> base]

-------------------------------------------------------------------------------
(* The alg parameter, as Display for Algorithm writes it.                  *)

AlgorithmName(algorithm) ==
  CASE algorithm = "Ed25519"         -> "ed25519"
    [] algorithm = "RsaPssSha512"    -> "rsa-pss-sha512"
    [] algorithm = "RsaV1_5Sha256"   -> "rsa-pss-sha512"
    [] algorithm = "HmacSha256"      -> "hmac-sha256"
    [] algorithm = "EcdsaP256Sha256" -> "ecdsa-p256-sha256"
    [] algorithm = "EcdsaP384Sha384" -> "ecdsa-p384-sha384"

-------------------------------------------------------------------------------
(* WebBotAuthVerifier::parse: the first label whose parameters and items   *)
(* suit Web Bot Auth is the signature to verify; no other is looked at.    *)

ItemsOf(list) == { list.items[i] : i \in DOMAIN list.items }

CoversTarget(list) == {Plain("@authority"), Plain("@target-uri")} \cap ItemsOf(list) # {}

CoversAgent(list) == \E item \in ItemsOf(list) : item.name = "signature-agent"

Pick(m, list) ==
  /\ list.params.keyid # None /\ list.params.expires # None /\ list.params.created # None
  /\ list.params.tag = "web-bot-auth"
  /\ CoversTarget(list)
  /\ m.agents # <<>> => CoversAgent(list)

Candidates(m) == { l \in Labels(m.inputs) : Pick(m, Member(m.inputs, l).list) }

Picked(m) ==
  CHOOSE l \in Candidates(m) :
    \A other \in Candidates(m) : Place(m.inputs, l) <= Place(m.inputs, other)

PickedList(m) == Member(m.inputs, Picked(m)).list

\* Mutant: of the members of one label only the last is looked at.
AgentsRefused_Last(m) ==
  \E l \in Labels(m.agents) : l = Malformed.label \/ Member(m.agents, l).uri \in Inlined

\* parse_signature_agent_header on every line: a later line takes no member back.
AgentsRefused(m) == \E i \in DOMAIN m.agents : m.agents[i] = Malformed \/ m.agents[i].uri \in Inlined

\* Mutant: several signatures in one message are refused.
ParseError_SingleSignature(m) ==
  IF Len(m.inputs) # 1 \/ Len(m.sigs) # 1 THEN "NoValidHeader"
  ELSE IF Candidates(m) = {}              THEN "NoMatchingLabel"
  ELSE IF Picked(m) \notin Labels(m.sigs) THEN "NoSignatureForLabel"
  ELSE IF \E item \in ItemsOf(PickedList(m)) : ~Found(m, item) THEN "LookupError"
  ELSE IF AgentsRefused(m) THEN "MalformedSignatureAgent"
  ELSE None

ParseError(m) ==
  IF m.inputs = <<>> \/ m.sigs = <<>>       THEN "NoValidHeader"
  ELSE IF Candidates(m) = {}                THEN "NoMatchingLabel"
  ELSE IF Picked(m) \notin Labels(m.sigs)   THEN "NoSignatureForLabel"
  ELSE IF \E item \in ItemsOf(PickedList(m)) : ~Found(m, item) THEN "LookupError"
  ELSE IF AgentsRefused(m) THEN "MalformedSignatureAgent"
  ELSE None

Parsed(m) ==
  [ label |-> Picked(m), signature |-> Member(m.sigs, Picked(m)).sig,
    base |-> Base(m, PickedList(m)) ]

\* The agent label the signature covers: the first key parameter on a signature-agent item.
CoveredAgentLabel(list) ==
  LET keyed == { i \in DOMAIN list.items :
                   list.items[i].name = "signature-agent" /\ list.items[i].key # None }
  IN IF keyed = {} THEN None
     ELSE list.items[CHOOSE i \in keyed : \A j \in keyed : i <= j].key

\* Mutant: links of every label are reported, the covered one or not.
Links_AllLabels(m, list) ==
  { m.agents[i].uri : i \in DOMAIN m.agents }

\* get_signature_agents: the links a verifier may fetch keys from.
Links(m, list) ==
  LET label == CoveredAgentLabel(list) IN
  { m.agents[i].uri : i \in { j \in DOMAIN m.agents : label # None => m.agents[j].label = label } }

\* Mutant: the key is matched, but not what it signed.
VerifyError_AnyBase(parsed, r) ==
  LET id == parsed.base.params.keyid IN
  IF id \notin DOMAIN r                    THEN "NoSuchKey"
  ELSE IF parsed.signature.by # r[id][2]   THEN "FailedToVerify"
  ELSE None

(* MessageVerifier::verify, with the key the message's own keyid names.    *)
VerifyError(parsed, r) ==
  LET id == parsed.base.params.keyid IN
  IF id \notin DOMAIN r                                        THEN "NoSuchKey"
  ELSE IF r[id][1] # "Ed25519"                                 THEN "UnsupportedAlgorithm"
  ELSE IF parsed.signature # Signature(r[id][2], "Ed25519", parsed.base) THEN "FailedToVerify"
  ELSE None
===============================================================================
