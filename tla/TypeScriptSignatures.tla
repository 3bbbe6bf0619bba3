------------------------- MODULE TypeScriptSignatures -------------------------
(***************************************************************************)
(* The TypeScript counterpart of MessageSignatures: packages/http-message- *)
(* sig signs and verifies messages, packages/web-bot-auth adds the rules   *)
(* of Web Bot Auth.  Messages, items and signatures are those of the Rust  *)
(* model, so that what one side signs can be given to the other.           *)
(*                                                                         *)
(* Where the two differ: the TypeScript code handles one signature per     *)
(* message, asks for the time when it verifies, leaves the key to its      *)
(* caller whatever keyid says, and takes a header that is not there for an *)
(* empty one.  Of the agents of one label it judges the last, and of their *)
(* values it refuses others.                                               *)
(***************************************************************************)
EXTENDS MessageSignatures

\* Values of Signature-Agent members this library refuses: data URLs, types it does not know.  A
\* known type may be in quotes (discoveryType, against parse_discovery_type of the crate).
CONSTANT TsRefuses

ASSUME TsRefusesAssumption == TsRefuses \subseteq Uri

\* extractHeader and extractStructuredFieldDictionaryHeader: an absent header has the empty
\* value (here the empty list of agents), with or without a dictionary key.  The lines of a
\* header are joined, so that an unlabelled line leaves no dictionary.
TsFound(m, item) ==
  /\ ~item.req
  /\ item.key # None /\ m.agents # <<>> => Found(m, item) /\ Legacy \notin Labels(m.agents)

TsValue(m, item) ==
  IF item.name = "signature-agent" /\ m.agents = <<>> THEN <<>> ELSE Value(m, item)

\* buildSignedData
TsBase(m, list) ==
  [ components |-> [i \in DOMAIN list.items |-> <<list.items[i], TsValue(m, list.items[i])>>],
    params     |-> list.params ]

\* getSigningOptions and buildSignedData throw on anything else.
TsSignable(unsigned, list) ==
  /\ list.params.created <= list.params.expires
  /\ unsigned.agents # <<>> => CoversAgent(list)
  /\ \A item \in ItemsOf(list) : TsFound(unsigned, item)

\* signatureHeaders and signatureHeadersSync, with a signer for that key and algorithm.
TsSigned(unsigned, label, list, key, algorithm) ==
  [unsigned EXCEPT
     !.inputs = <<[label |-> label, list |-> list]>>,
     !.sigs   = <<[label |-> label, sig |-> Signature(key, algorithm, TsBase(unsigned, list))]>>]

-------------------------------------------------------------------------------
\* verify: a target is covered whatever the item's parameters, and so is the agent.
TsCovers(list, names) == \E item \in ItemsOf(list) : item.name \in names

\* parseSignatureInputHeader and parseSignatureHeader: one member each, of one label.
TsSingle(m) == Len(m.inputs) = 1 /\ Len(m.sigs) = 1 /\ m.inputs[1].label = m.sigs[1].label

\* Mutant: a signature is gone at the moment it expires.
TsTimely_Strict(params, now) == params.created <= now /\ now < params.expires

\* A signature is still good at the very moment it expires.
TsTimely(params, now) ==
  /\ params.created # None /\ params.expires # None
  /\ params.created <= now /\ now <= params.expires

\* Mutant: the agent need not be covered.
TsVerifies_NoAgent(m, key, algorithm, now) ==
  /\ TsSingle(m)
  /\ LET list == m.inputs[1].list IN
     /\ TsTimely(list.params, now)
     /\ list.params.tag = "web-bot-auth" /\ list.params.keyid # None
     /\ TsCovers(list, {"@authority", "@target-uri"})
     /\ \A item \in ItemsOf(list) : TsFound(m, item)
     /\ m.sigs[1].sig = Signature(key, algorithm, TsBase(m, list))

\* Mutant: the signature need not be over this message.
TsVerifies_AnyBase(m, key, algorithm, now) ==
  TsSingle(m) /\ TsTimely(m.inputs[1].list.params, now) /\ m.sigs[1].sig.by = key

\* verify of packages/web-bot-auth, with a verifier for one key: what it does not throw on.
TsVerifies(m, key, algorithm, now) ==
  /\ TsSingle(m)
  /\ LET list == m.inputs[1].list IN
     /\ TsTimely(list.params, now)
     /\ list.params.tag = "web-bot-auth" /\ list.params.keyid # None
     /\ TsCovers(list, {"@authority", "@target-uri"})
     /\ m.agents # <<>> => TsCovers(list, {"signature-agent"})
     /\ \A item \in ItemsOf(list) : TsFound(m, item)
     /\ m.sigs[1].sig = Signature(key, algorithm, TsBase(m, list))

-------------------------------------------------------------------------------
\* Mutant: any header is taken for one that parses.
TsAgentsRefused_Never(m) == FALSE

\* parseSignatureAgentHeader: the lines joined by commas form a dictionary, of which each label has
\* the value it was given last, or else one unlabelled string.
TsAgentsRefused(m) ==
  \/ Malformed.label \in Labels(m.agents)
  \/ \E l \in Labels(m.agents) : Member(m.agents, l).uri \in TsRefuses
  \/ Legacy \in Labels(m.agents) /\ Len(m.agents) > 1

\* entries[0]: the label that came first, with the value it was given last.
TsFirstAgent(m) == Member(m.agents, m.agents[1].label).uri
===============================================================================
