----------------------------- MODULE AgentDiscovery -----------------------------
(***************************************************************************)
(* From an agent to its keys: fetchDirectory of the worker of              *)
(* examples/verification-workers, asked to verify a request of an agent,   *)
(* fetches the agent's card and key set from the worker of                 *)
(* examples/signature-agent-card-and-registry (KeyDirectory), which has    *)
(* other clients meanwhile, or from sites (external) that serve any card   *)
(* and key set.  Between a request and its answer the world moves on.      *)
(***************************************************************************)
EXTENDS KeyDirectory, AgentCards

CONSTANTS
  Site,       \* other sites
  Schemes,    \* schemes of agents that are directories: http or https
  Cards,      \* what they may serve as a card
  KeySets,    \* what they may serve as a key set
  Registries  \* registries as their authors mean them: Written lines, and which end in a CR alone

VARIABLE verifier  \* the discovery going on

discoveryVars == <<kv, handler, verifier>>

CardURL(scheme, at) == Uri(scheme, [at |-> at, doc |-> "card"])

\* new URL(entry.uri).origin and HTTP_MESSAGE_SIGNATURES_DIRECTORY
DirectoryURL(scheme, at) == Uri(scheme, [at |-> at, doc |-> "directory"])

ASSUME SitesAssumption == Site \cap Host = {} /\ Schemes \subseteq {"http", "https"}
ASSUME CardsAssumption == \A card \in Cards \ {Wrong} : IsCard(card)

-------------------------------------------------------------------------------
(* What the card and registry worker answers without a key.                *)

\* Mutant: the client_id is the origin.
CardOf_Origin(scheme, host) ==
  [ client_id |-> Uri(scheme, [at |-> host, doc |-> "other"]), client_name |-> Text,
    client_uri |-> Undefined, logo_uri |-> Undefined,
    contacts |-> <<Uri("mailto", Text)>>, jwks_uri |-> DirectoryURL(scheme, host),
    jwks |-> Undefined, ips_uri |-> Undefined,
    web_bot_auth |-> [trigger |-> "fetcher", ips_uri |-> Undefined, text |-> Text,
                      list |-> Undefined] ]

\* GET /signature-agent-card
CardOf(scheme, host) ==
  [ client_id |-> CardURL(scheme, host), client_name |-> Text, client_uri |-> Undefined,
    logo_uri |-> Undefined, contacts |-> <<Uri("mailto", Text)>>,
    jwks_uri |-> DirectoryURL(scheme, host), jwks |-> Undefined, ips_uri |-> Undefined,
    web_bot_auth |-> [trigger |-> "fetcher", ips_uri |-> Undefined, text |-> Text,
                      list |-> Undefined] ]

\* Undefined, Null and Wrong stand for what is no string, list or record.
ASSUME MarkersAssumption ==
  /\ Undefined # Null /\ Undefined # Wrong /\ Text \notin {Undefined, Null, Wrong}
  /\ \A scheme \in {"http", "https"}, host \in Host :
       LET card == CardOf(scheme, host) IN
       /\ card # Wrong
       /\ ({card.client_id, card.jwks_uri, card.contacts, card.web_bot_auth} \cup ToSet(card.contacts))
            \cap {Undefined, Null, Wrong} = {}

\* GET /registry.txt: a line for each host listed, with the scheme of the request.
RegistryText(scheme, hosts) ==
  LET listed == Select(Hosts, hosts)
  IN [i \in DOMAIN listed |-> <<CardURL(scheme, listed[i])>>]

-------------------------------------------------------------------------------
(* fetchDirectory                                                          *)

Idle == [pc |-> "idle"]

DiscoveryInit == Init /\ verifier = Idle

Awaited(h) == verifier.pc = "keys" /\ verifier.handler = h

\* What the handler of a discovery knows: the agent's URL, its card, and where the keys are.
\* settled (history): when it began, the agent was a host that had settled.
Doing(pc, agent, card, from, h, settled) ==
  [pc |-> pc, agent |-> agent, card |-> card, from |-> from, handler |-> h, settled |-> settled]

\* fetchJSON(url) of a key set: a host's directory is a request like any other's.
AskKeys(agent, card, url, settled) ==
  IF url.rest.at \in Host /\ url.rest.doc = "directory"
  THEN \E h \in Handler :
         /\ Directory(h, url.rest.at)
         /\ verifier' = Doing("keys", agent, card, url, h, settled)
  ELSE /\ verifier' = Doing("keys", agent, card, url, None, settled)
       /\ UNCHANGED <<kv, handler>>

SettledAt(at) == at \in Host /\ Settled(at)

\* An entry of type directory, whose URL may be http, or of type jwks_uri with that URL.
DiscoverDirectory(scheme, at) ==
  /\ verifier = Idle
  /\ AskKeys(DirectoryURL(scheme, at), Undefined, DirectoryURL(scheme, at), SettledAt(at))

\* An entry of type cimd: the card first.
DiscoverCard(at) ==
  /\ verifier = Idle
  /\ verifier' = Doing("card", CardURL("https", at), Undefined, CardURL("https", at), None, SettledAt(at))
  /\ UNCHANGED <<kv, handler>>

Fails == verifier' = [pc |-> "failed"] /\ UNCHANGED <<kv, handler>>

Finds(card, keys) ==
  /\ verifier' = [ pc |-> "done", agent |-> verifier.agent, card |-> card, from |-> verifier.from,
                   keys |-> keys, settled |-> verifier.settled ]
  /\ UNCHANGED <<kv, handler>>

\* Of the card that parseSignatureAgentCard returns, what fetchDirectory or a property looks at.
Parsed(card) == Restrict(card, {"client_id", "jwks_uri", "jwks"})

\* The card has come: it is refused, brings its keys, or says where they are.
CardRead(card) ==
  /\ verifier.pc = "card"
  /\ IF ~TsCard(card, verifier.agent) THEN Fails
     ELSE IF card.jwks # Undefined THEN Finds(Parsed(card), card.jwks.keys)
     ELSE AskKeys(verifier.agent, Parsed(card), card.jwks_uri, verifier.settled)

FetchCard ==
  /\ verifier.pc = "card"
  /\ IF verifier.agent.rest.at \in Host
     THEN CardRead(CardOf("https", verifier.agent.rest.at))
     ELSE \E card \in Cards : CardRead(card)

\* directoryFromUnknown: an object with an array of objects that have a kty.
IsDirectory(set) == TsJwks(set) /\ set # Undefined /\ \A jwk \in ToSet(set.keys) : jwk.kty # Undefined

\* The key set has come from a site.
FetchKeys(set) ==
  /\ verifier.pc = "keys" /\ verifier.from.rest.at \in Site
  /\ IF IsDirectory(set) THEN Finds(verifier.card, set.keys)
     ELSE Fails

\* It has come from the card and registry worker.
HostKeys(key) == <<[kty |-> "OKP", whole |-> TRUE, key |-> key]>>

ReceiveKeys ==
  /\ verifier.pc = "keys" /\ verifier.handler # None
  /\ Is(verifier.handler, "directory")
  /\ Finds(verifier.card, HostKeys(handler[verifier.handler].key))

\* A fetch fails, is answered with a status that is not ok, or with what is no JSON.
FetchFails ==
  /\ verifier.pc \in {"card", "keys"}
  /\ Fails

Finish ==
  /\ verifier.pc \in {"done", "failed"}
  /\ verifier' = Idle
  /\ UNCHANGED <<kv, handler>>

-------------------------------------------------------------------------------
(* Registries of others (external): a line is a URL, with a path, oddly    *)
(* written or not, with a fragment, a blank before it or a remark after it *)
(* where its author likes, or a remark alone, or nothing.                  *)

Written == [uri : {Undefined} \cup
                  { WrittenAs(CardURL(scheme, at), manner) : scheme \in {"http", "https", "data"},
                      at \in Site, manner \in SUBSET (Manner \ {"indented"}) },
            fragment : BOOLEAN, indent : BOOLEAN, remark : BOOLEAN]

Address(line) ==
  IF line.uri = Undefined THEN <<>>
  ELSE <<line.uri>> \o (IF line.fragment THEN <<Hash, Uri("none", Text)>> ELSE <<>>)

Remark(line) ==
  IF line.remark THEN (IF line.uri = Undefined THEN <<>> ELSE <<Blank>>) \o <<Hash, Blank>> ELSE <<>>

\* The text of a line.
Render(line) == (IF line.indent THEN <<Blank>> ELSE <<>>) \o Address(line) \o Remark(line)

ASSUME RegistriesAssumption ==
  \A registry \in Registries : registry.lines \in Seq(Written) /\ registry.returns \subseteq Nat

-------------------------------------------------------------------------------
Serve ==
  /\ \E h \in Handler : (~Awaited(h) /\ Request(h)) \/ Handle(h)
  /\ UNCHANGED verifier

Discover ==
  \/ \E scheme \in Schemes, at \in Host \cup Site : DiscoverDirectory(scheme, at)
  \/ \E at \in Host \cup Site : DiscoverCard(at)

DiscoveryNext ==
  \/ Serve
  \/ Discover
  \/ FetchCard
  \/ \E set \in KeySets : FetchKeys(set)
  \/ ReceiveKeys
  \/ FetchFails
  \/ Finish

DiscoverySpec == DiscoveryInit /\ [][DiscoveryNext]_discoveryVars

-------------------------------------------------------------------------------
(* Properties.                                                             *)

\* A verifier that sets out when its agent is a host that has settled ends with the one key the
\* host holds, by the card or by the directory, whatever other requests the host serves meanwhile
\* (fetchDirectory against examples/signature-agent-card-and-registry).
DiscoveryFindsStoredKey ==
  verifier.pc = "done" /\ verifier.settled =>
    verifier.keys = HostKeys(kv[verifier.agent.rest.at])

\* Keys found by a card are those of a card that names the URL it was fetched from, which a copy
\* elsewhere does not, and come over https from where the card says (parseSignatureAgentCard with
\* the URL of the card, fetchDirectory).
KeysAreTheAgents ==
  verifier.pc = "done" /\ verifier.card # Undefined =>
    /\ verifier.card.client_id = verifier.agent
    /\ Protocol(verifier.from) = "https"
    /\ \/ verifier.card.jwks # Undefined /\ verifier.keys = verifier.card.jwks.keys
       \/ verifier.card.jwks = Undefined /\ verifier.from = verifier.card.jwks_uri

\* The two libraries agree on every card a site may answer with that has an identity, keys and
\* plain members (packages/web-bot-auth/src/registry.ts, crates/web-bot-auth/src/registry.rs).
CardParsersAgree ==
  verifier.pc = "card" /\ verifier.agent.rest.at \in Site =>
    \A card \in Cards :
      Comparable(card) => (TsCard(card, verifier.agent) <=> RustCard(card, verifier.agent))

\* A registry the worker gives out over https is read by both libraries, and each of its lines
\* leads to a card both accept there, and on to the directory of a host that has a key.  Over http
\* neither library reads it (examples/signature-agent-card-and-registry, registry.ts, registry.rs).
RegistryLeadsToKeys ==
  \A h \in Handler : Is(h, "registry") =>
    LET text == RegistryText("https", handler[h].hosts)
        plain == RegistryText("http", handler[h].hosts)
    IN /\ TsRegistry(text) = text /\ RustRegistry(text) = text
       /\ plain # <<>> => TsRegistry(plain) = Refused /\ RustRegistry(plain) = Refused
       /\ \A line \in ToSet(text) :
            LET url == line[1]
                card == CardOf("https", url.rest.at)
            IN /\ TsCard(card, url) /\ RustCard(card, url)
               /\ card.jwks_uri = DirectoryURL("https", url.rest.at)
               /\ kv[url.rest.at] # None

\* The TypeScript library reads the URLs an author wrote, with their fragments and without remarks,
\* or refuses the whole for one that is no https URL.  The Rust crate reads the same of lines that
\* end as it ends them and URLs plainly written (stripRegistryComment, strip_registry_comment,
\* parseRegistry, parse_registry): an odd URL only one of them refuses, and after a carriage return
\* alone registry.ts:219 begins a line, which lines() at registry.rs:352 adds to the one before.
RegistryReadsAsWritten ==
  \A registry \in Registries :
    LET lines == registry.lines
        text == [i \in DOMAIN lines |-> Render(lines[i])]
        urls == Select(lines, { line \in ToSet(lines) : line.uri # Undefined })
        read == IF \A line \in ToSet(urls) : Parses(line.uri) /\ Protocol(line.uri) = "https"
                THEN [i \in DOMAIN urls |-> Address(urls[i])] ELSE Refused
    IN /\ TsRegistry(text) = read
       /\ registry.returns = {} /\ (\A line \in ToSet(urls) : PlainUri(line.uri)) =>
            RustRegistry(RustLines(text, registry.returns)) = read

\* The two libraries judge alike every card of plain members, and read alike every registry of plain
\* URLs and lines (the parsers of registry.ts and of registry.rs; Comparable, PlainUri, PlainContact
\* and RustLines say what is excepted, and where the two part).
LibrariesAgree == CardParsersAgree /\ (verifier = Idle => RegistryReadsAsWritten)
===============================================================================
