# Verification of web-bot-auth

Web Bot Auth lets an automated client sign its HTTP requests (RFC 9421) and publish its
keys in a directory, so that an origin can tell who is calling. This project models the
parts of the repository that sign, verify, publish, discover and collect keys. TLC checks
the models on small instances and TLAPS proves the main results for every instance.

## 1. The system

| Component | State it keeps | Operations | What is hard about it |
| --- | --- | --- | --- |
| Keyring, `crates/web-bot-auth/src/keyring.rs` | map from identifier to (algorithm, key) | `import_raw`, `rename_key`, `try_import_jwk`, `import_jwks` | which of several imports of one identifier wins; key sets of which some keys fail; renames onto a known name |
| Message signatures, `message_signatures.rs`, `components.rs` | none | `generate_signature_headers_content`, `MessageVerifier::parse`, `verify`, `possibly_insecure` | several header lines merged into one dictionary, several signatures in one message, damaged lines dropped |
| Web Bot Auth verifier, `lib.rs`, `registry.rs` (Signature-Agent) | the parsed signature and its agent links | `WebBotAuthVerifier::parse`, `get_signature_agents`, `verify` | which signature is chosen, whose directory may vouch for it, keys fetched between parse and verify, expiry only advised |
| TypeScript signer and verifier, `packages/http-message-sig`, `packages/web-bot-auth/src/index.ts` | none | `signatureHeaders`, `verify`, `directoryResponseHeaders` | a second implementation of the same protocol, with its own boundary for expiry and its own choice of what to verify |
| WebCrypto keys, `packages/web-bot-auth/src/crypto.ts`, `packages/jsonwebkey-thumbprint` | none | `jwkThumbprint`, `signerFromJWK`, `verifierFromJWK` | one JWK that its owner keeps whole and publishes in part, of which a signer and a verifier are made |
| Cards and registries, `registry.rs`, `packages/web-bot-auth/src/registry.ts` | none | `parse_registry`, `parse_signature_agent_card` and the same in TypeScript | two implementations of one draft: `null`, types, URLs and comments |
| Card and registry worker, `examples/signature-agent-card-and-registry` | key pairs in a key-value store | registry, card, directory | two first requests race between `get` and `put`; a `put` that fails may have stored |
| Directory validator, `crates/http-signature-directory` | result of one run | the CLI's `main` | one flag for many keys, partial failures |
| Caddy plugin, `examples/caddy-plugin` | keys and networks collected at start | `Provision`, `ServeHTTP` | many directories, first one wins; request checks in a fixed order |
| Verification worker, `examples/verification-workers/src/index.ts` | none between requests | `fetch`, `scheduled` | a card and a directory are fetched, and time passes, between reading the request and verifying it; which agent of several is consulted |
| Directory proxy, `proxy-directory.ts` | none, but for the tokens that Turnstile has redeemed | `proxyDirectoryRequest` | calls that overlap, one token used twice, bodies that stall, break off or meet the limit |
| Debug page, `debug-html.ts` | what its forms hold and show | three submit handlers, links to a section | answers in another order than the submits; forms edited while a handler waits; a third verifier |
| Browser extension, `examples/browser-extension` | `KEY_ID` | start-up, request listener | requests before the key id is computed |

Interactions: signers and verifiers meet only through messages. A verifier's keyring is
filled by the application between `parse` and `verify`, from the directories that the
message names. Directories are served by the workers, validated by the CLI, and read by
the Caddy plugin and the verification worker, which finds some of them by way of a card. The
debug page asks the directory proxy for a directory and fills its key into the forms that verify
a request.

What makes each part correct:

* keyring: the first import of an identifier wins, no key is lost by a call that does not
  say so, a thumbprint leads to its own key, and a batch reports what it did;
* request verification: who is admitted under a key signed for this authority; an intact
  request is not refused; nobody else's directory vouches for a bot;
* Caddy plugin: strict mode serves only with everything loaded, one failing source costs no
  other its keys, and the networks checked are those of the key that verified;
* card and registry worker: a host keeps its key, and whoever looks for it, by the registry, the
  card or the directory, finds that key;
* cards and registries: both libraries read the same ones, and a card's keys are those of the
  agent at whose URL it was found;
* directory proxy: a call costs one token of its own, contacts nothing but directories, ends, and
  a text it answers is whole;
* debug page: what a form was given is what the page shows beside it, a verdict is about what was
  submitted and agrees with the library's, and a failed check can be tried again;
* signed directories: publisher and validator agree on what a bound directory is;
* TypeScript programs: the same as for request verification, and agreement with Rust;
  what one makes of a private JWK to sign with, another made of its public part verifies.

## 2. Modules

| Module | Models |
| --- | --- |
| `KeyRingOps` | JWKs, what they decode to, and the keyring's methods as operators on a partial function |
| `KeyRing` | the keyring as an application drives it: any sequence of calls, with each call's arguments and answer kept in the state |
| `MessageSignatures` | messages, dictionaries, signature bases, the choice of a signature, agent links and verification, as operators |
| `WebBotAuth` | bots, intermediaries and an origin that parses, fetches keys and verifies, with a clock |
| `AuthenticatedRequests` | what an origin is promised: it admits only what was made with a key it trusts |
| `CaddyHttpsig` | the Caddy middleware: provisioning, loader by loader, and serving |
| `KeyDirectory` | the card and registry worker's handlers over its KV namespace |
| `SignedDirectory` | a server that signs its directory once per signer, and the command line validator |
| `TypeScriptSignatures` | signing, verifying and the Signature-Agent header in TypeScript, as operators beside `MessageSignatures` |
| `VerificationWorker` | the browser extension, the scheduled request and the verification worker |
| `AgentCards` | which cards and registries each of the two libraries reads, as operators over the same documents |
| `AgentDiscovery` | `fetchDirectory` of the verification worker, against the card and registry worker and other sites |
| `DirectoryFetch` | what the debug page is promised by the directory proxy |
| `DirectoryProxy` | `proxyDirectoryRequest`, each `await` a step |
| `WebCryptoKeys` | thumbprints, and the signers and verifiers that `crypto.ts` makes of a JWK, as operators |
| `DebugPage` | the debug page in one browser: its forms, its handlers, its links |
| `KeyRingOpsProofs`, `KeyRingProofs` (and `SignedDirectory`), `MessageSignaturesProofs`, `WebBotAuthProofs`, `CaddyHttpsigProofs`, `AgentDiscoveryProofs` (and `KeyDirectory`, `AgentCards`), `DirectoryProxyProofs`, `VerificationWorkerProofs` (and `DebugPage`) | the theorems |
| `MC...` | instances for TLC |

`KeyRingOps` is extended by `KeyRing`, `MessageSignatures` and `SignedDirectory`;
`MessageSignatures` by `WebBotAuth` and `TypeScriptSignatures`; the latter by
`VerificationWorker` and `DebugPage`. So one keyring serves the application, the origin and the
validator, and what a TypeScript program signs can be given to the Rust verifier and to the page.
`AgentDiscovery` extends `KeyDirectory` and `AgentCards`: a verifier's request for a key set is a
request to the worker like any other. `DebugPage` calls `DirectoryFetch`, an abstract proxy, and
`DirectoryProxy` is shown to implement it, so that neither model carries the other's state.
`AuthenticatedRequests` stands to `WebBotAuth` as `DirectoryFetch` does to `DirectoryProxy`.

In each module an operator whose name ends in `_Something` after a definition's own name is
a mutant of that definition: a plausible mistake, which `PROJECT.json` pairs with a property
that it breaks.

### Keyring

`ring` is the `HashMap`. `call` and `ret` hold the last call and its answer, so that the
properties can compare what a caller was told with what the ring holds. `ImportRaw` and
`RenameKey` are one step each. `import_jwks` is `ImportJwks` followed by one `TryImportJwk`
per key; it borrows the ring mutably, so no other call comes in between (`InJwks`).
JWKs are records with the members the code branches on. `Bytes` says what their material
decodes to and `Thumbprint` is an injective function on them.

### Requests

A message is what the code looks up in it: its authority, its Signature-Agent members, its
Signature-Input members and its Signature members, each in order of the header lines. A
line the parser drops contributes no member; a Signature-Agent line that does not parse is the
member `Malformed`, and one whose URL or type the crate refuses has a value in `Inlined`. Covered
components are the authority, the target, the method, the agents (whole or one member) and any other
header field (the item `"header"`, which is there and which nothing changes). A signature is symbolic:
who made it and over which base.

`SignRequest` is `MessageSigner::generate_signature_headers_content`. The intermediaries'
actions are external to the code: each forwards a changed copy of a message (another
authority, one more Signature-Agent line, one more signature before or after the others,
one damaged line). The network keeps every message, so messages may be lost, repeated,
delayed and reordered. `Parse`, `Advise`, `FetchDirectory` and `Verify` are the calls
`examples/rust/verify.rs` makes; the clock and directory fetches may move between them.
`KeepRing` says whether the keyring outlives the request.

`ParseError` lists the refusals in the order of the code. `Picked` is the first label
whose parameters and items suit Web Bot Auth, and only its signature is looked at.

### Caddy plugin

`published` says what each URL serves. A document is what the loaders would read in it; what a
body lacks is empty, as `Decode` leaves it, so that any URL may serve any document. `work` is the stack of loaders still to run, and a
loader may fail to fetch at any point. Provisioning ends by serving or, in strict mode after
any error, by refusing to start. `ServeHTTP` then judges one request at a time from its
labels, which library verdict each gets being arbitrary, and its address. A library verdict
and a key's network are independent, so that the two loops of the code (find the label that
verifies; check its networks) must agree on the label.

### Card and registry worker

A handler is `get`, then `put` if there was nothing, then the answer; every `await` is a
step and every KV call may fail. A failed put may have stored the key. The KV namespace is
taken at its best, as if it were consistent at once; the real one is eventually consistent,
which widens the race that `SettledStays` excludes from its claim. `Settled` is the state
from which a host's key no longer changes: a key is stored and no handler is about to store.

### Signed directories

The server's answer is a key set and one binding for each signer; it may be fresh or made
at any earlier time (`created`), and for this host or another. `CheckKey` analyses one key,
so that a signature may expire between two keys. The history field `signers` lets
`CompletePasses` speak of what the publisher was asked to do, not of what it did.

### Cards, registries and discovery

`AgentCards` states each parser as a predicate on documents whose members are missing, `null`, of
a wrong type or well-formed. A URL is its scheme, the rest, and the manner it is written in:
capitals in the scheme, whitespace before it, in the authority or after it, other than two slashes,
nothing after the scheme, an authority that is no host and port. `new URL` parses the whole and
repairs some of these (`Parses`); the crate looks at what the text begins with, at the authority and at
whitespace (`HttpUri`, `SpecialUri`, `HasAnyScheme`), and so each takes texts that the other refuses.
`Comparable`, with `PlainUri` and `PlainContact`, names what is excepted from the agreement of the two
parsers, and section 5 says the same in words.

A registry's lines are stripped of comments and blanks, and `Select` keeps those that are not empty, as
the loop of each parser does. A carriage return alone ends a line in TypeScript; `RustLines` is the text
as `.lines()` of Rust divides it. `LibrariesAgree` compares the parsers on all `Cards` and `Registries`.

In `AgentDiscovery` the variable `verifier` is one run of `fetchDirectory` at a time: `FetchCard`
and the answer of the key set are its awaits, `FetchFails` any failure of either. Asking a host of
the card and registry worker starts a handler of `KeyDirectory`, reserved until it has answered;
other requests interleave with it. `settled` is history: whether the agent was a settled host when
the discovery began. An agent of type `directory` may be reached over http, one of type `cimd`
only over https.

### Directory proxy

Each call has a program counter from `sent` over `form` (awaits the form), `turnstile` (awaits
siteverify), `fetch` (awaits the headers) and `read` (awaits a chunk) to `answered`, and `got`,
the bytes read so far. Turnstile and the hosts are external: Turnstile redeems each genuine token
once and may lose its answer, a host answers with any body, any status, in chunks of any length,
stalls or breaks off. `TimeOut` is possible from the fetch to the end of the body, as the signal
of `AbortSignal.timeout` is. `CallOf` is the refinement mapping: the page sees a call as asked
until it is answered, then as served or as an error.

### Debug page

`fields` is what the forms hold (the method, the URL and the headers of a request are one
field), `page`, `computing` and `checking` the handlers that wait, `result`, `keyIDResult` and
`signatureResult` what the page shows. A handler that ends writes its result and may fill in the
JWK of other forms, whatever the user has done meanwhile. `last` (who wrote the JWK of the signature
form) and `sent` (the tokens sent) are history. `call` belongs to `DirectoryFetch`; the page may
lose an answer (`CallFails`). `PageVerifies` is the verifier written out in the page's script, with
its own base (`PageBase`): a member of the agents without its quotes, the URL as `toString` writes it
(`Unnormalised` holds the authorities of requests whose URL is written otherwise), and nothing for a
header field that is not one of the three pasted. `AgentsValid` is the page's expression for a
Signature-Agent: one agent, with a known type and nothing else (`PageRefuses` holds those it does not
match, or that are no URL). `OpenLink` opens the page anew with its own link or with an old one.

### TypeScript programs

`Extension` signs with `KEY_ID` as it is; `Scheduled` with the thumbprint. An intermediary
changes a request at most `MaxHops` times on its way. The worker's `Start` decides whose keys
to use; `FetchCard`, `FetchKeys` and `FetchFails` are the awaits; `Verify` reads the clock.
What a remote directory serves is chosen at each fetch: the code keeps nothing of the last.
Three differences from Rust matter and are modelled. The header lines are joined before they are
parsed, so that an unlabelled agent beside others is refused, and of the agents with one label only the
last is judged, where the crate judges every member of every line. The values refused are others
(`TsRefuses` against `Inlined`): a type in quotes is good here and not there. And an absent header is
signed as an empty one, where Rust fails to look it up.

## 3. Runs

Deadlock is checked except in `signed_directory`, whose validator is a program that ends, in `caddy`,
which in strict mode refuses to start after an error, and in `proxy`, whose calls are a given number and
all get answered.

| Run | Bounds | Shows |
| --- | --- | --- |
| `keyring` | key sets of up to 3 | no import overwrites or loses an entry, thumbprints stay bound, `import_jwks` reports what it did |
| `request` | 1 signed request, 3 messages | every copy two intermediary steps can make of it: only what was signed is accepted, an intact one is refused for want of a key only, only the bot's own agents vouch for its key, and `AuthenticatedRequests` is implemented |
| `request_shared_ring` | 2 signed requests, 3 messages, clock to 1 | requests that share a keyring which already knows the intermediary |
| `expired` | 1 request, clock to 1 | finding: an expired signature is accepted |
| `caddy` | a directory, two registries, two cards, requests of two labels | strict mode is complete, failures are contained, who is admitted was listed |
| `key_directory` | 2 hosts, 3 handlers, listings of 1 host, a site with 125 cards, 448 registries of 2 lines | a settled host keeps its key, late answers show it, and every way of discovery ends with it; a card's keys are its agent's; both libraries agree on cards of plain members and registries of plain lines |
| `signed_directory` | 7 key sets of up to 2 keys, up to 2 signers, clock to 2 | a directory passes exactly when it is bound to its host by every key |
| `worker` | 1 signed request, 2 changes on its way, clock to 2 | valid means authentic and in time, intact means valid, and Rust accepts the same but for agents it does not read |
| `worker_keyid` | same | finding: a request signed before the key id is computed |
| `proxy` | 2 calls, 2 genuine tokens and a forged one, URLs with each defect, bodies below, at and above a limit of 2 | one token, one fetch; only directories; whole answers; every call ends; `DirectoryFetch` is implemented, its fairness included |
| `debug_page` | 2 calls, 2 submits, clock to 1, seven programs, four directories | results and filled-in keys agree, what is valid was signed, which of the requests the library verifies the page calls valid, a retry has a fresh token, signers and verifiers of one JWK match, checks end |
| `debug_signed` | 1 call, 1 submit | finding: a request whose signature covers one member of its agents is invalid on the page |

Why the bounds suffice for what is asked. In `keyring`, three keys are the least in which one fails, one
repeats and one succeeds in one batch. In `request`, one signed message and two derived ones let an
intermediary combine any two changes; a third change adds members of the same kinds, which the parser
treats alike. Time stands still in that run, because no guard of the verifier reads the clock (`Advise`
does, in `request_shared_ring` and `expired`). In `key_directory`, a race needs two handlers, and a third
looks at what they left, be it the verifier's; the listing is one host short, so that a host may have a
key and not be listed. The cards are the sound one, each with one member odd, each with a URL written in
one odd manner, and each combination of `jwks_uri` and `jwks`; the registries have an odd URL or any
plain line, a second line, and a line break or a carriage return alone between them; agents of type
`directory` are taken over http there, over https the key set's own URL follows the same path after a
card. In `proxy`, two calls are the least that share a token, and chunks of one, two and three bytes
reach the limit, meet it and pass it, in one chunk or several. In `debug_page`, any two submits overlap,
and their answers come in either order. Each request is made at 0 or 1 and good for that second only, so
that with the clock to 1 it is checked before it was made and in time, or in time and after it has
expired. Its programs sign with an Ed25519 or an RSA key, with no agent, one, two or one with its type in
quotes, covered whole or by member, and cover the authority, a URL written as the page writes it or
otherwise, or another header field. In `worker`, two changes add a bad agent and replace it. In
`signed_directory`, two keys are the least with an order, a duplicate, or one good and one bad; with `Ttl
= 1` and the clock to 2, signatures are checked before, at and after their expiry. `worker` has the same
times.

Symmetry is used on authorities, on key pairs and on handlers, which no property orders, and in no
run that checks liveness.

### Fairness

Two modules assume fairness; the others state safety only.

* `DirectoryProxy`: weak fairness of `Arrive`, `ReadForm`, `Settle` and `TimeOut` for each call.
  The Workers runtime runs a handler that can go on; the form of a call that was sent arrives; the
  timer of `AbortSignal.timeout` fires. That the call of Turnstile settles is an assumption
  about Turnstile and the runtime: the code sets no timer on it (`proxy-directory.ts:60-63`).
  Nothing is asked of the host of a directory, so `EveryCallIsAnswered` rests on the timer alone,
  and a timer that ended with the headers would break it.
* `DebugPage`: the proxy goes on answering (which `ServesThePage` shows it to do, with that
  fairness as part of the abstract specification), and a browser with handlers to run runs one of
  them. Users do nothing they must.

Elsewhere the code gives no ground for liveness: the verification worker's `fetchJSON` has no
timer (`index.ts`), so that a directory which stalls stalls the verification; origins, signers and
bots are applications that may stop; and handlers of the card and registry worker wait for the KV
namespace.

## 4. Proofs

All theorems hold for every value of the constants that satisfies the named assumptions. TLC
evaluates each of them in a run. They are

* of keys: `JwkAssumption`, `BytesAssumption` and `ThumbprintAssumption` (distinct keys have distinct
  thumbprints);
* of messages and who makes them: `MessageAssumption` (an absent parameter is no label, identifier,
  number or tag), `WebBotAuthAssumption` (an intermediary has no bot's key), `WorkerAssumption` (an
  intermediary does not have the example key, no label is that of an unlabelled agent, the empty header is
  no URI) and `TsRefusesAssumption` (what the TypeScript parser refuses are URIs);
* of the card and registry worker and discovery: `HostsAssumption` (a KV listing is a sequence with each
  host once), `NoneAssumption` and `SitesAssumption` (the absent key is no key, a site is no host),
  `CardsAssumption` (cards are records of their members; a member that is a URL is told apart as one),
  `MarkersAssumption` (absent, `null`, of a wrong type and a string are four things, and none is what a
  worker's card holds), `RegistriesAssumption` (registries are lines of an address, blanks and a remark,
  some of them ended by a carriage return alone);
* of the Caddy plugin: `NoneAssumption`, `UrlAssumption`, `WorldsAssumption` (what is configured and
  published has its type; a JWK or prefix that does not parse is no key or network) and
  `MaxLabelsAssumption`;
* of signed directories: `KeyListsAssumption`, `SignerListsAssumption` and `TimeAssumption` (their types);
* of the proxy: `ProxyAssumption` (bodies have a size, genuine tokens are tokens, and the absent value is
  none of the values);
* of the debug page: `DebugAssumption` (the same of its proxy; documents, pasted keys and programs have
  their types; a program has a signer for its JWK, gives the signature the JWK's thumbprint and the tag, as
  `signatureHeaders` does, and signs only what the library signs; and, `ShownOtherwise`, what the page
  takes for a value in another form is none that is signed: the empty header is no URI and no header
  field's value, a member without quotes is no serialized member, a normalised URL is none that differs
  from it).

What a recursive function computes for sequences of any length (the ring of a key set, a selection of a
registry's lines) is proved without the induction theorems of the library, whose operator parameters the
provers cannot instantiate: the lengths at which a statement fails form a set of numbers, which
would have a least one (`SmallestExists`), and there the statement holds, by the step of the function.

`KeyRingProofs` goes method by method: lemmas state what `ImportRawInto`, `RenameIn` and
`TryImportJwkInto` do to a ring, and each theorem about `KeyRing` has one step for each action.
`BatchReportTrue` needs a strengthening (`BatchInv`): in the middle of a batch the outcomes
so far agree with the ring so far, and what was imported was not known when the batch began.

`WebBotAuthProofs` rests on the invariant `Inv`, of which `TypeOK` and `AcceptedWereSigned`
are parts. `AcceptedWereSigned` is not inductive alone: at `Verify` one must know where the
signature in hand comes from and what it is checked against. `SignedAreKnown` says what a bot's
message looks like (`AsSigned`): one signature, over the list it sent and the message as it was.
`NetIsGenuine` says of every signature in the network that its maker is the intermediary or that it is
the very one a bot put on a message; damage and forwarding only remove members or add the
intermediary's. `HandlerIsGenuine` says that what is known of the request in hand is what parsing
it returns. When a bot's key verifies, the base of the request then equals the base of a signed
message, a picked list covers the target, and the two are for one authority (`SameAuthority`).

Three more theorems build on it. `KeyIdsAreBound` follows from the same statement about the whole ring
(`RingIsBound`). `SignersNameTheDirectory` (for `AgentVouchesForKey`) adds `RingIsFetched`: a key that
was not configured was served by a link of the request. Equal bases cover equal components
(`SameComponents`); a link either stands under the covered label, which the signer's own header must
have had for the component to be found, or no label is covered, and then the whole header is covered
and equal (`LinkIsSigners`). `SignerAndVerifierAgree` (for `IntactIsAccepted`) adds `Refused`, which
keeps why a request was refused, and `IntactIsParsed`: from an intact copy of a compliant message the
parser picks the bot's label, its list and its signature, whatever stands beside them; a refusal
would then contradict that the thumbprint determines the key.

`ImplementsAuthenticatedRequests` maps `signed`, the ring's keys and the acceptances under bots'
keys to the abstract variables; `SignRequest` is `Make`, `FetchDirectory` and the reset of the ring are
`Trust`, `Verify` is `Admit`, and all other steps stutter.

The directory validator fills a keyring of its own by `import_jwks`. `RingsHold` says what the ring
holds after any number of keys: what their first imports made. `ValidatorInv` then says what the
validator knows (`KeysJudged`): the answer in hand is as a publisher made it, each key analysed so far is
judged as the key, the signature that names it and the time say (`Judged`), and the verdict is that of all
of them. `PassedDirectoriesAreBound` reads it off a positive verdict. `CompleteDirectoriesPass` also needs
that the publisher's own signature is the one found for a key: no signer comes twice, so that no two
bindings name one key.

`CaddyHttpsigProofs` rests on four facts about loaders, those that ran and those that wait. Each was called
for by a document (`Sound`). What the middleware holds is what the loaders that ran have read
(`HoldsWhatWasRead`), which gives `FailuresAreContained` at once. While no error is recorded, every
loader that a document calls for has run or waits (`Complete`); this is the part that a failed fetch may
break, and in strict mode an error keeps the middleware from starting (`Starts`). When nothing waits,
`Complete` says that everything was read, which is `StrictModeIsComplete`. `AdmittedAreListed` then needs,
outside strict mode, only that a network held was read from a list of the key (`Sound`).

`AgentDiscoveryProofs` begins with the card and registry worker, and proves `SettledStays` and
`SettledAnswer` from one invariant: besides the types, `HandlerKnows` says of each handler that its host,
if it was settled when the handler began, is settled still, that the handler then is never about to store,
and that the key it is about to answer with is the stored one. `SettledStays` follows from it because only
a handler about to store writes. The composed system keeps that invariant, for to the worker a verifier is
one more client (`DiscoveryIsAClient`: `DiscoverySpec` implements `Spec`). `VerifierKnows` adds the same of
the verifier: between the card and the key set its host is settled still, and the handler that it waits for
began when it was. `AwaitsHost` is the part that makes the answer of the handler the answer to the verifier:
the handler works on the host that the verifier's URL names. `CardLeadsToOwnKeys` carries another
invariant, `CardKnown`: what a card said is in the verifier's hand until the keys come, and the URL it was
read from is https.

`LibrariesReadAlike` is about operators, not about steps. The two card parsers decide alike of each member
(`UrlsAgree`, `ContactsAgree`, `JwksAgree`, `MetadataAgree`, `IdentitiesAgree`), each under the part of
`Comparable` that is about it: a URL on which they differ has one of the manners `PlainUri` excepts, a
contact one of those of `PlainContact`. A registry, of any length, is read in TypeScript as the addresses
written on its lines, or refused for one that is no https URL, and in Rust as the same where its URLs are
plain and its lines end as Rust ends them (`StrippedLine`, `SelectedAddresses`). `RegistriesLeadToKeys` joins all of it: hosts on a listing have keys
even while the listing is on its way (`Lists`), a line of the registry text is the card URL of such a
host (`RegistryEntries`), and the card served there is one both libraries accept (`HostCard`).

`VerificationWorkerProofs` rests on three facts: a signature of the example key, wherever it is in
the network, is that of a message as a signing program made it (`SignedAreKnown`, `NetIsGenuine`);
the worker has refused the agents its parser refuses; and at `"verified"` the answer is what `verify`
said with the key and at the time recorded. `ValidMeansAuthentic` follows because two equal bases
have the same list, authority and covered agent (`SameBase`), which is where the empty header must
be told from a URI. `IntactMeansValid` needs that no signature is verified before it was made:
`created` lies before `at`. `VerifiersAgree` says which of the requests with one signature in time the
Rust verifier accepts: those the worker finds valid and whose every agent the crate reads, so that it
states where the two part as well as where they agree. It compares them part by part: what Rust finds
TypeScript finds too (`FoundAlike`), they ask for the same components (`CoverAlike`), compute the same
base (`BasesAgree`), and of one signature Rust picks that one unless it refuses an agent (`ParseSingle`).
`FoundAlike` is where the refusal of mixed headers in TypeScript matters: one unlabelled line among
others would be found by Rust alone.

`DirectoryProxyProofs` proves the safety properties of the proxy from `HandlerKnows` for each call
(which fields are set, and that the URL was checked, at each program counter) together with
`FetchedWithToken`, which is inductive only with the fact that a redeemed token has had its one
fetch. `ImplementsDirectoryFetch` maps each step: `Send` is `Ask`, a refusal, failure or time-out
is `Refuse`, `ReadDone` is `Serve`, whose guards are the invariant, and the others are hidden. It is
the safety part of `ServesThePage`; the fairness part stays with TLC.

The same module proves the five invariants of `DebugPage`, from `PageInv`. Its parts say what a handler
may rely on when its wait is over. A token that was sent is the widget's only while a call is under way,
and the call that ends last resets the widget or finds another in it (`RetriesAreFresh`). A key that
is imported was served, so that what is filled in is a key of a document (`CallsAreKnown`,
`FormsAreTyped`); a link gives the forms back what they held (`LinkRestores`). What is being checked is a
version of the request that a program signed, and a verdict is on what was checked, at a time that was,
not on what the forms hold now (`ChecksAreOfVersions`). `JwkIsThatShown` goes over the steps: whatever
writes the JWK also writes the result beside it, or is the last to have written. The theorems about
verdicts follow from `PageInv` alone, by comparing bases. `ValidOnPageIsSigned`: if the page's base of a
version equals the base that was signed, the covered items show the same (`ItemsShowAlike`); a version
without the agents would have to show an empty value for a URI (`MemberHasValue`), and one with a line
twice the page refuses. `LibraryLeadsPage` says of the requests the library verifies which ones the page
calls valid: those whose agents it accepts and of which no covered item is odd (`OddItem`). Page and library
compute one base where no item is odd (`PageBaseIsTsBase`) and two where one is (`OddBaseDiffers`); one
member of the agents covered by itself is the case that `debug_signed` refutes, for the programs of the
repository sign so. The other cases are in section 5.
`PageIsACaller` joins the page to the proxy: the page keeps the safety part of the contract which
`ImplementsDirectoryFetch` proves of the proxy.

Every invariant and action property that a run checks is so stated by a theorem, but for those that a run
refutes. Only model-checked is liveness (`EveryCallIsAnswered`, `DirectoryCheckEnds`, the fairness of
`ServesThePage`), which is out of the prover's reach.

## 5. What the code does that a reader may not expect

Found while modelling; the findings of section 3 are not repeated.

* `get_signature_agents` lists every Signature-Agent line with the covered label, although only
  the last one is covered. `AgentVouchesForKey` is stated accordingly, and only for a keyring
  that does not outlive the request: with a shared one a key fetched for another request
  verifies too.
* `rename_key` onto a name in use drops the key held there and answers FALSE, as if there had been
  nothing to rename (`keyring.rs:189-193`).
* `RsaV1_5Sha256` is written as `rsa-pss-sha512` (`keyring.rs:50`): what an RSA PKCS#1 signer
  announces is another algorithm's name. No verifier in the repository reads the name.
* A Signature-Agent that is a `data:` URL is refused when it is parsed (`registry.rs:204`), so that
  the code which would read keys out of it (`lib.rs:242-253`) never runs.
* Expiry is advice in Rust, with "expired" at `now >= expires`, while TypeScript refuses only at
  `now > expires`.
* The Caddy plugin outside strict mode admits from anywhere the keys of a card whose IP list
  could not be fetched or is empty; a second card that lists the same key widens its networks;
  a key that is no Ed25519 key counts as loaded though it never verifies; nothing is ever
  loaded again.
* The registry of the card and registry worker is one KV listing of at most 1000 hosts
  (`lib.rs:96`), and the rest are left out, where the example's README says that the registry
  lists each host once it has key material. The limit is `ListLimit` in `KeyDirectory`.
* The validator refuses a signature of plain `@authority` (`main.rs:80`), such as its own README
  shows passing. In `SignedDirectory` such a binding does not verify.
* The validator reports `valid: true` for a key whose signature failed (the overall verdict is
  still negative), and does not look at the HTTP status.
* The verification worker uses the first key of the directory whatever `keyid` says, and the
  first agent of the header whatever agent the signature covers. Its own card has no
  `client_id`, so that another deployment cannot use it by type `cimd`.
* The TypeScript parser refuses messages with two signatures, which `directoryResponseHeaders`
  itself makes for two signers.
* The two libraries judge some cards differently: Rust reads `null` as absent where TypeScript
  refuses it; Rust asks for one member of any kind where TypeScript asks for a `client_id` and keys; Rust
  ignores a top-level `ips_uri`; Rust wants keys of four types with all their members where
  TypeScript wants objects.
* They judge some URLs differently. Both refuse an http URL whose authority is missing or has a space in
  it. Rust alone (`registry.rs:168-197`) refuses `HTTPS://host`, whitespace before the scheme, `https:/host`
  and `https:host`, a tab or a line break in the authority, and `data:` with nothing or with whitespace
  after it: `new URL` repairs these or takes them. TypeScript alone refuses what `new URL` finds wrong
  further on, as a port that is no number. Of a contact Rust asks for a colon with something on both sides
  and no whitespace: `https://` and `1:2` pass as contacts, where TypeScript refuses them.
* In a registry they differ in the same URLs, and in a carriage return alone, which ends a line in
  TypeScript (`registry.ts:219`) and is whitespace in a line to Rust.
* They judge some Signature-Agent headers differently. A `type` in quotes is a type to TypeScript
  (`registry.ts:137`) and an error to Rust, which wants a token (`registry.rs:240`). A member that a later
  line with the same label replaces is forgotten by the TypeScript parser and refused by Rust if it is bad
  (`lib.rs:258-268`). One unlabelled line among others is an error to TypeScript alone.
* The registry that the card and registry worker serves over http has http URLs, and neither library
  reads it.
* The proxy reports every failure to read a body as "too large". It limits the time of the
  directory's host and not that of Turnstile.
* The debug page checks less of a directory's URL than the proxy does; it tells an expired signature
  valid, with a warning; it does not ask for `@authority` or `@target-uri` to be covered; a private JWK
  is no key to it; and a token sent by two checks at once is refused for the second, which
  must be tried again.
* Requests the library verifies are invalid on the debug page if they have two agents, or one with a type
  in quotes or with another parameter (`debug-html.ts:374`); if a member of the agents is covered by
  itself (`550-557`); if `@target-uri` is covered and the URL is not written as `toString` of `URL` writes
  it (`567` against `build.ts:85-88`); and if a header field is covered that is not one of the three pasted
  (`582-583`, `632-636`).

## 6. Not modelled

* Text: structured-field parsing and serialising, percent- and base64 encoding, JSON. Duplicate
  items within one inner list, which the Rust parser merges, do not occur in the models, and neither does
  a label that occurs twice in one header line, or a quoted string that spans two of them.
* Of URLs, whitespace within the scheme, control characters that are no whitespace, and the characters one
  language counts as whitespace and the other does not (next line, byte order mark). Of JSON, members that
  occur twice, lone surrogates and an array where Rust reads a struct. A registry is compared as the URLs
  on its lines: TypeScript returns them parsed, and so normalised, Rust as they are written.
* Of the derived components, those with the parts of a URL (`@scheme`, `@path`, `@query`,
  `@request-target`). On the debug page, headers pasted otherwise than the library writes them, which the
  page's own expressions read in their own way.
* The bs, sf, tr and query parameters of components; the `req` parameter for requests.
* Thumbprints and signatures as computations: both are injective functions or symbols.
* Nonces: they are generated and signed, and nothing in the repository compares them.
* In the debug page, the second Turnstile widget, whose token is sent nowhere, and the warning
  about content types. Discoveries that overlap: `fetchDirectory` keeps nothing between two calls.
* The KV namespace as eventually consistent: it is taken at its best.
* The HTTPie plugin, a client of another library that signs one request; the page of
  `index-html.ts`, which shows an answer; generated types, test vectors and CI.

## 7. Plan

1. Component parameters (`sf`, `bs`, `tr`, `req`), as far as the two signature libraries differ in
   them.
