------------------------------ MODULE CaddyHttpsig ------------------------------
(***************************************************************************)
(* The httpsig middleware of examples/caddy-plugin: Provision loads keys   *)
(* and IP allowlists from a directory and from the signature-agent cards   *)
(* that registries list, and ServeHTTP checks requests against them.       *)
(*                                                                         *)
(* Provision calls its loaders one inside another; work is what is left to *)
(* do, the call in progress first.  What a URL serves is chosen once        *)
(* (published); whether a fetch succeeds, at each fetch: an unusable URL,  *)
(* a timeout, a status that is not 200 and a body that does not decode all *)
(* end the same way.  A document is what the loaders would read in it: a   *)
(* registry has cards, a card keys, a jwks_uri and an ips_uri, a directory *)
(* or a key set keys, an IP list prefixes.  What a body does not have is   *)
(* left empty by Decode, so that any URL may serve any document.           *)
(***************************************************************************)
EXTENDS SequencesExt, Naturals

CONSTANTS
  Key,        \* Ed25519 public keys; a key stands for its thumbprint too
  Address,    \* client addresses
  Network,    \* CIDR blocks
  In,         \* In[n]: the addresses of network n
  Url,
  None,
  BadKey,     \* a JWK that does not parse
  BadPrefix,  \* a prefix that is not a CIDR block
  Directory,  \* directory_base, or None
  Registries, \* the registry option: a sequence of URLs
  Worlds,     \* what the URLs may serve: functions from Url to documents
  MaxLabels   \* bound: signatures on one request

Jwk == Key \cup {BadKey}

Prefix == Network \cup {BadPrefix}

Document ==
  [cards : Seq(Url), keys : Seq(Jwk), jwks : Url \cup {None}, ips : Url \cup {None},
   prefixes : Seq(Prefix)]

ASSUME NoneAssumption == None \notin Url /\ BadKey \notin Key /\ BadPrefix \notin Network
ASSUME InAssumption == In \in [Network -> SUBSET Address]
ASSUME UrlAssumption == Directory \in Url \cup {None} /\ Registries \in Seq(Url)
ASSUME WorldsAssumption == Worlds \subseteq [Url -> Document]
ASSUME MaxLabelsAssumption == MaxLabels \in Nat

VARIABLES
  published, \* the document each URL serves
  strict,  \* fail_on_load_error
  work,    \* the loaders still to run
  keys,    \* keySpecs: the keys loaded
  nets,    \* keyNets: the networks each key is allowed from; none means any
  errors,  \* whether loadErrors holds something
  phase,   \* "provision", then "serving" or "failed"
  loaded,  \* history: the loaders whose fetch succeeded
  answer   \* the request served last, and the answer to it

vars == <<published, strict, work, keys, nets, errors, phase, loaded, answer>>

\* A loader that is still to run.
Load(op, url) == [op |-> op, url |-> url, ips |-> None]

\* A signature on a request: the key its keyid names, and whether the library verifies it
\* (external: coverage of @authority, created within five minutes, expires, Ed25519).
Signature == [keyid : Key, verifies : BOOLEAN]

Request == [sigs : BoundedSeq(Signature, MaxLabels), from : Address]

Good(jwks) == ToSet(jwks) \cap Key

Nets(prefixes) == ToSet(prefixes) \ {BadPrefix}

-------------------------------------------------------------------------------
(* Provision.                                                              *)

\* The loader in progress is through; more is what it calls first.
Return(more) == work' = more \o Tail(work)

\* Mutant: the first key that does not parse ends the loop.
AddKeys_StopsAtBadKey(jwks, ips) ==
  /\ keys' = IF BadKey \in ToSet(jwks) THEN keys ELSE keys \cup Good(jwks)
  /\ errors' = (errors \/ jwks = <<>> \/ BadKey \in ToSet(jwks))
  /\ Return(IF ips # None /\ Good(jwks) # {}
            THEN <<[op |-> "ips", url |-> ips, ids |-> Good(jwks)]>> ELSE <<>>)

\* addKeys, and the ips_uri of the card the keys came from, if any was read.
AddKeys(jwks, ips) ==
  /\ keys' = keys \cup Good(jwks)
  /\ errors' = (errors \/ jwks = <<>> \/ BadKey \in ToSet(jwks))
  /\ Return(IF ips # None /\ Good(jwks) # {}
            THEN <<[op |-> "ips", url |-> ips, ids |-> Good(jwks)]>> ELSE <<>>)

\* Mutant: an IP list that cannot be fetched is not a load error.
Recorded_NotForIps == errors' = (errors \/ Head(work).op # "ips")

Recorded == errors' = TRUE

\* A fetch that fails is recorded, and its loader returns.
FetchFails ==
  /\ work # <<>>
  /\ Recorded
  /\ Return(<<>>)
  /\ UNCHANGED <<published, strict, keys, nets, phase, loaded, answer>>

Fetched(op) ==
  /\ work # <<>> /\ Head(work).op = op
  /\ loaded' = loaded \cup {Head(work)}
  /\ UNCHANGED <<published, strict, phase, answer>>

Got == published[Head(work).url]

AddKeysFromDirectory ==
  /\ Fetched("directory")
  /\ AddKeys(Got.keys, None)
  /\ UNCHANGED nets

AddKeysFromRegistry ==
  /\ Fetched("registry")
  /\ Return([i \in DOMAIN Got.cards |-> Load("card", Got.cards[i])])
  /\ UNCHANGED <<keys, nets, errors>>

\* jwks_uri replaces the keys the card itself lists.
AddKeysFromCard ==
  /\ Fetched("card")
  /\ IF Got.jwks = None
     THEN AddKeys(Got.keys, Got.ips)
     ELSE Return(<<[op |-> "jwks", url |-> Got.jwks, ips |-> Got.ips]>>) /\ UNCHANGED <<keys, errors>>
  /\ UNCHANGED nets

AddKeysFromJwksUri ==
  /\ Fetched("jwks")
  /\ AddKeys(Got.keys, Head(work).ips)
  /\ UNCHANGED nets

NetsOf(ids, more) == [k \in Key |-> IF k \in ids THEN nets[k] \cup more ELSE nets[k]]

AddAllowedNets ==
  /\ Fetched("ips")
  /\ nets' = NetsOf(Head(work).ids, Nets(Got.prefixes))
  /\ errors' = (errors \/ BadPrefix \in ToSet(Got.prefixes))
  /\ Return(<<>>)
  /\ UNCHANGED keys

Provisioned ==
  /\ phase = "provision" /\ work = <<>>
  /\ errors' = (errors \/ keys = {})
  /\ phase' = IF strict /\ errors' THEN "failed" ELSE "serving"
  /\ UNCHANGED <<published, strict, work, keys, nets, loaded, answer>>

-------------------------------------------------------------------------------
(* ServeHTTP.                                                              *)

Verified(r) == { i \in DOMAIN r.sigs : r.sigs[i].verifies /\ r.sigs[i].keyid \in keys }

\* Mutant: the key of the first signature, whether it verified or not.
KeyIdOf_First(r) == r.sigs[1].keyid

\* Validate: the first label that verifies decides, whatever the labels after it.
KeyIdOf(r) == r.sigs[CHOOSE i \in Verified(r) : \A j \in Verified(r) : i <= j].keyid

RemoteIPAllowed(from, k) == \E n \in nets[k] : from \in In[n]

Status(r) ==
  IF keys = {}                                                       THEN 503
  ELSE IF Verified(r) = {}                                           THEN 401
  ELSE IF nets[KeyIdOf(r)] # {} /\ ~RemoteIPAllowed(r.from, KeyIdOf(r)) THEN 401
  ELSE 200

ServeHTTP(r) ==
  /\ phase = "serving"
  /\ answer' = [request |-> r, status |-> Status(r)]
  /\ UNCHANGED <<published, strict, work, keys, nets, errors, phase, loaded>>

-------------------------------------------------------------------------------
NoAnswer == [request |-> None, status |-> 0]

Init ==
  /\ published \in Worlds
  /\ strict \in BOOLEAN
  /\ work = (IF Directory = None THEN <<>> ELSE <<Load("directory", Directory)>>)
              \o [i \in DOMAIN Registries |-> Load("registry", Registries[i])]
  /\ keys = {}
  /\ nets = [k \in Key |-> {}]
  /\ errors = FALSE
  /\ phase = "provision"
  /\ loaded = {}
  /\ answer = NoAnswer

Next ==
  \/ FetchFails
  \/ AddKeysFromDirectory
  \/ AddKeysFromRegistry
  \/ AddKeysFromCard
  \/ AddKeysFromJwksUri
  \/ AddAllowedNets
  \/ Provisioned
  \/ \E r \in Request : ServeHTTP(r)

Spec == Init /\ [][Next]_vars 
-------------------------------------------------------------------------------
(* Properties.                                                             *)

Cards == UNION { ToSet(published[r].cards) : r \in ToSet(Registries) }

CardKeys(c) ==
  LET card == published[c] IN Good(IF card.jwks = None THEN card.keys ELSE published[card.jwks].keys)

DirectoryKeys == IF Directory = None THEN {} ELSE Good(published[Directory].keys)

PublishedKeys == DirectoryKeys \cup UNION { CardKeys(c) : c \in Cards }

\* The networks that the IP lists of k's cards name together.
PublishedNets(k) ==
  UNION { Nets(published[published[c].ips].prefixes) :
            c \in { d \in Cards : k \in CardKeys(d) /\ published[d].ips # None } }

\* README, "fail_on_load_error": a middleware that serves in strict mode has loaded every key and
\* every network of every directory, registry, card, key set and IP list, whichever fetch failed.
StrictIsComplete ==
  strict /\ phase = "serving" =>
    keys = PublishedKeys /\ \A k \in Key : nets[k] = PublishedNets(k)

\* In either mode no failure takes away more than it must: once a card (and its key set) was read,
\* its keys are loaded whatever happened to its IP list, to a key beside them or to other sources.
SourcesSurvive ==
  phase # "provision" =>
    /\ \A l \in loaded : l.op \in {"directory", "jwks"} => Good(published[l.url].keys) \subseteq keys
    /\ \A l \in loaded : l.op = "card" /\ published[l.url].jwks = None => CardKeys(l.url) \subseteq keys

\* A request that gets through is signed with a published key, and comes from a network of that
\* key's lists unless they name none or, outside strict mode, none of them was loaded.
AdmittedFromListed ==
  answer.status = 200 =>
    \E i \in DOMAIN answer.request.sigs :
      LET k == answer.request.sigs[i].keyid IN
      /\ answer.request.sigs[i].verifies
      /\ k \in PublishedKeys
      /\ \/ PublishedNets(k) = {}
         \/ \E n \in PublishedNets(k) : answer.request.from \in In[n]
         \/ ~strict /\ \A l \in loaded : l.op = "ips" /\ k \in l.ids => Nets(published[l.url].prefixes) = {}
===============================================================================
