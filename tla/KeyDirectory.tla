------------------------------ MODULE KeyDirectory ------------------------------
(***************************************************************************)
(* The worker of examples/signature-agent-card-and-registry: per host it   *)
(* makes a key on the first request for the host's directory, keeps it in  *)
(* a KV namespace and lists the hosts of that namespace as a registry.     *)
(*                                                                         *)
(* Requests are handled at once, each handler running until its next       *)
(* await.  The KV namespace (external) is taken at its best: each call     *)
(* happens at one instant, and may fail, which ends the request.           *)
(* Signing, digests and the signature agent card read no shared state.     *)
(***************************************************************************)
EXTENDS Naturals, FiniteSets, SequencesExt

CONSTANTS
  Hosts,      \* the hosts routed to the worker, in the order KV lists its keys
  Key,        \* key pairs
  Handler,    \* bound: requests in progress at once
  ListLimit,  \* keys in one listing: 1000 in the code
  None

Host == ToSet(Hosts)

ASSUME HostsAssumption == Hosts \in Seq(Host) /\ IsInjective(Hosts)
ASSUME NoneAssumption == None \notin Key
ASSUME LimitAssumption == ListLimit \in Nat
ASSUME FreshAssumption == IsFiniteSet(Key) /\ Cardinality(Key) >= Len(Hosts) + Cardinality(Handler)

VARIABLES
  kv,      \* the key pair stored for each host, or None
  handler  \* each handler's progress and, once it has answered, the answer

vars == <<kv, handler>>

\* settled (history): when the request came, the host had a key and no handler was about to
\* store another.
Fetching == [pc : {"get", "put", "answer"}, host : Host, key : Key \cup {None}, settled : BOOLEAN]

Answer ==
  [pc : {"none", "error", "listing"}]
    \cup [pc : {"directory"}, host : Host, key : Key, settled : BOOLEAN]
    \cup [pc : {"registry"}, hosts : SUBSET Host]

Busy(h) == handler[h].pc \in {"get", "put", "answer", "listing"}

Storing(host) == \E h \in Handler : handler[h].pc = "put" /\ handler[h].host = host

Settled(host) == kv[host] # None /\ ~Storing(host)

Is(h, pc) == handler[h].pc = pc

Goto(h, state) == handler' = [handler EXCEPT ![h] = state]

Init ==
  /\ kv = [host \in Host |-> None]
  /\ handler = [h \in Handler |-> [pc |-> "none"]]

-------------------------------------------------------------------------------
(* GET /.well-known/http-message-signatures-directory                      *)

Directory(h, host) ==
  /\ ~Busy(h)
  /\ Goto(h, [pc |-> "get", host |-> host, key |-> None, settled |-> Settled(host)])
  /\ UNCHANGED kv

\* getrandom never gives out a key that is stored or about to be.
Fresh(key) == \A h \in Handler : handler[h] \in Fetching => handler[h].key # key

\* Mutant: a new key pair is made whatever the namespace holds.
AfterGet_AlwaysNew(host, key) == [pc |-> "put", key |-> key]

\* Mutant: the stored pair is used without asking whether there is one.
AfterGet_Unchecked(host, key) == [pc |-> "answer", key |-> kv[host]]

\* What kv.get leads to: the stored pair is used, or a new one stored.
AfterGet(host, key) ==
  IF kv[host] # None THEN [pc |-> "answer", key |-> kv[host]] ELSE [pc |-> "put", key |-> key]

Get(h, key) ==
  /\ Is(h, "get")
  /\ Fresh(key) /\ key \notin { kv[host] : host \in Host }
  /\ LET next == AfterGet(handler[h].host, key)
     IN Goto(h, [pc |-> next.pc, host |-> handler[h].host, key |-> next.key,
                 settled |-> handler[h].settled])
  /\ UNCHANGED kv

Put(h) ==
  /\ Is(h, "put")
  /\ kv' = [kv EXCEPT ![handler[h].host] = handler[h].key]
  /\ Goto(h, [handler[h] EXCEPT !.pc = "answer"])

Respond(h) ==
  /\ Is(h, "answer")
  /\ Goto(h, [pc |-> "directory", host |-> handler[h].host, key |-> handler[h].key,
              settled |-> handler[h].settled])
  /\ UNCHANGED kv

-------------------------------------------------------------------------------
(* GET /registry.txt                                                       *)

Registry(h) == ~Busy(h) /\ Goto(h, [pc |-> "listing"]) /\ UNCHANGED kv

Stored(host) == kv[host] # None

\* kv.list().limit(ListLimit): the first keys of the namespace; the cursor is not followed.
Listed ==
  { Hosts[i] : i \in { j \in DOMAIN Hosts :
      Stored(Hosts[j]) /\ Cardinality({ k \in 1..(j - 1) : Stored(Hosts[k]) }) < ListLimit } }

List(h) ==
  /\ Is(h, "listing")
  /\ Goto(h, [pc |-> "registry", hosts |-> Listed])
  /\ UNCHANGED kv

-------------------------------------------------------------------------------
\* A KV call fails: `?` ends the request.  A failed put may have stored the key all the same.
Fail(h) ==
  /\ handler[h].pc \in {"get", "put", "listing"}
  /\ Goto(h, [pc |-> "error"])
  /\ \/ UNCHANGED kv
     \/ Is(h, "put") /\ kv' = [kv EXCEPT ![handler[h].host] = handler[h].key]

Request(h) == (\E host \in Host : Directory(h, host)) \/ Registry(h)

Handle(h) ==
  \/ \E key \in Key : Get(h, key)
  \/ Put(h)
  \/ Respond(h)
  \/ List(h)
  \/ Fail(h)

Next == \E h \in Handler : Request(h) \/ Handle(h)

Spec == Init /\ [][Next]_vars

-------------------------------------------------------------------------------
(* Properties.                                                             *)

TypeOK ==
  /\ kv \in [Host -> Key \cup {None}]
  /\ handler \in [Handler -> Fetching \cup Answer]

\* A host whose key is stored, with no first request still about to store another, keeps that
\* key for good: no later request replaces it, and none even tries to.
SettledStays ==
  [][\A host \in Host : Settled(host) => kv'[host] = kv[host] /\ Settled(host)']_vars

\* A directory requested after its host had settled shows the key the namespace holds, also when
\* the answer comes late.  (Two first requests may both answer, and one key of the two is lost.)
SettledAnswer ==
  \A h \in Handler : handler[h].pc = "directory" /\ handler[h].settled =>
    handler[h].key = kv[handler[h].host]
===============================================================================
