-------------------------- MODULE AgentDiscoveryProofs --------------------------
(***************************************************************************)
(* For any hosts, keys, sites, cards and requests at once, any KV call or  *)
(* fetch failing: a host that has settled keeps its key, and a directory   *)
(* requested since then shows it (KeyDirectory); a verifier that sets out  *)
(* when its agent is such a host ends with that key, and keys found by a   *)
(* card, of any site, are where that card says (AgentDiscovery).           *)
(*                                                                         *)
(* The inductive invariant of KeyDirectory says what a handler knows that  *)
(* began when its host had settled: the host still has, and no key but the *)
(* stored one has come into the handler's hands.  Discovery is a client of *)
(* KeyDirectory and keeps that invariant; added to it is what the verifier *)
(* knows on its way: the host has settled, and the request it awaits is    *)
(* for that host and came since.                                           *)
(*                                                                         *)
(* The Rust and the TypeScript library read a card alike when they decide  *)
(* alike of each of its members, and a registry alike because both strip   *)
(* its lines to the addresses written there; so the registry of a worker   *)
(* names the cards of its hosts, and each card its host's directory.       *)
(***************************************************************************)
EXTENDS AgentDiscovery, SequenceTheorems, WellFoundedInduction, TLAPS

Progress == Fetching \cup Answer

HandlerKnows(h) ==
  /\ handler[h].pc \in {"put", "answer"} => handler[h].key \in Key
  /\ handler[h].pc \in {"get", "put", "answer", "directory"} /\ handler[h].settled =>
       Settled(handler[h].host) /\ ~Is(h, "put")
  /\ handler[h].pc \in {"answer", "directory"} /\ handler[h].settled =>
       handler[h].key = kv[handler[h].host]

Inv == TypeOK /\ \A h \in Handler : HandlerKnows(h)

\* A step that leaves every settled host settled, with its key.
Keeps == \A host \in Host : Settled(host) => Settled(host)' /\ kv'[host] = kv[host]

-------------------------------------------------------------------------------
LEMMA InitInv == Init => Inv
<1> SUFFICES ASSUME Init PROVE Inv
  OBVIOUS
<1>1. TypeOK
  BY DEF Init, TypeOK, Fetching, Answer
<1>2. \A h \in Handler : HandlerKnows(h)
  BY DEF Init, HandlerKnows
<1>3. QED
  BY <1>1, <1>2 DEF Inv

\* Which of the records a handler's state is.
LEMMA FetchingIs ==
  \A state \in Progress : state.pc \in {"get", "put", "answer"} => state \in Fetching
BY DEF Progress, Fetching, Answer

LEMMA DirectoryIs ==
  \A state \in Progress : state.pc = "directory" => state.host \in Host
BY DEF Progress, Fetching, Answer

\* One handler moves, to a state of the type, and the settled hosts stay: what is left to show is
\* what that handler knows.
LEMMA StepInv ==
  ASSUME Inv, NEW h \in Handler, NEW state \in Progress, Goto(h, state),
         kv' \in [Host -> Key \cup {None}], Keeps, HandlerKnows(h)'
  PROVE  Inv'
<1>1. TypeOK'
  BY DEF Inv, TypeOK, Goto, Progress
<1>2. ASSUME NEW q \in Handler PROVE HandlerKnows(q)'
  <2>1. CASE q = h
    BY <2>1
  <2>2. CASE q # h
    <3>1. handler'[q] = handler[q] /\ handler[q] \in Progress
      BY <2>2 DEF Inv, TypeOK, Goto, Progress
    <3>2. HandlerKnows(q)
      BY DEF Inv
    <3>3. handler[q].pc \in {"get", "put", "answer", "directory"} => handler[q].host \in Host
      BY <3>1, FetchingIs, DirectoryIs DEF Fetching
    <3>4. QED
      BY <3>1, <3>2, <3>3 DEF HandlerKnows, Keeps, Is
  <2>3. QED
    BY <2>1, <2>2
<1>3. QED
  BY <1>1, <1>2 DEF Inv

\* Neither the namespace nor the handlers that are about to store change.
LEMMA NoNewStoreKeeps ==
  ASSUME Inv, NEW h \in Handler, NEW state \in Progress, Goto(h, state), UNCHANGED kv,
         state.pc # "put"
  PROVE  Keeps
<1>1. ASSUME NEW q \in Handler, handler'[q].pc = "put" PROVE handler'[q] = handler[q]
  BY <1>1 DEF Inv, TypeOK, Goto
<1>2. ASSUME NEW host \in Host, Storing(host)' PROVE Storing(host)
  BY <1>1, <1>2 DEF Storing
<1>3. QED
  BY <1>2 DEF Keeps, Settled

-------------------------------------------------------------------------------
LEMMA DirectoryStep ==
  ASSUME Inv, NEW h \in Handler, NEW host \in Host, Directory(h, host)
  PROVE  Keeps /\ Inv'
<1> DEFINE state == [pc |-> "get", host |-> host, key |-> None, settled |-> Settled(host)]
<1>1. state \in Progress
  BY DEF Progress, Fetching, Settled
<1>2. Goto(h, state) /\ UNCHANGED kv
  BY DEF Directory
<1>3. Keeps
  BY <1>1, <1>2, NoNewStoreKeeps
<1>4. handler'[h] = state
  BY <1>2 DEF Goto, Inv, TypeOK
<1>5. HandlerKnows(h)'
  BY <1>3, <1>4 DEF HandlerKnows, Keeps, Is
<1>6. kv' \in [Host -> Key \cup {None}]
  BY <1>2 DEF Inv, TypeOK
<1>7. QED
  BY <1>1, <1>2, <1>3, <1>5, <1>6, StepInv

LEMMA GetStep ==
  ASSUME Inv, NEW h \in Handler, NEW key \in Key, Get(h, key)
  PROVE  Keeps /\ Inv'
<1> DEFINE host == handler[h].host
           next == AfterGet(host, key)
           state == [pc |-> next.pc, host |-> host, key |-> next.key, settled |-> handler[h].settled]
<1>1. Is(h, "get") /\ handler[h] \in Fetching /\ HandlerKnows(h)
  BY FetchingIs DEF Get, Is, Inv, TypeOK, Progress
<1>2. host \in Host /\ handler[h].settled \in BOOLEAN /\ kv[host] \in Key \cup {None}
  BY <1>1 DEF Fetching, Inv, TypeOK
<1>3. next = IF kv[host] # None THEN [pc |-> "answer", key |-> kv[host]]
             ELSE [pc |-> "put", key |-> key]
  BY DEF AfterGet
<1>4. Goto(h, state) /\ UNCHANGED kv
  BY DEF Get
<1>5. state \in Progress
  BY <1>2, <1>3 DEF Progress, Fetching
<1>6. handler'[h] = state /\ \A q \in Handler \ {h} : handler'[q] = handler[q]
  BY <1>4 DEF Goto, Inv, TypeOK
<1>7. Keeps
  <2>1. ASSUME NEW other \in Host, Settled(other) PROVE ~Storing(other)'
    BY <1>3, <1>6, <2>1 DEF Storing, Settled
  <2>2. QED
    BY <1>4, <2>1 DEF Keeps, Settled
<1>8. HandlerKnows(h)'
  <2>1. PICK owner \in Host : owner = host
    BY <1>2
  <2>2. handler[h].settled => Settled(owner)
    BY <1>1, <2>1 DEF HandlerKnows, Is
  <2>3. handler[h].settled => state.pc = "answer" /\ state.key = kv[owner] /\ Settled(owner)'
    BY <1>3, <1>7, <2>1, <2>2 DEF Settled, Keeps
  <2>4. state.key \in Key
    BY <1>2, <1>3
  <2>5. handler'[h].host = owner /\ handler'[h].settled = handler[h].settled
        /\ handler'[h].pc = state.pc /\ handler'[h].key = state.key /\ kv' = kv
    BY <1>4, <1>6, <2>1
  <2>6. QED
    BY <2>3, <2>4, <2>5 DEF HandlerKnows, Is
<1>9. QED
  BY <1>4, <1>5, <1>7, <1>8, StepInv DEF Inv, TypeOK

\* A put that happens, whether or not its handler hears of it, is of a host that had not settled.
LEMMA StoreKeeps ==
  ASSUME Inv, NEW h \in Handler, NEW state \in Progress, Goto(h, state), Is(h, "put"),
         kv' = [kv EXCEPT ![handler[h].host] = handler[h].key], state.pc # "put"
  PROVE  Keeps /\ kv' \in [Host -> Key \cup {None}]
<1>1. handler[h] \in Fetching /\ HandlerKnows(h)
  BY FetchingIs DEF Is, Inv, TypeOK, Progress
<1>2. handler[h].host \in Host /\ handler[h].key \in Key /\ Storing(handler[h].host)
  BY <1>1 DEF Fetching, HandlerKnows, Is, Storing
<1>3. ASSUME NEW q \in Handler, handler'[q].pc = "put" PROVE handler'[q] = handler[q]
  BY <1>3 DEF Inv, TypeOK, Goto
<1>4. ASSUME NEW host \in Host, Storing(host)' PROVE Storing(host)
  BY <1>3, <1>4 DEF Storing
<1>5. ASSUME NEW host \in Host, Settled(host) PROVE kv'[host] = kv[host]
  BY <1>2, <1>5 DEF Settled, Inv, TypeOK
<1>6. QED
  BY <1>2, <1>4, <1>5 DEF Keeps, Settled, Inv, TypeOK

LEMMA PutStep ==
  ASSUME Inv, NEW h \in Handler, Put(h)
  PROVE  Keeps /\ Inv'
<1> DEFINE state == [handler[h] EXCEPT !.pc = "answer"]
<1>1. Is(h, "put") /\ handler[h] \in Fetching /\ HandlerKnows(h) /\ Goto(h, state)
  BY FetchingIs DEF Put, Is, Inv, TypeOK, Progress
<1>2. state \in Progress /\ state.pc = "answer" /\ state.host = handler[h].host
      /\ state.key = handler[h].key /\ state.settled = handler[h].settled
  BY <1>1 DEF Progress, Fetching
<1>3. Keeps /\ kv' \in [Host -> Key \cup {None}]
  BY <1>1, <1>2, StoreKeeps DEF Put
<1>4. handler'[h] = state
  BY <1>1 DEF Goto, Inv, TypeOK
<1>5. ~handler[h].settled /\ handler[h].key \in Key
  BY <1>1 DEF HandlerKnows, Is
<1>6. HandlerKnows(h)'
  BY <1>2, <1>4, <1>5 DEF HandlerKnows, Is
<1>7. QED
  BY <1>1, <1>2, <1>3, <1>6, StepInv

LEMMA RespondStep ==
  ASSUME Inv, NEW h \in Handler, Respond(h)
  PROVE  Keeps /\ Inv'
<1> DEFINE state == [pc |-> "directory", host |-> handler[h].host, key |-> handler[h].key,
                     settled |-> handler[h].settled]
<1>1. Is(h, "answer") /\ handler[h] \in Fetching /\ HandlerKnows(h) /\ Goto(h, state)
      /\ UNCHANGED kv
  BY FetchingIs DEF Respond, Is, Inv, TypeOK, Progress
<1>2. handler[h].host \in Host /\ handler[h].key \in Key /\ handler[h].settled \in BOOLEAN
  BY <1>1 DEF Fetching, HandlerKnows, Is
<1>3. state \in Progress
  BY <1>2 DEF Progress, Answer
<1>4. Keeps
  BY <1>1, <1>3, NoNewStoreKeeps
<1>5. handler'[h] = state
  BY <1>1 DEF Goto, Inv, TypeOK
<1>6. HandlerKnows(h)'
  <2>1. PICK owner \in Host : owner = handler[h].host
    BY <1>2
  <2>2. handler[h].settled => Settled(owner)' /\ handler[h].key = kv[owner]
    BY <1>1, <1>4, <2>1 DEF HandlerKnows, Is, Keeps
  <2>3. handler'[h].host = owner /\ kv' = kv
    BY <1>1, <1>5, <2>1
  <2>4. QED
    BY <1>5, <2>2, <2>3 DEF HandlerKnows, Is
<1>7. QED
  BY <1>1, <1>3, <1>4, <1>6, StepInv DEF Inv, TypeOK

\* Requests and answers of the registry, and calls that fail.
LEMMA OtherStep ==
  ASSUME Inv, NEW h \in Handler, Registry(h) \/ List(h) \/ Fail(h)
  PROVE  Keeps /\ Inv'
<1>1. PICK state \in Answer :
        /\ Goto(h, state) /\ state.pc \in {"error", "listing", "registry"}
        /\ UNCHANGED kv \/ (Is(h, "put") /\ kv' = [kv EXCEPT ![handler[h].host] = handler[h].key])
  <2>1. [pc |-> "listing"] \in Answer /\ [pc |-> "error"] \in Answer
    BY DEF Answer
  <2>2. [pc |-> "registry", hosts |-> Listed] \in Answer
    <3>1. Listed \subseteq Host
      BY DEF Listed, Host, ToSet
    <3>2. QED
      BY <3>1 DEF Answer
  <2>3. QED
    BY <2>1, <2>2 DEF Registry, List, Fail
<1>2. state \in Progress /\ state.pc # "put"
  BY <1>1 DEF Progress
<1>3. Keeps /\ kv' \in [Host -> Key \cup {None}]
  BY <1>1, <1>2, NoNewStoreKeeps, StoreKeeps DEF Inv, TypeOK
<1>4. handler'[h] = state
  BY <1>1 DEF Goto, Inv, TypeOK
<1>5. HandlerKnows(h)'
  BY <1>1, <1>4 DEF HandlerKnows
<1>6. QED
  BY <1>1, <1>2, <1>3, <1>5, StepInv

LEMMA NextInv == Inv /\ [Next]_vars => Inv' /\ Keeps
<1> SUFFICES ASSUME Inv, [Next]_vars PROVE Inv' /\ Keeps
  OBVIOUS
<1>1. CASE UNCHANGED vars
  BY <1>1 DEF vars, Inv, TypeOK, HandlerKnows, Settled, Storing, Is, Keeps
<1>2. CASE Next
  <2>1. PICK h \in Handler :
          \/ \E host \in Host : Directory(h, host)
          \/ \E key \in Key : Get(h, key)
          \/ Put(h) \/ Respond(h) \/ Registry(h) \/ List(h) \/ Fail(h)
    BY <1>2 DEF Next, Request, Handle
  <2>2. QED
    BY <2>1, DirectoryStep, GetStep, PutStep, RespondStep, OtherStep
<1>3. QED
  BY <1>1, <1>2

LEMMA Invariance == Spec => []Inv
BY InitInv, NextInv, PTL DEF Spec

-------------------------------------------------------------------------------
\* The namespace and the handlers keep their types, for any hosts, keys and requests at once.
THEOREM TypeCorrect == Spec => []TypeOK
BY Invariance, PTL DEF Inv

\* No later request replaces, or sets out to replace, the key of a host that has settled, in every
\* interleaving of any number of requests and failures (fetch of the card and registry worker).
THEOREM SettledForGood == Spec => SettledStays
<1>1. Keeps => \A host \in Host : Settled(host) => kv'[host] = kv[host] /\ Settled(host)'
  BY DEF Keeps
<1>2. Inv /\ [Next]_vars =>
        [\A host \in Host : Settled(host) => kv'[host] = kv[host] /\ Settled(host)']_vars
  BY <1>1, NextInv
<1>3. QED
  BY <1>2, Invariance, PTL DEF Spec, SettledStays

\* A directory requested since its host had settled shows the stored key, however late its answer.
THEOREM SettledDirectoryShowsKey == Spec => []SettledAnswer
<1>1. Inv => SettledAnswer
  BY DEF Inv, HandlerKnows, SettledAnswer
<1>2. QED
  BY Invariance, <1>1, PTL

-------------------------------------------------------------------------------
(* Discovery.                                                              *)

At == verifier.agent.rest.at

\* The request the verifier awaits.
AwaitsHost(h) ==
  /\ h \in Handler
  /\ handler[h].pc \in {"get", "put", "answer", "directory", "error"}
  /\ handler[h].pc # "error" => handler[h].host = At /\ handler[h].settled

VerifierKnows ==
  /\ verifier.pc \in {"card", "keys", "done"} /\ verifier.settled => At \in Host /\ Settled(At)
  /\ verifier.pc = "card" => verifier.agent = CardURL("https", At)
  /\ verifier.pc = "keys" /\ verifier.settled =>
       verifier.from.rest.at = At /\ AwaitsHost(verifier.handler)
  /\ verifier.pc = "done" /\ verifier.settled => verifier.keys = HostKeys(kv[At])

DiscoveryInv == Inv /\ VerifierKnows

LEMMA DiscoveryInitInv == DiscoveryInit => DiscoveryInv
BY InitInv DEF DiscoveryInit, DiscoveryInv, VerifierKnows, Idle

-------------------------------------------------------------------------------
(* Steps of the host.                                                      *)

\* A handler that is awaited answers the request it was given, or fails.
LEMMA HandleKeepsRequest ==
  ASSUME Inv, NEW h \in Handler, NEW q \in Handler, Handle(q), AwaitsHost(h), UNCHANGED verifier
  PROVE  AwaitsHost(h)'
<1>1. CASE q # h
  <2>1. handler'[h] = handler[h]
    BY <1>1 DEF Handle, Get, Put, Respond, List, Fail, Goto, Inv, TypeOK
  <2>2. QED
    BY <2>1 DEF AwaitsHost, At
<1>2. CASE q = h
  <2>1. ~List(h)
    BY DEF List, Is, AwaitsHost
  <2>2. CASE Fail(h)
    BY <2>2 DEF Fail, Goto, AwaitsHost, Inv, TypeOK
  <2>3. CASE \E key \in Key : Get(h, key)
    <3>1. PICK key \in Key : Get(h, key)
      BY <2>3
    <3>2. AfterGet(handler[h].host, key).pc \in {"put", "answer"}
      BY DEF AfterGet
    <3>3. /\ handler'[h].pc \in {"put", "answer"}
          /\ handler'[h].host = handler[h].host /\ handler'[h].settled = handler[h].settled
      BY <3>1, <3>2 DEF Get, Goto, Inv, TypeOK
    <3>4. QED
      BY <3>1, <3>3 DEF AwaitsHost, At, Get, Is
  <2>4. CASE Put(h)
    <3>1. handler[h] \in Fetching
      BY <2>4, FetchingIs DEF Put, Is, Inv, TypeOK, Progress
    <3>2. /\ handler'[h].pc = "answer"
          /\ handler'[h].host = handler[h].host /\ handler'[h].settled = handler[h].settled
      BY <2>4, <3>1 DEF Put, Goto, Inv, TypeOK, Fetching
    <3>3. QED
      BY <2>4, <3>2 DEF AwaitsHost, At, Put, Is
  <2>5. CASE Respond(h)
    BY <2>5 DEF Respond, Is, Goto, AwaitsHost, At, Inv, TypeOK
  <2>6. QED
    BY <1>2, <2>1, <2>2, <2>3, <2>4, <2>5 DEF Handle
<1>3. QED
  BY <1>1, <1>2

LEMMA RequestKeepsOthers ==
  ASSUME Inv, NEW h \in Handler, NEW q \in Handler, Request(q), q # h, AwaitsHost(h),
         UNCHANGED verifier
  PROVE  AwaitsHost(h)'
<1>1. handler'[h] = handler[h]
  BY DEF Request, Directory, Registry, Goto, Inv, TypeOK
<1>2. QED
  BY <1>1 DEF AwaitsHost, At

LEMMA ServeStep ==
  ASSUME DiscoveryInv, Serve
  PROVE  DiscoveryInv'
<1>1. PICK q \in Handler : (~Awaited(q) /\ Request(q)) \/ Handle(q)
  BY DEF Serve
<1>2. UNCHANGED verifier
  BY DEF Serve
<1>3. Inv' /\ Keeps
  BY <1>1, NextInv DEF DiscoveryInv, Next
<1>4. ASSUME verifier.pc = "keys", verifier.settled PROVE AwaitsHost(verifier.handler)'
  <2>1. PICK h \in Handler : h = verifier.handler /\ AwaitsHost(h)
    BY <1>4 DEF DiscoveryInv, VerifierKnows, AwaitsHost
  <2>2. CASE Handle(q)
    BY <1>2, <2>1, <2>2, HandleKeepsRequest DEF DiscoveryInv
  <2>3. CASE ~Awaited(q) /\ Request(q)
    BY <1>2, <1>4, <2>1, <2>3, RequestKeepsOthers DEF DiscoveryInv, Awaited
  <2>4. QED
    BY <1>1, <2>2, <2>3
<1>5. ASSUME NEW owner \in Host, owner = At, Settled(owner)
      PROVE  At' = owner /\ Settled(At)' /\ kv'[owner] = kv[owner]
  BY <1>2, <1>3, <1>5 DEF Keeps, At, Settled, Storing
<1>6. VerifierKnows'
  BY <1>2, <1>4, <1>5 DEF DiscoveryInv, VerifierKnows, At
<1>7. QED
  BY <1>3, <1>6 DEF DiscoveryInv

-------------------------------------------------------------------------------
(* Steps of the verifier.                                                  *)

LEMMA Untouched ==
  ASSUME Inv, UNCHANGED <<kv, handler>>
  PROVE  Inv'
BY NextInv DEF vars

\* A key set is asked for: of the host itself, if the verifier knows one that has settled.
LEMMA AskStep ==
  ASSUME DiscoveryInv, NEW agent, NEW card, NEW url, NEW settled \in BOOLEAN,
         AskKeys(agent, card, url, settled),
         settled => /\ agent.rest.at \in Host /\ Settled(agent.rest.at)
                    /\ url = DirectoryURL("https", agent.rest.at) \/ url = agent
                    /\ url.rest.doc = "directory"
  PROVE  DiscoveryInv'
<1>1. CASE url.rest.at \in Host /\ url.rest.doc = "directory"
  <2>1. PICK h \in Handler : /\ Directory(h, url.rest.at)
                             /\ verifier' = Doing("keys", agent, card, url, h, settled)
    BY <1>1 DEF AskKeys
  <2>2. Inv' /\ Keeps
    BY <1>1, <2>1, DirectoryStep DEF DiscoveryInv
  <2>3. handler'[h] = [pc |-> "get", host |-> url.rest.at, key |-> None, settled |-> Settled(url.rest.at)]
    BY <2>1 DEF Directory, Goto, DiscoveryInv, Inv, TypeOK
  <2>4. /\ verifier'.pc = "keys" /\ verifier'.agent = agent /\ verifier'.from = url
        /\ verifier'.handler = h /\ verifier'.settled = settled
    BY <2>1 DEF Doing
  <2>5. ASSUME settled PROVE url.rest.at = agent.rest.at
    BY <2>5 DEF DirectoryURL, Uri
  <2>6. ASSUME settled PROVE AwaitsHost(h)'
    BY <2>3, <2>4, <2>5, <2>6 DEF AwaitsHost, At
  <2>7. ASSUME settled PROVE At' = agent.rest.at /\ Settled(At)'
    <3>1. PICK owner \in Host : owner = agent.rest.at /\ Settled(owner)
      BY <2>7
    <3>2. Settled(owner)' /\ At' = owner
      BY <2>2, <2>4, <3>1 DEF Keeps, At
    <3>3. QED
      BY <3>1, <3>2 DEF Settled, Storing
  <2>8. VerifierKnows'
    BY <2>4, <2>5, <2>6, <2>7 DEF VerifierKnows
  <2>9. QED
    BY <2>2, <2>8 DEF DiscoveryInv
<1>2. CASE ~(url.rest.at \in Host /\ url.rest.doc = "directory")
  <2>1. ~settled
    BY <1>2 DEF DirectoryURL, Uri
  <2>2. verifier' = Doing("keys", agent, card, url, None, settled) /\ UNCHANGED <<kv, handler>>
    BY <1>2 DEF AskKeys
  <2>3. VerifierKnows'
    BY <2>1, <2>2 DEF VerifierKnows, Doing
  <2>4. QED
    BY <2>2, <2>3, Untouched DEF DiscoveryInv
<1>3. QED
  BY <1>1, <1>2

LEMMA SettledIsBoolean == \A at : SettledAt(at) \in BOOLEAN
BY DEF SettledAt, Settled

LEMMA DiscoverStep ==
  ASSUME DiscoveryInv, Discover
  PROVE  DiscoveryInv'
<1>1. CASE \E scheme \in Schemes, at \in Host \cup Site : DiscoverDirectory(scheme, at)
  <2>1. PICK scheme \in Schemes, at \in Host \cup Site : DiscoverDirectory(scheme, at)
    BY <1>1
  <2>2. DirectoryURL(scheme, at).rest.at = at /\ DirectoryURL(scheme, at).rest.doc = "directory"
    BY DEF DirectoryURL, Uri
  <2>3. SettledAt(at) => at \in Host /\ Settled(at)
    BY DEF SettledAt
  <2>4. QED
    BY <2>1, <2>2, <2>3, SettledIsBoolean, AskStep DEF DiscoverDirectory
<1>2. CASE \E at \in Host \cup Site : DiscoverCard(at)
  <2>1. PICK at \in Host \cup Site : DiscoverCard(at)
    BY <1>2
  <2>2. /\ verifier'.pc = "card" /\ verifier'.agent = CardURL("https", at)
        /\ verifier'.settled = SettledAt(at) /\ UNCHANGED <<kv, handler>>
    BY <2>1 DEF DiscoverCard, Doing
  <2>3. At' = at
    BY <2>2 DEF At, CardURL, Uri
  <2>4. VerifierKnows'
    BY <2>2, <2>3 DEF VerifierKnows, SettledAt, Settled, Storing
  <2>5. QED
    BY <2>2, <2>4, Untouched DEF DiscoveryInv
<1>3. QED
  BY <1>1, <1>2 DEF Discover

LEMMA FailStep ==
  ASSUME DiscoveryInv, Fails
  PROVE  DiscoveryInv'
<1>1. VerifierKnows'
  BY DEF Fails, VerifierKnows
<1>2. QED
  BY <1>1, Untouched DEF Fails, DiscoveryInv

LEMMA FindStep ==
  ASSUME DiscoveryInv, verifier.pc \in {"card", "keys"}, NEW card, NEW keys, Finds(card, keys),
         verifier.settled => keys = HostKeys(kv[At])
  PROVE  DiscoveryInv'
<1>1. /\ verifier'.pc = "done" /\ verifier'.agent = verifier.agent
      /\ verifier'.settled = verifier.settled /\ verifier'.keys = keys /\ UNCHANGED <<kv, handler>>
  BY DEF Finds
<1>2. VerifierKnows'
  BY <1>1 DEF DiscoveryInv, VerifierKnows, At, Settled, Storing
<1>3. QED
  BY <1>1, <1>2, Untouched DEF DiscoveryInv

LEMMA FetchCardStep ==
  ASSUME DiscoveryInv, verifier.pc = "card", verifier.settled \in BOOLEAN, FetchCard
  PROVE  DiscoveryInv'
<1>1. CASE At \in Host
  <2> DEFINE card == CardOf("https", At)
  <2>1. card.jwks = Undefined /\ card.jwks_uri = DirectoryURL("https", At)
    BY DEF CardOf
  <2>2. CardRead(card)
    BY <1>1 DEF FetchCard, At
  <2>3. CASE Fails
    BY <2>3, FailStep
  <2>4. CASE AskKeys(verifier.agent, Parsed(card), card.jwks_uri, verifier.settled)
    <3>1. card.jwks_uri.rest.doc = "directory"
      BY <2>1 DEF DirectoryURL, Uri
    <3>2. verifier.settled => verifier.agent.rest.at \in Host /\ Settled(verifier.agent.rest.at)
      BY DEF DiscoveryInv, VerifierKnows, At
    <3>3. card.jwks_uri = DirectoryURL("https", verifier.agent.rest.at)
      BY <2>1 DEF At
    <3> HIDE DEF card
    <3>4. QED
      BY <2>4, <3>1, <3>2, <3>3, AskStep
  <2>5. QED
    BY <2>1, <2>2, <2>3, <2>4 DEF CardRead
<1>2. CASE At \notin Host
  <2>1. ~verifier.settled
    BY <1>2 DEF DiscoveryInv, VerifierKnows
  <2>2. PICK card \in Cards : CardRead(card)
    BY <1>2 DEF FetchCard, At
  <2>3. QED
    BY <2>1, <2>2, FailStep, FindStep, AskStep DEF CardRead
<1>3. QED
  BY <1>1, <1>2

LEMMA KeysStep ==
  ASSUME DiscoveryInv, ReceiveKeys \/ \E set \in KeySets : FetchKeys(set)
  PROVE  DiscoveryInv'
<1>1. CASE ReceiveKeys
  <2>1. ASSUME verifier.settled PROVE handler[verifier.handler].key = kv[At]
    <3>1. AwaitsHost(verifier.handler) /\ handler[verifier.handler].pc = "directory"
      BY <1>1, <2>1 DEF ReceiveKeys, Is, DiscoveryInv, VerifierKnows
    <3>2. HandlerKnows(verifier.handler)
      BY <3>1 DEF AwaitsHost, DiscoveryInv, Inv
    <3>3. QED
      BY <3>1, <3>2 DEF AwaitsHost, HandlerKnows
  <2>2. QED
    BY <1>1, <2>1, FindStep DEF ReceiveKeys
<1>2. CASE \E set \in KeySets : FetchKeys(set)
  <2>1. PICK set \in KeySets : FetchKeys(set)
    BY <1>2
  <2>2. ~verifier.settled
    BY <2>1, SitesAssumption DEF FetchKeys, DiscoveryInv, VerifierKnows
  <2>3. QED
    BY <2>1, <2>2, FailStep, FindStep DEF FetchKeys
<1>3. QED
  BY <1>1, <1>2

\* settled is a truth value wherever there is one.
SettledTyped == verifier.pc \in {"card", "keys", "done"} => verifier.settled \in BOOLEAN

LEMMA SettledTypedStep ==
  ASSUME SettledTyped, [DiscoveryNext]_discoveryVars
  PROVE  SettledTyped'
<1>1. CASE UNCHANGED verifier
  BY <1>1 DEF SettledTyped
<1>2. CASE verifier' = Idle \/ Fails
  BY <1>2 DEF Idle, Fails, SettledTyped
<1>3. CASE \E agent, card, url, h : verifier' = Doing("keys", agent, card, url, h, verifier.settled)
           /\ verifier.pc = "card"
  BY <1>3 DEF Doing, SettledTyped
<1>4. CASE \E pc, agent, card, url, h, at : verifier' = Doing(pc, agent, card, url, h, SettledAt(at))
  BY <1>4, SettledIsBoolean DEF Doing, SettledTyped
<1>5. CASE \E card, keys : Finds(card, keys) /\ verifier.pc \in {"card", "keys"}
  BY <1>5 DEF Finds, SettledTyped
<1>6. QED
  <2>1. Discover => \E pc, agent, card, url, h, at : verifier' = Doing(pc, agent, card, url, h, SettledAt(at))
    BY DEF Discover, DiscoverDirectory, DiscoverCard, AskKeys
  <2>2. ASSUME NEW card, CardRead(card)
        PROVE  \/ Fails
               \/ \E parsed, keys : Finds(parsed, keys) /\ verifier.pc \in {"card", "keys"}
               \/ \E agent, parsed, url, h :
                    verifier' = Doing("keys", agent, parsed, url, h, verifier.settled) /\ verifier.pc = "card"
    BY <2>2 DEF CardRead, AskKeys
  <2>3. FetchCard => \E card : CardRead(card)
    BY DEF FetchCard
  <2>4. ReceiveKeys \/ (\E set \in KeySets : FetchKeys(set)) =>
          Fails \/ \E card, keys : Finds(card, keys) /\ verifier.pc \in {"card", "keys"}
    BY DEF ReceiveKeys, FetchKeys
  <2>5. QED
    BY <1>1, <1>2, <1>3, <1>4, <1>5, <2>1, <2>2, <2>3, <2>4
       DEF DiscoveryNext, discoveryVars, Serve, FetchFails, Finish

-------------------------------------------------------------------------------
LEMMA DiscoveryNextInv == DiscoveryInv /\ SettledTyped /\ [DiscoveryNext]_discoveryVars => DiscoveryInv'
<1> SUFFICES ASSUME DiscoveryInv, SettledTyped, [DiscoveryNext]_discoveryVars PROVE DiscoveryInv'
  OBVIOUS
<1>1. CASE UNCHANGED discoveryVars
  <2>1. VerifierKnows'
    BY <1>1 DEF discoveryVars, DiscoveryInv, VerifierKnows, AwaitsHost, At, Settled, Storing
  <2>2. QED
    BY <1>1, <2>1, Untouched DEF discoveryVars, DiscoveryInv
<1>2. CASE Serve
  BY <1>2, ServeStep
<1>3. CASE Discover
  BY <1>3, DiscoverStep
<1>4. CASE FetchCard
  BY <1>4, FetchCardStep DEF FetchCard, CardRead, SettledTyped
<1>5. CASE ReceiveKeys \/ \E set \in KeySets : FetchKeys(set)
  BY <1>5, KeysStep
<1>6. CASE FetchFails
  BY <1>6, FailStep DEF FetchFails
<1>7. CASE Finish
  <2>1. VerifierKnows'
    BY <1>7 DEF Finish, Idle, VerifierKnows
  <2>2. QED
    BY <1>7, <2>1, Untouched DEF Finish, DiscoveryInv
<1>8. QED
  BY <1>1, <1>2, <1>3, <1>4, <1>5, <1>6, <1>7 DEF DiscoveryNext

\* A verifier that sets out when its agent is a host that has settled, and finds keys, finds the
\* one the host holds: by card or directory, any number of other requests going on meanwhile
\* (fetchDirectory against examples/signature-agent-card-and-registry).
THEOREM DiscoveryIsTrue == DiscoverySpec => []DiscoveryFindsStoredKey
<1>1. DiscoveryInit => DiscoveryInv /\ SettledTyped
  BY DiscoveryInitInv DEF DiscoveryInit, SettledTyped, Idle
<1>2. DiscoveryInv /\ SettledTyped /\ [DiscoveryNext]_discoveryVars => DiscoveryInv' /\ SettledTyped'
  BY DiscoveryNextInv, SettledTypedStep
<1>3. DiscoveryInv => DiscoveryFindsStoredKey
  BY DEF DiscoveryInv, VerifierKnows, DiscoveryFindsStoredKey, At
<1>4. QED
  BY <1>1, <1>2, <1>3, PTL DEF DiscoverySpec

-------------------------------------------------------------------------------
(* Whose keys a card brings.                                               *)

\* The card in hand is the agent's, and the keys are on their way from where it says.
CardKnown ==
  /\ verifier.pc = "card" => Protocol(verifier.from) = "https"
  /\ verifier.pc = "keys" /\ verifier.card # Undefined =>
       /\ verifier.card.client_id = verifier.agent /\ verifier.card.jwks = Undefined
       /\ verifier.from = verifier.card.jwks_uri /\ Protocol(verifier.from) = "https"
  /\ KeysAreTheAgents

LEMMA ParsedMembers ==
  ASSUME NEW card
  PROVE  /\ Parsed(card).client_id = card.client_id /\ Parsed(card).jwks_uri = card.jwks_uri
         /\ Parsed(card).jwks = card.jwks
BY DEF Parsed, Restrict

\* A card that is accepted names the URL it came from, and a key set it refers to is at an https URL.
LEMMA AcceptedCard ==
  ASSUME NEW card, NEW url, TsCard(card, url)
  PROVE  /\ card.client_id = url
         /\ card.jwks = Undefined => Protocol(card.jwks_uri) = "https"
<1>1. TsUrl(card.jwks_uri, {"https"}) /\ TsKeyMaterial(card) /\ TsNamesItself(card, url)
  BY DEF TsCard
<1>2. QED
  BY <1>1 DEF TsUrl, TsKeyMaterial, TsNamesItself

LEMMA CardReadKnown ==
  ASSUME CardKnown, verifier.pc = "card", NEW card, CardRead(card)
  PROVE  CardKnown'
<1>1. CASE Fails
  BY <1>1 DEF Fails, CardKnown, KeysAreTheAgents
<1>2. CASE TsCard(card, verifier.agent) /\ card.jwks # Undefined /\ Finds(Parsed(card), card.jwks.keys)
  <2>1. /\ verifier'.pc = "done" /\ verifier'.agent = verifier.agent /\ verifier'.from = verifier.from
        /\ verifier'.card = Parsed(card) /\ verifier'.keys = card.jwks.keys
    BY <1>2 DEF Finds
  <2>2. Protocol(verifier.from) = "https" /\ card.client_id = verifier.agent
    BY <1>2, AcceptedCard DEF CardKnown
  <2>3. QED
    BY <1>2, <2>1, <2>2, ParsedMembers DEF CardKnown, KeysAreTheAgents
<1>3. CASE /\ TsCard(card, verifier.agent) /\ card.jwks = Undefined
           /\ AskKeys(verifier.agent, Parsed(card), card.jwks_uri, verifier.settled)
  <2>1. /\ verifier'.pc = "keys" /\ verifier'.agent = verifier.agent
        /\ verifier'.from = card.jwks_uri /\ verifier'.card = Parsed(card)
    BY <1>3 DEF AskKeys, Doing
  <2>2. card.client_id = verifier.agent /\ Protocol(card.jwks_uri) = "https"
    BY <1>3, AcceptedCard
  <2>3. QED
    BY <1>3, <2>1, <2>2, ParsedMembers DEF CardKnown, KeysAreTheAgents
<1>4. QED
  BY <1>1, <1>2, <1>3 DEF CardRead

LEMMA DiscoverKnown ==
  ASSUME Discover
  PROVE  CardKnown'
<1>1. CASE \E scheme \in Schemes, at \in Host \cup Site : DiscoverDirectory(scheme, at)
  <2>1. verifier'.pc = "keys" /\ verifier'.card = Undefined
    BY <1>1 DEF DiscoverDirectory, AskKeys, Doing
  <2>2. QED
    BY <2>1 DEF CardKnown, KeysAreTheAgents
<1>2. CASE \E at \in Host \cup Site : DiscoverCard(at)
  <2>1. PICK at \in Host \cup Site : DiscoverCard(at)
    BY <1>2
  <2>2. verifier'.pc = "card" /\ verifier'.from = CardURL("https", at)
    BY <2>1 DEF DiscoverCard, Doing
  <2>3. Protocol(CardURL("https", at)) = "https"
    BY DEF Protocol, CardURL, Uri
  <2>4. QED
    BY <2>2, <2>3 DEF CardKnown, KeysAreTheAgents
<1>3. QED
  BY <1>1, <1>2 DEF Discover

\* The key set that was asked for has come: what the verifier knew of it holds of the result.
LEMMA FoundKnown ==
  ASSUME CardKnown, verifier.pc = "keys", NEW keys, Finds(verifier.card, keys)
  PROVE  CardKnown'
<1>1. /\ verifier'.pc = "done" /\ verifier'.agent = verifier.agent /\ verifier'.from = verifier.from
      /\ verifier'.card = verifier.card
  BY DEF Finds
<1>2. QED
  BY <1>1 DEF CardKnown, KeysAreTheAgents

LEMMA CardKnownStep == CardKnown /\ [DiscoveryNext]_discoveryVars => CardKnown'
<1> SUFFICES ASSUME CardKnown, [DiscoveryNext]_discoveryVars PROVE CardKnown'
  OBVIOUS
<1>1. CASE UNCHANGED verifier
  BY <1>1 DEF CardKnown, KeysAreTheAgents
<1>2. CASE Discover
  BY <1>2, DiscoverKnown
<1>3. CASE FetchCard
  BY <1>3, CardReadKnown DEF FetchCard
<1>4. CASE Fails
  BY <1>4 DEF Fails, CardKnown, KeysAreTheAgents
<1>5. CASE ReceiveKeys
  BY <1>5, FoundKnown DEF ReceiveKeys
<1>6. CASE \E set \in KeySets : FetchKeys(set)
  BY <1>4, <1>6, FoundKnown DEF FetchKeys
<1>7. CASE Finish
  BY <1>7 DEF Finish, Idle, CardKnown, KeysAreTheAgents
<1>8. QED
  BY <1>1, <1>2, <1>3, <1>4, <1>5, <1>6, <1>7 DEF DiscoveryNext, discoveryVars, Serve, FetchFails

\* Keys found by a card are those of a card that names the URL it was fetched from, and come over
\* https from where it says, for any sites and cards (parseSignatureAgentCard, fetchDirectory).
THEOREM CardLeadsToOwnKeys == DiscoverySpec => []KeysAreTheAgents
<1>1. DiscoveryInit => CardKnown
  BY DEF DiscoveryInit, Idle, CardKnown, KeysAreTheAgents
<1>2. CardKnown => KeysAreTheAgents
  BY DEF CardKnown
<1>3. QED
  BY <1>1, <1>2, CardKnownStep, PTL DEF DiscoverySpec

-------------------------------------------------------------------------------
(***************************************************************************)
(* Cards and registries.  The two parsers of cards are compared member by  *)
(* member.  What a registry is read as is what its lines are stripped to,  *)
(* selected, which is shown of a selection's first elements, then of one   *)
(* more: the least number of them it is wrong of does not exist.           *)
(***************************************************************************)

\* A URL plainly written: new URL refuses it, or has a scheme that is wanted, where the crate does.
LEMMA UrlsAgree ==
  ASSUME NEW value, NEW schemes \in SUBSET {"http", "https", "data"}, Plain(value), value # Text
  PROVE  TsUrl(value, schemes) <=> RustUrl(value, schemes)
<1>1. CASE value \in {Undefined, Wrong}
  BY <1>1 DEF Plain, TsUrl, RustUrl, TsString, RustString, Missing
<1>2. CASE value \notin {Undefined, Wrong}
  <2>1. value # Null /\ PlainUri(value)
    BY <1>2 DEF Plain
  <2>2. Parses(value) /\ Protocol(value) \in schemes <=> ValidUri(value, schemes)
    BY <2>1 DEF PlainUri, Parses, Protocol, ValidUri, HttpUri, SpecialUri, BeginsWithScheme, Special
  <2>3. QED
    BY <1>2, <2>1, <2>2 DEF TsUrl, RustUrl, TsString, RustString, Missing
<1>3. QED
  BY <1>1, <1>2

LEMMA ContactsAgree ==
  ASSUME NEW card, IsCard(card), Comparable(card)
  PROVE  TsContacts(card.contacts) <=> RustContacts(card.contacts)
<1>1. card.contacts # Null
  BY DEF Comparable
<1>2. CASE card.contacts \in {Undefined, Wrong}
  BY <1>1, <1>2 DEF TsContacts, RustContacts, Missing
<1>3. CASE card.contacts \notin {Undefined, Wrong}
  <2>1. ASSUME NEW contact \in ToSet(card.contacts)
        PROVE  TsString(contact) /\ Parses(contact) <=>
                 contact \notin {Null, Wrong} /\ HasAnyScheme(contact)
    <3>1. contact # Null /\ (contact # Wrong => PlainContact(contact))
      BY <1>1, <1>3 DEF Comparable
    <3>2. PlainContact(contact) => (Parses(contact) <=> HasAnyScheme(contact))
      BY DEF PlainContact, Parses, HasAnyScheme, Special
    <3>3. QED
      BY <3>1, <3>2 DEF TsString
  <2>2. QED
    BY <1>1, <1>3, <2>1 DEF TsContacts, RustContacts, Missing
<1>4. QED
  BY <1>2, <1>3

LEMMA JwksAgree ==
  ASSUME NEW card, Comparable(card)
  PROVE  TsJwks(card.jwks) <=> RustJwks(card.jwks)
BY DEF Comparable, TsJwks, RustJwks, Thumbprintable, Missing

LEMMA MetadataAgree ==
  ASSUME NEW card, IsCard(card), Comparable(card)
  PROVE  TsWebBotAuth(card.web_bot_auth) <=> RustWebBotAuth(card.web_bot_auth)
<1> PICK value : value = card.web_bot_auth
  OBVIOUS
<1>1. value # Null
  BY DEF Comparable
<1>2. CASE value \in {Undefined, Wrong}
  BY <1>1, <1>2 DEF TsWebBotAuth, RustWebBotAuth, Missing
<1>3. CASE value \notin {Undefined, Wrong}
  <2>1. /\ value.trigger # Null /\ value.text # Null /\ value.list # Null
        /\ Plain(value.ips_uri) /\ value.ips_uri # Text
    BY <1>1, <1>3 DEF Comparable, IsCard
  <2>2. TsUrl(value.ips_uri, {"https"}) <=> RustUrl(value.ips_uri, {"https"})
    BY <2>1, UrlsAgree
  <2>3. QED
    BY <1>1, <1>3, <2>1, <2>2 DEF TsWebBotAuth, RustWebBotAuth, TsString, RustString, Missing
<1>4. QED
  BY <1>2, <1>3

\* Who the card of is and where its keys are: the two libraries decide it alike.
LEMMA IdentitiesAgree ==
  ASSUME NEW card, IsCard(card), Comparable(card), NEW url
  PROVE  /\ TsKeyMaterial(card) <=> card.jwks_uri \in Missing \/ card.jwks \in Missing
         /\ TsNamesItself(card, url) <=> card.client_id \in Missing \cup {url}
         /\ \E member \in RustMember : card[member] \notin Missing
<1>1. /\ card.client_id \notin {Undefined, Null} /\ card.jwks_uri # Null /\ card.jwks # Null
      /\ card.jwks # Undefined \/ card.jwks_uri # Undefined
  BY DEF Comparable, Plain, CardMember
<1>2. "client_id" \in RustMember
  BY DEF RustMember, CardMember
<1>3. QED
  BY <1>1, <1>2 DEF TsKeyMaterial, TsNamesItself, Missing

LEMMA CardsAgree ==
  ASSUME NEW card, IsCard(card), Comparable(card), NEW url
  PROVE  TsCard(card, url) <=> RustCard(card, url)
<1>1. /\ Plain(card.client_id) /\ Plain(card.client_name) /\ Plain(card.client_uri)
      /\ Plain(card.logo_uri) /\ Plain(card.jwks_uri)
  BY DEF Comparable, CardMember
<1>2. /\ card.client_id # Text /\ card.client_uri # Text /\ card.logo_uri # Text
      /\ card.jwks_uri # Text
  BY DEF IsCard, UrlMember
<1>3. /\ TsUrl(card.client_id, {"https"}) <=> RustUrl(card.client_id, {"https"})
      /\ TsUrl(card.client_uri, {"http", "https"}) <=> RustUrl(card.client_uri, {"http", "https"})
      /\ TsUrl(card.logo_uri, {"http", "https", "data"})
           <=> RustUrl(card.logo_uri, {"http", "https", "data"})
      /\ TsUrl(card.jwks_uri, {"https"}) <=> RustUrl(card.jwks_uri, {"https"})
  BY <1>1, <1>2, UrlsAgree
<1>4. TsString(card.client_name) <=> RustString(card.client_name)
  BY <1>1 DEF Plain, TsString, RustString
<1>5. card # Wrong /\ TsUrl(card.ips_uri, {"https"})
  BY DEF Comparable
<1>6. QED
  BY <1>3, <1>4, <1>5, ContactsAgree, JwksAgree, MetadataAgree, IdentitiesAgree
     DEF TsCard, RustCard

-------------------------------------------------------------------------------
LEMMA SmallestExists ==
  ASSUME NEW S \in SUBSET Nat, S # {}
  PROVE  \E i \in S : \A j \in S : i <= j
<1>1. IsWellFoundedOn(OpToRel(<, Nat), Nat)
  BY NatLessThanWellFounded
<1>2. \E i \in S : \A j \in S : ~ (<<j, i>> \in OpToRel(<, Nat))
  BY <1>1, WFMin
<1>3. \A i, j \in Nat : ~ (<<j, i>> \in OpToRel(<, Nat)) => i <= j
  BY DEF OpToRel
<1>4. QED
  BY <1>2, <1>3

\* The selections after each element exist: they are defined up to any length.
LEMMA PicksDefined ==
  ASSUME NEW s, Len(s) \in Nat, NEW kept
  PROVE  /\ Picks(s, kept)[0] = <<>>
         /\ \A i \in 1 .. Len(s) :
              Picks(s, kept)[i] = IF s[i] \in kept THEN Append(Picks(s, kept)[i - 1], s[i])
                                  ELSE Picks(s, kept)[i - 1]
<1> DEFINE After(q, i) == IF s[i] \in kept THEN Append(q, s[i]) ELSE q
           Steps(f, n) == [i \in 0 .. n |-> IF i = 0 THEN <<>> ELSE After(f[i - 1], i)]
           Lacking == { n \in 0 .. Len(s) : ~ \E f : f = Steps(f, n) }
<1>1. ASSUME Lacking # {} PROVE FALSE
  <2>1. PICK n \in Lacking : \A m \in Lacking : n <= m
    <3>1. Lacking \in SUBSET Nat
      OBVIOUS
    <3>2. QED
      BY <1>1, <3>1, SmallestExists
  <2>2. CASE n = 0
    <3> DEFINE f == [i \in 0 .. 0 |-> <<>>]
    <3>1. f = Steps(f, 0)
      OBVIOUS
    <3>2. QED
      BY <2>1, <2>2, <3>1
  <2>3. CASE n # 0
    <3> HIDE DEF After
    <3>1. n - 1 \in 0 .. Len(s) /\ n - 1 \notin Lacking /\ n \in Nat
      BY <2>1, <2>3
    <3>2. PICK f : f = Steps(f, n - 1)
      BY <3>1
    <3> DEFINE g == [i \in 0 .. n |-> IF i = n THEN After(f[n - 1], n) ELSE f[i]]
    <3>3. ASSUME NEW i \in 0 .. n PROVE g[i] = Steps(g, n)[i]
      <4>1. CASE i = 0
        BY <2>3, <3>1, <3>2, <4>1
      <4>2. CASE i # 0
        <5>1. i - 1 \in 0 .. n /\ i - 1 # n
          BY <3>1, <4>2
        <5>2. g[i - 1] = f[i - 1]
          BY <5>1
        <5>3. Steps(g, n)[i] = After(f[i - 1], i)
          BY <4>2, <5>2
        <5>4. CASE i = n
          BY <5>3, <5>4
        <5>5. CASE i # n
          <6>1. i \in 0 .. n - 1
            BY <3>1, <5>5
          <6>2. f[i] = After(f[i - 1], i)
            BY <3>2, <4>2, <6>1
          <6>3. QED
            BY <5>3, <5>5, <6>2
        <5>6. QED
          BY <5>4, <5>5
      <4>3. QED
        BY <4>1, <4>2
    <3>4. g = Steps(g, n)
      BY <3>3
    <3>5. QED
      BY <2>1, <3>4
  <2>4. QED
    BY <2>2, <2>3
<1>2. PICK f : f = Steps(f, Len(s))
  <2>1. Len(s) \notin Lacking /\ Len(s) \in 0 .. Len(s)
    BY <1>1
  <2>2. QED
    BY <2>1
<1>3. Picks(s, kept) = Steps(Picks(s, kept), Len(s))
  BY <1>2 DEF Picks
<1> HIDE DEF After
<1>4. /\ Picks(s, kept)[0] = <<>>
      /\ \A i \in 1 .. Len(s) : Picks(s, kept)[i] = After(Picks(s, kept)[i - 1], i)
  BY <1>3
<1>5. QED
  BY <1>4 DEF After

\* What is selected are the elements of the sequence that are kept.
LEMMA PicksAreKept ==
  ASSUME NEW S, NEW s \in Seq(S), NEW kept
  PROVE  \A n \in 0 .. Len(s) : Picks(s, kept)[n] \in Seq(S \cap kept)
<1> DEFINE Other == { n \in 0 .. Len(s) : Picks(s, kept)[n] \notin Seq(S \cap kept) }
<1>1. Len(s) \in Nat
  OBVIOUS
<1>2. SUFFICES ASSUME Other # {} PROVE FALSE
  OBVIOUS
<1>3. PICK n \in Other : \A m \in Other : n <= m
  <2>1. Other \in SUBSET Nat
    BY <1>1
  <2>2. QED
    BY <1>2, <2>1, SmallestExists
<1>4. CASE n = 0
  <2>1. Picks(s, kept)[0] = <<>> /\ <<>> \in Seq(S \cap kept)
    BY <1>1, PicksDefined
  <2>2. QED
    BY <1>3, <1>4, <2>1
<1>5. CASE n # 0
  <2>1. n \in 1 .. Len(s) /\ n - 1 \in 0 .. Len(s) /\ n - 1 \notin Other
    BY <1>1, <1>3, <1>5
  <2>2. PICK q : q = Picks(s, kept)[n - 1] /\ q \in Seq(S \cap kept)
    BY <2>1
  <2>3. Picks(s, kept)[n] = IF s[n] \in kept THEN Append(q, s[n]) ELSE q
    BY <1>1, <2>1, <2>2, PicksDefined
  <2>4. s[n] \in S
    BY <2>1, ElementOfSeq
  <2>5. s[n] \in kept => Append(q, s[n]) \in Seq(S \cap kept)
    BY <2>2, <2>4
  <2>6. QED
    BY <1>3, <2>2, <2>3, <2>5
<1>6. QED
  BY <1>4, <1>5

LEMMA SelectIsKept ==
  ASSUME NEW S, NEW s \in Seq(S), NEW kept
  PROVE  Select(s, kept) \in Seq(S \cap kept)
BY PicksAreKept, LenProperties DEF Select

\* Where every element is kept, the selection is the sequence.
LEMMA SelectAll ==
  ASSUME NEW S, NEW s \in Seq(S), NEW kept, \A i \in 1 .. Len(s) : s[i] \in kept
  PROVE  Select(s, kept) = s
<1> DEFINE Other == { n \in 0 .. Len(s) : Picks(s, kept)[n] # SubSeq(s, 1, n) }
<1>1. Len(s) \in Nat
  OBVIOUS
<1>2. ASSUME Other # {} PROVE FALSE
  <2>1. PICK n \in Other : \A m \in Other : n <= m
    <3>1. Other \in SUBSET Nat
      BY <1>1
    <3>2. QED
      BY <1>2, <3>1, SmallestExists
  <2>2. CASE n = 0
    <3>1. SubSeq(s, 1, 0) = <<>>
      BY SubSeqEmpty
    <3>2. QED
      BY <1>1, <2>1, <2>2, <3>1, PicksDefined
  <2>3. CASE n # 0
    <3>1. n \in 1 .. Len(s) /\ n - 1 \in 0 .. Len(s) /\ n - 1 \notin Other
      BY <1>1, <2>1, <2>3
    <3>2. Picks(s, kept)[n] = Append(SubSeq(s, 1, n - 1), s[n])
      BY <1>1, <3>1, PicksDefined
    <3>3. Append(SubSeq(s, 1, n - 1), s[n]) = SubSeq(s, 1, n)
      BY <3>1
    <3>4. QED
      BY <2>1, <3>2, <3>3
  <2>4. QED
    BY <2>2, <2>3
<1>3. Picks(s, kept)[Len(s)] = SubSeq(s, 1, Len(s))
  BY <1>1, <1>2
<1>4. QED
  BY <1>3, SubSeqFull DEF Select

-------------------------------------------------------------------------------
LEMMA Extremes ==
  ASSUME NEW S \in SUBSET Int, NEW least \in S, NEW greatest \in S,
         \A y \in S : least <= y /\ greatest >= y
  PROVE  Min(S) = least /\ Max(S) = greatest
<1>1. Min(S) \in S /\ \A y \in S : Min(S) <= y
  BY DEF Min
<1>2. Max(S) \in S /\ \A y \in S : Max(S) >= y
  BY DEF Max
<1>3. Min(S) \in Int /\ Max(S) \in Int /\ least \in Int /\ greatest \in Int
  BY <1>1, <1>2
<1>4. Min(S) <= least /\ least <= Min(S) /\ Max(S) >= greatest /\ greatest >= Max(S)
  BY <1>1, <1>2
<1>5. QED
  BY <1>3, <1>4

LEMMA TrimBlank ==
  ASSUME NEW line, \A i \in DOMAIN line : line[i] = Blank
  PROVE  Trim(line) = <<>>
BY DEF Trim

\* Blanks before and after an address are trimmed.
LEMMA TrimLeaves ==
  ASSUME NEW S, NEW line \in Seq(S), NEW address \in Seq(S), NEW p \in Nat,
         Len(address) > 0, Len(line) >= p + Len(address),
         address[1] # Blank, address[Len(address)] # Blank,
         \A i \in 1 .. Len(address) : line[p + i] = address[i],
         \A i \in 1 .. Len(line) : i <= p \/ i > p + Len(address) => line[i] = Blank
  PROVE  Trim(line) = address
<1> DEFINE solid == { i \in DOMAIN line : line[i] # Blank }
           first == p + 1
           last == p + Len(address)
<1>1. Len(line) \in Nat /\ Len(address) \in Nat /\ DOMAIN line = 1 .. Len(line)
  BY LenProperties
<1>2. first \in solid /\ last \in solid /\ solid \in SUBSET Int
  <2>1. line[p + 1] = address[1] /\ line[p + Len(address)] = address[Len(address)]
    BY <1>1
  <2>2. QED
    BY <1>1, <2>1
<1>3. \A i \in solid : first <= i /\ last >= i
  BY <1>1
<1>4. Min(solid) = first /\ Max(solid) = last
  <2> HIDE DEF solid, first, last
  <2>1. QED
    BY <1>2, <1>3, Extremes
<1>5. SubSeq(line, first, last) = address
  <2>1. \A i \in first .. last : line[i] \in S
    BY <1>1, ElementOfSeq
  <2>2. /\ SubSeq(line, first, last) \in Seq(S) /\ Len(SubSeq(line, first, last)) = Len(address)
        /\ \A i \in 1 .. Len(address) : SubSeq(line, first, last)[i] = line[p + i]
    <3>1. first \in Int /\ last \in Int /\ first <= last /\ last - first + 1 = Len(address)
      BY <1>1
    <3>2. /\ SubSeq(line, first, last) \in Seq(S)
          /\ Len(SubSeq(line, first, last)) = IF first <= last THEN last - first + 1 ELSE 0
          /\ \A i \in 1 .. last - first + 1 :
               SubSeq(line, first, last)[i] = line[first + i - 1]
      <4> HIDE DEF first, last
      <4>1. QED
        BY <2>1, <3>1, SubSeqProperties
    <3>3. \A i \in 1 .. Len(address) : first + i - 1 = p + i
      BY <1>1
    <3>4. \A i \in 1 .. Len(address) : SubSeq(line, first, last)[i] = line[p + i]
      BY <3>1, <3>2, <3>3
    <3>5. QED
      BY <3>1, <3>2, <3>4
  <2>3. QED
    BY <2>2, SeqEqual
<1>6. QED
  BY <1>2, <1>4, <1>5 DEF Trim

\* What a line is written with.
Symbol == {Hash, Blank} \cup [scheme : {"http", "https", "data", "none"},
                              rest : {Text} \cup [at : Site, doc : {"card"}], manner : SUBSET Manner]

LEMMA SymbolsDiffer ==
  /\ Hash # Blank
  /\ \A scheme, rest : Uri(scheme, rest) # Hash /\ Uri(scheme, rest) # Blank
  /\ \A uri, manner : WrittenAs(uri, manner) # Hash /\ WrittenAs(uri, manner) # Blank
<1>1. Hash # Blank
  BY DEF Hash, Blank
<1>2. "rest" \notin DOMAIN Hash /\ "rest" \notin DOMAIN Blank
  BY DEF Hash, Blank
<1>3. ASSUME NEW scheme, NEW rest PROVE Uri(scheme, rest) # Hash /\ Uri(scheme, rest) # Blank
  <2>1. "rest" \in DOMAIN Uri(scheme, rest)
    BY DEF Uri
  <2>2. QED
    BY <1>2, <2>1
<1>4. ASSUME NEW uri, NEW manner PROVE WrittenAs(uri, manner) # Hash /\ WrittenAs(uri, manner) # Blank
  <2>1. "rest" \in DOMAIN WrittenAs(uri, manner)
    BY DEF WrittenAs
  <2>2. QED
    BY <1>2, <2>1
<1>5. QED
  BY <1>1, <1>3, <1>4

LEMMA OneAndTwo ==
  ASSUME NEW S, NEW x \in S, NEW y \in S, NEW z \in S
  PROVE  <<x>> \o <<y, z>> = <<x, y, z>>
<1>1. <<x>> \in Seq(S) /\ <<y, z>> \in Seq(S) /\ <<x, y, z>> \in Seq(S)
  OBVIOUS
<1>2. Len(<<x>> \o <<y, z>>) = 3 /\ Len(<<x, y, z>>) = 3 /\ <<x>> \o <<y, z>> \in Seq(S)
  BY <1>1, ConcatProperties
<1>3. /\ (<<x>> \o <<y, z>>)[1] = x /\ (<<x>> \o <<y, z>>)[2] = y
      /\ (<<x>> \o <<y, z>>)[3] = z
  BY <1>1, ConcatProperties
<1>4. \A i \in 1 .. 3 : (<<x>> \o <<y, z>>)[i] = <<x, y, z>>[i]
  BY <1>3
<1>5. QED
  BY <1>1, <1>2, <1>4, SeqEqual

\* An address is a URL or nothing; a "#" in it comes right after the URL.
LEMMA AddressShape ==
  ASSUME NEW line \in Written
  PROVE  /\ Address(line) \in Seq(Symbol)
         /\ line.uri = Undefined => Address(line) = <<>>
         /\ line.uri # Undefined =>
              /\ Len(Address(line)) \in {1, 3} /\ Address(line)[1] = line.uri
              /\ \A i \in DOMAIN Address(line) : Address(line)[i] # Blank
              /\ \A i \in DOMAIN Address(line) : Address(line)[i] = Hash => i = 2
<1>1. CASE line.uri = Undefined
  BY <1>1 DEF Address
<1>2. CASE line.uri # Undefined
  <2>1. PICK scheme \in {"http", "https", "data"}, at \in Site, manner \in SUBSET (Manner \ {"indented"}) :
          line.uri = WrittenAs(CardURL(scheme, at), manner)
    BY <1>2 DEF Written
  <2>2. line.uri \in Symbol /\ Hash \in Symbol /\ Uri("none", Text) \in Symbol
    BY <2>1 DEF WrittenAs, CardURL, Uri, Symbol
  <2>3. line.uri # Hash /\ line.uri # Blank /\ Uri("none", Text) # Blank /\ Uri("none", Text) # Hash
        /\ Hash # Blank
    BY <2>1, SymbolsDiffer
  <2>4. CASE line.fragment
    <3>1. Address(line) = <<line.uri>> \o <<Hash, Uri("none", Text)>>
      BY <1>2, <2>4 DEF Address
    <3>2. Address(line) = <<line.uri, Hash, Uri("none", Text)>>
      BY <2>2, <3>1, OneAndTwo
    <3>3. QED
      BY <1>2, <2>2, <2>3, <3>2
  <2>5. CASE ~line.fragment
    <3>1. Address(line) = <<line.uri>>
      BY <1>2, <2>5 DEF Address
    <3>2. QED
      BY <1>2, <2>2, <2>3, <3>1
  <2>6. QED
    BY <2>4, <2>5
<1>3. QED
  BY <1>1, <1>2

\* Without its remark a line is its address and blanks.
LEMMA StrippedLine ==
  ASSUME NEW line \in Written
  PROVE  StripComment(Render(line)) = Address(line)
<1>1. PICK indent, address, remark :
      /\ indent = IF line.indent THEN <<Blank>> ELSE <<>>
      /\ address = Address(line) /\ remark = Remark(line)
  OBVIOUS
<1>2. PICK text : text = indent \o address \o remark
  OBVIOUS
<1>3. Render(line) = text
  BY <1>1, <1>2 DEF Render
<1>4. PICK p, a, r : p = Len(indent) /\ a = Len(address) /\ r = Len(remark)
  OBVIOUS
<1>5. /\ indent \in Seq(Symbol) /\ p \in {0, 1}
      /\ \A i \in 1 .. p : indent[i] = Blank
  <2>1. Blank \in Symbol
    BY DEF Symbol
  <2>2. CASE line.indent
    BY <1>1, <1>4, <2>1, <2>2
  <2>3. CASE ~line.indent
    BY <1>1, <1>4, <2>3
  <2>4. QED
    BY <2>2, <2>3
<1>6. /\ address \in Seq(Symbol) /\ a \in Nat
      /\ line.uri = Undefined => a = 0 /\ address = <<>>
      /\ line.uri # Undefined =>
           /\ a \in {1, 3}
           /\ \A i \in 1 .. a : address[i] # Blank
           /\ \A i \in 1 .. a : address[i] = Hash => i = 2
  <2>1. address \in Seq(Symbol) /\ DOMAIN address = 1 .. a /\ a \in Nat
    BY <1>1, <1>4, AddressShape, LenProperties
  <2>2. line.uri = Undefined => a = 0 /\ address = <<>>
    BY <1>1, <1>4, AddressShape, EmptySeq
  <2>3. line.uri # Undefined => a \in {1, 3}
    BY <1>1, <1>4, AddressShape
  <2>4. ASSUME line.uri # Undefined, NEW i \in 1 .. a
        PROVE  address[i] # Blank /\ (address[i] = Hash => i = 2)
    BY <1>1, <2>1, <2>4, AddressShape
  <2>5. QED
    BY <2>1, <2>2, <2>3, <2>4
<1>7. /\ remark \in Seq(Symbol) /\ Hash # Blank
      /\ ~line.remark => remark = <<>>
      /\ line.remark /\ line.uri = Undefined => remark = <<Hash, Blank>>
      /\ line.remark /\ line.uri # Undefined => remark = <<Blank, Hash, Blank>>
  <2>1. Hash # Blank /\ Hash \in Symbol /\ Blank \in Symbol
    BY SymbolsDiffer DEF Symbol
  <2>2. CASE ~line.remark
    BY <1>1, <2>1, <2>2 DEF Remark
  <2>3. CASE line.remark /\ line.uri = Undefined
    <3>1. remark = <<>> \o <<Hash, Blank>>
      BY <1>1, <2>3 DEF Remark
    <3>2. remark = <<Hash, Blank>> /\ <<Hash, Blank>> \in Seq(Symbol)
      BY <2>1, <3>1, ConcatEmptySeq
    <3>3. QED
      BY <2>1, <2>3, <3>2
  <2>4. CASE line.remark /\ line.uri # Undefined
    <3>1. remark = <<Blank>> \o <<Hash, Blank>>
      BY <1>1, <2>4 DEF Remark
    <3>2. remark = <<Blank, Hash, Blank>> /\ <<Blank, Hash, Blank>> \in Seq(Symbol)
      BY <2>1, <3>1, OneAndTwo
    <3>3. QED
      BY <2>1, <2>4, <3>2
  <2>5. QED
    BY <2>2, <2>3, <2>4 DEF Written
<1>8. /\ text \in Seq(Symbol) /\ Len(text) = p + a + r
      /\ \A i \in 1 .. p : text[i] = Blank
      /\ \A i \in 1 .. a : text[p + i] = address[i]
      /\ \A i \in 1 .. r : text[p + a + i] = remark[i]
  BY <1>2, <1>4, <1>5, <1>6, <1>7, ConcatProperties
<1>9. PICK m \in Nat : m = p + a
  BY <1>5, <1>6
<1>10. /\ r \in Nat /\ DOMAIN text = 1 .. (m + r) /\ Len(text) = m + r
      /\ \A i \in 1 .. r : text[m + i] = remark[i]
  BY <1>4, <1>9, <1>7, <1>8, LenProperties
\* No comment begins before the address is over ...
<1>11. ASSUME NEW i \in CommentsAt(text) PROVE i \in (m + 1) .. (m + r) /\ text[i] = Hash
  <2>1. i \in 1 .. (m + r) /\ text[i] = Hash /\ (i = 1 \/ text[i - 1] = Blank)
    BY <1>10, <1>11, <1>9 DEF CommentsAt
  <2>2. SUFFICES ASSUME i <= m PROVE FALSE
    BY <1>9, <1>5, <1>6, <1>10, <2>1
  <2>3. i > p /\ i - p \in 1 .. a /\ address[i - p] = Hash
    BY <1>9, <1>5, <1>6, <1>7, <1>8, <2>1, <2>2
  <2>4. i - p = 2 /\ i \in Nat /\ a \in {1, 3} /\ 2 \in 1 .. a
    <3>1. line.uri # Undefined
      BY <1>6, <2>3
    <3>2. i - p = 2
      BY <1>6, <2>3, <3>1
    <3>3. QED
      BY <1>6, <2>1, <2>3, <3>1, <3>2
  <2>5. text[i - 1] = address[1] /\ address[1] # Blank /\ i # 1
    <3>1. i - 1 = p + 1 /\ 1 \in 1 .. a /\ i # 1
      BY <1>5, <2>4
    <3>2. line.uri # Undefined
      BY <1>6, <2>4
    <3>3. QED
      BY <1>6, <1>8, <3>1, <3>2
  <2>6. QED
    BY <2>1, <2>5
\* ... and the remark is one.
<1>12. CASE ~line.remark
  <2>1. r = 0
    BY <1>4, <1>7, <1>12, EmptySeq
  <2>2. CommentsAt(text) = {}
    BY <1>9, <1>11, <2>1
  <2>3. StripComment(text) = Trim(text)
    BY <2>2 DEF StripComment
  <2>4. CASE line.uri = Undefined
    <3>1. \A i \in DOMAIN text : text[i] = Blank
      BY <1>9, <1>5, <1>6, <1>8, <1>10, <2>1, <2>4
    <3>2. QED
      BY <1>3, <1>6, <1>1, <2>3, <2>4, <3>1, TrimBlank
  <2>5. CASE line.uri # Undefined
    <3>1. \A i \in 1 .. Len(text) : i <= p \/ i > p + a => text[i] = Blank
      BY <1>9, <1>5, <1>6, <1>8, <1>10, <2>1
    <3>2. a > 0 /\ Len(text) >= p + a /\ address[1] # Blank /\ address[a] # Blank /\ p \in Nat
      BY <1>9, <1>5, <1>6, <1>10, <2>1, <2>5
    <3>3. a = Len(address) /\ text \in Seq(Symbol) /\ address \in Seq(Symbol)
          /\ \A i \in 1 .. a : text[p + i] = address[i]
      BY <1>6, <1>8, <1>4
    <3>4. Trim(text) = address
      BY <3>1, <3>2, <3>3, TrimLeaves
    <3>5. QED
      BY <1>3, <1>1, <2>3, <3>4
  <2>6. QED
    BY <2>4, <2>5
<1>13. CASE line.remark /\ line.uri # Undefined
  <2>1. r = 3 /\ remark[1] = Blank /\ remark[2] = Hash /\ remark[3] = Blank
    BY <1>4, <1>7, <1>13
  <2>2. text[m + 1] = Blank /\ text[m + 2] = Hash /\ text[m + 3] = Blank
    <3>1. 1 \in 1 .. r /\ 2 \in 1 .. r /\ 3 \in 1 .. r
      BY <2>1
    <3>2. QED
      BY <1>10, <2>1, <3>1
  <2>3. CommentsAt(text) = {m + 2}
    <3>1. /\ m + 2 \in DOMAIN text /\ m + 2 - 1 = m + 1
          /\ \A i \in (m + 1) .. (m + r) : i \in {m + 1, m + 2, m + 3}
      BY <1>9, <1>10, <2>1
    <3>2. m + 2 \in CommentsAt(text)
      BY <2>2, <3>1 DEF CommentsAt
    <3>3. ASSUME NEW i \in CommentsAt(text) PROVE i = m + 2
      BY <1>7, <1>11, <2>2, <3>1
    <3>4. QED
      BY <3>2, <3>3
  <2>4. Min(CommentsAt(text)) = m + 2 /\ m + 2 - 1 = m + 1
    <3>1. /\ CommentsAt(text) \in SUBSET Int /\ m + 2 \in CommentsAt(text) /\ m + 2 - 1 = m + 1
          /\ \A i \in CommentsAt(text) : m + 2 <= i /\ m + 2 >= i
      BY <1>9, <2>3
    <3>2. QED
      BY <3>1, Extremes
  <2>5. PICK cut : cut = SubSeq(text, 1, m + 1)
    OBVIOUS
  <2>6. StripComment(text) = Trim(cut)
    BY <2>3, <2>4, <2>5 DEF StripComment
  <2>7. cut \in Seq(Symbol) /\ Len(cut) = m + 1 /\ \A i \in 1 .. (m + 1) : cut[i] = text[i]
    <3>1. \A i \in 1 .. (m + 1) : i \in 1 .. Len(text)
      BY <1>9, <1>10, <2>1
    <3>2. \A i \in 1 .. (m + 1) : text[i] \in Symbol
      BY <1>8, <3>1, ElementOfSeq
    <3>3. m + 1 \in Int /\ 1 \in Int /\ 1 <= m + 1 /\ m + 1 - 1 + 1 = m + 1
      BY <1>9
    <3>4. \A i \in 1 .. (m + 1) : 1 + i - 1 = i
      BY <1>9
    <3>5. QED
      BY <2>5, <3>2, <3>3, <3>4, SubSeqProperties
  <2>8. /\ \A i \in 1 .. Len(cut) : i <= p \/ i > p + a => cut[i] = Blank
        /\ \A i \in 1 .. a : cut[p + i] = address[i]
    BY <1>9, <1>5, <1>6, <1>8, <2>2, <2>7
  <2>9. a > 0 /\ Len(cut) >= p + a /\ address[1] # Blank /\ address[a] # Blank /\ p \in Nat
    BY <1>9, <1>5, <1>6, <1>13, <2>7
  <2>10. Trim(cut) = address
    <3>1. a = Len(address) /\ cut \in Seq(Symbol) /\ address \in Seq(Symbol)
      BY <1>6, <1>4, <2>7
    <3>2. QED
      BY <2>8, <2>9, <3>1, TrimLeaves
  <2>11. QED
    BY <1>3, <1>1, <2>6, <2>10
<1>14. CASE line.remark /\ line.uri = Undefined
  <2>1. r = 2 /\ remark[1] = Hash /\ remark[2] = Blank
    <3>1. remark = <<Hash, Blank>>
      BY <1>7, <1>14
    <3>2. QED
      BY <1>4, <3>1
  <2>2. m = p
    BY <1>9, <1>5, <1>6, <1>14
  <2>3. text[p + 1] = Hash /\ text[p + 2] = Blank
    <3>1. 1 \in 1 .. r /\ 2 \in 1 .. r
      BY <2>1
    <3>2. QED
      BY <1>10, <2>1, <2>2, <3>1
  <2>4. CommentsAt(text) = {p + 1}
    <3>1. /\ p + 1 \in DOMAIN text /\ p + 1 - 1 = p
          /\ \A i \in (m + 1) .. (m + r) : i \in {p + 1, p + 2}
      BY <1>9, <1>10, <2>1, <2>2
    <3>2. p = 0 \/ (p \in 1 .. p /\ text[p] = Blank)
      BY <1>5, <1>8
    <3>3. p + 1 \in CommentsAt(text)
      BY <2>3, <3>1, <3>2 DEF CommentsAt
    <3>4. ASSUME NEW i \in CommentsAt(text) PROVE i = p + 1
      BY <1>7, <1>11, <2>3, <2>2, <3>1
    <3>5. QED
      BY <3>3, <3>4
  <2>5. Min(CommentsAt(text)) - 1 = p
    <3>1. /\ CommentsAt(text) \in SUBSET Int /\ p + 1 \in CommentsAt(text) /\ p + 1 - 1 = p
          /\ \A i \in CommentsAt(text) : p + 1 <= i /\ p + 1 >= i
      BY <1>5, <2>4
    <3>2. Min(CommentsAt(text)) = p + 1
      BY <3>1, Extremes
    <3>3. QED
      BY <1>5, <3>2
  <2>6. PICK cut : cut = SubSeq(text, 1, p)
    OBVIOUS
  <2>7. StripComment(text) = Trim(cut)
    BY <2>4, <2>5, <2>6 DEF StripComment
  <2>8. \A i \in DOMAIN cut : cut[i] = Blank
    <3>1. CASE p = 0
      BY <2>6, <3>1, SubSeqEmpty
    <3>2. CASE p = 1
      <4>1. text[1] \in Symbol /\ text[1] = Blank
        BY <1>5, <1>8, <3>2 DEF Symbol
      <4>2. cut \in Seq(Symbol) /\ Len(cut) = 1 /\ cut[1] = text[1]
        BY <2>6, <3>2, <4>1, SubSeqProperties
      <4>3. QED
        BY <4>1, <4>2
    <3>3. QED
      BY <1>5, <3>1, <3>2
  <2>9. QED
    BY <1>3, <1>6, <1>1, <1>14, <2>7, <2>8, TrimBlank
<1>15. QED
  BY <1>12, <1>13, <1>14 DEF Written

\* Selecting commutes with taking the addresses of lines.
LEMMA SelectedAddresses ==
  ASSUME NEW lines \in Seq(Written), NEW kept, NEW stripped \in Seq(Seq(Symbol)), NEW wanted,
         Len(stripped) = Len(lines),
         \A i \in 1 .. Len(lines) : stripped[i] = Address(lines[i]),
         \A i \in 1 .. Len(lines) : Address(lines[i]) \in wanted <=> lines[i] \in kept
  PROVE  Select(stripped, wanted)
           = [i \in 1 .. Len(Select(lines, kept)) |-> Address(Select(lines, kept)[i])]
<1> DEFINE Mapped(q) == [i \in 1 .. Len(q) |-> Address(q[i])]
           Other == { n \in 0 .. Len(lines) : Picks(stripped, wanted)[n] # Mapped(Picks(lines, kept)[n]) }
<1>1. Len(lines) \in Nat
  OBVIOUS
<1> HIDE DEF Mapped
<1>2. ASSUME Other # {} PROVE FALSE
  <2>1. PICK n \in Other : \A m \in Other : n <= m
    <3>1. Other \in SUBSET Nat
      BY <1>1
    <3>2. QED
      BY <1>2, <3>1, SmallestExists
  <2>2. CASE n = 0
    <3>1. Mapped(<<>>) = <<>>
      BY DEF Mapped
    <3>2. QED
      BY <1>1, <2>1, <2>2, <3>1, PicksDefined
  <2>3. CASE n # 0
    <3>1. n \in 1 .. Len(lines) /\ n - 1 \in 0 .. Len(lines) /\ n - 1 \notin Other
      <4>1. n \in 0 .. Len(lines)
        BY <2>1
      <4> HIDE DEF Other
      <4>2. n \in 1 .. Len(lines) /\ n - 1 \in 0 .. Len(lines) /\ ~ n <= n - 1
        BY <1>1, <2>3, <4>1
      <4>3. QED
        BY <2>1, <4>2
    <3>2. PICK q : q = Picks(lines, kept)[n - 1] /\ q \in Seq(Written)
      <4>1. Picks(lines, kept)[n - 1] \in Seq(Written \cap kept)
        BY <3>1, PicksAreKept
      <4>2. QED
        BY <4>1, SeqMonotonic
    <3>3. Picks(lines, kept)[n] = IF lines[n] \in kept THEN Append(q, lines[n]) ELSE q
      BY <1>1, <3>1, <3>2, PicksDefined
    <3>4. Picks(stripped, wanted)[n] = IF stripped[n] \in wanted THEN Append(Mapped(q), stripped[n]) ELSE Mapped(q)
      BY <1>1, <3>1, <3>2, PicksDefined
    <3>5. stripped[n] = Address(lines[n]) /\ lines[n] \in Written
      BY <3>1, ElementOfSeq
    <3>6. Mapped(Append(q, lines[n])) = Append(Mapped(q), Address(lines[n]))
      <4>1. Mapped(q) \in Seq(Seq(Symbol)) /\ Len(Mapped(q)) = Len(q)
        <5>1. \A i \in 1 .. Len(q) : Address(q[i]) \in Seq(Symbol)
          BY <3>2, ElementOfSeq, AddressShape
        <5>2. QED
          BY <3>2, <5>1 DEF Mapped
      <4>2. Address(lines[n]) \in Seq(Symbol)
        BY <3>5, AddressShape
      <4>3. \A i \in 1 .. Len(q) + 1 :
              Mapped(Append(q, lines[n]))[i] = Append(Mapped(q), Address(lines[n]))[i]
        <5>1. ASSUME NEW i \in 1 .. Len(q)
              PROVE  Mapped(Append(q, lines[n]))[i] = Address(q[i]) /\ Append(Mapped(q), Address(lines[n]))[i] = Address(q[i])
          BY <3>2, <3>5, <4>1, <4>2 DEF Mapped
        <5>2. /\ Mapped(Append(q, lines[n]))[Len(q) + 1] = Address(lines[n])
              /\ Append(Mapped(q), Address(lines[n]))[Len(q) + 1] = Address(lines[n])
          BY <3>2, <3>5, <4>1, <4>2 DEF Mapped
        <5>3. Len(q) \in Nat
          BY <3>2
        <5>4. ASSUME NEW i \in 1 .. Len(q) + 1
              PROVE  Mapped(Append(q, lines[n]))[i] = Append(Mapped(q), Address(lines[n]))[i]
          <6>1. CASE i = Len(q) + 1
            BY <5>2, <6>1
          <6>2. CASE i # Len(q) + 1
            <7>1. i \in 1 .. Len(q)
              BY <5>3, <6>2
            <7>2. QED
              BY <5>1, <7>1
          <6>3. QED
            BY <6>1, <6>2
        <5>5. QED
          BY <5>4
      <4>4. Mapped(Append(q, lines[n])) \in Seq(Seq(Symbol)) /\ Append(Mapped(q), Address(lines[n])) \in Seq(Seq(Symbol))
            /\ Len(Mapped(Append(q, lines[n]))) = Len(q) + 1
            /\ Len(Append(Mapped(q), Address(lines[n]))) = Len(q) + 1
        BY <3>2, <3>5, <4>1, <4>2 DEF Mapped
      <4>5. QED
        BY <4>3, <4>4, SeqEqual
    <3>7. Picks(stripped, wanted)[n] = Mapped(Picks(lines, kept)[n])
      BY <3>1, <3>3, <3>4, <3>5, <3>6
    <3>8. QED
      BY <2>1, <3>7
  <2>4. QED
    BY <2>2, <2>3
<1>3. Picks(stripped, wanted)[Len(lines)] = Mapped(Picks(lines, kept)[Len(lines)])
  BY <1>1, <1>2
<1>4. QED
  BY <1>1, <1>3 DEF Select, Mapped

\* What both libraries make of the lines an author wrote.
LEMMA ReadAsWritten ==
  ASSUME NEW lines \in Seq(Written)
  PROVE  LET text == [i \in DOMAIN lines |-> Render(lines[i])]
             urls == Select(lines, { line \in ToSet(lines) : line.uri # Undefined })
             read == IF \A line \in ToSet(urls) : Parses(line.uri) /\ Protocol(line.uri) = "https"
                     THEN [i \in DOMAIN urls |-> Address(urls[i])] ELSE Refused
         IN /\ TsRegistry(text) = read
            /\ (\A line \in ToSet(urls) : PlainUri(line.uri)) => RustRegistry(text) = read
<1>1. PICK text : text = [i \in DOMAIN lines |-> Render(lines[i])]
  OBVIOUS
<1>2. PICK kept : kept = { line \in ToSet(lines) : line.uri # Undefined }
  OBVIOUS
<1>3. PICK urls : urls = Select(lines, kept) /\ urls \in Seq(Written \cap kept)
  BY SelectIsKept
<1>4. PICK stripped : stripped = [i \in DOMAIN text |-> StripComment(text[i])]
  OBVIOUS
<1>5. /\ DOMAIN lines = 1 .. Len(lines) /\ \A i \in 1 .. Len(lines) : lines[i] \in Written
      /\ DOMAIN urls = 1 .. Len(urls)
      /\ \A i \in 1 .. Len(urls) : urls[i] \in Written /\ urls[i].uri # Undefined
  <2>1. \A i \in 1 .. Len(urls) : urls[i] \in Written \cap kept
    BY <1>3, ElementOfSeq
  <2>2. QED
    BY <1>2, <1>3, <2>1, LenProperties, ElementOfSeq
<1>6. /\ stripped \in Seq(Seq(Symbol)) /\ Len(stripped) = Len(lines)
      /\ \A i \in 1 .. Len(lines) : stripped[i] = Address(lines[i])
  <2>1. stripped = [i \in 1 .. Len(lines) |-> Address(lines[i])]
    <3>1. \A i \in 1 .. Len(lines) : StripComment(text[i]) = Address(lines[i])
      BY <1>1, <1>5, StrippedLine
    <3>2. QED
      BY <1>1, <1>4, <1>5, <3>1
  <2>2. \A i \in 1 .. Len(lines) : Address(lines[i]) \in Seq(Symbol)
    BY <1>5, AddressShape
  <2>3. Len(lines) \in Nat
    OBVIOUS
  <2>4. QED
    BY <2>1, <2>2, <2>3
<1>7. PICK wanted : wanted = ToSet(stripped) \ {<<>>}
  OBVIOUS
<1>8. ASSUME NEW i \in 1 .. Len(lines)
      PROVE  Address(lines[i]) \in wanted <=> lines[i] \in kept
  <2>1. Address(lines[i]) \in ToSet(stripped) /\ lines[i] \in ToSet(lines)
    <3>1. i \in DOMAIN stripped /\ i \in DOMAIN lines
      BY <1>5, <1>6, LenProperties
    <3>2. QED
      BY <1>6, <3>1 DEF ToSet
  <2>2. Address(lines[i]) = <<>> <=> lines[i].uri = Undefined
    <3>1. lines[i].uri # Undefined => Len(Address(lines[i])) # 0
      BY <1>5, AddressShape
    <3>2. QED
      BY <1>5, <3>1, AddressShape, EmptySeq
  <2>3. QED
    BY <1>2, <1>7, <2>1, <2>2
<1>9. Entries(text) = [i \in DOMAIN urls |-> Address(urls[i])]
  <2>1. Select(stripped, wanted) = [i \in 1 .. Len(urls) |-> Address(urls[i])]
    <3>1. \A i \in 1 .. Len(lines) : Address(lines[i]) \in wanted <=> lines[i] \in kept
      BY <1>8
    <3>2. Select(stripped, wanted)
            = [i \in 1 .. Len(Select(lines, kept)) |-> Address(Select(lines, kept)[i])]
      BY <1>6, <3>1, SelectedAddresses
    <3>3. QED
      BY <1>3, <3>2
  <2>2. Entries(text) = Select(stripped, wanted)
    BY <1>4, <1>7 DEF Entries
  <2>3. QED
    BY <1>5, <2>1, <2>2
<1>10. /\ DOMAIN Entries(text) = DOMAIN urls
       /\ \A i \in DOMAIN urls : Entries(text)[i][1] = urls[i].uri
  BY <1>5, <1>9, AddressShape
<1>11. PICK read :
         read = IF \A line \in ToSet(urls) : Parses(line.uri) /\ Protocol(line.uri) = "https"
                THEN [i \in DOMAIN urls |-> Address(urls[i])] ELSE Refused
  OBVIOUS
<1>12. TsRegistry(text) = read
  <2>1. (\A entry \in ToSet(Entries(text)) : Parses(entry[1]) /\ Protocol(entry[1]) = "https")
          <=> \A line \in ToSet(urls) : Parses(line.uri) /\ Protocol(line.uri) = "https"
    BY <1>10 DEF ToSet
  <2>2. QED
    BY <1>9, <1>11, <2>1 DEF TsRegistry
<1>13. ASSUME \A line \in ToSet(urls) : PlainUri(line.uri)
       PROVE  RustRegistry(text) = read
  <2>1. ASSUME NEW line \in ToSet(urls)
        PROVE  ValidUri(line.uri, {"https"}) <=> Parses(line.uri) /\ Protocol(line.uri) = "https"
    BY <1>13 DEF PlainUri, Parses, Protocol, ValidUri, HttpUri, SpecialUri, BeginsWithScheme, Special
  <2>2. (\A entry \in ToSet(Entries(text)) : ValidUri(entry[1], {"https"}))
          <=> \A line \in ToSet(urls) : ValidUri(line.uri, {"https"})
    BY <1>10 DEF ToSet
  <2>3. QED
    BY <1>9, <1>11, <2>1, <2>2 DEF RustRegistry
<1>14. QED
  BY <1>1, <1>2, <1>3, <1>11, <1>12, <1>13

\* Lines that all end as the crate ends them are its lines.
LEMMA LinesKept ==
  ASSUME NEW lines
  PROVE  RustLines([i \in DOMAIN lines |-> Render(lines[i])], {}) = [i \in DOMAIN lines |-> Render(lines[i])]
BY DEF RustLines

\* The two libraries judge every card of plain members alike, and read every registry of plain URLs
\* and lines alike, whatever sites serve and authors write (the parsers of registry.ts and of
\* registry.rs).
THEOREM LibrariesReadAlike == DiscoverySpec => []LibrariesAgree
<1>1. CardParsersAgree
  BY CardsAgree, CardsAssumption DEF CardParsersAgree, Comparable
<1>2. RegistryReadsAsWritten
  <2>1. ASSUME NEW registry \in Registries
        PROVE  LET lines == registry.lines
                   text == [i \in DOMAIN lines |-> Render(lines[i])]
                   urls == Select(lines, { line \in ToSet(lines) : line.uri # Undefined })
                   read == IF \A line \in ToSet(urls) : Parses(line.uri) /\ Protocol(line.uri) = "https"
                           THEN [i \in DOMAIN urls |-> Address(urls[i])] ELSE Refused
               IN /\ TsRegistry(text) = read
                  /\ registry.returns = {} /\ (\A line \in ToSet(urls) : PlainUri(line.uri)) =>
                       RustRegistry(RustLines(text, registry.returns)) = read
    <3>1. registry.lines \in Seq(Written)
      BY RegistriesAssumption
    <3>2. PICK lines : lines = registry.lines /\ lines \in Seq(Written)
      BY <3>1
    <3>3. PICK text : /\ text = [i \in DOMAIN lines |-> Render(lines[i])]
                      /\ RustLines(text, {}) = text
      BY LinesKept
    <3>4. QED
      BY <3>2, <3>3, ReadAsWritten
  <2>2. QED
    BY <2>1 DEF RegistryReadsAsWritten
<1>3. LibrariesAgree
  BY <1>1, <1>2 DEF LibrariesAgree
<1>4. QED
  BY <1>3, PTL

-------------------------------------------------------------------------------
LEMMA UriLine ==
  ASSUME NEW scheme \in {"http", "https"}, NEW rest
  PROVE  StripComment(<<Uri(scheme, rest)>>) = <<Uri(scheme, rest)>>
<1>1. PICK line : line = <<Uri(scheme, rest)>>
  OBVIOUS
<1>2. /\ line \in Seq({Uri(scheme, rest)}) /\ Len(line) = 1 /\ DOMAIN line = {1}
      /\ line[1] # Hash /\ line[1] # Blank
  BY <1>1, SymbolsDiffer
<1>3. CommentsAt(line) = {}
  BY <1>2 DEF CommentsAt
<1>4. Trim(line) = line
  <2>1. /\ 0 \in Nat /\ Len(line) > 0 /\ Len(line) >= 0 + Len(line)
        /\ line[1] # Blank /\ line[Len(line)] # Blank
        /\ \A i \in 1 .. Len(line) : line[0 + i] = line[i]
        /\ \A i \in 1 .. Len(line) : i <= 0 \/ i > 0 + Len(line) => line[i] = Blank
    BY <1>2
  <2>2. QED
    BY <1>2, <2>1, TrimLeaves
<1>5. QED
  BY <1>1, <1>3, <1>4 DEF StripComment

\* Neither library changes the lines of a registry of the worker.
LEMMA RegistryEntries ==
  ASSUME NEW scheme \in {"http", "https"}, NEW hosts
  PROVE  LET text == RegistryText(scheme, hosts) IN
         /\ Entries(text) = text
         /\ \A i \in DOMAIN text : \E host \in hosts \cap Host : text[i] = <<CardURL(scheme, host)>>
         /\ text # <<>> => 1 \in DOMAIN text
<1>1. PICK listed : listed = Select(Hosts, hosts) /\ listed \in Seq(Host \cap hosts)
  BY HostsAssumption, SelectIsKept
<1>2. PICK text : text = RegistryText(scheme, hosts)
  OBVIOUS
<1>3. /\ text = [i \in 1 .. Len(listed) |-> <<CardURL(scheme, listed[i])>>]
      /\ Len(listed) \in Nat /\ \A i \in 1 .. Len(listed) : listed[i] \in Host \cap hosts
  BY <1>1, <1>2, LenProperties, ElementOfSeq DEF RegistryText
<1>4. PICK S : S = { <<CardURL(scheme, host)>> : host \in Host }
  OBVIOUS
<1>5. text \in Seq(S) /\ DOMAIN text = 1 .. Len(text) /\ Len(text) = Len(listed)
  BY <1>3, <1>4
<1>6. ASSUME NEW i \in DOMAIN text PROVE StripComment(text[i]) = text[i] /\ text[i] # <<>>
  BY <1>3, UriLine DEF CardURL
<1>7. [i \in DOMAIN text |-> StripComment(text[i])] = text
  BY <1>3, <1>6
<1>8. Select(text, ToSet(text) \ {<<>>}) = text
  BY <1>5, <1>6, SelectAll DEF ToSet
<1>9. Entries(text) = text
  BY <1>7, <1>8 DEF Entries
<1>10. ASSUME text # <<>> PROVE 1 \in DOMAIN text
  <2>1. Len(text) \in Nat \ {0}
    BY <1>5, <1>10, EmptySeq
  <2>2. QED
    BY <1>5, <2>1
<1>11. QED
  BY <1>2, <1>3, <1>5, <1>9, <1>10

\* Over http neither library reads a registry, over https both do.
LEMMA RegistryRead ==
  ASSUME NEW hosts
  PROVE  LET text == RegistryText("https", hosts)
             plain == RegistryText("http", hosts)
         IN /\ TsRegistry(text) = text /\ RustRegistry(text) = text
            /\ plain # <<>> => TsRegistry(plain) = Refused /\ RustRegistry(plain) = Refused
<1>1. PICK text, plain : text = RegistryText("https", hosts) /\ plain = RegistryText("http", hosts)
  OBVIOUS
<1>2. Entries(text) = text /\ Entries(plain) = plain
  BY <1>1, RegistryEntries
<1>3. \A entry \in ToSet(text) :
        Parses(entry[1]) /\ Protocol(entry[1]) = "https" /\ ValidUri(entry[1], {"https"})
  <2>1. ASSUME NEW i \in DOMAIN text PROVE text[i][1].scheme = "https" /\ text[i][1].manner = {}
    <3>1. PICK host : text[i] = <<CardURL("https", host)>>
      BY <1>1, RegistryEntries
    <3>2. QED
      BY <3>1 DEF CardURL, Uri
  <2>2. QED
    BY <2>1 DEF ToSet, Parses, Protocol, ValidUri, HttpUri, BeginsWithScheme, Special
<1>4. \A entry \in ToSet(plain) : Protocol(entry[1]) # "https" /\ ~ValidUri(entry[1], {"https"})
  <2>1. ASSUME NEW i \in DOMAIN plain PROVE plain[i][1].scheme = "http"
    <3>1. PICK host : plain[i] = <<CardURL("http", host)>>
      BY <1>1, RegistryEntries
    <3>2. QED
      BY <3>1 DEF CardURL, Uri
  <2>2. QED
    BY <2>1 DEF ToSet, Protocol, ValidUri
<1>5. ASSUME plain # <<>> PROVE plain[1] \in ToSet(plain)
  <2>1. 1 \in DOMAIN plain
    BY <1>1, <1>5, RegistryEntries
  <2>2. QED
    BY <2>1 DEF ToSet
<1>6. TsRegistry(text) = text /\ RustRegistry(text) = text
  BY <1>2, <1>3 DEF TsRegistry, RustRegistry
<1>7. plain # <<>> => TsRegistry(plain) = Refused /\ RustRegistry(plain) = Refused
  BY <1>2, <1>4, <1>5 DEF TsRegistry, RustRegistry
<1>8. QED
  BY <1>1, <1>6, <1>7

\* Both libraries accept the card of a host.
LEMMA HostCard ==
  ASSUME NEW host \in Host
  PROVE  LET url == CardURL("https", host)
             card == CardOf("https", host)
         IN /\ TsCard(card, url) /\ RustCard(card, url)
            /\ card.jwks_uri = DirectoryURL("https", host) /\ url.rest.at = host
<1>1. PICK url, card : url = CardURL("https", host) /\ card = CardOf("https", host)
  OBVIOUS
<1>2. /\ card.client_id = url /\ card.client_name = Text /\ card.client_uri = Undefined
      /\ card.logo_uri = Undefined /\ card.contacts = <<Uri("mailto", Text)>>
      /\ card.jwks_uri = DirectoryURL("https", host) /\ card.jwks = Undefined
      /\ card.ips_uri = Undefined
      /\ card.web_bot_auth = [trigger |-> "fetcher", ips_uri |-> Undefined, text |-> Text,
                              list |-> Undefined]
  BY <1>1 DEF CardOf
<1>3. /\ Undefined # Null /\ Undefined # Wrong /\ Text \notin {Undefined, Null, Wrong}
      /\ card # Wrong
      /\ card.client_id \notin {Undefined, Null, Wrong} /\ card.jwks_uri \notin {Undefined, Null, Wrong}
      /\ card.contacts \notin {Undefined, Null, Wrong}
      /\ card.web_bot_auth \notin {Undefined, Null, Wrong}
      /\ \A contact \in ToSet(card.contacts) : contact \notin {Undefined, Null, Wrong}
  BY <1>1, MarkersAssumption
<1>4. /\ DirectoryURL("https", host).scheme = "https" /\ DirectoryURL("https", host).manner = {}
      /\ url.scheme = "https" /\ url.manner = {} /\ url.rest.at = host
  BY <1>1 DEF DirectoryURL, CardURL, Uri
<1>5. TsUrl(card.client_id, {"https"}) /\ TsUrl(card.jwks_uri, {"https"})
      /\ RustUrl(card.client_id, {"https"}) /\ RustUrl(card.jwks_uri, {"https"})
  BY <1>2, <1>3, <1>4
     DEF TsUrl, RustUrl, TsString, RustString, Parses, Protocol, ValidUri, HttpUri, BeginsWithScheme,
         Special, Missing
<1>6. \A schemes : TsUrl(Undefined, schemes) /\ RustUrl(Undefined, schemes)
  BY <1>3 DEF TsUrl, RustUrl, TsString, RustString, Missing
<1>7. TsContacts(card.contacts) /\ RustContacts(card.contacts)
  <2>1. ToSet(card.contacts) = {Uri("mailto", Text)}
    BY <1>2 DEF ToSet
  <2>2. /\ Uri("mailto", Text) \notin {Null, Wrong} /\ Uri("mailto", Text).scheme = "mailto"
        /\ Uri("mailto", Text).manner = {}
    BY <1>3, <2>1 DEF Uri
  <2>3. QED
    BY <1>3, <2>1, <2>2 DEF TsContacts, RustContacts, TsString, Parses, HasAnyScheme, Special
<1>8. TsJwks(card.jwks) /\ RustJwks(card.jwks)
  BY <1>2 DEF TsJwks, RustJwks, Missing
<1>9. TsWebBotAuth(card.web_bot_auth) /\ RustWebBotAuth(card.web_bot_auth)
  <2>1. PICK value : value = card.web_bot_auth
    OBVIOUS
  <2>2. /\ value.trigger = "fetcher" /\ value.ips_uri = Undefined /\ value.text = Text
        /\ value.list = Undefined /\ value \notin {Null, Wrong}
    BY <1>2, <1>3, <2>1
  <2>3. QED
    BY <1>3, <1>6, <2>1, <2>2
       DEF TsWebBotAuth, RustWebBotAuth, TsString, RustString, Trigger
<1>10. TsKeyMaterial(card) /\ TsNamesItself(card, url)
  BY <1>2, <1>3 DEF TsKeyMaterial, TsNamesItself
<1>11. TsCard(card, url)
  BY <1>2, <1>3, <1>5, <1>6, <1>7, <1>8, <1>9, <1>10 DEF TsCard, TsString
<1>12. RustCard(card, url)
  <2>1. "client_id" \in RustMember /\ card.client_id \notin Missing
    BY <1>3 DEF RustMember, CardMember, Missing
  <2>2. QED
    BY <1>2, <1>3, <1>5, <1>6, <1>7, <1>8, <1>9, <2>1 DEF RustCard, RustString, Missing
<1>13. QED
  BY <1>1, <1>2, <1>4, <1>11, <1>12

-------------------------------------------------------------------------------
\* A key stored for a host may be replaced by another, never be lost.
LEMMA StoredStay ==
  ASSUME Inv, [Next]_vars, NEW host \in Host, Stored(host)
  PROVE  Stored(host)'
<1>1. CASE kv' = kv
  BY <1>1 DEF Stored
<1>2. CASE \E h \in Handler : Is(h, "put") /\ kv' = [kv EXCEPT ![handler[h].host] = handler[h].key]
  <2>1. PICK h \in Handler : Is(h, "put") /\ kv' = [kv EXCEPT ![handler[h].host] = handler[h].key]
    BY <1>2
  <2>2. handler[h].key \in Key /\ kv \in [Host -> Key \cup {None}]
    BY <2>1 DEF Inv, TypeOK, HandlerKnows, Is
  <2>3. handler[h].key # None
    BY <2>2, NoneAssumption
  <2>4. QED
    BY <2>1, <2>2, <2>3 DEF Stored
<1>3. QED
  BY <1>1, <1>2 DEF Next, vars, Request, Handle, Directory, Registry, Get, Put, Respond, List, Fail

\* The hosts of a listing have keys, also while it is on its way.
Lists == \A h \in Handler : Is(h, "registry") => \A host \in handler[h].hosts \cap Host : Stored(host)

LEMMA ListsStep == Inv /\ Lists /\ [Next]_vars => Lists'
<1> SUFFICES ASSUME Inv, Lists, [Next]_vars, NEW h \in Handler, Is(h, "registry")',
                    NEW host \in Host, host \in handler'[h].hosts
             PROVE  Stored(host)'
  BY DEF Lists
<1>1. CASE handler'[h] = handler[h]
  BY <1>1, StoredStay DEF Lists, Is
<1>2. CASE handler'[h] # handler[h]
  <2>1. /\ UNCHANGED kv
        /\ handler'[h] = [pc |-> "registry", hosts |-> Listed]
    <3>1. PICK q \in Handler : Request(q) \/ Handle(q)
      BY <1>2 DEF Next, vars
    <3>2. \A p \in Handler : \A state : Goto(p, state) => /\ p # h => handler'[h] = handler[h]
                                                          /\ p = h => handler'[h] = state
      BY DEF Goto, Inv, TypeOK
    <3>3. CASE List(q)
      BY <1>2, <3>2, <3>3 DEF List
    <3>4. CASE ~List(q)
      <4>1. \E state : Goto(q, state) /\ state.pc # "registry"
        <5>1. CASE \E key \in Key : Get(q, key)
          BY <5>1 DEF Get, AfterGet
        <5>2. CASE Put(q)
          <6>1. handler[q] \in Fetching
            BY <5>2, FetchingIs DEF Put, Is, Inv, TypeOK, Progress
          <6>2. [handler[q] EXCEPT !.pc = "answer"].pc = "answer"
            BY <6>1 DEF Fetching
          <6>3. QED
            BY <5>2, <6>2 DEF Put
        <5>3. CASE Respond(q)
          BY <5>3 DEF Respond
        <5>4. CASE Registry(q) \/ Fail(q)
          BY <5>4 DEF Registry, Fail
        <5>5. CASE \E owner \in Host : Directory(q, owner)
          BY <5>5 DEF Directory
        <5>6. QED
          BY <3>1, <3>4, <5>1, <5>2, <5>3, <5>4, <5>5 DEF Request, Handle
      <4>2. QED
        BY <1>2, <3>2, <4>1 DEF Is
    <3>5. QED
      BY <3>3, <3>4
  <2>2. host \in Listed
    BY <2>1
  <2>3. QED
    BY <2>1, <2>2 DEF Listed, Stored
<1>3. QED
  BY <1>1, <1>2

\* Discovery is a client of the worker.
LEMMA ClientStep == DiscoveryInv /\ [DiscoveryNext]_discoveryVars => [Next]_vars
<1>1. \A agent, card, url, settled : AskKeys(agent, card, url, settled) => [Next]_vars
  BY DEF AskKeys, Next, Request, vars
<1>2. Serve => [Next]_vars
  BY DEF Serve, Next
<1>3. Discover => [Next]_vars
  BY <1>1 DEF Discover, DiscoverDirectory, DiscoverCard, vars
<1>4. FetchCard => [Next]_vars
  BY <1>1 DEF FetchCard, CardRead, Fails, Finds, vars
<1>5. QED
  BY <1>2, <1>3, <1>4
     DEF DiscoveryNext, discoveryVars, vars, FetchKeys, ReceiveKeys, FetchFails, Finish, Fails, Finds

\* To the worker a verifier is one more client: what is proved of Spec, of any requests at once,
\* holds while a verifier discovers (fetch of the worker, fetchDirectory).
THEOREM DiscoveryIsAClient == DiscoverySpec => Spec
<1>1. DiscoveryInit => DiscoveryInv /\ SettledTyped /\ Init
  BY DiscoveryInitInv DEF DiscoveryInit, SettledTyped, Idle
<1>2. DiscoveryInv /\ SettledTyped /\ [DiscoveryNext]_discoveryVars
        => DiscoveryInv' /\ SettledTyped' /\ [Next]_vars
  BY DiscoveryNextInv, SettledTypedStep, ClientStep DEF DiscoveryInv
<1>3. QED
  BY <1>1, <1>2, PTL DEF DiscoverySpec, Spec

\* Each line of a listing leads to a card both libraries accept, and on to a host with a key.
LEMMA ListsLead == Lists => RegistryLeadsToKeys
<1> SUFFICES ASSUME Lists, NEW h \in Handler, Is(h, "registry")
             PROVE  LET text == RegistryText("https", handler[h].hosts)
                        plain == RegistryText("http", handler[h].hosts)
                    IN /\ TsRegistry(text) = text /\ RustRegistry(text) = text
                       /\ plain # <<>> => TsRegistry(plain) = Refused /\ RustRegistry(plain) = Refused
                       /\ \A line \in ToSet(text) :
                            LET url == line[1]
                                card == CardOf("https", url.rest.at)
                            IN /\ TsCard(card, url) /\ RustCard(card, url)
                               /\ card.jwks_uri = DirectoryURL("https", url.rest.at)
                               /\ kv[url.rest.at] # None
  BY DEF RegistryLeadsToKeys
<1>1. PICK hosts : hosts = handler[h].hosts
  OBVIOUS
<1>2. PICK text : text = RegistryText("https", hosts)
  OBVIOUS
<1>3. ASSUME NEW line \in ToSet(text)
      PROVE  \E host \in Host : /\ line[1] = CardURL("https", host)
                                /\ kv[host] # None
  <2>1. PICK i \in DOMAIN text : line = text[i]
    BY <1>3 DEF ToSet
  <2>2. PICK host \in hosts \cap Host : line = <<CardURL("https", host)>>
    BY <1>2, <2>1, RegistryEntries
  <2>3. QED
    BY <1>1, <2>2 DEF Lists, Stored
<1>4. ASSUME NEW line \in ToSet(text)
      PROVE  LET url == line[1]
                 card == CardOf("https", url.rest.at)
             IN /\ TsCard(card, url) /\ RustCard(card, url)
                /\ card.jwks_uri = DirectoryURL("https", url.rest.at)
                /\ kv[url.rest.at] # None
  <2>1. PICK host \in Host : line[1] = CardURL("https", host) /\ kv[host] # None
    BY <1>3
  <2>2. line[1].rest.at = host
    BY <2>1, HostCard
  <2>3. QED
    BY <2>1, <2>2, HostCard
<1>5. QED
  BY <1>1, <1>2, <1>4, RegistryRead

\* A registry of the worker is read by both libraries over https, and leads to the directories of
\* hosts that have keys (examples/signature-agent-card-and-registry, registry.ts, registry.rs).
THEOREM RegistriesLeadToKeys == DiscoverySpec => []RegistryLeadsToKeys
<1>1. DiscoveryInit => DiscoveryInv /\ SettledTyped /\ Lists
  BY DiscoveryInitInv DEF DiscoveryInit, SettledTyped, Idle, Lists, Is, Init
<1>2. DiscoveryInv /\ SettledTyped /\ Lists /\ [DiscoveryNext]_discoveryVars
        => DiscoveryInv' /\ SettledTyped' /\ Lists'
  BY DiscoveryNextInv, SettledTypedStep, ClientStep, ListsStep DEF DiscoveryInv
<1>3. QED
  BY <1>1, <1>2, ListsLead, PTL DEF DiscoverySpec
===============================================================================
