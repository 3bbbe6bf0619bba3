---------------------------- MODULE WebBotAuthProofs ----------------------------
(***************************************************************************)
(* What WebBotAuth guarantees for every set of keys, authorities, labels   *)
(* and messages: its type invariant, that a request accepted under a bot's *)
(* key was signed by that bot for that authority, that key ids name the    *)
(* keys they resolve to, that fetched keys come from directories the       *)
(* signer named, that signer and verifier agree, and that it implements    *)
(* AuthenticatedRequests.                                                  *)
(*                                                                         *)
(* The inductive invariant says of every signature in the network that its *)
(* maker is the intermediary or that it is the signature of a message as a *)
(* bot made it, and of the request in hand that what is known of it is     *)
(* what parsing it returns.                                                *)
(***************************************************************************)
EXTENDS WebBotAuth, MessageSignaturesProofs

List(s) == s.msg.inputs[1].list

\* A message as MessageSigner makes it.
AsSigned(s) ==
  /\ s.msg.inputs = <<[label |-> s.msg.inputs[1].label, list |-> List(s)]>>
  /\ s.msg.sigs = <<[ label |-> s.msg.inputs[1].label,
                      sig |-> Signature(s.key, s.algorithm, Base(s.msg, List(s))) ]>>
  /\ \A i \in DOMAIN List(s).items : Found(s.msg, List(s).items[i])
  /\ List(s).params.tag = "web-bot-auth"
  /\ List(s).params.created \in Nat /\ List(s).params.expires \in Nat
  /\ \E jwk \in BotJwk : List(s).params.keyid = Thumbprint[jwk] /\ s.key = PublicKey(jwk)

SignedAreKnown == \A s \in signed : AsSigned(s)

\* The signature is the intermediary's, or it is the one its maker put on a request.
Genuine(sig, made) ==
  sig.by # ForeignKey => \E s \in made : s.key = sig.by /\ sig = s.msg.sigs[1].sig

GenuineEntry(made) == { e \in SigEntry : Genuine(e.sig, made) }

NetIsGenuine == \A m \in net : m.sigs \in Seq(GenuineEntry(signed))

InHand == handler.pc \in {"parsed", "accepted"}

\* Every key that was not configured came from a directory the request in hand names.
RingIsFetched ==
  \A id \in DOMAIN ring \ DOMAIN Preloaded :
    \E f \in handler.fetched : f[1] \in handler.links /\ PublicKey(f[2]) = ring[id][2]

HandlerIsGenuine ==
  InHand =>
    /\ ParseError(handler.msg) = None /\ handler.parsed = Parsed(handler.msg)
    /\ handler.links = Links(handler.msg, PickedList(handler.msg))
    /\ Genuine(handler.parsed.signature, signed)
    /\ handler.pc = "accepted" => VerifyError(handler.parsed, ring) = None
    /\ ~KeepRing => RingIsFetched

Inv == TypeOK /\ SignedAreKnown /\ NetIsGenuine /\ HandlerIsGenuine /\ AcceptedWereSigned

-------------------------------------------------------------------------------
LEMMA GenuineGrows ==
  ASSUME NEW S, NEW T, S \subseteq T
  PROVE  /\ \A sig : Genuine(sig, S) => Genuine(sig, T)
         /\ \A s \in Seq(GenuineEntry(S)) : s \in Seq(GenuineEntry(T))
<1>1. \A sig : Genuine(sig, S) => Genuine(sig, T)
  BY DEF Genuine
<1>2. GenuineEntry(S) \subseteq GenuineEntry(T)
  BY <1>1 DEF GenuineEntry
<1>3. QED
  BY <1>1, <1>2, SeqWidens

LEMMA WithoutType ==
  ASSUME NEW T, NEW s \in Seq(T), NEW i \in DOMAIN s
  PROVE  Without(s, i) \in Seq(T)
<1>1. Len(s) \in Nat /\ i \in 1..Len(s)
  OBVIOUS
<1>2. SubSeq(s, 1, i - 1) \in Seq(T) /\ SubSeq(s, i + 1, Len(s)) \in Seq(T)
  BY <1>1, SubSeqProperties
<1>3. QED
  BY <1>2, ConcatProperties DEF Without

\* A bot's message is well formed, keeps the authority it was made for, and is as signed.
LEMMA SignedMessageType ==
  ASSUME NEW jwk \in BotJwk, NEW alg \in SignerAlg, NEW l \in Label, NEW a \in Authority,
         NEW agents \in AgentHeader, NEW items \in Coverage, now \in Nat,
         NEW unsigned, unsigned = [authority |-> a, agents |-> agents, inputs |-> <<>>, sigs |-> <<>>],
         \A i \in DOMAIN items : Found(unsigned, items[i])
  PROVE  LET msg == SignedMessage(jwk, alg, l, unsigned, items) IN
         /\ msg \in Message
         /\ msg.authority = a
         /\ PublicKey(jwk) \in Key
         /\ AsSigned([key |-> PublicKey(jwk), algorithm |-> alg, msg |-> msg])
         /\ msg.sigs \in Seq(GenuineEntry({[key |-> PublicKey(jwk), algorithm |-> alg, msg |-> msg]}))
<1> DEFINE list == [items |-> items, params |-> SignParams(jwk, alg)]
           sig == Signature(PublicKey(jwk), alg, Base(unsigned, list))
           msg == SignedMessage(jwk, alg, l, unsigned, items)
           made == {[key |-> PublicKey(jwk), algorithm |-> alg, msg |-> msg]}
<1>1. unsigned \in Message
  BY WebBotAuthAssumption DEF Message
<1>2. PublicKey(jwk) \in Key /\ alg \in Algorithm /\ jwk \in Jwk /\ items \in Seq(Item) /\ Ttl \in Nat
  BY WebBotAuthAssumption
<1>3. AlgorithmName(alg) \in AlgName
  BY <1>2 DEF Algorithm, AlgorithmName, AlgName
<1>4. SignParams(jwk, alg) \in Params
  BY <1>2, <1>3, ThumbprintAssumption, MessageAssumption DEF SignParams, Params
<1>5. list \in InnerList
  BY <1>2, <1>4 DEF InnerList
<1>6. Base(unsigned, list) \in SignatureBase
  <2>1. \A i \in DOMAIN list.items : Found(unsigned, list.items[i])
    OBVIOUS
  <2> HIDE DEF list
  <2>2. QED
    BY <1>1, <1>5, <2>1, BaseType
<1>7. /\ msg.authority = a
      /\ msg.agents = agents
      /\ msg.inputs = <<[label |-> l, list |-> list]>>
      /\ msg.sigs = <<[label |-> l, sig |-> sig]>>
      /\ msg = [authority |-> a, agents |-> agents,
                inputs |-> <<[label |-> l, list |-> list]>>, sigs |-> <<[label |-> l, sig |-> sig]>>]
  <2> DEFINE inputs == <<[label |-> l, list |-> list]>>
             sigs == <<[label |-> l, sig |-> sig]>>
  <2>1. msg = [unsigned EXCEPT !.inputs = inputs, !.sigs = sigs]
    BY DEF SignedMessage
  <2> HIDE DEF msg, inputs, sigs
  <2>2. msg = [authority |-> a, agents |-> agents, inputs |-> inputs, sigs |-> sigs]
    BY <2>1
  <2>3. msg.authority = a /\ msg.agents = agents /\ msg.inputs = inputs /\ msg.sigs = sigs
    BY <2>2
  <2>4. QED
    BY <2>2, <2>3 DEF inputs, sigs
<1>8. sig \in SignatureBytes /\ sig.by = PublicKey(jwk) /\ sig.base = Base(unsigned, list)
  BY <1>2, <1>6 DEF Signature, SignatureBytes
<1>9. msg \in Message
  <2>1. [label |-> l, list |-> list] \in InputEntry /\ [label |-> l, sig |-> sig] \in SigEntry
    BY <1>5, <1>8 DEF InputEntry, SigEntry
  <2>2. /\ <<[label |-> l, list |-> list]>> \in Seq(InputEntry)
        /\ <<[label |-> l, sig |-> sig]>> \in Seq(SigEntry)
    BY <2>1
  <2>3. agents \in Seq(AgentEntry)
    BY WebBotAuthAssumption
  <2> HIDE DEF list, sig, msg
  <2>4. QED
    BY <1>7, <2>2, <2>3 DEF Message
<1>10. Genuine(sig, made)
  <2>1. msg.sigs[1].sig = sig
    <3> HIDE DEF sig, list, msg
    <3>1. QED
      BY <1>7
  <2> HIDE DEF sig, msg
  <2>2. QED
    BY <1>8, <2>1 DEF Genuine
<1>11. msg.sigs \in Seq(GenuineEntry(made))
  <2>1. [label |-> l, sig |-> sig] \in GenuineEntry(made)
    <3> HIDE DEF sig, made
    <3>1. QED
      BY <1>8, <1>10 DEF GenuineEntry, SigEntry
  <2> HIDE DEF sig, made, msg
  <2>2. QED
    BY <1>7, <2>1
<1>12. AsSigned([key |-> PublicKey(jwk), algorithm |-> alg, msg |-> msg])
  <2> DEFINE s == [key |-> PublicKey(jwk), algorithm |-> alg, msg |-> msg]
  <2>1. s.msg = msg /\ s.key = PublicKey(jwk) /\ s.algorithm = alg
    OBVIOUS
  <2>2. msg.inputs[1].label = l /\ msg.inputs[1].list = list
    BY <1>7
  <2>3. Base(msg, list) = Base(unsigned, list)
    <3>1. \A item : Value(msg, item) = Value(unsigned, item)
      <4> HIDE DEF msg, list
      <4>1. QED
        BY <1>7 DEF Value
    <3> HIDE DEF msg, list
    <3>2. QED
      BY <3>1 DEF Base
  <2>4. \A i \in DOMAIN list.items : Found(msg, list.items[i])
    <3>1. \A item : Found(unsigned, item) => Found(msg, item)
      <4> HIDE DEF msg, list
      <4>1. QED
        BY <1>7 DEF Found
    <3>2. QED
      BY <3>1
  <2>5. /\ list.params.tag = "web-bot-auth" /\ list.params.created \in Nat /\ list.params.expires \in Nat
        /\ list.params.keyid = Thumbprint[jwk]
    BY <1>2 DEF SignParams
  <2>6. msg.sigs = <<[label |-> l, sig |-> Signature(PublicKey(jwk), alg, Base(msg, list))]>>
    BY <1>7, <2>3
  <2>7. msg.inputs = <<[label |-> l, list |-> list]>>
    BY <1>7
  <2> HIDE DEF msg, list
  <2>8. List(s) = list
    BY <2>1, <2>2 DEF List
  <2> HIDE DEF s
  <2>9. AsSigned(s)
    BY <2>1, <2>2, <2>4, <2>5, <2>6, <2>7, <2>8 DEF AsSigned
  <2>10. QED
    BY <2>9 DEF s
<1>13. QED
  BY <1>2, <1>7, <1>9, <1>11, <1>12

-------------------------------------------------------------------------------
(***************************************************************************)
(* Each action preserves the invariant.                                    *)
(***************************************************************************)
LEMMA MessageInNet ==
  ASSUME Inv, NEW m \in net
  PROVE  /\ m \in Message
         /\ m.authority \in Authority /\ m.agents \in Seq(AgentEntry)
         /\ m.inputs \in Seq(InputEntry) /\ m.sigs \in Seq(SigEntry)
         /\ m.sigs \in Seq(GenuineEntry(signed))
  BY DEF Inv, TypeOK, NetIsGenuine, Message

\* A well-formed message with genuine signatures may be forwarded.
LEMMA ForwardKeepsInv ==
  ASSUME Inv, NEW msg \in Message, msg.sigs \in Seq(GenuineEntry(signed)), Forward(msg)
  PROVE  Inv'
<1>1. net' = net \cup {msg} /\ UNCHANGED <<now, signed, ring, handler, accepted>>
  BY DEF Forward
<1>2. TypeOK'
  BY <1>1 DEF Inv, TypeOK
<1>3. NetIsGenuine'
  BY <1>1 DEF Inv, NetIsGenuine
<1>4. SignedAreKnown' /\ HandlerIsGenuine' /\ AcceptedWereSigned'
  BY <1>1 DEF Inv, SignedAreKnown, HandlerIsGenuine, RingIsFetched, InHand, AcceptedWereSigned
<1>5. QED
  BY <1>2, <1>3, <1>4 DEF Inv

LEMMA RerouteKeepsInv ==
  ASSUME Inv, NEW m \in net, NEW a \in Authority, Reroute(m, a)
  PROVE  Inv'
<1> DEFINE msg == [m EXCEPT !.authority = a]
<1>1. msg \in Message /\ msg.sigs = m.sigs
  BY MessageInNet DEF Message
<1>2. msg.sigs \in Seq(GenuineEntry(signed))
  BY <1>1, MessageInNet
<1>3. QED
  BY <1>1, <1>2, ForwardKeepsInv DEF Reroute

LEMMA AddAgentKeepsInv ==
  ASSUME Inv, NEW m \in net, NEW member \in AddedMember, AddAgent(m, member)
  PROVE  Inv'
<1> DEFINE msg == [m EXCEPT !.agents = Append(@, member)]
<1>1. member \in AgentEntry
  BY DEF AddedMember, AgentEntry
<1>2. Append(m.agents, member) \in Seq(AgentEntry)
  BY <1>1, MessageInNet
<1>3. msg \in Message /\ msg.sigs = m.sigs
  BY <1>2, MessageInNet DEF Message
<1>4. msg.sigs \in Seq(GenuineEntry(signed))
  BY <1>3, MessageInNet
<1>5. QED
  BY <1>3, <1>4, ForwardKeepsInv DEF AddAgent

LEMMA DamageInputKeepsInv ==
  ASSUME Inv, NEW m \in net, NEW i \in DOMAIN m.inputs, DamageInput(m, i)
  PROVE  Inv'
<1> DEFINE msg == [m EXCEPT !.inputs = Without(@, i)]
<1>1. Without(m.inputs, i) \in Seq(InputEntry)
  BY MessageInNet, WithoutType
<1>2. msg \in Message /\ msg.sigs = m.sigs
  BY <1>1, MessageInNet DEF Message
<1>3. msg.sigs \in Seq(GenuineEntry(signed))
  BY <1>2, MessageInNet
<1>4. QED
  BY <1>2, <1>3, ForwardKeepsInv DEF DamageInput

LEMMA DamageSignatureKeepsInv ==
  ASSUME Inv, NEW m \in net, NEW i \in DOMAIN m.sigs, DamageSignature(m, i)
  PROVE  Inv'
<1> DEFINE msg == [m EXCEPT !.sigs = Without(@, i)]
<1>1. Without(m.sigs, i) \in Seq(SigEntry) /\ Without(m.sigs, i) \in Seq(GenuineEntry(signed))
  BY MessageInNet, WithoutType
<1>2. msg \in Message /\ msg.sigs = Without(m.sigs, i)
  BY <1>1, MessageInNet DEF Message
<1>3. QED
  BY <1>1, <1>2, ForwardKeepsInv DEF DamageSignature

LEMMA AddSignatureKeepsInv ==
  ASSUME Inv, NEW m \in net, NEW l \in Label, NEW list \in ForeignList, NEW first \in BOOLEAN,
         AddSignature(m, l, list, first)
  PROVE  Inv'
<1> DEFINE input == [label |-> l, list |-> list]
           foreign == Signature(ForeignKey, "Ed25519", Base(m, list))
           sig == [label |-> l, sig |-> foreign]
           inputs == IF first THEN <<input>> \o m.inputs ELSE Append(m.inputs, input)
           sigs == IF first THEN <<sig>> \o m.sigs ELSE Append(m.sigs, sig)
           msg == [m EXCEPT !.inputs = inputs, !.sigs = sigs]
<1>1. m \in Message /\ list \in InnerList /\ ForeignKey \in Key
  BY MessageInNet, WebBotAuthAssumption
<1>2. Base(m, list) \in SignatureBase
  <2>1. \A i \in DOMAIN list.items : Found(m, list.items[i])
    BY DEF AddSignature, ItemsOf
  <2>2. QED
    BY <1>1, <2>1, BaseType
<1>3. foreign \in SignatureBytes /\ foreign.by = ForeignKey
  BY <1>1, <1>2 DEF Signature, SignatureBytes, Algorithm
<1>4. input \in InputEntry /\ sig \in SigEntry /\ sig.sig = foreign
  <2> HIDE DEF foreign
  <2>1. QED
    BY <1>1, <1>3 DEF InputEntry, SigEntry
<1>5. sig \in GenuineEntry(signed)
  <2> HIDE DEF foreign, sig
  <2>1. Genuine(foreign, signed)
    BY <1>3 DEF Genuine
  <2>2. QED
    BY <1>4, <2>1 DEF GenuineEntry
<1>6. /\ inputs \in Seq(InputEntry)
      /\ sigs \in Seq(SigEntry)
      /\ sigs \in Seq(GenuineEntry(signed))
  <2>1. \A T, s, x : x \in T /\ s \in Seq(T) => <<x>> \o s \in Seq(T) /\ Append(s, x) \in Seq(T)
    BY ConcatProperties
  <2> HIDE DEF input, sig
  <2>2. m.inputs \in Seq(InputEntry) /\ m.sigs \in Seq(SigEntry) /\ m.sigs \in Seq(GenuineEntry(signed))
    BY MessageInNet
  <2>3. <<input>> \o m.inputs \in Seq(InputEntry) /\ Append(m.inputs, input) \in Seq(InputEntry)
    BY <1>4, <2>1, <2>2
  <2>4. <<sig>> \o m.sigs \in Seq(SigEntry) /\ Append(m.sigs, sig) \in Seq(SigEntry)
    BY <1>4, <2>1, <2>2
  <2>5. /\ <<sig>> \o m.sigs \in Seq(GenuineEntry(signed))
        /\ Append(m.sigs, sig) \in Seq(GenuineEntry(signed))
    BY <1>5, <2>1, <2>2
  <2>6. QED
    BY <2>3, <2>4, <2>5
<1>7. Forward(msg)
  BY DEF AddSignature
<1>8. msg \in Message /\ msg.sigs = sigs
  <2> HIDE DEF inputs, sigs
  <2>1. QED
    BY <1>1, <1>6 DEF Message
<1>9. QED
  <2> HIDE DEF msg, sigs
  <2>1. QED
    BY <1>6, <1>7, <1>8, ForwardKeepsInv

LEMMA SignRequestKeepsInv ==
  ASSUME Inv, NEW jwk \in BotJwk, NEW alg \in SignerAlg, NEW l \in Label, NEW a \in Authority,
         NEW agents \in AgentHeader, NEW items \in Coverage,
         SignRequest(jwk, alg, l, a, agents, items)
  PROVE  Inv'
<1> DEFINE unsigned == [authority |-> a, agents |-> agents, inputs |-> <<>>, sigs |-> <<>>]
           msg == SignedMessage(jwk, alg, l, unsigned, items)
           s == [key |-> PublicKey(jwk), algorithm |-> alg, msg |-> msg]
<1>1. /\ \A i \in DOMAIN items : Found(unsigned, items[i])
      /\ signed' = signed \cup {s}
      /\ net' = net \cup {msg}
      /\ UNCHANGED <<now, ring, handler, accepted>>
  BY DEF SignRequest
<1>2. now \in Nat
  BY WebBotAuthAssumption DEF Inv, TypeOK
<1>3. /\ msg \in Message
      /\ PublicKey(jwk) \in Key
      /\ AsSigned(s)
      /\ msg.sigs \in Seq(GenuineEntry({s}))
  <2> HIDE DEF unsigned
  <2>1. unsigned = [authority |-> a, agents |-> agents, inputs |-> <<>>, sigs |-> <<>>]
    BY DEF unsigned
  <2>2. QED
    BY <1>1, <1>2, <2>1, SignedMessageType
<1>4. alg \in Algorithm
  BY WebBotAuthAssumption
<1> HIDE DEF msg
<1>5. s \in [key : Key, algorithm : Algorithm, msg : Message]
  BY <1>3, <1>4
<1> HIDE DEF s
<1>6. TypeOK'
  BY <1>1, <1>3, <1>5 DEF Inv, TypeOK
<1>7. /\ \A sig : Genuine(sig, signed) => Genuine(sig, signed')
      /\ \A q \in Seq(GenuineEntry(signed)) : q \in Seq(GenuineEntry(signed'))
      /\ \A q \in Seq(GenuineEntry({s})) : q \in Seq(GenuineEntry(signed'))
  BY <1>1, GenuineGrows
<1>8. NetIsGenuine'
  BY <1>1, <1>3, <1>7 DEF Inv, NetIsGenuine
<1>9. SignedAreKnown' /\ HandlerIsGenuine' /\ AcceptedWereSigned'
  BY <1>1, <1>3, <1>7
     DEF Inv, SignedAreKnown, HandlerIsGenuine, RingIsFetched, InHand, AcceptedWereSigned
<1>10. QED
  BY <1>6, <1>8, <1>9 DEF Inv

\* A request in hand has been parsed: its record has the fields of one.
LEMMA HandlerInHand ==
  ASSUME TypeOK, InHand
  PROVE  handler \in [ pc : {"parsed", "accepted"}, msg : Message, parsed : ParsedLabel,
                       links : SUBSET Uri, expired : BOOLEAN \cup {None},
                       fetched : SUBSET (Uri \X Jwk) ]
BY DEF TypeOK, InHand, HandlerState, Idle

LEMMA ParseKeepsInv ==
  ASSUME Inv, NEW m \in net, Parse(m)
  PROVE  Inv'
<1>1. m \in Message /\ m.sigs \in Seq(GenuineEntry(signed))
  BY MessageInNet
<1>2. CASE ParseError(m) = None
  <2>1. /\ PickedList(m) \in InnerList
        /\ Pick(m, PickedList(m))
        /\ Parsed(m) \in ParsedLabel
        /\ Parsed(m).base = Base(m, PickedList(m))
        /\ \E i \in DOMAIN m.sigs : Parsed(m).signature = m.sigs[i].sig
        /\ \A i \in DOMAIN m.agents : m.agents[i].uri \in Uri
    BY <1>1, <1>2, ParseSucceeds
  <2>2. Links(m, PickedList(m)) \in SUBSET Uri
    BY <2>1 DEF Links
  <2>3. handler' = [ pc |-> "parsed", msg |-> m, parsed |-> Parsed(m),
                     links |-> Links(m, PickedList(m)), expired |-> None, fetched |-> {} ]
    BY <1>2 DEF Parse
  <2>4. /\ ring' \in {ring, Preloaded}
        /\ UNCHANGED <<now, signed, net, accepted>>
    BY <1>2 DEF Parse
  <2>5. handler' \in HandlerState
    <3> DEFINE p == Parsed(m)
               ls == Links(m, PickedList(m))
    <3>1. p \in ParsedLabel /\ ls \in SUBSET Uri
      BY <2>1, <2>2
    <3>2. handler' = [ pc |-> "parsed", msg |-> m, parsed |-> p, links |-> ls,
                       expired |-> None, fetched |-> {} ]
      BY <2>3
    <3> HIDE DEF p, ls
    <3>3. QED
      BY <1>1, <3>1, <3>2 DEF HandlerState
  <2>6. TypeOK'
    BY <2>4, <2>5, WebBotAuthAssumption DEF Inv, TypeOK
  <2>7. Genuine(Parsed(m).signature, signed)
    BY <1>1, <2>1 DEF GenuineEntry
  <2>8. HandlerIsGenuine'
    <3>1. /\ handler'.parsed = Parsed(m) /\ handler'.msg = m /\ signed' = signed
          /\ handler'.links = Links(m, PickedList(m)) /\ handler'.pc = "parsed"
      BY <2>3, <2>4
    <3>2. ~KeepRing => ring' = Preloaded
      BY <1>2 DEF Parse
    <3>3. (~KeepRing => RingIsFetched)'
      BY <3>2 DEF RingIsFetched
    <3>4. QED
      BY <1>2, <2>7, <3>1, <3>3 DEF HandlerIsGenuine
  <2>9. SignedAreKnown' /\ NetIsGenuine' /\ AcceptedWereSigned'
    BY <2>4 DEF Inv, SignedAreKnown, NetIsGenuine, AcceptedWereSigned
  <2>10. QED
    BY <2>6, <2>8, <2>9 DEF Inv
<1>3. CASE ParseError(m) # None
  <2>1. /\ handler' = [pc |-> "rejected", msg |-> m, error |-> ParseError(m)]
        /\ UNCHANGED <<now, signed, net, ring, accepted>>
    BY <1>3 DEF Parse
  <2>2. ParseError(m) \in Error
    BY <1>3 DEF ParseError, Error
  <2>3. TypeOK'
    BY <1>1, <2>1, <2>2 DEF Inv, TypeOK, HandlerState
  <2>4. SignedAreKnown' /\ NetIsGenuine' /\ HandlerIsGenuine' /\ AcceptedWereSigned'
    BY <2>1 DEF Inv, SignedAreKnown, NetIsGenuine, HandlerIsGenuine, InHand, AcceptedWereSigned
  <2>5. QED
    BY <2>3, <2>4 DEF Inv
<1>4. QED
  BY <1>2, <1>3

LEMMA AdviseKeepsInv ==
  ASSUME Inv, Advise
  PROVE  Inv'
<1> DEFINE expired == now >= handler.parsed.base.params.expires
<1>1. /\ InHand /\ handler.pc = "parsed"
      /\ handler' = [handler EXCEPT !.expired = expired]
      /\ UNCHANGED <<now, signed, net, ring, accepted>>
  BY DEF Advise, InHand
<1>2. handler \in [ pc : {"parsed", "accepted"}, msg : Message, parsed : ParsedLabel,
                    links : SUBSET Uri, expired : BOOLEAN \cup {None},
                    fetched : SUBSET (Uri \X Jwk) ]
  BY <1>1, HandlerInHand DEF Inv
<1>3. expired \in BOOLEAN
  OBVIOUS
<1> HIDE DEF expired
<1>4. /\ handler' \in HandlerState /\ handler'.parsed = handler.parsed /\ handler'.msg = handler.msg
      /\ handler'.links = handler.links /\ handler'.fetched = handler.fetched /\ handler'.pc = "parsed"
  BY <1>1, <1>2, <1>3 DEF HandlerState
<1>5. TypeOK'
  BY <1>1, <1>4 DEF Inv, TypeOK
<1>6. SignedAreKnown' /\ NetIsGenuine' /\ HandlerIsGenuine' /\ AcceptedWereSigned'
  BY <1>1, <1>4
     DEF Inv, SignedAreKnown, NetIsGenuine, HandlerIsGenuine, RingIsFetched, AcceptedWereSigned
<1>7. QED
  BY <1>5, <1>6 DEF Inv

LEMMA FetchDirectoryKeepsInv ==
  ASSUME Inv, NEW uri \in Uri, NEW jwk \in Jwk, FetchDirectory(uri, jwk)
  PROVE  Inv'
<1>1. /\ InHand /\ handler.pc = "parsed" /\ uri \in handler.links
      /\ handler' = [handler EXCEPT !.fetched = @ \cup {<<uri, jwk>>}]
      /\ ring' = TryImportJwkInto(ring, jwk)
      /\ UNCHANGED <<now, signed, net, accepted>>
  BY DEF FetchDirectory, InHand
<1>2. handler \in [ pc : {"parsed", "accepted"}, msg : Message, parsed : ParsedLabel,
                    links : SUBSET Uri, expired : BOOLEAN \cup {None},
                    fetched : SUBSET (Uri \X Jwk) ]
  BY <1>1, HandlerInHand DEF Inv
<1>3. /\ handler' \in HandlerState /\ handler'.parsed = handler.parsed /\ handler'.msg = handler.msg
      /\ handler'.links = handler.links /\ handler'.pc = "parsed"
      /\ handler'.fetched = handler.fetched \cup {<<uri, jwk>>}
  BY <1>1, <1>2 DEF HandlerState
<1>4. IsRing(ring')
  BY <1>1, TryImportStep DEF Inv, TypeOK
<1>5. TypeOK'
  BY <1>1, <1>3, <1>4 DEF Inv, TypeOK
<1>6. ASSUME RingIsFetched PROVE RingIsFetched'
  <2>1. IsRing(ring)
    BY DEF Inv, TypeOK
  <2>2. ASSUME NEW id \in DOMAIN ring' \ DOMAIN Preloaded
        PROVE  \/ id \in DOMAIN ring /\ ring'[id] = ring[id]
               \/ ring'[id][2] = PublicKey(jwk)
    <3>1. CASE JwkOutcome(ring, jwk) # "Imported"
      BY <1>1, <2>1, <3>1, TryImportStep
    <3>2. CASE JwkOutcome(ring, jwk) = "Imported"
      <4>1. /\ DOMAIN ring' = DOMAIN ring \cup {Thumbprint[jwk]}
            /\ ring'[Thumbprint[jwk]] = JwkEntry(jwk)
            /\ \A other \in DOMAIN ring : ring'[other] = ring[other]
        BY <1>1, <2>1, <3>2, TryImportStep
      <4>2. JwkEntry(jwk)[2] = PublicKey(jwk)
        BY DEF JwkEntry
      <4>3. QED
        BY <2>2, <4>1, <4>2
    <3>3. QED
      BY <3>1, <3>2
  <2>3. <<uri, jwk>>[1] = uri /\ <<uri, jwk>>[2] = jwk
    OBVIOUS
  <2>4. QED
    BY <1>1, <1>3, <1>6, <2>2, <2>3 DEF RingIsFetched
<1>7. HandlerIsGenuine'
  BY <1>1, <1>3, <1>6 DEF Inv, HandlerIsGenuine
<1>8. SignedAreKnown' /\ NetIsGenuine' /\ AcceptedWereSigned'
  BY <1>1 DEF Inv, SignedAreKnown, NetIsGenuine, AcceptedWereSigned
<1>9. QED
  BY <1>5, <1>7, <1>8 DEF Inv

\* Two messages with the same base, over a list that covers the target, are for one authority.
LEMMA SameAuthority ==
  ASSUME NEW m, NEW list, CoversTarget(list), NEW n, NEW other, Base(m, list) = Base(n, other)
  PROVE  n.authority = m.authority
<1> DEFINE shown == Base(m, list).components
<1>1. \E i \in DOMAIN shown : shown[i][1] \in TargetItem /\ shown[i][2] = m.authority
  BY BaseShowsTarget
<1>2. \A i \in DOMAIN shown : shown[i][1] \in TargetItem => shown[i][2] = n.authority
  BY BaseShowsTarget
<1> HIDE DEF shown
<1>3. QED
  BY <1>1, <1>2

\* What a bot put on its message is its signature over the list it sent.
LEMMA SignedSignature ==
  ASSUME Inv, NEW s \in signed
  PROVE  /\ AsSigned(s)
         /\ s.msg.sigs[1].sig = Signature(s.key, s.algorithm, Base(s.msg, List(s)))
         /\ s.msg.sigs[1].sig.base = Base(s.msg, List(s))
<1> DEFINE sig == Signature(s.key, s.algorithm, Base(s.msg, List(s)))
<1>1. AsSigned(s)
  BY DEF Inv, SignedAreKnown
<1>2. sig.base = Base(s.msg, List(s))
  BY DEF Signature
<1>3. s.msg.sigs = <<[label |-> s.msg.inputs[1].label, sig |-> sig]>>
  BY <1>1 DEF AsSigned
<1> HIDE DEF sig
<1>4. s.msg.sigs[1].sig = sig
  BY <1>3
<1>5. QED
  BY <1>1, <1>2, <1>4 DEF sig

\* A verification that succeeds admits the authority at hand under the key that signed it.
LEMMA VerifyAdmits ==
  ASSUME Inv, Verify, VerifyError(handler.parsed, ring) = None
  PROVE  LET a == Admission(handler.msg, handler.parsed, ring) IN
         /\ InHand
         /\ a.keyid \in DOMAIN ring /\ a.key = ring[a.keyid][2]
         /\ a \in [key : Key, keyid : Id, authority : Authority]
         /\ a.key # ForeignKey => \E s \in signed : s.key = a.key /\ s.msg.authority = a.authority
<1> DEFINE id == handler.parsed.base.params.keyid
           a == Admission(handler.msg, handler.parsed, ring)
<1>1. InHand
  BY DEF Verify, InHand
<1>2. handler.msg \in Message
  BY <1>1, HandlerInHand DEF Inv
<1>3. id \in DOMAIN ring /\ handler.parsed.signature = Signature(ring[id][2], "Ed25519", handler.parsed.base)
  BY VerifySucceeds
<1>4. id \in Id /\ ring[id][2] \in Key /\ handler.msg.authority \in Authority
  BY <1>2, <1>3 DEF Inv, TypeOK, IsRing, Entry, Message
<1>5. a.keyid = id /\ a.key = ring[id][2] /\ a.authority = handler.msg.authority
  BY DEF Admission
<1>6. a \in [key : Key, keyid : Id, authority : Authority]
  BY <1>4 DEF Admission
<1>7. ASSUME a.key # ForeignKey
      PROVE  \E s \in signed : s.key = a.key /\ s.msg.authority = a.authority
  <2>1. PICK s \in signed : s.key = handler.parsed.signature.by /\ handler.parsed.signature = s.msg.sigs[1].sig
    BY <1>1, <1>3, <1>5, <1>7 DEF Inv, HandlerIsGenuine, Genuine, Signature
  <2>2. handler.parsed.signature.by = a.key /\ handler.parsed.signature.base = handler.parsed.base
    BY <1>3, <1>5 DEF Signature
  <2>3. handler.parsed.base = Base(handler.msg, PickedList(handler.msg)) /\ CoversTarget(PickedList(handler.msg))
    BY <1>1, <1>2, ParseSucceeds DEF Inv, HandlerIsGenuine, Pick
  <2>4. s.msg.sigs[1].sig.base = Base(s.msg, List(s))
    BY SignedSignature
  <2>5. s.msg.authority = handler.msg.authority
    BY <2>1, <2>2, <2>3, <2>4, SameAuthority
  <2> HIDE DEF a
  <2>6. QED
    BY <1>5, <2>1, <2>2, <2>5
<1>8. QED
  BY <1>1, <1>3, <1>5, <1>6, <1>7

LEMMA VerifyKeepsInv ==
  ASSUME Inv, Verify
  PROVE  Inv'
<1>1. InHand /\ UNCHANGED <<now, signed, net, ring>>
  BY DEF Verify, InHand
<1>2. handler \in [ pc : {"parsed", "accepted"}, msg : Message, parsed : ParsedLabel,
                    links : SUBSET Uri, expired : BOOLEAN \cup {None},
                    fetched : SUBSET (Uri \X Jwk) ]
  BY <1>1, HandlerInHand DEF Inv
<1>3. CASE VerifyError(handler.parsed, ring) = None
  <2> DEFINE a == Admission(handler.msg, handler.parsed, ring)
  <2>1. handler' = [handler EXCEPT !.pc = "accepted"] /\ accepted' = accepted \cup {a}
    BY <1>3 DEF Verify
  <2>2. /\ a \in [key : Key, keyid : Id, authority : Authority]
        /\ a.key # ForeignKey => \E s \in signed : s.key = a.key /\ s.msg.authority = a.authority
    BY <1>3, VerifyAdmits
  <2>3. /\ handler' \in HandlerState /\ handler'.parsed = handler.parsed /\ handler'.msg = handler.msg
        /\ handler'.links = handler.links /\ handler'.fetched = handler.fetched
    BY <1>2, <2>1 DEF HandlerState
  <2> HIDE DEF a
  <2>4. TypeOK'
    BY <1>1, <2>1, <2>2, <2>3 DEF Inv, TypeOK
  <2>5. AcceptedWereSigned'
    BY <1>1, <2>1, <2>2 DEF Inv, AcceptedWereSigned
  <2>6. SignedAreKnown' /\ NetIsGenuine' /\ HandlerIsGenuine'
    BY <1>1, <1>3, <2>3 DEF Inv, SignedAreKnown, NetIsGenuine, HandlerIsGenuine, RingIsFetched
  <2>7. QED
    BY <2>4, <2>5, <2>6 DEF Inv
<1>4. CASE VerifyError(handler.parsed, ring) # None
  <2> DEFINE e == VerifyError(handler.parsed, ring)
  <2>1. handler' = [pc |-> "rejected", msg |-> handler.msg, error |-> e] /\ accepted' = accepted
    BY <1>4 DEF Verify
  <2>2. e \in Error
    BY <1>4 DEF VerifyError, Error
  <2> HIDE DEF e
  <2>3. TypeOK'
    BY <1>1, <1>2, <2>1, <2>2 DEF Inv, TypeOK, HandlerState
  <2>4. SignedAreKnown' /\ NetIsGenuine' /\ HandlerIsGenuine' /\ AcceptedWereSigned'
    BY <1>1, <2>1 DEF Inv, SignedAreKnown, NetIsGenuine, HandlerIsGenuine, InHand, AcceptedWereSigned
  <2>5. QED
    BY <2>3, <2>4 DEF Inv
<1>5. QED
  BY <1>3, <1>4

LEMMA InitInv == Init => Inv
BY WebBotAuthAssumption
   DEF Init, Inv, TypeOK, HandlerState, SignedAreKnown, NetIsGenuine, HandlerIsGenuine, InHand,
       AcceptedWereSigned, Idle

LEMMA NextInv ==
  ASSUME Inv, [Next]_vars
  PROVE  Inv'
<1>1. CASE Tick
  BY <1>1, WebBotAuthAssumption
     DEF Tick, Inv, TypeOK, SignedAreKnown, NetIsGenuine, HandlerIsGenuine, RingIsFetched, InHand,
         AcceptedWereSigned
<1>2. CASE \E jwk \in BotJwk, alg \in SignerAlg, l \in Label, a \in Authority,
             agents \in AgentHeader, items \in Coverage : SignRequest(jwk, alg, l, a, agents, items)
  BY <1>2, SignRequestKeepsInv
<1>3. ASSUME NEW m \in net,
             \/ \E a \in Authority : Reroute(m, a)
             \/ \E member \in AddedMember : AddAgent(m, member)
             \/ \E l \in Label, list \in ForeignList, first \in BOOLEAN : AddSignature(m, l, list, first)
             \/ \E i \in DOMAIN m.inputs : DamageInput(m, i)
             \/ \E i \in DOMAIN m.sigs : DamageSignature(m, i)
             \/ Parse(m)
      PROVE  Inv'
  BY <1>3, RerouteKeepsInv, AddAgentKeepsInv, AddSignatureKeepsInv, DamageInputKeepsInv,
     DamageSignatureKeepsInv, ParseKeepsInv
<1>4. CASE Advise
  BY <1>4, AdviseKeepsInv
<1>5. CASE \E uri \in Uri, jwk \in Jwk : FetchDirectory(uri, jwk)
  BY <1>5, FetchDirectoryKeepsInv
<1>6. CASE Verify
  BY <1>6, VerifyKeepsInv
<1>7. CASE Finish
  BY <1>7 DEF Finish, Inv, TypeOK, HandlerState, SignedAreKnown, NetIsGenuine, HandlerIsGenuine,
     InHand, AcceptedWereSigned, Idle
<1>8. CASE UNCHANGED vars
  BY <1>8 DEF vars, Inv, TypeOK, SignedAreKnown, NetIsGenuine, HandlerIsGenuine, RingIsFetched,
     InHand, AcceptedWereSigned
<1>9. QED
  BY <1>1, <1>2, <1>3, <1>4, <1>5, <1>6, <1>7, <1>8 DEF Next

LEMMA Invariance == Spec => []Inv
<1>1. Inv /\ [Next]_vars => Inv'
  BY NextInv
<1>2. QED
  BY <1>1, InitInv, PTL DEF Spec

\* The clock, the network, the keyring and the request in hand keep their types: what
\* MessageVerifier::parse and verify are given and return is well formed.
THEOREM TypeCorrect == Spec => []TypeOK
BY Invariance, PTL DEF Inv

\* WebBotAuthVerifier::verify never accepts a request under a bot's key that this bot did not
\* sign for that authority, however many intermediaries changed, re-signed or repeated it.
THEOREM OnlySignedIsAccepted == Spec => []AcceptedWereSigned
BY Invariance, PTL DEF Inv

-------------------------------------------------------------------------------
(***************************************************************************)
(* Where the keys of an accepted request come from.                        *)
(***************************************************************************)

\* Two bases are equal only if the lists and what they cover are.
LEMMA SameComponents ==
  ASSUME NEW m, NEW list, NEW n, NEW other, Base(m, list) = Base(n, other)
  PROVE  /\ DOMAIN other.items = DOMAIN list.items
         /\ \A i \in DOMAIN list.items :
              other.items[i] = list.items[i] /\ Value(n, list.items[i]) = Value(m, list.items[i])
<1>1. \A x, l : /\ DOMAIN Base(x, l).components = DOMAIN l.items
                /\ \A i \in DOMAIN l.items :
                     Base(x, l).components[i] = <<l.items[i], Value(x, l.items[i])>>
  BY DEF Base
<1>2. DOMAIN other.items = DOMAIN list.items
  BY <1>1
<1>3. \A i \in DOMAIN list.items :
        <<list.items[i], Value(m, list.items[i])>> = <<other.items[i], Value(n, other.items[i])>>
  BY <1>1, <1>2
<1>4. QED
  BY <1>2, <1>3

\* The label a list covers is the key parameter of one of its signature-agent items.
LEMMA CoveredLabel ==
  ASSUME NEW list \in InnerList
  PROVE  \/ /\ CoveredAgentLabel(list) # None
            /\ \E c \in DOMAIN list.items :
                 /\ list.items[c].name = "signature-agent"
                 /\ list.items[c].key = CoveredAgentLabel(list)
         \/ /\ CoveredAgentLabel(list) = None
            /\ \A c \in DOMAIN list.items :
                 list.items[c].name = "signature-agent" => list.items[c].key = None
<1> DEFINE keyed == { i \in DOMAIN list.items :
                        list.items[i].name = "signature-agent" /\ list.items[i].key # None }
<1>1. CASE keyed = {}
  BY <1>1 DEF CoveredAgentLabel
<1>2. CASE keyed # {}
  <2>1. keyed \in SUBSET Nat
    BY DEF InnerList
  <2> DEFINE c == CHOOSE i \in keyed : \A j \in keyed : i <= j
  <2>2. \E i \in keyed : \A j \in keyed : i <= j
    <3> HIDE DEF keyed
    <3>1. QED
      BY <1>2, <2>1, SmallestExists
  <2>3. c \in keyed
    <3> HIDE DEF keyed
    <3>1. QED
      BY <2>2
  <2>4. CoveredAgentLabel(list) = list.items[c].key
    BY <1>2 DEF CoveredAgentLabel
  <2> HIDE DEF c
  <2>5. QED
    BY <2>3, <2>4
<1>3. QED
  BY <1>1, <1>2

\* A link that parse reported stands under a label the signer itself sent.
LEMMA LinkIsSigners ==
  ASSUME Inv, NEW m \in Message, NEW list \in InnerList, Pick(m, list),
         NEW s \in signed, Base(m, list) = Base(s.msg, List(s)), NEW uri \in Links(m, list)
  PROVE  \E i \in DOMAIN s.msg.agents, n \in DOMAIN m.agents :
           s.msg.agents[i].label = m.agents[n].label /\ m.agents[n].uri = uri
<1> DEFINE label == CoveredAgentLabel(list)
<1>1. PICK n \in DOMAIN m.agents : m.agents[n].uri = uri /\ (label # None => m.agents[n].label = label)
  BY DEF Links
<1>2. AsSigned(s)
  BY SignedSignature
<1>3. /\ DOMAIN List(s).items = DOMAIN list.items
      /\ \A c \in DOMAIN list.items :
           List(s).items[c] = list.items[c] /\ Value(s.msg, list.items[c]) = Value(m, list.items[c])
  BY SameComponents
<1>4. CASE label # None
  <2>1. PICK c \in DOMAIN list.items : list.items[c].name = "signature-agent" /\ list.items[c].key = label
    BY <1>4, CoveredLabel
  <2>2. Found(s.msg, list.items[c])
    BY <1>2, <1>3 DEF AsSigned
  <2>3. label \in Labels(s.msg.agents)
    BY <1>4, <2>1, <2>2 DEF Found
  <2>4. QED
    BY <1>1, <1>4, <2>3 DEF Labels
<1>5. CASE label = None
  <2>1. m.agents # <<>>
    BY <1>1
  <2>2. PICK c \in DOMAIN list.items : list.items[c].name = "signature-agent"
    BY <2>1 DEF Pick, CoversAgent, ItemsOf
  <2>3. list.items[c].key = None
    BY <1>5, <2>2, CoveredLabel
  <2>4. m.agents = s.msg.agents
    BY <1>3, <2>2, <2>3 DEF Value
  <2>5. QED
    BY <1>1, <2>4
<1>6. QED
  BY <1>4, <1>5

\* A key fetched for the request alone that verifies it was configured, or was served by a
\* directory of verify.rs's fetch loop that stands under a label the signer itself sent, for
\* any headers intermediaries add: get_signature_agents reports no link of another label.
THEOREM SignersNameTheDirectory == Spec => []AgentVouchesForKey
<1>1. ASSUME Inv PROVE AgentVouchesForKey
  <2> DEFINE m == handler.msg
             list == PickedList(m)
             keyid == handler.parsed.base.params.keyid
             key == ring[keyid][2]
  <2> SUFFICES ASSUME handler.pc = "accepted", ~KeepRing, keyid \notin DOMAIN Preloaded, key # ForeignKey
               PROVE  \E f \in handler.fetched, s \in signed :
                        /\ PublicKey(f[2]) = key
                        /\ s.key = key /\ s.msg.authority = m.authority
                        /\ \E i \in DOMAIN s.msg.agents, n \in DOMAIN m.agents :
                             s.msg.agents[i].label = m.agents[n].label /\ m.agents[n].uri = f[1]
    BY DEF AgentVouchesForKey
  <2>1. /\ InHand /\ m \in Message
        /\ ParseError(m) = None /\ handler.parsed = Parsed(m)
        /\ handler.links = Links(m, list)
        /\ Genuine(handler.parsed.signature, signed)
        /\ VerifyError(handler.parsed, ring) = None
        /\ RingIsFetched
    BY <1>1, HandlerInHand DEF InHand, Inv, HandlerIsGenuine
  <2>2. keyid \in DOMAIN ring /\ handler.parsed.signature = Signature(key, "Ed25519", handler.parsed.base)
    BY <2>1, VerifySucceeds
  <2>3. list \in InnerList /\ Pick(m, list) /\ handler.parsed.base = Base(m, list)
    BY <2>1, ParseSucceeds
  <2>4. PICK f \in handler.fetched : f[1] \in handler.links /\ PublicKey(f[2]) = key
    BY <2>1, <2>2 DEF RingIsFetched
  <2>5. handler.parsed.signature.by = key /\ handler.parsed.signature.base = Base(m, list)
    BY <2>2, <2>3 DEF Signature
  <2>6. PICK s \in signed : s.key = key /\ handler.parsed.signature = s.msg.sigs[1].sig
    BY <2>1, <2>5 DEF Genuine
  <2>7. Base(m, list) = Base(s.msg, List(s))
    BY <1>1, <2>5, <2>6, SignedSignature
  <2>8. s.msg.authority = m.authority
    BY <2>3, <2>7, SameAuthority DEF Pick
  <2> HIDE DEF m, list, keyid, key
  <2>9. \E i \in DOMAIN s.msg.agents, n \in DOMAIN m.agents :
          s.msg.agents[i].label = m.agents[n].label /\ m.agents[n].uri = f[1]
    BY <1>1, <2>1, <2>3, <2>4, <2>7, LinkIsSigners
  <2>10. QED
    BY <2>4, <2>6, <2>8, <2>9
<1>2. QED
  BY <1>1, Invariance, PTL

-------------------------------------------------------------------------------
(***************************************************************************)
(* Key identifiers.                                                        *)
(***************************************************************************)

\* What KeyIdBinding says of accepted requests holds of the keyring all the time.
RingIsBound ==
  \A id \in DOMAIN ring \ DOMAIN Preloaded :
    \E jwk \in Jwk : Thumbprint[jwk] = id /\ PublicKey(jwk) \in Key /\ ring[id] = JwkEntry(jwk)

KeyInv == RingIsBound /\ KeyIdBinding

LEMMA KeyInvNext ==
  ASSUME Inv, KeyInv, [Next]_vars
  PROVE  KeyInv'
<1>1. CASE UNCHANGED <<ring, accepted>>
  BY <1>1 DEF KeyInv, RingIsBound, KeyIdBinding
<1>2. ASSUME NEW m \in net, Parse(m)
      PROVE  KeyInv'
  <2>1. ring' \in {ring, Preloaded} /\ accepted' = accepted
    BY <1>2 DEF Parse
  <2>2. QED
    BY <2>1 DEF KeyInv, RingIsBound, KeyIdBinding
<1>3. ASSUME NEW uri \in Uri, NEW jwk \in Jwk, FetchDirectory(uri, jwk)
      PROVE  KeyInv'
  <2>1. ring' = TryImportJwkInto(ring, jwk) /\ accepted' = accepted /\ IsRing(ring)
    BY <1>3 DEF FetchDirectory, Inv, TypeOK
  <2>2. /\ JwkOutcome(ring, jwk) # "Imported" => ring' = ring
        /\ JwkOutcome(ring, jwk) = "Imported" =>
             /\ PublicKey(jwk) \in Key
             /\ DOMAIN ring' = DOMAIN ring \cup {Thumbprint[jwk]}
             /\ ring'[Thumbprint[jwk]] = JwkEntry(jwk)
        /\ \A id \in DOMAIN ring : id \in DOMAIN ring' /\ ring'[id] = ring[id]
    BY <2>1, TryImportStep
  <2>3. RingIsBound'
    BY <2>2 DEF KeyInv, RingIsBound
  <2>4. QED
    BY <2>1, <2>3 DEF KeyInv, KeyIdBinding
<1>4. ASSUME Verify
      PROVE  KeyInv'
  <2>1. ring' = ring
    BY <1>4 DEF Verify
  <2>2. CASE VerifyError(handler.parsed, ring) = None
    <3> DEFINE a == Admission(handler.msg, handler.parsed, ring)
    <3>1. accepted' = accepted \cup {a}
      BY <1>4, <2>2 DEF Verify
    <3>2. a.keyid \in DOMAIN ring /\ a.key = ring[a.keyid][2]
      BY <1>4, <2>2, VerifyAdmits
    <3>3. \A jwk \in Jwk : JwkEntry(jwk)[2] = PublicKey(jwk)
      BY DEF JwkEntry
    <3> HIDE DEF a
    <3>4. QED
      BY <2>1, <3>1, <3>2, <3>3 DEF KeyInv, RingIsBound, KeyIdBinding
  <2>3. CASE VerifyError(handler.parsed, ring) # None
    <3>1. accepted' = accepted
      BY <1>4, <2>3 DEF Verify
    <3>2. QED
      BY <2>1, <3>1 DEF KeyInv, RingIsBound, KeyIdBinding
  <2>4. QED
    BY <2>2, <2>3
<1>5. QED
  BY <1>1, <1>2, <1>3, <1>4
     DEF Next, Tick, SignRequest, Reroute, AddAgent, AddSignature, DamageInput, DamageSignature,
         Forward, Advise, Finish, vars

LEMMA KeyInvariance == Spec => []KeyInv
<1>1. Init => KeyInv
  BY DEF Init, KeyInv, RingIsBound, KeyIdBinding
<1>2. Inv /\ KeyInv /\ [Next]_vars => KeyInv'
  BY KeyInvNext
<1>3. QED
  BY <1>1, <1>2, Invariance, PTL DEF Spec

\* The key id of an accepted request that is not configured by hand is the thumbprint of the
\* key that verified it: no directory can have keyring.rs file another key under it.
THEOREM KeyIdsAreBound == Spec => []KeyIdBinding
BY KeyInvariance, PTL DEF KeyInv

-------------------------------------------------------------------------------
(***************************************************************************)
(* Why a request is refused.                                               *)
(***************************************************************************)

\* A signature that the JWK the key id is the thumbprint of did not make over this base.
NotItsKeys(parsed) ==
  \E jwk \in Jwk :
    /\ Thumbprint[jwk] = parsed.base.params.keyid
    /\ parsed.signature # Signature(PublicKey(jwk), "Ed25519", parsed.base)

\* A request that parses is refused because its key is not known, because it was configured by
\* hand what its key is, or because that key did not make its signature.
Refused ==
  handler.pc = "rejected" =>
    \/ ParseError(handler.msg) # None
    \/ handler.error = "NoSuchKey"
    \/ Parsed(handler.msg).base.params.keyid \in DOMAIN Preloaded
    \/ NotItsKeys(Parsed(handler.msg))

LEMMA VerifyRefuses ==
  ASSUME Inv, RingIsBound, Verify, VerifyError(handler.parsed, ring) # None
  PROVE  Refused'
<1> DEFINE parsed == handler.parsed
           id == parsed.base.params.keyid
           e == VerifyError(parsed, ring)
<1>1. handler' = [pc |-> "rejected", msg |-> handler.msg, error |-> e]
  BY DEF Verify
<1>2. parsed = Parsed(handler.msg)
  BY DEF Inv, HandlerIsGenuine, InHand, Verify
<1>3. CASE id \notin DOMAIN ring
  <2>1. e = "NoSuchKey"
    BY <1>3 DEF VerifyError
  <2> HIDE DEF e, parsed
  <2>2. QED
    BY <1>1, <2>1 DEF Refused
<1>4. CASE id \in DOMAIN Preloaded
  <2> HIDE DEF e, parsed
  <2>1. QED
    BY <1>1, <1>2, <1>4 DEF Refused
<1>5. CASE id \in DOMAIN ring \ DOMAIN Preloaded
  <2>1. PICK jwk \in Jwk : Thumbprint[jwk] = id /\ PublicKey(jwk) \in Key /\ ring[id] = JwkEntry(jwk)
    BY <1>5 DEF RingIsBound
  <2>2. ring[id][1] = "Ed25519" /\ ring[id][2] = PublicKey(jwk)
    BY <2>1, BytesAssumption DEF JwkEntry, AlgorithmOf, PublicKey
  <2>3. parsed.signature # Signature(PublicKey(jwk), "Ed25519", parsed.base)
    BY <1>5, <2>2 DEF VerifyError
  <2>4. NotItsKeys(parsed)
    BY <2>1, <2>3 DEF NotItsKeys
  <2> HIDE DEF e, parsed
  <2>5. QED
    BY <1>1, <1>2, <2>4 DEF Refused
<1>6. QED
  BY <1>3, <1>4, <1>5

LEMMA RefusedNext ==
  ASSUME Inv, RingIsBound, Refused, [Next]_vars
  PROVE  Refused'
<1>1. CASE UNCHANGED handler
  BY <1>1 DEF Refused
<1>2. ASSUME NEW m \in net, Parse(m) PROVE Refused'
  <2>1. CASE ParseError(m) = None
    <3>1. handler'.pc = "parsed"
      BY <1>2, <2>1 DEF Parse
    <3>2. QED
      BY <3>1 DEF Refused
  <2>2. CASE ParseError(m) # None
    <3>1. handler'.msg = m
      BY <1>2, <2>2 DEF Parse
    <3>2. QED
      BY <2>2, <3>1 DEF Refused
  <2>3. QED
    BY <2>1, <2>2
<1>3. CASE Advise \/ \E uri \in Uri, jwk \in Jwk : FetchDirectory(uri, jwk)
  <2>1. handler \in [ pc : {"parsed", "accepted"}, msg : Message, parsed : ParsedLabel,
                      links : SUBSET Uri, expired : BOOLEAN \cup {None},
                      fetched : SUBSET (Uri \X Jwk) ]
    BY <1>3, HandlerInHand DEF Inv, InHand, Advise, FetchDirectory
  <2>2. handler'.pc = "parsed"
    BY <1>3, <2>1 DEF Advise, FetchDirectory
  <2>3. QED
    BY <2>2 DEF Refused
<1>4. CASE Verify
  <2>1. CASE VerifyError(handler.parsed, ring) = None
    <3>1. handler \in [ pc : {"parsed", "accepted"}, msg : Message, parsed : ParsedLabel,
                        links : SUBSET Uri, expired : BOOLEAN \cup {None},
                        fetched : SUBSET (Uri \X Jwk) ]
      BY <1>4, HandlerInHand DEF Inv, InHand, Verify
    <3>2. handler'.pc = "accepted"
      BY <1>4, <2>1, <3>1 DEF Verify
    <3>3. QED
      BY <3>2 DEF Refused
  <2>2. CASE VerifyError(handler.parsed, ring) # None
    BY <1>4, <2>2, VerifyRefuses
  <2>3. QED
    BY <2>1, <2>2
<1>5. CASE Finish
  <2>1. handler'.pc = "idle"
    BY <1>5 DEF Finish, Idle
  <2>2. QED
    BY <2>1 DEF Refused
<1>6. QED
  BY <1>1, <1>2, <1>3, <1>4, <1>5
     DEF Next, Tick, SignRequest, Reroute, AddAgent, AddSignature, DamageInput, DamageSignature,
         Forward, vars

\* In a list of members in which only one carries its label, the label stands for that one.
LEMMA OnlyMember ==
  ASSUME NEW T, NEW members \in Seq(T), NEW e \in { members[i] : i \in DOMAIN members },
         \A i \in DOMAIN members : members[i] # e => members[i].label # e.label
  PROVE  e.label \in Labels(members) /\ Member(members, e.label) = e
<1>1. e.label \in Labels(members)
  BY DEF Labels
<1>2. QED
  BY <1>1, MemberIsOne

\* From an intact copy of a compliant message, parse returns the bot's signature and its base.
LEMMA IntactIsParsed ==
  ASSUME Inv, NEW s \in signed, NEW m \in Message, Compliant(s), Intact(m, s)
  PROVE  /\ ParseError(m) = None
         /\ Parsed(m).signature = s.msg.sigs[1].sig
         /\ Parsed(m).base = Base(s.msg, List(s))
<1> DEFINE list == List(s)
           input == s.msg.inputs[1]
           entry == s.msg.sigs[1]
           l == input.label
<1>1. AsSigned(s)
  BY SignedSignature
<1>2. input.list = list /\ entry.label = l
  <2>1. s.msg.sigs[1].label = s.msg.inputs[1].label
    BY <1>1 DEF AsSigned
  <2>2. QED
    BY <2>1 DEF List
<1>3. m.inputs \in Seq(InputEntry) /\ m.sigs \in Seq(SigEntry)
  BY DEF Message
<1>4. l \in Labels(m.inputs) /\ Member(m.inputs, l) = input
  BY <1>3, OnlyMember DEF Intact
<1>5. l \in Labels(m.sigs) /\ Member(m.sigs, l) = entry
  <2>1. entry.label \in Labels(m.sigs) /\ Member(m.sigs, entry.label) = entry
    BY <1>3, OnlyMember DEF Intact
  <2>2. QED
    BY <1>2, <2>1
<1>6. m.agents = s.msg.agents /\ m.authority = s.msg.authority
  BY DEF Intact
<1>7. Pick(m, list)
  <2>1. list.params.keyid # None /\ list.params.created # None /\ list.params.expires # None
    BY <1>1, MessageAssumption, ThumbprintAssumption, WebBotAuthAssumption DEF AsSigned
  <2>2. list.params.tag = "web-bot-auth"
    BY <1>1 DEF AsSigned
  <2>3. CoversTarget(list) /\ (m.agents # <<>> => CoversAgent(list))
    BY <1>6 DEF Compliant, List
  <2> HIDE DEF list
  <2>4. QED
    BY <2>1, <2>2, <2>3 DEF Pick
<1>8. \A k \in Candidates(m) : k = l
  <2> SUFFICES ASSUME NEW k \in Candidates(m) PROVE k = l
    OBVIOUS
  <2>1. k \in Labels(m.inputs) /\ Pick(m, Member(m.inputs, k).list)
    BY DEF Candidates
  <2>2. PICK i \in DOMAIN m.inputs : m.inputs[i].label = k /\ Member(m.inputs, k) = m.inputs[i]
    BY <1>3, <2>1, MemberIsOne
  <2>3. ClaimsWebBotAuth(m.inputs[i].list)
    BY <2>1, <2>2 DEF Pick, ClaimsWebBotAuth
  <2>4. m.inputs[i] = input
    BY <2>3 DEF Intact
  <2>5. QED
    BY <2>2, <2>4
<1>9. Candidates(m) # {} /\ Picked(m) = l
  <2>1. l \in Candidates(m)
    BY <1>2, <1>4, <1>7 DEF Candidates
  <2>2. QED
    BY <1>8, <2>1, PickedIsCandidate
<1>10. PickedList(m) = list
  BY <1>2, <1>4, <1>9 DEF PickedList
<1>11. \A item : Value(m, item) = Value(s.msg, item) /\ (Found(s.msg, item) => Found(m, item))
  BY <1>6 DEF Value, Found
<1>12. ParseError(m) = None
  <2>1. m.inputs # <<>> /\ m.sigs # <<>>
    BY <1>4, <1>5 DEF Labels
  <2>2. Picked(m) \in Labels(m.sigs)
    BY <1>5, <1>9
  <2>3. \A item \in ItemsOf(PickedList(m)) : Found(m, item)
    BY <1>1, <1>10, <1>11 DEF AsSigned, ItemsOf
  <2>4. ~AgentsRefused(m)
    BY <1>6 DEF Compliant, AgentsRefused
  <2>5. QED
    BY <1>9, <2>1, <2>2, <2>3, <2>4 DEF ParseError
<1>13. Base(m, list) = Base(s.msg, list)
  BY <1>11 DEF Base
<1>14. Parsed(m).signature = entry.sig /\ Parsed(m).base = Base(m, list)
  BY <1>5, <1>9, <1>10 DEF Parsed
<1>15. QED
  BY <1>12, <1>13, <1>14

\* Signer and verifier agree for any headers and signatures of other kinds that intermediaries
\* add: what MessageSigner signs by the rules is refused by WebBotAuthVerifier for one reason
\* only, that its key is not known, unless another key was configured under its id.
THEOREM SignerAndVerifierAgree == Spec => []IntactIsAccepted
<1>1. Init => Refused
  BY DEF Init, Refused, Idle
<1>2. Inv /\ KeyInv /\ Refused /\ [Next]_vars => Refused'
  BY RefusedNext DEF KeyInv
<1>3. ASSUME Inv, Refused PROVE IntactIsAccepted
  <2> SUFFICES ASSUME handler.pc = "rejected", handler.error # "NoSuchKey",
                      NEW s \in signed, Compliant(s), Intact(handler.msg, s),
                      List(s).params.keyid \notin DOMAIN Preloaded
               PROVE  FALSE
    BY DEF IntactIsAccepted, List
  <2> DEFINE m == handler.msg
             base == Base(s.msg, List(s))
             sig == s.msg.sigs[1].sig
  <2>1. m \in Message
    BY <1>3 DEF Inv, TypeOK, HandlerState, Idle
  <2>2. ParseError(m) = None /\ Parsed(m).signature = sig /\ Parsed(m).base = base
    BY <1>3, <2>1, IntactIsParsed
  <2>3. base.params = List(s).params
    BY DEF Base
  <2>4. AsSigned(s) /\ sig = Signature(s.key, "Ed25519", base)
    BY <1>3, SignedSignature DEF Compliant
  <2>5. PICK bot \in Jwk : List(s).params.keyid = Thumbprint[bot] /\ s.key = PublicKey(bot)
    BY <2>4, WebBotAuthAssumption DEF AsSigned
  <2> HIDE DEF m, base, sig
  <2>6. NotItsKeys(Parsed(m))
    BY <1>3, <2>2, <2>3 DEF Refused, m
  <2>7. PICK jwk \in Jwk : Thumbprint[jwk] = Thumbprint[bot] /\ sig # Signature(PublicKey(jwk), "Ed25519", base)
    BY <2>2, <2>3, <2>5, <2>6 DEF NotItsKeys
  <2>8. jwk = bot
    BY <2>7, ThumbprintAssumption
  <2>9. QED
    BY <2>4, <2>5, <2>7, <2>8
<1>4. QED
  BY <1>1, <1>2, <1>3, Invariance, KeyInvariance, PTL DEF Spec

-------------------------------------------------------------------------------
(***************************************************************************)
(* WebBotAuth implements AuthenticatedRequests.                            *)
(***************************************************************************)
Made == { [key |-> s.key, authority |-> s.msg.authority] : s \in signed }

Trusted == { ring[id][2] : id \in DOMAIN ring }

Admitted ==
  { [key |-> a.key, authority |-> a.authority] : a \in { b \in accepted : b.key # ForeignKey } }

AbstractStep ==
  \/ \E r \in [key : Key, authority : Authority] : Made' = Made \cup {r} /\ UNCHANGED <<Trusted, Admitted>>
  \/ Trusted' \subseteq Key /\ UNCHANGED <<Made, Admitted>>
  \/ \E r \in Made : r.key \in Trusted /\ Admitted' = Admitted \cup {r} /\ UNCHANGED <<Made, Trusted>>
  \/ UNCHANGED <<Made, Trusted, Admitted>>

LEMMA StepRefines ==
  ASSUME Inv, Inv', [Next]_vars
  PROVE  AbstractStep
<1>1. CASE UNCHANGED <<signed, ring, accepted>>
  BY <1>1 DEF AbstractStep, Made, Trusted, Admitted
<1>2. CASE UNCHANGED <<signed, accepted>>
  <2>1. Trusted' \subseteq Key
    BY DEF Inv, TypeOK, IsRing, Entry, Trusted
  <2>2. UNCHANGED <<Made, Admitted>>
    BY <1>2 DEF Made, Admitted
  <2>3. QED
    BY <2>1, <2>2 DEF AbstractStep
<1>3. ASSUME NEW jwk \in BotJwk, NEW alg \in SignerAlg, NEW l \in Label, NEW a \in Authority,
             NEW agents \in AgentHeader, NEW items \in Coverage,
             SignRequest(jwk, alg, l, a, agents, items)
      PROVE  AbstractStep
  <2> DEFINE unsigned == [authority |-> a, agents |-> agents, inputs |-> <<>>, sigs |-> <<>>]
             msg == SignedMessage(jwk, alg, l, unsigned, items)
             s == [key |-> PublicKey(jwk), algorithm |-> alg, msg |-> msg]
             r == [key |-> PublicKey(jwk), authority |-> a]
  <2>1. signed' = signed \cup {s} /\ UNCHANGED <<ring, accepted>>
    BY <1>3 DEF SignRequest
  <2>2. msg.authority = a /\ PublicKey(jwk) \in Key
    BY WebBotAuthAssumption DEF SignedMessage
  <2>3. Made' = Made \cup {r}
    <3> HIDE DEF msg
    <3>1. [key |-> s.key, authority |-> s.msg.authority] = r
      BY <2>2
    <3> HIDE DEF s, r
    <3>2. QED
      BY <2>1, <3>1 DEF Made
  <2>4. UNCHANGED <<Trusted, Admitted>>
    BY <2>1 DEF Trusted, Admitted
  <2>5. QED
    BY <2>2, <2>3, <2>4 DEF AbstractStep
<1>4. CASE Verify
  <2>1. UNCHANGED <<signed, ring>>
    BY <1>4 DEF Verify
  <2>2. CASE VerifyError(handler.parsed, ring) = None
    <3> DEFINE a == Admission(handler.msg, handler.parsed, ring)
               r == [key |-> a.key, authority |-> a.authority]
    <3>1. accepted' = accepted \cup {a}
      BY <1>4, <2>2 DEF Verify
    <3>2. /\ a.keyid \in DOMAIN ring /\ a.key = ring[a.keyid][2]
          /\ a.key # ForeignKey => \E s \in signed : s.key = a.key /\ s.msg.authority = a.authority
      BY <1>4, <2>2, VerifyAdmits
    <3> HIDE DEF a
    <3>3. UNCHANGED <<Made, Trusted>>
      BY <2>1 DEF Made, Trusted
    <3>4. CASE a.key = ForeignKey
      <4>1. Admitted' = Admitted
        BY <3>1, <3>4 DEF Admitted
      <4>2. QED
        BY <3>3, <4>1 DEF AbstractStep
    <3>5. CASE a.key # ForeignKey
      <4>1. r \in Made
        BY <3>2, <3>5 DEF Made
      <4>2. r.key \in Trusted
        BY <3>2 DEF Trusted
      <4>3. Admitted' = Admitted \cup {r}
        BY <3>1, <3>5 DEF Admitted
      <4>4. QED
        BY <3>3, <4>1, <4>2, <4>3 DEF AbstractStep
    <3>6. QED
      BY <3>4, <3>5
  <2>3. CASE VerifyError(handler.parsed, ring) # None
    <3>1. accepted' = accepted
      BY <1>4, <2>3 DEF Verify
    <3>2. QED
      BY <1>1, <2>1, <3>1
  <2>4. QED
    BY <2>2, <2>3
<1>5. QED
  BY <1>1, <1>2, <1>3, <1>4
     DEF Next, Tick, Reroute, AddAgent, AddSignature, DamageInput, DamageSignature,
         Forward, Parse, Advise, FetchDirectory, Finish, vars

\* Whatever the intermediaries and directories do, the origin admits a request as made with a
\* bot's key to an authority only if it was made, and only while it trusts the key.
THEOREM ImplementsAuthenticatedRequests == Spec => AdmitsOnlyAuthenticated
<1>1. Init => Abstract!Init
  <2>1. ASSUME Init PROVE Trusted \subseteq Key
    BY <2>1, WebBotAuthAssumption DEF Init, IsRing, Entry, Trusted
  <2>2. ASSUME Init PROVE Made = {} /\ Admitted = {}
    BY <2>2 DEF Init, Made, Admitted
  <2>3. QED
    BY <2>1, <2>2 DEF Abstract!Init, Made, Trusted, Admitted
<1>2. Inv /\ Inv' /\ [Next]_vars => [Abstract!Next]_<<Made, Trusted, Admitted>>
  <2> SUFFICES ASSUME Inv, Inv', [Next]_vars
               PROVE  [Abstract!Next]_<<Made, Trusted, Admitted>>
    OBVIOUS
  <2>1. AbstractStep
    BY StepRefines
  <2>2. QED
    BY <2>1 DEF AbstractStep, Abstract!Next, Abstract!Make, Abstract!Trust, Abstract!Admit,
       Abstract!Request, Made, Trusted, Admitted
<1>3. QED
  BY <1>1, <1>2, Invariance, PTL DEF Spec, AdmitsOnlyAuthenticated, Abstract!Spec, Made, Trusted, Admitted
===============================================================================
