------------------------ MODULE VerificationWorkerProofs ------------------------
(***************************************************************************)
(* What the verdicts of examples/verification-workers mean, those of the   *)
(* worker and those of its debug page, for any keys, authorities, agents,  *)
(* labels, directories and intermediaries.                                 *)
(*                                                                         *)
(* The worker: a request answered valid under the example key is           *)
(* authentic, one that arrives as it was signed is answered valid, and the *)
(* Rust verifier decides the same where it reads every agent.  Inv says    *)
(* that every signature in the network that the example key made is the    *)
(* signature of a message as a signing program made it, and that the       *)
(* worker carries with the request what it has found out.                  *)
(*                                                                         *)
(* The debug page, from PageInv on: a request called valid is the one that *)
(* was signed, what the library verifies is valid just where the page has  *)
(* what is covered in the same form, and what the forms show goes together *)
(* however its handlers overlap.                                           *)
(***************************************************************************)
EXTENDS VerificationWorker, DebugPage, MessageSignaturesProofs

\* A message as the signing programs make it.
AsSigned(s) ==
  /\ s.agents # <<>>
  /\ s.inputs = <<[label |-> SigningLabel, list |-> Only(s)]>>
  /\ s.sigs = <<[ label |-> SigningLabel,
                  sig |-> Signature(ExampleKey, "Ed25519", TsBase(s, Only(s))) ]>>
  /\ Only(s).items = RecommendedComponents
  /\ \A item \in ItemsOf(Only(s)) : TsFound(s, item)
  /\ Only(s).params.tag = "web-bot-auth" /\ Only(s).params.keyid \in Id
  /\ Only(s).params.created \in 0..now /\ Only(s).params.expires \in Nat

\* The entry is not the example key's, or it is that of a message that was signed.
GenuineEntry(made) ==
  { e \in SigEntry : e.sig.by = ExampleKey => \E s \in made : e = s.sigs[1] }

SignedAreKnown == \A s \in signed : AsSigned(s)

NetIsGenuine == \A m \in net : m.sigs \in Seq(GenuineEntry(signed))

\* What the handler knows of the request in hand: at "verified" the verdict, and that the
\* example key made its signature before.
HandlerKnows ==
  /\ handler.pc # "idle" => handler.msg.sigs \in Seq(GenuineEntry(signed))
  /\ handler.pc \in {"card", "fetch", "verify", "verified"} => ~TsAgentsRefused(handler.msg)
  /\ handler.pc = "verified" =>
       /\ handler.status = "valid" <=>
            handler.keys # <<>> /\ TsVerifies(handler.msg, handler.keys[1], "Ed25519", handler.at)
       /\ \A i \in DOMAIN handler.msg.sigs :
            handler.msg.sigs[i].sig.by = ExampleKey =>
              handler.msg.sigs[i].sig.base.params.created <= handler.at

Inv == TypeOK /\ SignedAreKnown /\ NetIsGenuine /\ HandlerKnows

-------------------------------------------------------------------------------
(* The operators of TypeScriptSignatures.                                  *)

LEMMA TsValueType ==
  ASSUME NEW m \in Message, NEW item \in Item, TsFound(m, item)
  PROVE  TsValue(m, item) \in ComponentValue
<1>1. CASE item.name = "signature-agent" /\ m.agents = <<>>
  <2>1. TsValue(m, item) = <<>>
    BY <1>1 DEF TsValue
  <2>2. <<>> \in Seq(AgentEntry)
    OBVIOUS
  <2>3. QED
    BY <2>1, <2>2 DEF ComponentValue
<1>2. CASE ~(item.name = "signature-agent" /\ m.agents = <<>>)
  <2>1. Found(m, item)
    BY <1>2 DEF TsFound, Found
  <2>2. TsValue(m, item) = Value(m, item)
    BY <1>2 DEF TsValue
  <2>3. QED
    BY <2>1, <2>2, ValueType
<1>3. QED
  BY <1>1, <1>2

LEMMA TsBaseType ==
  ASSUME NEW m \in Message, NEW list \in InnerList,
         \A item \in ItemsOf(list) : TsFound(m, item)
  PROVE  TsBase(m, list) \in SignatureBase
<1> DEFINE f == [i \in DOMAIN list.items |-> <<list.items[i], TsValue(m, list.items[i])>>]
<1>1. list.items \in Seq(Item) /\ list.params \in Params
  BY DEF InnerList
<1>2. ASSUME NEW i \in DOMAIN list.items
      PROVE  <<list.items[i], TsValue(m, list.items[i])>> \in Item \X ComponentValue
  <2>1. list.items[i] \in Item /\ TsFound(m, list.items[i])
    BY <1>1 DEF ItemsOf
  <2>2. QED
    BY <2>1, TsValueType
<1>3. Len(list.items) \in Nat /\ DOMAIN list.items = 1..Len(list.items)
  BY <1>1
<1>4. f \in [1..Len(list.items) -> Item \X ComponentValue]
  BY <1>2, <1>3
<1>5. f \in Seq(Item \X ComponentValue)
  <2> HIDE DEF f
  <2>1. QED
    BY <1>3, <1>4, SeqDef
<1>6. QED
  BY <1>1, <1>5 DEF TsBase, SignatureBase

\* The agent consulted is one the header parser let through.
LEMMA FirstAgentType ==
  ASSUME NEW m \in Message, m.agents # <<>>, ~TsAgentsRefused(m)
  PROVE  TsFirstAgent(m) \in Uri \ TsRefuses
<1>1. m.agents \in Seq(AgentEntry)
  BY DEF Message
<1>2. 1 \in DOMAIN m.agents
  BY <1>1
<1>3. m.agents[1].label \in Labels(m.agents)
  BY <1>2 DEF Labels
<1>4. PICK i \in DOMAIN m.agents : Member(m.agents, m.agents[1].label) = m.agents[i]
  BY <1>1, <1>3, MemberIsOne
<1>5. m.agents[i] # Malformed /\ m.agents[i].uri \notin TsRefuses
  <2>1. m.agents[i].label \in Labels(m.agents)
    BY DEF Labels
  <2>2. QED
    BY <1>3, <1>4, <2>1 DEF TsAgentsRefused
<1>6. m.agents[i] \in AgentEntry
  BY <1>1
<1>7. m.agents[i].uri \in Uri
  BY <1>5, <1>6 DEF AgentEntry
<1>8. QED
  BY <1>4, <1>5, <1>7 DEF TsFirstAgent

-------------------------------------------------------------------------------
(***************************************************************************)
(* Each action preserves the invariant.                                    *)
(***************************************************************************)
LEMMA GenuineGrows ==
  ASSUME NEW S, NEW T, S \subseteq T
  PROVE  \A sigs \in Seq(GenuineEntry(S)) : sigs \in Seq(GenuineEntry(T))
<1>1. GenuineEntry(S) \subseteq GenuineEntry(T)
  BY DEF GenuineEntry
<1>2. QED
  BY <1>1, SeqWidens

\* What a signing program makes is a message, and its own signature on it is genuine.
LEMMA SignedType ==
  ASSUME NEW id \in Id, NEW a \in Authority, NEW agents \in Seq(AgentEntry), now \in Nat,
         agents # <<>>,
         NEW unsigned, unsigned = [authority |-> a, agents |-> agents, inputs |-> <<>>, sigs |-> <<>>],
         NEW list, list = [ items |-> RecommendedComponents,
                            params |-> [ keyid |-> id, tag |-> "web-bot-auth", alg |-> "ed25519",
                                         created |-> now, expires |-> now + Ttl ] ],
         \A item \in ItemsOf(list) : TsFound(unsigned, item),
         NEW msg, msg = TsSigned(unsigned, SigningLabel, list, ExampleKey, "Ed25519")
  PROVE  msg \in Message /\ AsSigned(msg) /\ msg.sigs \in Seq(GenuineEntry({msg}))
<1> DEFINE sig == Signature(ExampleKey, "Ed25519", TsBase(unsigned, list))
           inputs == <<[label |-> SigningLabel, list |-> list]>>
           sigs == <<[label |-> SigningLabel, sig |-> sig]>>
<1>1. unsigned \in Message
  BY DEF Message
<1>2. SigningLabel \in Label /\ ExampleKey \in Key /\ Ttl \in Nat
  BY WorkerAssumption
<1>3. /\ list.items = RecommendedComponents
      /\ list.params = [ keyid |-> id, tag |-> "web-bot-auth", alg |-> "ed25519",
                         created |-> now, expires |-> now + Ttl ]
  OBVIOUS
<1>4. list.params \in Params
  BY <1>2, <1>3, MessageAssumption DEF Params, AlgName
<1>5. RecommendedComponents \in Seq(Item)
  <2>1. Plain("@authority") \in Item /\ AgentMember(SigningLabel) \in Item
    BY <1>2 DEF Plain, AgentMember, Item
  <2>2. QED
    BY <2>1 DEF RecommendedComponents
<1>6. list \in InnerList
  BY <1>3, <1>4, <1>5 DEF InnerList
<1>7. TsBase(unsigned, list) \in SignatureBase
  BY <1>1, <1>6, TsBaseType
<1>8. sig \in SignatureBytes /\ sig.by = ExampleKey
  BY <1>2, <1>7 DEF Signature, SignatureBytes, Algorithm
<1>9. /\ msg = [authority |-> a, agents |-> agents, inputs |-> inputs, sigs |-> sigs]
      /\ msg.authority = a /\ msg.agents = agents /\ msg.inputs = inputs /\ msg.sigs = sigs
  <2>1. msg = [unsigned EXCEPT !.inputs = inputs, !.sigs = sigs]
    BY DEF TsSigned
  <2> HIDE DEF inputs, sigs
  <2>2. msg = [authority |-> a, agents |-> agents, inputs |-> inputs, sigs |-> sigs]
    BY <2>1
  <2>3. QED
    BY <2>2
<1>10. [label |-> SigningLabel, list |-> list] \in InputEntry /\ [label |-> SigningLabel, sig |-> sig] \in SigEntry
  <2> HIDE DEF sig
  <2>1. QED
    BY <1>2, <1>6, <1>8 DEF InputEntry, SigEntry
<1>11. msg \in Message
  <2> HIDE DEF sig
  <2>1. inputs \in Seq(InputEntry) /\ sigs \in Seq(SigEntry)
    BY <1>10
  <2> HIDE DEF inputs, sigs
  <2>2. QED
    BY <1>9, <2>1 DEF Message
<1>12. Only(msg) = list
  BY <1>9 DEF Only
<1>13. AsSigned(msg)
  <2>1. TsBase(msg, list) = TsBase(unsigned, list)
    <3>1. \A item : TsValue(msg, item) = TsValue(unsigned, item)
      <4> HIDE DEF inputs, sigs
      <4>1. QED
        BY <1>9 DEF TsValue, Value
    <3>2. QED
      BY <3>1 DEF TsBase
  <2>2. \A item \in ItemsOf(list) : TsFound(msg, item)
    <3>1. \A item : TsFound(unsigned, item) => TsFound(msg, item)
      <4> HIDE DEF inputs, sigs
      <4>1. QED
        BY <1>9 DEF TsFound, Found
    <3>2. QED
      BY <3>1
  <2>3. msg.sigs = <<[label |-> SigningLabel, sig |-> Signature(ExampleKey, "Ed25519", TsBase(msg, list))]>>
    BY <1>9, <2>1
  <2>4. /\ list.params.tag = "web-bot-auth" /\ list.params.keyid \in Id
        /\ list.params.created \in 0..now /\ list.params.expires \in Nat
    BY <1>2, <1>3
  <2>5. msg.inputs = <<[label |-> SigningLabel, list |-> list]>> /\ msg.agents # <<>>
    BY <1>9
  <2> HIDE DEF inputs, sigs, sig
  <2>6. QED
    BY <1>3, <1>12, <2>2, <2>3, <2>4, <2>5 DEF AsSigned
<1>14. msg.sigs \in Seq(GenuineEntry({msg}))
  <2>1. sigs[1] = [label |-> SigningLabel, sig |-> sig]
    OBVIOUS
  <2>2. sigs[1] \in GenuineEntry({msg})
    <3> HIDE DEF sigs, sig
    <3>1. QED
      BY <1>9, <1>10, <2>1 DEF GenuineEntry
  <2>3. sigs \in Seq(GenuineEntry({msg}))
    BY <2>1, <2>2
  <2> HIDE DEF sigs
  <2>4. QED
    BY <1>9, <2>3
<1>15. QED
  BY <1>11, <1>13, <1>14

LEMMA SignStep ==
  ASSUME Inv, NEW id \in Id, NEW a \in Authority, NEW agents \in Seq(AgentEntry), agents # <<>>,
         SignAs(id, a, agents)
  PROVE  Inv'
<1> DEFINE unsigned == [authority |-> a, agents |-> agents, inputs |-> <<>>, sigs |-> <<>>]
           list == [ items |-> RecommendedComponents,
                     params |-> [ keyid |-> id, tag |-> "web-bot-auth", alg |-> "ed25519",
                                  created |-> now, expires |-> now + Ttl ] ]
           msg == TsSigned(unsigned, SigningLabel, list, ExampleKey, "Ed25519")
<1>1. /\ TsSignable(unsigned, list)
      /\ signed' = signed \cup {msg} /\ net' = net \cup {msg}
      /\ UNCHANGED <<now, keyId, hops, handler>>
  BY DEF SignAs
<1>2. now \in Nat
  BY WorkerAssumption DEF Inv, TypeOK
<1>3. \A item \in ItemsOf(list) : TsFound(unsigned, item)
  BY <1>1 DEF TsSignable
<1> HIDE DEF unsigned, list, msg
<1>4. msg \in Message /\ AsSigned(msg) /\ msg.sigs \in Seq(GenuineEntry({msg}))
  BY <1>2, <1>3, SignedType DEF unsigned, list, msg
<1>5. TypeOK'
  BY <1>1, <1>4 DEF Inv, TypeOK
<1>6. SignedAreKnown'
  BY <1>1, <1>4 DEF Inv, SignedAreKnown, AsSigned
<1>7. NetIsGenuine'
  <2>1. msg.sigs \in Seq(GenuineEntry(signed'))
    BY <1>1, <1>4, GenuineGrows
  <2>2. \A m \in net : m.sigs \in Seq(GenuineEntry(signed'))
    BY <1>1, GenuineGrows DEF Inv, NetIsGenuine
  <2>3. QED
    BY <1>1, <2>1, <2>2 DEF NetIsGenuine
<1>8. HandlerKnows'
  <2>1. handler.pc # "idle" => handler.msg.sigs \in Seq(GenuineEntry(signed'))
    BY <1>1, GenuineGrows DEF Inv, HandlerKnows
  <2>2. QED
    BY <1>1, <2>1 DEF Inv, HandlerKnows
<1>9. QED
  BY <1>5, <1>6, <1>7, <1>8 DEF Inv

LEMMA MessageInNet ==
  ASSUME Inv, NEW m \in net
  PROVE  /\ m \in Message
         /\ m.authority \in Authority /\ m.agents \in Seq(AgentEntry)
         /\ m.inputs \in Seq(InputEntry) /\ m.sigs \in Seq(SigEntry)
         /\ m.sigs \in Seq(GenuineEntry(signed))
  BY DEF Inv, TypeOK, NetIsGenuine, Message

\* A well-formed message with genuine signatures may be forwarded.
LEMMA ForwardStep ==
  ASSUME Inv, NEW m, NEW msg \in Message, msg.sigs \in Seq(GenuineEntry(signed)), Forward(m, msg)
  PROVE  Inv'
<1>1. /\ hops < MaxHops /\ hops' = hops + 1
      /\ net' = (net \ {m}) \cup {msg} /\ UNCHANGED <<now, keyId, signed, handler>>
  BY DEF Forward
<1>2. TypeOK'
  BY <1>1, WorkerAssumption DEF Inv, TypeOK
<1>3. NetIsGenuine'
  BY <1>1 DEF Inv, NetIsGenuine
<1>4. SignedAreKnown' /\ HandlerKnows'
  BY <1>1 DEF Inv, SignedAreKnown, AsSigned, HandlerKnows
<1>5. QED
  BY <1>2, <1>3, <1>4 DEF Inv

LEMMA RerouteStep ==
  ASSUME Inv, NEW m \in net, NEW a \in Authority, Reroute(m, a)
  PROVE  Inv'
<1> DEFINE msg == [m EXCEPT !.authority = a]
<1>1. msg \in Message /\ msg.sigs = m.sigs
  BY MessageInNet DEF Message
<1>2. QED
  BY <1>1, MessageInNet, ForwardStep DEF Reroute

LEMMA AddAgentStep ==
  ASSUME Inv, NEW m \in net, NEW member \in AddedAgent, NEW first \in BOOLEAN,
         AddAgent(m, member, first)
  PROVE  Inv'
<1> DEFINE agents == IF first THEN <<member>> \o m.agents ELSE Append(m.agents, member)
           msg == [m EXCEPT !.agents = agents]
<1>1. member \in AgentEntry /\ m.agents \in Seq(AgentEntry)
  BY MessageInNet, WorkerAssumption
<1>2. <<member>> \o m.agents \in Seq(AgentEntry) /\ Append(m.agents, member) \in Seq(AgentEntry)
  BY <1>1, ConcatProperties
<1>3. agents \in Seq(AgentEntry)
  BY <1>2
<1>4. Forward(m, msg)
  BY DEF AddAgent
<1> HIDE DEF agents
<1>5. msg \in Message /\ msg.sigs = m.sigs
  BY <1>3, MessageInNet DEF Message
<1>6. QED
  BY <1>4, <1>5, MessageInNet, ForwardStep

LEMMA DropStep ==
  ASSUME Inv, NEW m \in net, DropAgents(m) \/ Strip(m)
  PROVE  Inv'
<1>1. CASE DropAgents(m)
  <2> DEFINE none == <<>>
             msg == [m EXCEPT !.agents = none]
  <2>0. none \in Seq(AgentEntry)
    OBVIOUS
  <2> HIDE DEF none
  <2>1. msg \in Message /\ msg.sigs = m.sigs
    BY <2>0, MessageInNet DEF Message
  <2>2. QED
    BY <1>1, <2>1, MessageInNet, ForwardStep DEF DropAgents, none
<1>2. CASE Strip(m)
  <2> DEFINE none == <<>>
             msg == [m EXCEPT !.sigs = none]
  <2>1. none \in Seq(SigEntry) /\ none \in Seq(GenuineEntry(signed))
    OBVIOUS
  <2> HIDE DEF none
  <2>2. msg \in Message /\ msg.sigs = none
    BY <2>1, MessageInNet DEF Message
  <2>3. QED
    BY <1>2, <2>1, <2>2, ForwardStep DEF Strip, none
<1>3. QED
  BY <1>1, <1>2

LEMMA ResignStep ==
  ASSUME Inv, NEW m \in net, NEW l \in Label, NEW list \in ForeignList, NEW replace \in BOOLEAN,
         Resign(m, l, list, replace)
  PROVE  Inv'
<1> DEFINE input == [label |-> l, list |-> list]
           foreign == Signature(ForeignKey, "Ed25519", TsBase(m, list))
           sig == [label |-> l, sig |-> foreign]
           inputs == IF replace THEN <<input>> ELSE Append(m.inputs, input)
           sigs == IF replace THEN <<sig>> ELSE Append(m.sigs, sig)
           msg == [m EXCEPT !.inputs = inputs, !.sigs = sigs]
<1>1. m \in Message /\ list \in InnerList /\ ForeignKey \in Key \ {ExampleKey}
  BY MessageInNet, WorkerAssumption
<1>2. TsBase(m, list) \in SignatureBase
  BY <1>1, TsBaseType DEF Resign
<1>3. foreign \in SignatureBytes /\ foreign.by # ExampleKey
  BY <1>1, <1>2 DEF Signature, SignatureBytes, Algorithm
<1>4. input \in InputEntry /\ sig \in GenuineEntry(signed)
  <2> HIDE DEF foreign
  <2>1. QED
    BY <1>1, <1>3 DEF InputEntry, SigEntry, GenuineEntry
<1>5. Forward(m, msg)
  BY DEF Resign
<1>6. inputs \in Seq(InputEntry) /\ sigs \in Seq(GenuineEntry(signed))
  <2>1. m.inputs \in Seq(InputEntry) /\ m.sigs \in Seq(GenuineEntry(signed))
    BY MessageInNet
  <2> HIDE DEF input, sig
  <2>2. QED
    BY <1>4, <2>1
<1>7. sigs \in Seq(SigEntry)
  <2>1. GenuineEntry(signed) \subseteq SigEntry
    BY DEF GenuineEntry
  <2> HIDE DEF sigs
  <2>2. QED
    BY <1>6, <2>1, SeqWidens
<1> HIDE DEF inputs, sigs
<1>8. msg \in Message /\ msg.sigs = sigs
  BY <1>1, <1>6, <1>7 DEF Message
<1>9. QED
  BY <1>5, <1>6, <1>8, ForwardStep

\* The worker's steps leave everything but the handler alone.
LEMMA HandlerStep ==
  ASSUME Inv, UNCHANGED <<now, keyId, signed, net, hops>>, (handler \in HandlerState)', HandlerKnows'
  PROVE  Inv'
<1>1. TypeOK' /\ SignedAreKnown' /\ NetIsGenuine'
  BY DEF Inv, TypeOK, SignedAreKnown, AsSigned, NetIsGenuine, HandlerState
<1>2. QED
  BY <1>1 DEF Inv

LEMMA StartStep ==
  ASSUME Inv, NEW m \in net, Start(m)
  PROVE  Inv'
<1>1. /\ m \in Message /\ m.sigs \in Seq(GenuineEntry(signed))
      /\ UNCHANGED <<now, keyId, signed, net, hops>>
  BY MessageInNet DEF Start
<1>2. Own \in Uri /\ ExampleKey \in Key /\ <<ExampleKey>> \in Seq(Key)
  BY WorkerAssumption
<1>3. ASSUME NEW status \in {"neutral", "invalid"}, handler' = Answered(m, status) PROVE Inv'
  <2>1. (handler \in HandlerState)'
    BY <1>1, <1>3 DEF Answered, HandlerState
  <2>2. HandlerKnows'
    BY <1>1, <1>3 DEF Answered, HandlerKnows
  <2>3. QED
    BY <1>1, <2>1, <2>2, HandlerStep
<1>4. ASSUME NEW uri \in Uri \cup {None}, handler' = ToVerify(m, uri, <<ExampleKey>>), ~TsAgentsRefused(m)
      PROVE Inv'
  <2>1. (handler \in HandlerState)'
    BY <1>1, <1>2, <1>4 DEF ToVerify, HandlerState
  <2>2. HandlerKnows'
    BY <1>1, <1>4 DEF ToVerify, HandlerKnows
  <2>3. QED
    BY <1>1, <2>1, <2>2, HandlerStep
<1>5. CASE m.sigs = <<>>
  BY <1>3, <1>5 DEF Start
<1>6. CASE m.sigs # <<>> /\ m.agents = <<>>
  <2>1. ~TsAgentsRefused(m)
    BY <1>6 DEF TsAgentsRefused, Labels
  <2>2. QED
    BY <1>4, <1>6, <2>1 DEF Start
<1>7. CASE m.sigs # <<>> /\ m.agents # <<>> /\ TsAgentsRefused(m)
  BY <1>3, <1>7 DEF Start
<1>8. CASE m.sigs # <<>> /\ m.agents # <<>> /\ ~TsAgentsRefused(m)
  <2>1. TsFirstAgent(m) \in Uri \ TsRefuses
    BY <1>1, <1>8, FirstAgentType
  <2>2. CASE TsFirstAgent(m) = Own
    BY <1>2, <1>4, <1>8, <2>2 DEF Start
  <2>3. CASE TsFirstAgent(m) # Own
    <3> DEFINE pc == IF TsFirstAgent(m) \in Card THEN "card" ELSE "fetch"
    <3>1. pc \in {"card", "fetch"} /\ handler' = [pc |-> pc, msg |-> m, uri |-> TsFirstAgent(m)]
      BY <1>8, <2>3 DEF Start
    <3>2. TsFirstAgent(m) \in Remote
      BY <2>1, <2>3 DEF Remote
    <3> HIDE DEF pc
    <3>3. (handler \in HandlerState)'
      BY <1>1, <3>1, <3>2 DEF HandlerState
    <3>4. HandlerKnows'
      BY <1>1, <1>8, <3>1 DEF HandlerKnows
    <3>5. QED
      BY <1>1, <3>3, <3>4, HandlerStep
  <2>4. QED
    BY <2>2, <2>3
<1>9. QED
  BY <1>5, <1>6, <1>7, <1>8

LEMMA FetchStep ==
  ASSUME Inv, FetchCard \/ FetchFails \/ \E keys \in KeyLists : FetchKeys(keys)
  PROVE  Inv'
<1>1. /\ handler.pc \in {"card", "fetch"} /\ handler \in HandlerState
      /\ UNCHANGED <<now, keyId, signed, net, hops>>
  BY DEF FetchCard, FetchFails, FetchKeys, Inv, TypeOK
<1>2. handler \in [pc : {"card", "fetch"}, msg : Message, uri : Remote]
  BY <1>1 DEF HandlerState, Idle
<1>3. handler.msg.sigs \in Seq(GenuineEntry(signed)) /\ ~TsAgentsRefused(handler.msg)
  BY <1>1 DEF Inv, HandlerKnows
<1>4. CASE FetchCard
  <2>1. handler' \in [pc : {"fetch"}, msg : Message, uri : Remote] /\ handler'.msg = handler.msg
    BY <1>2, <1>4 DEF FetchCard
  <2>2. (handler \in HandlerState)'
    BY <2>1 DEF HandlerState
  <2>3. HandlerKnows'
    BY <1>1, <1>3, <2>1 DEF HandlerKnows
  <2>4. QED
    BY <1>1, <2>2, <2>3, HandlerStep
<1>5. CASE FetchFails
  <2>1. (handler \in HandlerState)'
    BY <1>2, <1>5 DEF FetchFails, Answered, HandlerState
  <2>2. HandlerKnows'
    BY <1>1, <1>3, <1>5 DEF FetchFails, Answered, HandlerKnows
  <2>3. QED
    BY <1>1, <2>1, <2>2, HandlerStep
<1>6. CASE \E keys \in KeyLists : FetchKeys(keys)
  <2>1. PICK keys \in KeyLists : handler' = ToVerify(handler.msg, handler.uri, keys)
    BY <1>6 DEF FetchKeys
  <2>2. keys \in Seq(Key) /\ handler.uri \in Uri
    BY <1>2, WorkerAssumption DEF Remote
  <2>3. (handler \in HandlerState)'
    BY <1>2, <2>1, <2>2 DEF ToVerify, HandlerState
  <2>4. HandlerKnows'
    BY <1>1, <1>3, <2>1 DEF ToVerify, HandlerKnows
  <2>5. QED
    BY <1>1, <2>3, <2>4, HandlerStep
<1>7. QED
  BY <1>4, <1>5, <1>6

\* A signature of the example key was made by now.
LEMMA MadeBefore ==
  ASSUME Inv, NEW e \in GenuineEntry(signed), e.sig.by = ExampleKey
  PROVE  e.sig.base.params.created \in 0..now
<1>1. PICK s \in signed : e = s.sigs[1]
  BY DEF GenuineEntry
<1>2. AsSigned(s)
  BY DEF Inv, SignedAreKnown
<1>3. e.sig.base.params = Only(s).params
  BY <1>1, <1>2 DEF AsSigned, Signature, TsBase
<1>4. QED
  BY <1>2, <1>3 DEF AsSigned

LEMMA VerifyStep ==
  ASSUME Inv, Verify
  PROVE  Inv'
<1> DEFINE status == Verdict(handler.msg, handler.keys)
<1>1. /\ handler.pc = "verify" /\ handler \in HandlerState
      /\ handler' = [ pc |-> "verified", msg |-> handler.msg, status |-> status,
                      uri |-> handler.uri, keys |-> handler.keys, at |-> now ]
      /\ UNCHANGED <<now, keyId, signed, net, hops>>
  BY DEF Verify, Inv, TypeOK
<1>2. handler \in [pc : {"verify"}, msg : Message, uri : Uri \cup {None}, keys : Seq(Key)]
  BY <1>1 DEF HandlerState, Idle
<1>3. handler.msg.sigs \in Seq(GenuineEntry(signed)) /\ ~TsAgentsRefused(handler.msg)
  BY <1>1 DEF Inv, HandlerKnows
<1>4. /\ status \in {"valid", "invalid"}
      /\ status = "valid" <=>
           handler.keys # <<>> /\ TsVerifies(handler.msg, handler.keys[1], "Ed25519", now)
  BY DEF Verdict
<1>5. now \in 0..MaxTime
  BY DEF Inv, TypeOK
<1>6. \A i \in DOMAIN handler.msg.sigs :
        handler.msg.sigs[i].sig.by = ExampleKey =>
          handler.msg.sigs[i].sig.base.params.created <= now
  <2>1. \A i \in DOMAIN handler.msg.sigs : handler.msg.sigs[i] \in GenuineEntry(signed)
    BY <1>3
  <2>2. QED
    BY <1>5, <2>1, MadeBefore
<1> HIDE DEF status
<1>7. (handler \in HandlerState)'
  BY <1>1, <1>2, <1>4, <1>5 DEF HandlerState
<1>8. HandlerKnows'
  BY <1>1, <1>3, <1>4, <1>6 DEF HandlerKnows
<1>9. QED
  BY <1>1, <1>7, <1>8, HandlerStep

LEMMA InitInv == Init => Inv
<1> SUFFICES ASSUME Init PROVE Inv
  OBVIOUS
<1>1. TypeOK
  BY WorkerAssumption DEF Init, TypeOK, HandlerState
<1>2. SignedAreKnown /\ NetIsGenuine /\ HandlerKnows
  BY DEF Init, Idle, SignedAreKnown, NetIsGenuine, HandlerKnows
<1>3. QED
  BY <1>1, <1>2 DEF Inv

LEMMA NextInv == Inv /\ [Next]_vars => Inv'
<1> SUFFICES ASSUME Inv, [Next]_vars PROVE Inv'
  OBVIOUS
<1>1. CASE UNCHANGED vars
  BY <1>1 DEF vars, Inv, TypeOK, HandlerState, SignedAreKnown, AsSigned, NetIsGenuine, HandlerKnows
<1>2. CASE Tick
  <2>1. TypeOK'
    BY <1>2, WorkerAssumption DEF Tick, Inv, TypeOK, HandlerState
  <2>2. SignedAreKnown'
    BY <1>2 DEF Tick, Inv, TypeOK, SignedAreKnown, AsSigned
  <2>3. NetIsGenuine' /\ HandlerKnows'
    BY <1>2 DEF Tick, Inv, NetIsGenuine, HandlerKnows
  <2>4. QED
    BY <2>1, <2>2, <2>3 DEF Inv
<1>3. CASE KeyIdComputed
  BY <1>3 DEF KeyIdComputed, Inv, TypeOK, HandlerState, SignedAreKnown, AsSigned, NetIsGenuine, HandlerKnows
<1>4. ASSUME NEW a \in Authority, NEW uri \in SigningAgent,
             Scheduled(a, uri) \/ \E header \in PageHeader : Extension(a, header, uri)
      PROVE  Inv'
  <2>1. SigningEntry(uri) \in AgentEntry
    BY WorkerAssumption DEF SigningEntry, AgentEntry
  <2>2. ExampleId \in Id /\ keyId \in Id
    BY WorkerAssumption DEF Inv, TypeOK
  <2> DEFINE entry == SigningEntry(uri)
  <2> HIDE DEF entry
  <2>3. CASE Scheduled(a, uri)
    <3>1. <<entry>> \in Seq(AgentEntry) /\ <<entry>> # <<>>
      BY <2>1 DEF entry
    <3>2. QED
      BY <2>2, <2>3, <3>1, SignStep DEF Scheduled, entry
  <2>4. CASE \E header \in PageHeader : Extension(a, header, uri)
    <3>1. PICK header \in PageHeader : SignAs(keyId, a, Append(header, entry))
      BY <2>4 DEF Extension, entry
    <3>2. header \in Seq(AgentEntry)
      BY WorkerAssumption
    <3>3. Append(header, entry) \in Seq(AgentEntry) /\ Append(header, entry) # <<>>
      <4>1. entry \in AgentEntry
        BY <2>1 DEF entry
      <4>2. QED
        BY <3>2, <4>1, AppendProperties
    <3>4. QED
      BY <2>2, <3>1, <3>3, SignStep
  <2>5. QED
    BY <1>4, <2>3, <2>4
<1>5. ASSUME NEW m \in net,
             \/ \E a \in Authority : Reroute(m, a)
             \/ \E member \in AddedAgent, first \in BOOLEAN : AddAgent(m, member, first)
             \/ \E l \in Label, list \in ForeignList, replace \in BOOLEAN : Resign(m, l, list, replace)
             \/ DropAgents(m)
             \/ Strip(m)
             \/ Start(m)
      PROVE  Inv'
  BY <1>5, RerouteStep, AddAgentStep, ResignStep, DropStep, StartStep
<1>6. CASE FetchCard \/ FetchFails \/ \E keys \in KeyLists : FetchKeys(keys)
  BY <1>6, FetchStep
<1>7. CASE Verify
  BY <1>7, VerifyStep
<1>8. CASE Finish
  <2>1. (handler \in HandlerState)' /\ HandlerKnows'
    BY <1>8 DEF Finish, Idle, HandlerState, HandlerKnows
  <2>2. QED
    BY <1>8, <2>1, HandlerStep DEF Finish
<1>9. QED
  BY <1>1, <1>2, <1>3, <1>4, <1>5, <1>6, <1>7, <1>8 DEF Next

LEMMA InvHolds == Spec => []Inv
BY InitInv, NextInv, PTL DEF Spec

\* The worker fetches nothing from an agent that its header parser refuses, nor from its own
\* origin (verification-workers/src/index.ts verifySignature).
THEOREM TypeCorrect == Spec => []TypeOK
<1>1. Inv => TypeOK
  BY DEF Inv
<1>2. QED
  BY <1>1, InvHolds, PTL

-------------------------------------------------------------------------------
(* What a verdict means.                                                   *)

LEMMA Verified ==
  ASSUME Inv, handler.pc = "verified"
  PROVE  /\ handler.msg \in Message /\ handler.keys \in Seq(Key) /\ handler.at \in Nat
         /\ handler.status \in {"valid", "invalid"}
         /\ handler.status = "valid" <=>
              handler.keys # <<>> /\ TsVerifies(handler.msg, handler.keys[1], "Ed25519", handler.at)
         /\ ~TsAgentsRefused(handler.msg)
         /\ handler.msg.sigs \in Seq(GenuineEntry(signed))
         /\ \A i \in DOMAIN handler.msg.sigs :
              handler.msg.sigs[i].sig.by = ExampleKey =>
                handler.msg.sigs[i].sig.base.params.created <= handler.at
<1>1. handler \in HandlerState
  BY DEF Inv, TypeOK
<1>2. handler \in [ pc : {"verified"}, msg : Message, status : {"valid", "invalid"},
                    uri : Uri \cup {None}, keys : Seq(Key), at : 0..MaxTime ]
  BY <1>1 DEF HandlerState, Idle
<1>3. QED
  BY <1>2, WorkerAssumption DEF Inv, HandlerKnows

\* The one signature of a message, and what it is over.
LEMMA SingleSignature ==
  ASSUME NEW m \in Message, TsSingle(m)
  PROVE  /\ 1 \in DOMAIN m.sigs /\ 1 \in DOMAIN m.inputs
         /\ m.inputs[1] \in InputEntry /\ m.sigs[1] \in SigEntry
         /\ Only(m) \in InnerList
         /\ m.inputs = <<[label |-> m.sigs[1].label, list |-> Only(m)]>>
         /\ m.sigs = <<m.sigs[1]>>
<1>1. m.inputs \in Seq(InputEntry) /\ m.sigs \in Seq(SigEntry)
  BY DEF Message
<1>2. Len(m.inputs) = 1 /\ Len(m.sigs) = 1 /\ m.inputs[1].label = m.sigs[1].label
  BY DEF TsSingle
<1>3. 1 \in DOMAIN m.sigs /\ 1 \in DOMAIN m.inputs /\ m.inputs[1] \in InputEntry /\ m.sigs[1] \in SigEntry
  BY <1>1, <1>2
<1>4. m.inputs[1] = [label |-> m.sigs[1].label, list |-> Only(m)] /\ Only(m) \in InnerList
  BY <1>2, <1>3 DEF InputEntry, Only
<1>5. m.inputs = <<m.inputs[1]>> /\ m.sigs = <<m.sigs[1]>>
  BY <1>1, <1>2
<1>6. QED
  BY <1>3, <1>4, <1>5

\* The member the signing programs cover, where it is found, is their label's and names a URI.
LEMMA CoveredAgent ==
  ASSUME NEW m \in Message, m.agents # <<>>, TsFound(m, AgentMember(SigningLabel))
  PROVE  /\ Member(m.agents, SigningLabel) = [label |-> SigningLabel, uri |-> Member(m.agents, SigningLabel).uri]
         /\ Member(m.agents, SigningLabel).uri \in Uri
         /\ TsValue(m, AgentMember(SigningLabel)) = Member(m.agents, SigningLabel).uri
<1>1. SigningLabel # None /\ m.agents \in Seq(AgentEntry)
  BY WorkerAssumption, MessageAssumption DEF Message
<1>2. Malformed.label \notin Labels(m.agents) /\ SigningLabel \in Labels(m.agents)
  BY <1>1 DEF TsFound, Found, AgentMember
<1>3. PICK i \in DOMAIN m.agents : m.agents[i].label = SigningLabel /\ Member(m.agents, SigningLabel) = m.agents[i]
  BY <1>1, <1>2, MemberIsOne
<1>4. m.agents[i] \in AgentEntry /\ m.agents[i] # Malformed
  BY <1>1, <1>2 DEF Labels
<1>5. m.agents[i] = [label |-> SigningLabel, uri |-> m.agents[i].uri] /\ m.agents[i].uri \in Uri
  BY <1>3, <1>4 DEF AgentEntry
<1>6. TsValue(m, AgentMember(SigningLabel)) = Member(m.agents, SigningLabel).uri
  BY <1>1 DEF TsValue, Value, AgentMember
<1>7. QED
  BY <1>3, <1>5, <1>6

\* Two messages with the same base: the list, the authority and the covered agent are the same.
LEMMA SameBase ==
  ASSUME NEW s \in Message, AsSigned(s), Only(s) \in InnerList,
         NEW m \in Message, NEW list \in InnerList, \A item \in ItemsOf(list) : TsFound(m, item),
         TsBase(m, list) = TsBase(s, Only(s))
  PROVE  /\ list = Only(s) /\ m.authority = s.authority
         /\ Member(s.agents, SigningLabel) = Member(m.agents, SigningLabel)
<1> DEFINE theirs == [i \in DOMAIN list.items |-> <<list.items[i], TsValue(m, list.items[i])>>]
           ours == [i \in DOMAIN RecommendedComponents |->
                      <<RecommendedComponents[i], TsValue(s, RecommendedComponents[i])>>]
<1>1. Only(s).items = RecommendedComponents
  BY DEF AsSigned
<1>2. theirs = ours /\ list.params = Only(s).params
  BY <1>1 DEF TsBase
<1>3. /\ RecommendedComponents[1] = Plain("@authority")
      /\ RecommendedComponents[2] = AgentMember(SigningLabel)
      /\ DOMAIN RecommendedComponents = 1..2 /\ Len(RecommendedComponents) = 2
  BY DEF RecommendedComponents
<1>4. DOMAIN list.items = 1..2
  <2>1. DOMAIN theirs = DOMAIN list.items /\ DOMAIN ours = DOMAIN RecommendedComponents
    OBVIOUS
  <2> HIDE DEF theirs, ours
  <2>2. QED
    BY <1>2, <1>3, <2>1
<1>5. \A i \in 1..2 : /\ list.items[i] = RecommendedComponents[i]
                      /\ TsValue(m, RecommendedComponents[i]) = TsValue(s, RecommendedComponents[i])
  <2>1. \A i \in 1..2 : /\ theirs[i] = <<list.items[i], TsValue(m, list.items[i])>>
                        /\ ours[i] = <<RecommendedComponents[i], TsValue(s, RecommendedComponents[i])>>
    BY <1>3, <1>4
  <2> HIDE DEF theirs, ours
  <2>2. \A i \in 1..2 : <<list.items[i], TsValue(m, list.items[i])>>
                          = <<RecommendedComponents[i], TsValue(s, RecommendedComponents[i])>>
    BY <1>2, <2>1
  <2>3. QED
    BY <2>2
<1>6. list.items \in Seq(Item) /\ Only(s).items \in Seq(Item)
  BY DEF InnerList
<1>7. list.items = Only(s).items
  <2>1. Len(list.items) = 2
    <3> DEFINE n == Len(list.items)
    <3>1. n \in Nat /\ DOMAIN list.items = 1..n
      BY <1>6
    <3> HIDE DEF n
    <3>2. \A k : k \in 1..n <=> k \in 1..2
      BY <1>4, <3>1
    <3>3. 1 \in 1..n /\ 2 \in 1..n /\ 3 \notin 1..n
      BY <3>2
    <3>4. n = 2
      BY <3>1, <3>3
    <3>5. QED
      BY <3>4 DEF n
  <2>2. \A i \in 1..2 : list.items[i] = Only(s).items[i]
    BY <1>1, <1>5
  <2>3. Len(Only(s).items) = 2
    BY <1>1, <1>3
  <2>4. QED
    BY <1>6, <2>1, <2>2, <2>3, SeqEqual
<1>8. list = Only(s)
  BY <1>2, <1>7 DEF InnerList
<1>9. m.authority = s.authority
  <2>1. \A x : TsValue(x, Plain("@authority")) = x.authority
    BY DEF TsValue, Value, Plain
  <2>2. TsValue(m, RecommendedComponents[1]) = TsValue(s, RecommendedComponents[1])
    BY <1>5
  <2>3. QED
    BY <1>3, <2>1, <2>2
<1>10. Member(s.agents, SigningLabel) = Member(m.agents, SigningLabel)
  <2>1. AgentMember(SigningLabel) \in ItemsOf(list)
    BY <1>1, <1>3, <1>7 DEF ItemsOf
  <2>2. TsFound(m, AgentMember(SigningLabel)) /\ TsFound(s, AgentMember(SigningLabel)) /\ s.agents # <<>>
    BY <1>8, <2>1 DEF AsSigned
  <2>3. TsValue(m, AgentMember(SigningLabel)) = TsValue(s, AgentMember(SigningLabel))
    <3>1. TsValue(m, RecommendedComponents[2]) = TsValue(s, RecommendedComponents[2])
      BY <1>5
    <3>2. QED
      BY <1>3, <3>1
  <2>4. m.agents # <<>>
    <3>1. TsValue(s, AgentMember(SigningLabel)) \in Uri
      BY <2>2, CoveredAgent
    <3>2. m.agents = <<>> => TsValue(m, AgentMember(SigningLabel)) = <<>>
      BY DEF TsValue, AgentMember
    <3>3. QED
      BY <2>3, <3>1, <3>2, WorkerAssumption
  <2>5. Member(s.agents, SigningLabel).uri = Member(m.agents, SigningLabel).uri
    BY <2>2, <2>3, <2>4, CoveredAgent
  <2>6. QED
    BY <2>2, <2>4, <2>5, CoveredAgent
<1>11. QED
  BY <1>8, <1>9, <1>10

\* What a message as signed is to the parser.
LEMMA SignedIsSingle ==
  ASSUME NEW s \in Message, AsSigned(s)
  PROVE  TsSingle(s)
BY DEF AsSigned, TsSingle

LEMMA ValidAuthentic == Inv => ValidIsAuthentic
<1> SUFFICES ASSUME Inv, handler.pc = "verified", handler.status = "valid"
             PROVE  /\ Only(handler.msg).params.created <= handler.at
                    /\ handler.at <= Only(handler.msg).params.expires
                    /\ handler.keys[1] = ExampleKey =>
                         \E s \in signed :
                           /\ s.inputs = handler.msg.inputs /\ s.sigs = handler.msg.sigs
                           /\ s.authority = handler.msg.authority
                           /\ Member(s.agents, SigningLabel) = Member(handler.msg.agents, SigningLabel)
  BY DEF ValidIsAuthentic
<1> DEFINE m == handler.msg
<1>1. m \in Message /\ m.sigs \in Seq(GenuineEntry(signed))
  BY Verified
<1>2. TsVerifies(m, handler.keys[1], "Ed25519", handler.at)
  BY Verified
<1>3. Only(m).params.created <= handler.at /\ handler.at <= Only(m).params.expires
  BY <1>2 DEF TsVerifies, TsTimely, Only
<1>4. ASSUME handler.keys[1] = ExampleKey
      PROVE  \E s \in signed :
               /\ s.inputs = m.inputs /\ s.sigs = m.sigs /\ s.authority = m.authority
               /\ Member(s.agents, SigningLabel) = Member(m.agents, SigningLabel)
  <2>1. /\ TsSingle(m) /\ \A item \in ItemsOf(Only(m)) : TsFound(m, item)
        /\ m.sigs[1].sig = Signature(ExampleKey, "Ed25519", TsBase(m, Only(m)))
    BY <1>2, <1>4 DEF TsVerifies, Only
  <2> HIDE DEF m
  <2>2. /\ 1 \in DOMAIN m.sigs /\ Only(m) \in InnerList
        /\ m.inputs = <<[label |-> m.sigs[1].label, list |-> Only(m)]>> /\ m.sigs = <<m.sigs[1]>>
    BY <1>1, <2>1, SingleSignature
  <2>3. m.sigs[1] \in GenuineEntry(signed) /\ m.sigs[1].sig.by = ExampleKey
    BY <1>1, <2>1, <2>2 DEF Signature
  <2>4. PICK s \in signed : m.sigs[1] = s.sigs[1]
    BY <2>3 DEF GenuineEntry
  <2>5. s \in Message /\ AsSigned(s)
    BY DEF Inv, TypeOK, SignedAreKnown
  <2>6. /\ s.inputs = <<[label |-> SigningLabel, list |-> Only(s)]>> /\ s.sigs = <<s.sigs[1]>>
        /\ s.sigs[1].label = SigningLabel
        /\ s.sigs[1].sig = Signature(ExampleKey, "Ed25519", TsBase(s, Only(s)))
    BY <2>5 DEF AsSigned
  <2>7. Only(s) \in InnerList
    BY <2>5, SignedIsSingle, SingleSignature
  <2>8. TsBase(m, Only(m)) = TsBase(s, Only(s))
    BY <2>1, <2>4, <2>6 DEF Signature
  <2>9. /\ Only(m) = Only(s) /\ m.authority = s.authority
        /\ Member(s.agents, SigningLabel) = Member(m.agents, SigningLabel)
    BY <1>1, <2>1, <2>2, <2>5, <2>7, <2>8, SameBase
  <2>10. QED
    BY <2>2, <2>4, <2>6, <2>9
<1>5. QED
  BY <1>3, <1>4

\* A request answered valid under the example key is one a signing program signed, for that
\* authority and naming that agent, answered while the signature lasted: whatever intermediaries,
\* directories and time did in between (web-bot-auth verify, verification-workers verifySignature).
THEOREM ValidMeansAuthentic == Spec => []ValidIsAuthentic
BY ValidAuthentic, InvHolds, PTL

LEMMA IntactValid == Inv => IntactIsValid
<1> SUFFICES ASSUME Inv, handler.pc = "verified", handler.msg \in signed,
                    handler.keys # <<>>, handler.keys[1] = ExampleKey,
                    handler.at <= Only(handler.msg).params.expires
             PROVE  handler.status = "valid"
  BY DEF IntactIsValid
<1> DEFINE s == handler.msg
<1>1. s \in Message /\ AsSigned(s)
  BY DEF Inv, TypeOK, SignedAreKnown
<1>2. \A i \in DOMAIN s.sigs : s.sigs[i].sig.by = ExampleKey => s.sigs[i].sig.base.params.created <= handler.at
  BY Verified
<1>3. handler.at <= Only(s).params.expires
  OBVIOUS
<1> HIDE DEF s
<1>4. TsSingle(s)
  BY <1>1, SignedIsSingle
<1>5. s.sigs[1].sig = Signature(ExampleKey, "Ed25519", TsBase(s, Only(s))) /\ 1 \in DOMAIN s.sigs
  BY <1>1 DEF AsSigned
<1>6. Only(s).params.created <= handler.at
  BY <1>2, <1>5 DEF Signature, TsBase
<1>7. TsTimely(Only(s).params, handler.at)
  BY <1>1, <1>3, <1>6, MessageAssumption DEF AsSigned, TsTimely
<1>8. Only(s).params.tag = "web-bot-auth" /\ Only(s).params.keyid # None
  BY <1>1, MessageAssumption DEF AsSigned
<1>9. TsCovers(Only(s), {"@authority", "@target-uri"}) /\ TsCovers(Only(s), {"signature-agent"})
  <2>1. Only(s).items = RecommendedComponents
    BY <1>1 DEF AsSigned
  <2>2. {Plain("@authority"), AgentMember(SigningLabel)} \subseteq ItemsOf(Only(s))
    BY <2>1 DEF RecommendedComponents, ItemsOf
  <2>3. QED
    BY <2>2 DEF TsCovers, Plain, AgentMember
<1>10. \A item \in ItemsOf(Only(s)) : TsFound(s, item)
  BY <1>1 DEF AsSigned
<1>11. TsVerifies(s, ExampleKey, "Ed25519", handler.at)
  BY <1>4, <1>5, <1>7, <1>8, <1>9, <1>10 DEF TsVerifies, Only
<1>12. QED
  BY <1>11, Verified DEF s

\* A request that arrives as it was signed, before it expires and where the example key leads the
\* key set, is answered valid (http-message-sig sign and verify, verifySignature).
THEOREM IntactMeansValid == Spec => []IntactIsValid
BY IntactValid, InvHolds, PTL

-------------------------------------------------------------------------------
(* The two verifiers.                                                      *)

\* Over what both find, both compute the same base.
LEMMA BasesAgree ==
  ASSUME NEW m \in Message, NEW list, \A item \in ItemsOf(list) : Found(m, item)
  PROVE  TsBase(m, list) = Base(m, list)
<1>1. \A i \in DOMAIN list.items : TsValue(m, list.items[i]) = Value(m, list.items[i])
  BY DEF ItemsOf, Found, TsValue
<1>2. QED
  BY <1>1 DEF TsBase, Base

\* Where the TypeScript parser has read the header, what the Rust lookup finds is found there too.
LEMMA FoundAlike ==
  ASSUME NEW m \in Message, ~TsAgentsRefused(m), NEW item \in Item, Found(m, item)
  PROVE  TsFound(m, item)
<1>1. ASSUME item.key # None PROVE Legacy \notin Labels(m.agents)
  <2>1. item.key \in Labels(m.agents) /\ item.key \in Label /\ m.agents # <<>>
    BY <1>1 DEF Found, Item
  <2>2. m.agents \in Seq(AgentEntry)
    BY DEF Message
  <2>3. SUFFICES ASSUME Legacy \in Labels(m.agents) PROVE FALSE
    OBVIOUS
  <2> DEFINE n == Len(m.agents)
  <2>4. n \in Nat /\ n # 0 /\ DOMAIN m.agents = 1..n
    BY <2>1, <2>2
  <2>5. ~(n > 1)
    BY <2>3 DEF TsAgentsRefused
  <2> HIDE DEF n
  <2>6. \A i, j \in DOMAIN m.agents : i = j
    BY <2>4, <2>5
  <2>7. item.key = Legacy
    BY <2>1, <2>3, <2>6 DEF Labels
  <2>8. QED
    BY <2>1, <2>7, WorkerAssumption
<1>2. QED
  BY <1>1 DEF Found, TsFound

\* Rust asks for the plain target and TypeScript for its name: of what is found they are the same.
LEMMA CoverAlike ==
  ASSUME NEW m \in Message, NEW list \in InnerList, \A item \in ItemsOf(list) : Found(m, item)
  PROVE  /\ CoversTarget(list) <=> TsCovers(list, {"@authority", "@target-uri"})
         /\ CoversAgent(list) <=> TsCovers(list, {"signature-agent"})
<1>1. \A item \in ItemsOf(list) : item \in Item
  BY DEF InnerList, ItemsOf
<1>2. \A item \in ItemsOf(list) :
        item.name \in {"@authority", "@target-uri"} => item = Plain(item.name)
  BY <1>1 DEF Found, Plain, Item
<1>3. CoversTarget(list) <=> TsCovers(list, {"@authority", "@target-uri"})
  <2>1. Plain("@authority").name = "@authority" /\ Plain("@target-uri").name = "@target-uri"
    BY DEF Plain
  <2>2. QED
    BY <1>2, <2>1 DEF CoversTarget, TsCovers
<1>4. QED
  BY <1>3 DEF TsCovers, CoversAgent

\* Of a message with one signature, WebBotAuthVerifier::parse picks that one or none.
LEMMA ParseSingle ==
  ASSUME NEW m \in Message, TsSingle(m), ~AgentsRefused(m),
         \A item \in ItemsOf(Only(m)) : Found(m, item)
  PROVE  /\ ParseError(m) = None <=> Pick(m, Only(m))
         /\ Pick(m, Only(m)) =>
              /\ Parsed(m).signature = m.sigs[1].sig /\ Parsed(m).base = Base(m, Only(m))
<1> DEFINE label == m.sigs[1].label
<1>1. /\ 1 \in DOMAIN m.sigs /\ 1 \in DOMAIN m.inputs
      /\ m.inputs = <<[label |-> label, list |-> Only(m)]>> /\ m.sigs = <<m.sigs[1]>>
  BY SingleSignature
<1>2. m.inputs \in Seq(InputEntry) /\ m.sigs \in Seq(SigEntry)
  BY DEF Message
<1>3. /\ DOMAIN m.inputs = {1} /\ DOMAIN m.sigs = {1}
      /\ m.inputs[1].label = label /\ m.inputs[1].list = Only(m)
  <2> HIDE DEF label
  <2>1. DOMAIN m.inputs = {1} /\ m.inputs[1] = [label |-> label, list |-> Only(m)]
    <3> DEFINE entry == [label |-> label, list |-> Only(m)]
    <3> HIDE DEF entry
    <3>1. m.inputs = <<entry>>
      BY <1>1 DEF entry
    <3>2. DOMAIN <<entry>> = {1} /\ <<entry>>[1] = entry
      OBVIOUS
    <3>3. QED
      BY <3>1, <3>2 DEF entry
  <2>2. DOMAIN m.sigs = {1}
    <3> DEFINE entry == m.sigs[1]
    <3>1. m.sigs = <<entry>>
      BY <1>1
    <3> HIDE DEF entry
    <3>2. DOMAIN <<entry>> = {1}
      OBVIOUS
    <3>3. QED
      BY <3>1, <3>2
  <2>3. QED
    BY <2>1, <2>2
<1>4. Labels(m.inputs) = {label} /\ Labels(m.sigs) = {label}
  BY <1>3 DEF Labels
<1> HIDE DEF label
<1>5. Member(m.inputs, label) = m.inputs[1]
  <2>1. \E i \in DOMAIN m.inputs : Member(m.inputs, label) = m.inputs[i]
    BY <1>2, <1>4, MemberIsOne
  <2>2. QED
    BY <1>3, <2>1
<1>6. Member(m.sigs, label) = m.sigs[1]
  <2>1. \E i \in DOMAIN m.sigs : Member(m.sigs, label) = m.sigs[i]
    BY <1>2, <1>4, MemberIsOne
  <2>2. QED
    BY <1>3, <2>1
<1>7. Candidates(m) = IF Pick(m, Only(m)) THEN {label} ELSE {}
  BY <1>3, <1>4, <1>5 DEF Candidates
<1>8. m.inputs # <<>> /\ m.sigs # <<>>
  BY <1>1
<1>9. CASE Pick(m, Only(m))
  <2>1. Picked(m) = label
    BY <1>7, <1>9, PickedIsCandidate
  <2>2. PickedList(m) = Only(m)
    BY <1>3, <1>5, <2>1 DEF PickedList
  <2>3. ParseError(m) = None
    BY <1>4, <1>7, <1>8, <1>9, <2>1, <2>2 DEF ParseError
  <2>4. Parsed(m).signature = m.sigs[1].sig /\ Parsed(m).base = Base(m, Only(m))
    BY <1>6, <2>1, <2>2 DEF Parsed
  <2>5. QED
    BY <1>9, <2>3, <2>4
<1>10. CASE ~Pick(m, Only(m))
  <2>1. ParseError(m) = "NoMatchingLabel"
    BY <1>7, <1>8, <1>10 DEF ParseError
  <2>2. QED
    BY <1>10, <2>1, MessageAssumption DEF Error
<1>11. QED
  BY <1>9, <1>10

LEMMA VerifyWithOne ==
  ASSUME NEW parsed, NEW key, NEW id, parsed.base.params.keyid = id
  PROVE  VerifyError(parsed, [i \in {id} |-> <<"Ed25519", key>>]) = None
           <=> parsed.signature = Signature(key, "Ed25519", parsed.base)
<1> DEFINE r == [i \in {id} |-> <<"Ed25519", key>>]
<1>1. id \in DOMAIN r /\ r[id][1] = "Ed25519" /\ r[id][2] = key
  OBVIOUS
<1>2. None # "NoSuchKey" /\ None # "UnsupportedAlgorithm" /\ None # "FailedToVerify"
  BY MessageAssumption DEF Error
<1> HIDE DEF r
<1>3. VerifyError(parsed, r) = None <=> parsed.signature = Signature(key, "Ed25519", parsed.base)
  BY <1>1, <1>2 DEF VerifyError
<1>4. QED
  BY <1>3 DEF r

LEMMA VerdictsAlike == Inv => VerdictsAgree
<1> SUFFICES ASSUME Inv, handler.pc = "verified", handler.keys # <<>>, TsSingle(handler.msg),
                    TsTimely(Only(handler.msg).params, handler.at),
                    \A item \in ItemsOf(Only(handler.msg)) : Found(handler.msg, item)
             PROVE  RustAccepts(handler.msg, handler.keys[1])
                      <=> /\ handler.status = "valid"
                          /\ \A i \in DOMAIN handler.msg.agents : handler.msg.agents[i].uri \notin Inlined
  BY DEF VerdictsAgree
<1> DEFINE m == handler.msg
           key == handler.keys[1]
           at == handler.at
           list == Only(m)
<1>1. /\ m \in Message /\ ~TsAgentsRefused(m)
      /\ handler.status = "valid" <=> TsVerifies(m, key, "Ed25519", at)
  BY Verified
<1>2. TsSingle(m) /\ TsTimely(list.params, at) /\ \A item \in ItemsOf(list) : Found(m, item)
  OBVIOUS
<1> HIDE DEF m, key, at
<1>3. list \in InnerList
  BY <1>1, <1>2, SingleSignature
<1>4. ~AgentsRefused(m) <=> \A i \in DOMAIN m.agents : m.agents[i].uri \notin Inlined
  <2>1. \A i \in DOMAIN m.agents : m.agents[i] # Malformed
    BY <1>1 DEF TsAgentsRefused, Labels
  <2>2. QED
    BY <2>1 DEF AgentsRefused
<1>5. \A item \in ItemsOf(list) : TsFound(m, item)
  <2>1. \A item \in ItemsOf(list) : item \in Item
    BY <1>3 DEF InnerList, ItemsOf
  <2>2. QED
    BY <1>1, <1>2, <2>1, FoundAlike
<1>6. TsBase(m, list) = Base(m, list)
  BY <1>1, <1>2, BasesAgree
<1>7. /\ CoversTarget(list) <=> TsCovers(list, {"@authority", "@target-uri"})
      /\ CoversAgent(list) <=> TsCovers(list, {"signature-agent"})
  BY <1>1, <1>2, <1>3, CoverAlike
<1>8. TsVerifies(m, key, "Ed25519", at) <=>
        Pick(m, list) /\ m.sigs[1].sig = Signature(key, "Ed25519", Base(m, list))
  <2>1. TsVerifies(m, key, "Ed25519", at) <=>
          /\ list.params.tag = "web-bot-auth" /\ list.params.keyid # None
          /\ TsCovers(list, {"@authority", "@target-uri"})
          /\ m.agents # <<>> => TsCovers(list, {"signature-agent"})
          /\ m.sigs[1].sig = Signature(key, "Ed25519", TsBase(m, list))
    BY <1>2, <1>5 DEF TsVerifies, Only
  <2>2. list.params.created # None /\ list.params.expires # None
    BY <1>2 DEF TsTimely
  <2> HIDE DEF list
  <2>3. QED
    BY <1>6, <1>7, <2>1, <2>2 DEF Pick
<1>9. ASSUME ~AgentsRefused(m)
      PROVE  RustAccepts(m, key) <=>
               Pick(m, list) /\ m.sigs[1].sig = Signature(key, "Ed25519", Base(m, list))
  <2>1. /\ ParseError(m) = None <=> Pick(m, list)
        /\ Pick(m, list) =>
             /\ Parsed(m).signature = m.sigs[1].sig /\ Parsed(m).base = Base(m, list)
    BY <1>1, <1>2, <1>9, ParseSingle
  <2>2. Base(m, list).params.keyid = list.params.keyid
    BY DEF Base
  <2>3. Pick(m, list) =>
          (VerifyError(Parsed(m), [id \in {list.params.keyid} |-> <<"Ed25519", key>>]) = None
             <=> m.sigs[1].sig = Signature(key, "Ed25519", Base(m, list)))
    BY <2>1, <2>2, VerifyWithOne
  <2>4. QED
    BY <2>1, <2>3 DEF RustAccepts
<1>10. ASSUME AgentsRefused(m) PROVE ~RustAccepts(m, key)
  <2>1. ParseError(m) \in Error
    BY <1>10 DEF ParseError, Error
  <2>2. QED
    BY <2>1, MessageAssumption DEF RustAccepts
<1>11. RustAccepts(m, key) <=> handler.status = "valid" /\ ~AgentsRefused(m)
  BY <1>1, <1>8, <1>9, <1>10
<1>12. QED
  BY <1>4, <1>11 DEF m, key

\* Given the same key, of the requests with one signature that has not expired and covers only what
\* is there, the Rust verifier accepts just those the worker finds valid and whose every agent the
\* crate reads, replaced ones included (packages/web-bot-auth/src/index.ts and registry.ts,
\* crates/web-bot-auth/src/lib.rs and registry.rs).
THEOREM VerifiersAgree == Spec => []VerdictsAgree
BY VerdictsAlike, InvHolds, PTL

-------------------------------------------------------------------------------
(***************************************************************************)
(* The debug page.  PageInv says what its handlers rely on: the forms have *)
(* their fields, a token is sent once and by a call that is under way, the *)
(* request examined is as a program signed it, and what is being checked   *)
(* is a version of it.  What a verdict means is then a matter of the two   *)
(* verifiers and their bases.                                              *)
(***************************************************************************)

\* The request the user examines, as the program makes it.
MadeBy(p) ==
  [ jwk |-> p.jwk,
    msg |-> TsSigned(p.unsigned, p.label, p.list, p.jwk.pub, WebAlgorithm(p.jwk)) ]

\* What a text field for a JWK may hold, and what the handlers make of it.
JwkText == WebKeyShape \cup {NotJson, None}

FormsAreTyped ==
  /\ fields = [f \in Field |-> fields[f]]
  /\ fields.keyID \in JwkText /\ fields.jwk \in JwkText
  /\ computing \subseteq WebKeyShape

\* The keys that are imported were served.
CallsAreKnown ==
  /\ page \in [Request -> {"idle", "fetching", "importing", "done"}]
  /\ call = [r \in Request |-> call[r]]
  /\ \A r \in Request : page[r] = "importing" => call[r].pc = "served"
  /\ \A r \in Request : call[r].pc = "served" => call[r].body \in Body

\* What is checked is a version of the request, and a verdict is on what was checked.
ChecksAreOfVersions ==
  /\ \A held \in checking : held.jwk \in JwkText /\ held.message \in Versions(examined.msg)
  /\ signatureResult.is = "verified" =>
       LET of == signatureResult.of
           at == signatureResult.at
       IN /\ of.jwk \in JwkText /\ of.message \in Versions(examined.msg) /\ at \in Nat
          /\ signatureResult.valid = PageVerifies(of.jwk, of.message, at)
          /\ signatureResult.warned = (PageVerifies(of.jwk, of.message, at) /\ Expired(of.message, at))

PageInv ==
  /\ clock \in Nat
  /\ \E p \in Program : examined = MadeBy(p)
  /\ widget \in Genuine \cup {None} /\ sent \subseteq Genuine
  /\ RetryHasFreshToken
  /\ FormsAreTyped /\ CallsAreKnown /\ ChecksAreOfVersions

LEMMA TokensAreThere == None \notin Genuine /\ Genuine \subseteq Token
BY DebugAssumption DEF DebugAssumption, Proxy!FetchAssumption

LEMMA PageInitInv == PageInit => PageInv
<1> SUFFICES ASSUME PageInit PROVE PageInv
  OBVIOUS
<1>1. FormsAreTyped
  BY DEF PageInit, Empty, Field, FormsAreTyped, JwkText
<1>2. CallsAreKnown /\ widget \in Genuine \cup {None} /\ sent \subseteq Genuine /\ RetryHasFreshToken
  BY DEF PageInit, Proxy!Init, NotAsked, CallsAreKnown, RetryHasFreshToken
<1>3. ChecksAreOfVersions
  BY DEF PageInit, Nothing, ChecksAreOfVersions
<1>4. \E p \in Program : examined = MadeBy(p)
  BY DEF PageInit, MadeBy
<1>5. QED
  BY <1>1, <1>2, <1>3, <1>4 DEF PageInit, PageInv

\* The actions of the page, each with what it changes.
LEMMA PageActions ==
  ASSUME [PageNext]_pageVars
  PROVE  \/ UNCHANGED pageVars
         \/ PageTick
         \/ Solve
         \/ \E r \in Request : \E url \in Url : SubmitDirectory(r, url)
         \/ \E r \in Request : ProxyAnswers(r)
         \/ \E r \in Request : CallFails(r)
         \/ \E r \in Request : AnswerRead(r)
         \/ \E r \in Request : KeysImported(r)
         \/ \E text \in Typed \cup {fields.keyID} : SubmitKeyID(text)
         \/ \E jwk \in computing : KeyIDComputed(jwk)
         \/ \E jwk \in Typed \cup {fields.jwk}, m \in Versions(examined.msg) : SubmitSignature(jwk, m)
         \/ \E held \in checking : SignatureChecked(held)
         \/ OpenLink(LinkOf(fields))
         \/ \E jwk \in Typed : OpenLink([jwk |-> jwk])
<1>1. CASE UNCHANGED pageVars
  BY <1>1
<1>2. CASE PageNext
  <2>1. CASE \E r \in Request : \/ \E url \in Url : SubmitDirectory(r, url)
                               \/ ProxyAnswers(r)
                               \/ CallFails(r)
    BY <2>1
  <2>2. CASE HandlersRun
    BY <2>2 DEF HandlersRun
  <2>3. CASE \E text \in Typed \cup ({fields.keyID} \ {None}) : SubmitKeyID(text)
    BY <2>3
  <2>4. CASE \E jwk \in Typed \cup ({fields.jwk} \ {None}), m \in Versions(examined.msg) :
               SubmitSignature(jwk, m)
    BY <2>4
  <2>5. CASE OpenLink(LinkOf(fields))
    BY <2>5
  <2>6. CASE fields = Empty /\ \E jwk \in Typed : OpenLink([jwk |-> jwk])
    BY <2>6
  <2>7. QED
    BY <1>2, <2>1, <2>2, <2>3, <2>4, <2>5, <2>6 DEF PageNext
<1>3. QED
  BY <1>1, <1>2

\* What a handler of the directory form that ends leaves.
LEMMA EndsFresh ==
  ASSUME PageInv, NEW r \in Request, NEW shown, Ends(r, shown), UNCHANGED sent
  PROVE  /\ widget' \in Genuine \cup {None} /\ sent' \subseteq Genuine
         /\ RetryHasFreshToken'
BY TokensAreThere DEF PageInv, Ends, RetryHasFreshToken

\* No token is sent twice: while a check is under way the widget may hold the token it sent, and
\* when the last one ends the widget is reset or has another.
LEMMA TokensStep ==
  ASSUME PageInv, [PageNext]_pageVars
  PROVE  /\ widget' \in Genuine \cup {None} /\ sent' \subseteq Genuine
         /\ RetryHasFreshToken'
<1> DEFINE Fresh == /\ widget \in Genuine \cup {None} /\ sent \subseteq Genuine
                    /\ RetryHasFreshToken
<1>1. Fresh /\ page \in [Request -> {"idle", "fetching", "importing", "done"}]
  BY DEF PageInv, CallsAreKnown
<1>2. CASE UNCHANGED <<page, widget, sent>>
  BY <1>1, <1>2 DEF RetryHasFreshToken
<1>3. CASE Solve
  <2>1. \E token \in Genuine : token \notin sent
    BY <1>1, <1>3 DEF Solve
  <2>2. widget' \in Genuine /\ widget' \notin sent
    BY <1>3, <2>1 DEF Solve
  <2>3. QED
    BY <1>1, <1>3, <2>2 DEF Solve, RetryHasFreshToken
<1>4. ASSUME NEW r \in Request, NEW url \in Url, SubmitDirectory(r, url) PROVE Fresh'
  <2>1. CASE url.valid /\ url.wellKnown
    <3>1. /\ page' = [page EXCEPT ![r] = "fetching"]
          /\ sent' = sent \cup ({widget} \ {None}) /\ widget' = widget
      BY <1>4, <2>1 DEF SubmitDirectory
    <3>2. page'[r] = "fetching"
      BY <1>1, <3>1
    <3>3. QED
      BY <1>1, <3>1, <3>2 DEF RetryHasFreshToken
  <2>2. CASE ~(url.valid /\ url.wellKnown)
    BY <1>1, <1>4, <2>2 DEF SubmitDirectory, RetryHasFreshToken
  <2>3. QED
    BY <2>1, <2>2
<1>5. ASSUME NEW r \in Request, AnswerRead(r) PROVE Fresh'
  <2>1. CASE \E shown : Ends(r, shown)
    BY <1>5, <2>1, EndsFresh DEF AnswerRead
  <2>2. CASE page' = [page EXCEPT ![r] = "importing"] /\ UNCHANGED <<widget, sent>>
    <3>1. page'[r] = "importing"
      BY <1>1, <2>2
    <3>2. QED
      BY <1>1, <2>2, <3>1 DEF RetryHasFreshToken
  <2>3. QED
    BY <1>5, <2>1, <2>2 DEF AnswerRead, Show
<1>6. ASSUME NEW r \in Request, KeysImported(r) \/ CallFails(r) PROVE Fresh'
  BY <1>6, EndsFresh DEF KeysImported, CallFails, Show
<1>7. ASSUME NEW link, OpenLink(link) PROVE Fresh'
  BY <1>1, <1>7, TokensAreThere DEF OpenLink, NotAsked, RetryHasFreshToken
<1>8. CASE \/ UNCHANGED pageVars
           \/ PageTick
           \/ \E r \in Request : ProxyAnswers(r)
           \/ \E text : SubmitKeyID(text)
           \/ \E jwk \in computing : KeyIDComputed(jwk)
           \/ \E jwk : \E m \in Versions(examined.msg) : SubmitSignature(jwk, m)
           \/ \E held \in checking : SignatureChecked(held)
  <2>1. UNCHANGED <<page, widget, sent>>
    BY <1>8 DEF pageVars, directoryVars, PageTick, ProxyAnswers, SubmitKeyID, KeyIDComputed,
                SubmitSignature, SignatureChecked
  <2>2. QED
    BY <1>2, <2>1
<1>9. QED
  BY <1>3, <1>4, <1>5, <1>6, <1>7, <1>8, PageActions

\* The request examined is the same throughout, and time goes on.
LEMMA ExaminedStays ==
  ASSUME PageInv, [PageNext]_pageVars
  PROVE  examined' = examined /\ clock' \in Nat
<1>1. examined' = examined /\ (clock' = clock \/ clock' = clock + 1)
  BY PageActions DEF pageVars, PageTick, Solve, SubmitDirectory, ProxyAnswers, CallFails, AnswerRead,
     KeysImported, SubmitKeyID, KeyIDComputed, SubmitSignature, SignatureChecked, OpenLink
<1>2. QED
  BY <1>1 DEF PageInv

\* What the proxy does to a call: it goes from none to asked, and from there to its answer.
LEMMA AnswerStep ==
  ASSUME PageInv, NEW r \in Request, Proxy!Answer(r)
  PROVE  /\ call[r].pc = "asked"
         /\ \E answer : /\ call' = [call EXCEPT ![r] = answer]
                        /\ answer.pc = "served" => answer.body \in Body
BY DEF Proxy!Answer, Proxy!Refuse, Proxy!Serve, Proxy!Served

LEMMA CallsStep ==
  ASSUME PageInv, [PageNext]_pageVars
  PROVE  CallsAreKnown'
<1> DEFINE State == {"idle", "fetching", "importing", "done"}
<1>1. CallsAreKnown
  BY DEF PageInv
<1>2. CASE UNCHANGED <<page, call>>
  BY <1>1, <1>2 DEF CallsAreKnown
<1>3. ASSUME NEW r \in Request, NEW to \in {"fetching", "done"}, page' = [page EXCEPT ![r] = to],
             UNCHANGED call
      PROVE  CallsAreKnown'
  BY <1>1, <1>3 DEF CallsAreKnown
<1>4. ASSUME NEW r \in Request, NEW url \in Url, SubmitDirectory(r, url) PROVE CallsAreKnown'
  <2>1. CASE UNCHANGED <<page, call>>
    BY <1>2, <2>1
  <2>2. CASE Proxy!Ask(r, url, widget) /\ page' = [page EXCEPT ![r] = "fetching"]
    <3> DEFINE asked == Proxy!Asked(url, widget)
    <3>1. call' = [call EXCEPT ![r] = asked] /\ asked.pc = "asked"
      BY <2>2 DEF Proxy!Ask, Proxy!Asked
    <3> HIDE DEF asked
    <3>2. QED
      BY <1>1, <2>2, <3>1 DEF CallsAreKnown
  <2>3. QED
    BY <1>4, <2>1, <2>2 DEF SubmitDirectory
<1>5. ASSUME NEW r \in Request, ProxyAnswers(r) PROVE CallsAreKnown'
  <2>1. call[r].pc = "asked" /\ UNCHANGED page
    BY <1>5, AnswerStep DEF ProxyAnswers
  <2>2. PICK answer : /\ call' = [call EXCEPT ![r] = answer]
                      /\ answer.pc = "served" => answer.body \in Body
    BY <1>5, AnswerStep DEF ProxyAnswers
  <2>3. QED
    BY <1>1, <2>1, <2>2 DEF CallsAreKnown
<1>6. ASSUME NEW r \in Request, AnswerRead(r) PROVE CallsAreKnown'
  <2>1. CASE page' = [page EXCEPT ![r] = "importing"] /\ ~Unreadable(r)
    BY <1>1, <1>6, <2>1 DEF AnswerRead, Unreadable, CallsAreKnown
  <2>2. CASE page' = [page EXCEPT ![r] = "done"]
    BY <1>3, <1>6, <2>2 DEF AnswerRead
  <2>3. QED
    BY <1>6, <2>1, <2>2 DEF AnswerRead, Show, Ends
<1>7. ASSUME NEW r \in Request, KeysImported(r) \/ CallFails(r) PROVE CallsAreKnown'
  BY <1>3, <1>7 DEF KeysImported, CallFails, Show, Ends
<1>8. ASSUME NEW link, OpenLink(link) PROVE CallsAreKnown'
  BY <1>1, <1>8 DEF OpenLink, NotAsked, CallsAreKnown
<1>9. CASE \/ UNCHANGED pageVars
           \/ PageTick
           \/ Solve
           \/ \E text : SubmitKeyID(text)
           \/ \E jwk \in computing : KeyIDComputed(jwk)
           \/ \E jwk, m : SubmitSignature(jwk, m)
           \/ \E held \in checking : SignatureChecked(held)
  <2>1. UNCHANGED <<page, call>>
    BY <1>9 DEF pageVars, directoryVars, PageTick, Solve, SubmitKeyID, KeyIDComputed,
                SubmitSignature, SignatureChecked
  <2>2. QED
    BY <1>2, <2>1
<1>10. QED
  BY <1>4, <1>5, <1>6, <1>7, <1>8, <1>9, PageActions

-------------------------------------------------------------------------------
(* What the text fields for a JWK hold.                                    *)

LEMMA FirstKeyType == ASSUME NEW body \in Body PROVE FirstKey(Document[body]) \in WebKeyShape \cup {None}
<1> DEFINE doc == Document[body]
<1>1. doc \in DocumentShape \cup {NotJson}
  BY DebugAssumption DEF DebugAssumption
<1>2. CASE doc = NotJson \/ doc.keys \in {None, <<>>} \/ doc.keys[1] = Null
  BY <1>2 DEF FirstKey
<1>3. CASE ~(doc = NotJson \/ doc.keys \in {None, <<>>} \/ doc.keys[1] = Null)
  <2>1. doc.keys \in Seq(WebKeyShape \cup {Null}) /\ doc.keys # <<>>
    BY <1>1, <1>3 DEF DocumentShape
  <2>2. doc.keys[1] \in WebKeyShape \cup {Null}
    BY <2>1
  <2>3. QED
    BY <1>3, <2>2 DEF FirstKey
<1>4. QED
  BY <1>2, <1>3

LEMMA TypedType == ASSUME PageInv PROVE Typed \subseteq JwkText
<1>1. PICK p \in Program : examined = MadeBy(p)
  BY DEF PageInv
<1>2. examined.jwk \in WebKeyShape
  BY <1>1, DebugAssumption DEF DebugAssumption, MadeBy
<1>3. Public(examined.jwk) \in WebKeyShape
  BY <1>2 DEF Public, WebKeyShape
<1>4. QED
  BY <1>2, <1>3, DebugAssumption DEF DebugAssumption, Typed, JwkText

\* A link of the page gives the forms back what they held.
LEMMA LinkRestores ==
  ASSUME NEW f
  PROVE  Prefilled(LinkOf(f)).keyID = f.keyID /\ Prefilled(LinkOf(f)).jwk = f.jwk
<1>1. /\ Param(LinkOf(f), "key-id-jwk") = f.keyID /\ Param(LinkOf(f), "signature-jwk") = f.jwk
      /\ Param(LinkOf(f), "jwk") = None
  BY DEF Param, LinkOf, Present
<1>2. QED
  BY <1>1 DEF Prefilled

LEMMA FormsStep ==
  ASSUME PageInv, [PageNext]_pageVars
  PROVE  FormsAreTyped'
<1>1. FormsAreTyped /\ Typed \subseteq JwkText
  BY TypedType DEF PageInv
<1>2. CASE UNCHANGED <<fields, computing>>
  BY <1>1, <1>2 DEF FormsAreTyped
<1>3. ASSUME NEW f \in {"url", "message"}, NEW value, fields' = [fields EXCEPT ![f] = value],
             UNCHANGED computing
      PROVE  FormsAreTyped'
  BY <1>1, <1>3 DEF FormsAreTyped, Field
<1>4. ASSUME NEW r \in Request, NEW valid, Show(r, valid), call[r].body \in Body, UNCHANGED computing
      PROVE  FormsAreTyped'
  <2> DEFINE jwk == FirstKey(Document[call[r].body])
  <2>1. CASE jwk = None
    BY <1>2, <1>4, <2>1 DEF Show, Fill
  <2>2. CASE jwk # None
    <3>1. jwk \in JwkText
      BY <1>4, FirstKeyType DEF JwkText
    <3>2. fields' = [fields EXCEPT !.keyID = jwk, !.jwk = jwk]
      BY <1>4, <2>2 DEF Show, Fill
    <3> HIDE DEF jwk
    <3>3. QED
      BY <1>1, <1>4, <3>1, <3>2 DEF FormsAreTyped, Field
  <2>3. QED
    BY <2>1, <2>2
<1>5. ASSUME NEW r \in Request, AnswerRead(r) PROVE FormsAreTyped'
  <2>1. UNCHANGED computing
    BY <1>5 DEF AnswerRead, keyIDVars
  <2>2. CASE UNCHANGED fields
    BY <1>2, <2>1, <2>2
  <2>3. CASE Show(r, FALSE) /\ ~Unreadable(r)
    <3>1. call[r].body \in Body
      BY <1>5, <2>3 DEF AnswerRead, Unreadable, PageInv, CallsAreKnown
    <3>2. QED
      BY <1>4, <2>1, <2>3, <3>1
  <2>4. QED
    BY <1>5, <2>2, <2>3 DEF AnswerRead
<1>6. ASSUME NEW r \in Request, KeysImported(r) PROVE FormsAreTyped'
  <2>1. call[r].body \in Body /\ UNCHANGED computing
    BY <1>6 DEF KeysImported, PageInv, CallsAreKnown, keyIDVars
  <2>2. QED
    BY <1>4, <1>6, <2>1 DEF KeysImported
<1>7. ASSUME NEW text \in Typed \cup {fields.keyID}, SubmitKeyID(text) PROVE FormsAreTyped'
  <2>1. text \in JwkText
    BY <1>1 DEF FormsAreTyped
  <2>2. computing' \subseteq computing \cup {text} /\ (Named(text) \/ computing' = computing)
    BY <1>7 DEF SubmitKeyID
  <2>3. computing' \subseteq WebKeyShape
    BY <1>1, <2>1, <2>2 DEF FormsAreTyped, Named, JwkText
  <2>4. fields' = [fields EXCEPT !.keyID = text]
    BY <1>7 DEF SubmitKeyID
  <2>5. QED
    BY <1>1, <2>1, <2>3, <2>4 DEF FormsAreTyped, Field
<1>8. ASSUME NEW jwk \in computing, KeyIDComputed(jwk) PROVE FormsAreTyped'
  <2>1. fields' = [fields EXCEPT !.jwk = jwk] /\ computing' \subseteq computing /\ jwk \in JwkText
    BY <1>1, <1>8 DEF KeyIDComputed, FormsAreTyped, JwkText
  <2>2. QED
    BY <1>1, <2>1 DEF FormsAreTyped, Field
<1>9. ASSUME NEW jwk \in Typed \cup {fields.jwk}, NEW m, SubmitSignature(jwk, m) PROVE FormsAreTyped'
  <2>1. /\ fields' = [fields EXCEPT !.jwk = jwk, !.message = m]
        /\ jwk \in JwkText /\ UNCHANGED computing
    BY <1>1, <1>9 DEF SubmitSignature, FormsAreTyped, keyIDVars
  <2>2. QED
    BY <1>1, <2>1 DEF FormsAreTyped, Field
<1>10. ASSUME NEW link, OpenLink(link), Prefilled(link).keyID \in JwkText, Prefilled(link).jwk \in JwkText
       PROVE  FormsAreTyped'
  <2>1. fields' = Prefilled(link) /\ computing' = {}
    BY <1>10 DEF OpenLink
  <2>2. Prefilled(link) = [f \in Field |-> Prefilled(link)[f]]
    BY DEF Prefilled, Field
  <2>3. QED
    BY <1>10, <2>1, <2>2 DEF FormsAreTyped
<1>11. CASE OpenLink(LinkOf(fields))
  BY <1>1, <1>10, <1>11, LinkRestores DEF FormsAreTyped
<1>12. ASSUME NEW jwk \in Typed, OpenLink([jwk |-> jwk]) PROVE FormsAreTyped'
  <2>1. Prefilled([jwk |-> jwk]).keyID = jwk /\ Prefilled([jwk |-> jwk]).jwk = jwk
    BY DEF Prefilled, Param
  <2>2. QED
    BY <1>1, <1>10, <1>12, <2>1
<1>13. CASE \/ UNCHANGED pageVars
            \/ PageTick
            \/ Solve
            \/ \E r \in Request : ProxyAnswers(r)
            \/ \E r \in Request : CallFails(r)
            \/ \E held \in checking : SignatureChecked(held)
  <2>1. UNCHANGED <<fields, computing>>
    BY <1>13 DEF pageVars, keyIDVars, PageTick, Solve, ProxyAnswers, CallFails, SignatureChecked
  <2>2. QED
    BY <1>2, <2>1
<1>14. ASSUME NEW r \in Request, NEW url, SubmitDirectory(r, url) PROVE FormsAreTyped'
  BY <1>3, <1>14 DEF SubmitDirectory, keyIDVars
<1>15. QED
  BY <1>5, <1>6, <1>7, <1>8, <1>9, <1>11, <1>12, <1>13, <1>14, PageActions
-------------------------------------------------------------------------------
(* Verdicts.                                                               *)

LEMMA ChecksStep ==
  ASSUME PageInv, [PageNext]_pageVars
  PROVE  ChecksAreOfVersions'
<1>1. ChecksAreOfVersions /\ examined' = examined /\ clock \in Nat /\ Typed \subseteq JwkText
  BY ExaminedStays, TypedType DEF PageInv
<1>2. CASE UNCHANGED signatureVars
  BY <1>1, <1>2 DEF signatureVars, ChecksAreOfVersions
<1>3. ASSUME NEW jwk \in Typed \cup {fields.jwk}, NEW m \in Versions(examined.msg), SubmitSignature(jwk, m)
      PROVE  ChecksAreOfVersions'
  <2>1. checking' = checking \cup {Held(jwk, m)} /\ signatureResult'.is # "verified"
    BY <1>3 DEF SubmitSignature
  <2>2. Held(jwk, m).jwk \in JwkText /\ Held(jwk, m).message = m
    BY <1>1 DEF Held, PageInv, FormsAreTyped
  <2>3. QED
    BY <1>1, <2>1, <2>2 DEF ChecksAreOfVersions
<1>4. ASSUME NEW held \in checking, SignatureChecked(held) PROVE ChecksAreOfVersions'
  <2> DEFINE verifies == PageVerifies(held.jwk, held.message, clock)
             expired == Expired(held.message, clock)
  <2>1. /\ checking' \subseteq checking
        /\ signatureResult' = [ is |-> "verified", valid |-> verifies, of |-> held, at |-> clock,
                                warned |-> verifies /\ expired ]
    BY <1>4 DEF SignatureChecked, PageVerdict
  <2>2. /\ signatureResult'.of = held /\ signatureResult'.at = clock
        /\ signatureResult'.valid = verifies /\ signatureResult'.warned = (verifies /\ expired)
    BY <2>1
  <2>3. held.jwk \in JwkText /\ held.message \in Versions(examined'.msg)
    BY <1>1 DEF ChecksAreOfVersions
  <2>4. \A other \in checking' : other.jwk \in JwkText /\ other.message \in Versions(examined'.msg)
    BY <1>1, <2>1 DEF ChecksAreOfVersions
  <2>5. QED
    BY <1>1, <2>2, <2>3, <2>4 DEF ChecksAreOfVersions
<1>5. ASSUME NEW link, OpenLink(link) PROVE ChecksAreOfVersions'
  BY <1>5 DEF OpenLink, Nothing, ChecksAreOfVersions
<1>6. CASE \/ UNCHANGED pageVars
           \/ PageTick
           \/ Solve
           \/ \E r \in Request : \E url : SubmitDirectory(r, url)
           \/ \E r \in Request : ProxyAnswers(r)
           \/ \E r \in Request : CallFails(r)
           \/ \E r \in Request : AnswerRead(r)
           \/ \E r \in Request : KeysImported(r)
           \/ \E text : SubmitKeyID(text)
           \/ \E jwk \in computing : KeyIDComputed(jwk)
  <2>1. UNCHANGED signatureVars
    BY <1>6 DEF pageVars, PageTick, Solve, SubmitDirectory, ProxyAnswers, CallFails, AnswerRead,
                KeysImported, SubmitKeyID, KeyIDComputed
  <2>2. QED
    BY <1>2, <2>1
<1>7. QED
  BY <1>3, <1>4, <1>5, <1>6, PageActions

LEMMA PageNextInv == PageInv /\ [PageNext]_pageVars => PageInv'
<1> SUFFICES ASSUME PageInv, [PageNext]_pageVars PROVE PageInv'
  OBVIOUS
<1>1. (\E p \in Program : examined = MadeBy(p))'
  BY ExaminedStays DEF PageInv, MadeBy
<1>2. QED
  BY <1>1, ExaminedStays, TokensStep, FormsStep, CallsStep, ChecksStep DEF PageInv

LEMMA PageInvHolds == PageSpec => []PageInv
BY PageInitInv, PageNextInv, PTL DEF PageSpec

\* When no call is under way, the token the directory form would send was never sent (`finally`
\* of the directory handler).
THEOREM RetriesAreFresh == PageSpec => []RetryHasFreshToken
<1>1. PageInv => RetryHasFreshToken
  BY DEF PageInv
<1>2. QED
  BY <1>1, PageInvHolds, PTL

\* A directory shown fills in the JWK of its first key.
LEMMA ShowStep ==
  ASSUME PageInv, JwkIsOfResult, NEW r, NEW valid, Show(r, valid), UNCHANGED keyIDResult
  PROVE  JwkIsOfResult'
<1> DEFINE jwk == FirstKey(Document[call[r].body])
<1>1. result'.is = "shown" /\ FirstKey(Document[result'.body]) = jwk
  BY DEF Show, Ends, Shown
<1>2. CASE jwk = None
  <2>1. UNCHANGED <<fields, last>>
    BY <1>2 DEF Show, Fill
  <2>2. QED
    BY <1>1, <1>2, <2>1 DEF JwkIsOfResult
<1>3. CASE jwk # None
  <2>1. fields' = [fields EXCEPT !.keyID = jwk, !.jwk = jwk] /\ last' = "directory"
    BY <1>3 DEF Show, Fill
  <2>2. fields'.jwk = jwk
    BY <2>1 DEF PageInv, FormsAreTyped, Field
  <2>3. QED
    BY <1>1, <2>1, <2>2 DEF JwkIsOfResult
<1>4. QED
  BY <1>2, <1>3

LEMMA JwkStep == PageInv /\ JwkIsOfResult /\ [PageNext]_pageVars => JwkIsOfResult'
<1> SUFFICES ASSUME PageInv, JwkIsOfResult, [PageNext]_pageVars PROVE JwkIsOfResult'
  OBVIOUS
<1>1. fields = [f \in Field |-> fields[f]]
  BY DEF PageInv, FormsAreTyped
<1>2. CASE UNCHANGED <<fields, last, result, keyIDResult>>
  BY <1>2 DEF JwkIsOfResult
<1>3. ASSUME NEW r \in Request, NEW url, SubmitDirectory(r, url) PROVE JwkIsOfResult'
  <2>1. /\ fields'.jwk = fields.jwk /\ result'.is # "shown"
        /\ UNCHANGED <<last, keyIDResult>>
    BY <1>1, <1>3 DEF SubmitDirectory, Field, Failed, keyIDVars
  <2>2. QED
    BY <2>1 DEF JwkIsOfResult
<1>4. ASSUME NEW r \in Request, Ends(r, Failed), UNCHANGED <<fields, last, keyIDResult>>
      PROVE  JwkIsOfResult'
  BY <1>4 DEF Ends, Failed, JwkIsOfResult
<1>5. ASSUME NEW r \in Request, AnswerRead(r) PROVE JwkIsOfResult'
  <2>1. UNCHANGED keyIDResult
    BY <1>5 DEF AnswerRead, keyIDVars
  <2>2. CASE Ends(r, Failed) /\ UNCHANGED <<fields, last>>
    BY <1>4, <2>1, <2>2
  <2>3. CASE Show(r, FALSE)
    BY <2>1, <2>3, ShowStep
  <2>4. CASE UNCHANGED <<fields, last, result>>
    BY <1>2, <2>1, <2>4
  <2>5. QED
    BY <1>5, <2>2, <2>3, <2>4 DEF AnswerRead
<1>6. ASSUME NEW r \in Request, KeysImported(r) PROVE JwkIsOfResult'
  BY <1>6, ShowStep DEF KeysImported, keyIDVars
<1>7. ASSUME NEW r \in Request, CallFails(r) PROVE JwkIsOfResult'
  BY <1>4, <1>7 DEF CallFails, keyIDVars
<1>8. ASSUME NEW text, SubmitKeyID(text) PROVE JwkIsOfResult'
  <2>1. /\ fields'.jwk = fields.jwk /\ keyIDResult'.is # "keyid"
        /\ UNCHANGED <<last, result>>
    BY <1>1, <1>8 DEF SubmitKeyID, Field, Failed, directoryVars
  <2>2. QED
    BY <2>1 DEF JwkIsOfResult
<1>9. ASSUME NEW jwk, KeyIDComputed(jwk) PROVE JwkIsOfResult'
  <2>1. /\ fields'.jwk = jwk /\ keyIDResult'.id = KeyId(jwk) /\ last' = "keyid"
    BY <1>1, <1>9 DEF KeyIDComputed, Field
  <2>2. QED
    BY <2>1 DEF JwkIsOfResult
<1>10. ASSUME NEW jwk, NEW m, SubmitSignature(jwk, m) PROVE JwkIsOfResult'
  <2>1. /\ fields'.jwk = jwk /\ last' = IF jwk = fields.jwk THEN last ELSE "user"
        /\ UNCHANGED <<result, keyIDResult>>
    BY <1>1, <1>10 DEF SubmitSignature, Field, directoryVars, keyIDVars
  <2>2. QED
    BY <2>1 DEF JwkIsOfResult
<1>11. ASSUME NEW link, OpenLink(link) PROVE JwkIsOfResult'
  BY <1>11 DEF OpenLink, JwkIsOfResult
<1>12. CASE \/ UNCHANGED pageVars
            \/ PageTick
            \/ Solve
            \/ \E r \in Request : ProxyAnswers(r)
            \/ \E held \in checking : SignatureChecked(held)
  <2>1. UNCHANGED <<fields, last, result, keyIDResult>>
    BY <1>12 DEF pageVars, directoryVars, keyIDVars, PageTick, Solve, ProxyAnswers, SignatureChecked
  <2>2. QED
    BY <1>2, <2>1
<1>13. QED
  BY <1>3, <1>5, <1>6, <1>7, <1>8, <1>9, <1>10, <1>11, <1>12, PageActions

LEMMA JwkInit == PageInit => JwkIsOfResult
BY DEF PageInit, JwkIsOfResult

\* The JWK of the signature form is that of the directory or of the keyid shown, whichever wrote
\* it last, in whatever order the answers came (fillJWK and the keyid handler).
THEOREM JwkIsThatShown == PageSpec => []JwkIsOfResult
BY JwkInit, JwkStep, PageInvHolds, PTL DEF PageSpec

LEMMA ProgramType ==
  ASSUME NEW p \in Program
  PROVE  /\ p.jwk \in WebKeyShape /\ p.unsigned \in Message /\ p.list \in InnerList
         /\ MakesSigner(p.jwk) /\ SignsAs(p.list.params, p.jwk) /\ TsSignable(p.unsigned, p.list)
         /\ \A item \in ItemsOf(p.list) : item \in Item /\ TsFound(p.unsigned, item)
<1>1. /\ p \in [jwk : WebKeyShape, label : Label, unsigned : Message, list : InnerList]
      /\ MakesSigner(p.jwk) /\ SignsAs(p.list.params, p.jwk) /\ TsSignable(p.unsigned, p.list)
  BY DebugAssumption DEF DebugAssumption
<1>2. p.list.items \in Seq(Item)
  BY <1>1 DEF InnerList
<1>3. \A item \in ItemsOf(p.list) : item \in Item /\ TsFound(p.unsigned, item)
  BY <1>1, <1>2 DEF ItemsOf, TsSignable
<1>4. QED
  BY <1>1, <1>3

\* Every version of the request has its signature, as it was made.
LEMMA VersionType ==
  ASSUME NEW p \in Program, NEW m \in Versions(MadeBy(p).msg)
  PROVE  /\ TsSingle(m) /\ m.inputs[1].list = p.list
         /\ m.sigs[1].sig = Signature(p.jwk.pub, WebAlgorithm(p.jwk), TsBase(p.unsigned, p.list))
         /\ m.agents \in {p.unsigned.agents, <<>>, p.unsigned.agents \o p.unsigned.agents}
<1> DEFINE unsigned == p.unsigned
           input == [label |-> p.label, list |-> p.list]
           made == [ label |-> p.label,
                     sig |-> Signature(p.jwk.pub, WebAlgorithm(p.jwk), TsBase(unsigned, p.list)) ]
<1>1. unsigned \in Message
  BY ProgramType
<1>2. MadeBy(p).msg = [unsigned EXCEPT !.inputs = <<input>>, !.sigs = <<made>>]
  BY DEF MadeBy, TsSigned
<1>3. input.label = made.label /\ input.list = p.list
      /\ made.sig = Signature(p.jwk.pub, WebAlgorithm(p.jwk), TsBase(unsigned, p.list))
  OBVIOUS
<1> HIDE DEF input, made
<1>4. /\ m.inputs = <<input>> /\ m.sigs = <<made>>
      /\ m.agents \in {unsigned.agents, <<>>, unsigned.agents \o unsigned.agents}
  BY <1>1, <1>2 DEF Versions, Message
<1>5. m.inputs[1] = input /\ m.sigs[1] = made /\ Len(m.inputs) = 1 /\ Len(m.sigs) = 1
  BY <1>4
<1>6. QED
  BY <1>3, <1>4, <1>5 DEF TsSingle

\* What a covered item shows where the base on the page is the one that was signed.
LEMMA ItemsShowAlike ==
  ASSUME NEW p \in Program, NEW m, PageBase(m, p.list) = TsBase(p.unsigned, p.list),
         NEW item \in ItemsOf(p.list)
  PROVE  PageValue(m, item) = TsValue(p.unsigned, item)
<1> DEFINE items == p.list.items
<1>1. PICK i \in DOMAIN items : item = items[i]
  BY DEF ItemsOf
<1>2. /\ PageBase(m, p.list).components[i] = <<items[i], PageValue(m, items[i])>>
      /\ TsBase(p.unsigned, p.list).components[i] = <<items[i], TsValue(p.unsigned, items[i])>>
  BY DEF PageBase, TsBase
<1>3. <<items[i], PageValue(m, items[i])>> = <<items[i], TsValue(p.unsigned, items[i])>>
  BY <1>2
<1>4. QED
  BY <1>1, <1>3

\* A member of the agents that is found has a value, which is a URI.
LEMMA MemberHasValue ==
  ASSUME NEW m, m.agents \in Seq(AgentEntry), m.agents # <<>>,
         NEW item, item.name = "signature-agent", item.key # None, TsFound(m, item)
  PROVE  /\ item.key \in Labels(m.agents) /\ Member(m.agents, item.key).uri \in Uri
         /\ TsValue(m, item) = Member(m.agents, item.key).uri
<1>1. Malformed.label \notin Labels(m.agents) /\ item.key \in Labels(m.agents)
  BY DEF TsFound, Found
<1>2. PICK i \in DOMAIN m.agents : Member(m.agents, item.key) = m.agents[i]
  BY <1>1, MemberIsOne
<1>3. m.agents[i] \in AgentEntry /\ m.agents[i].label # Malformed.label
  BY <1>1 DEF Labels
<1>4. m.agents[i].uri \in Uri
  BY <1>3 DEF AgentEntry
<1>5. TsValue(m, item) = Member(m.agents, item.key).uri
  BY DEF TsValue, Value
<1>6. QED
  BY <1>1, <1>2, <1>4, <1>5

\* What the page takes for a value in another form is none that is signed.
LEMMA ShownIsOther == ShownOtherwise /\ Unnormalised \subseteq Authority
BY DebugAssumption DEF DebugAssumption

LEMMA ValidSigned == PageInv => PageValidIsSigned
<1> SUFFICES ASSUME PageInv, signatureResult.is = "verified", signatureResult.valid
             PROVE  LET held == signatureResult.of
                        list == held.message.inputs[1].list
                    IN /\ Named(held.jwk) /\ ~held.jwk.secret
                       /\ ThumbprintInput(held.jwk) = ThumbprintInput(examined.jwk)
                       /\ list.params.created # None => list.params.created <= signatureResult.at
                       /\ TsCovers(list, {"@authority", "@target-uri"}) =>
                            held.message.authority = examined.msg.authority
                       /\ TsCovers(list, {"signature-agent"}) =>
                            held.message.agents = examined.msg.agents
  BY DEF PageValidIsSigned
<1> DEFINE jwk == signatureResult.of.jwk
           m == signatureResult.of.message
           at == signatureResult.at
<1>1. PageVerifies(jwk, m, at) /\ m \in Versions(examined.msg)
  BY DEF PageInv, ChecksAreOfVersions
<1>2. PICK p \in Program : examined = MadeBy(p)
  BY DEF PageInv
<1> HIDE DEF jwk, m, at
<1> DEFINE unsigned == p.unsigned
           list == p.list
<1>3. /\ m.inputs[1].list = list
      /\ m.sigs[1].sig = Signature(p.jwk.pub, WebAlgorithm(p.jwk), TsBase(unsigned, list))
      /\ m.agents \in {unsigned.agents, <<>>, unsigned.agents \o unsigned.agents}
  BY <1>1, <1>2, VersionType
<1>4. /\ AgentsValid(m) /\ Named(jwk) /\ PageTimely(list.params, at)
      /\ IsEd25519(jwk) /\ Imports(jwk, "verify")
      /\ m.sigs[1].sig = Signature(jwk.pub, "Ed25519", PageBase(m, list))
  BY <1>1, <1>3 DEF PageVerifies
<1>5. /\ jwk.pub = p.jwk.pub /\ WebAlgorithm(p.jwk) = "Ed25519"
      /\ PageBase(m, list) = TsBase(unsigned, list)
  BY <1>3, <1>4 DEF Signature
<1>6. ThumbprintInput(jwk) = ThumbprintInput(p.jwk) /\ ~jwk.secret
  <2>1. IsEd25519(p.jwk)
    BY <1>5, ProgramType DEF MakesSigner, IsSupported, WebAlgorithm
  <2>2. QED
    BY <1>4, <1>5, <2>1 DEF ThumbprintInput, IsEd25519, Imports
<1>7. ASSUME NEW item \in ItemsOf(list) PROVE PageValue(m, item) = TsValue(unsigned, item)
  BY <1>5, ItemsShowAlike
<1>8. ASSUME TsCovers(list, {"@authority", "@target-uri"}) PROVE m.authority = unsigned.authority
  <2>1. PICK item \in ItemsOf(list) : item.name \in {"@authority", "@target-uri"}
    BY <1>8 DEF TsCovers
  <2>2. TsValue(unsigned, item) = unsigned.authority /\ unsigned.authority \in Authority
    BY <2>1, ProgramType DEF TsValue, Value, Message
  <2>3. PageValue(m, item) \in {m.authority, <<"normalised", m.authority>>}
    BY <2>1 DEF PageValue, Value
  <2>4. PageValue(m, item) # m.authority => m.authority \in Unnormalised
    BY <2>1 DEF PageValue, Value
  <2>5. QED
    BY <1>7, <2>2, <2>3, <2>4, ShownIsOther DEF ShownOtherwise
<1>9. ASSUME TsCovers(list, {"signature-agent"}) PROVE m.agents = unsigned.agents
  <2>1. PICK item \in ItemsOf(list) : item.name = "signature-agent"
    BY <1>9 DEF TsCovers
  <2>2. unsigned.agents \in Seq(AgentEntry)
    BY ProgramType DEF Message
  <2>3. CASE unsigned.agents = <<>>
    BY <1>3, <2>3
  <2>4. CASE unsigned.agents # <<>>
    <3>1. m.agents # unsigned.agents \o unsigned.agents
      <4>1. Len(unsigned.agents) \in Nat /\ Len(unsigned.agents) # 0
        BY <2>2, <2>4
      <4>2. Len(unsigned.agents \o unsigned.agents) > 1
        BY <2>2, <4>1
      <4>3. QED
        BY <1>4, <4>2 DEF AgentsValid
    <3>2. m.agents # <<>>
      <4>1. SUFFICES ASSUME m.agents = <<>> PROVE FALSE
        OBVIOUS
      <4>2. PageValue(m, item) = <<>>
        BY <2>1, <4>1 DEF PageValue, Value, Labels
      <4>3. CASE item.key = None
        BY <1>7, <2>1, <2>4, <4>2, <4>3 DEF TsValue, Value
      <4>4. CASE item.key # None
        <5>1. TsFound(unsigned, item)
          BY ProgramType
        <5>2. TsValue(unsigned, item) \in Uri
          BY <2>1, <2>2, <2>4, <4>4, <5>1, MemberHasValue
        <5>3. QED
          BY <1>7, <4>2, <5>2, ShownIsOther DEF ShownOtherwise
      <4>5. QED
        BY <4>3, <4>4
    <3>3. QED
      BY <1>3, <3>1, <3>2
  <2>5. QED
    BY <2>3, <2>4
<1>10. /\ examined.jwk = p.jwk /\ examined.msg.authority = unsigned.authority
       /\ examined.msg.agents = unsigned.agents
  <2>1. unsigned \in Message
    BY ProgramType
  <2>2. QED
    BY <1>2, <2>1 DEF MadeBy, TsSigned, Message
<1>11. QED
  BY <1>3, <1>4, <1>6, <1>8, <1>9, <1>10 DEF jwk, m, at, PageTimely

\* What the page calls valid was signed with the key whose public part is in the form, for the
\* URL and the agent in it where it covers them (verifySignatureLocally).
THEOREM ValidOnPageIsSigned == PageSpec => []PageValidIsSigned
BY ValidSigned, PageInvHolds, PTL

\* An item that is not odd shows alike, on the page and in the library.
LEMMA PageBaseIsTsBase ==
  ASSUME NEW m, NEW list, \A item \in ItemsOf(list) : item \in Item /\ ~OddItem(m, item)
  PROVE  PageBase(m, list) = TsBase(m, list)
<1>1. ASSUME NEW i \in DOMAIN list.items
      PROVE  PageValue(m, list.items[i]) = TsValue(m, list.items[i])
  <2> DEFINE item == list.items[i]
  <2>1. item \in Item /\ ~OddItem(m, item)
    BY DEF ItemsOf
  <2> HIDE DEF item
  <2>2. /\ item.name # "header"
        /\ ~(item.name = "@target-uri" /\ m.authority \in Unnormalised)
        /\ item.key # None => m.agents = <<>>
    BY <2>1 DEF OddItem
  <2>3. CASE item.name = "signature-agent" /\ item.key # None
    <3>1. Labels(m.agents) = {}
      BY <2>2, <2>3 DEF Labels
    <3>2. PageValue(m, item) = TsValue(m, item)
      BY <2>2, <2>3, <3>1 DEF PageValue, TsValue
    <3>3. QED
      BY <3>2 DEF item
  <2>4. CASE ~(item.name = "signature-agent" /\ item.key # None)
    <3>1. PageValue(m, item) = Value(m, item)
      BY <2>2, <2>4 DEF PageValue
    <3>2. TsValue(m, item) = Value(m, item)
      BY <2>4 DEF TsValue, Value
    <3>3. QED
      BY <3>1, <3>2 DEF item
  <2>5. QED
    BY <2>3, <2>4
<1>2. QED
  BY <1>1 DEF PageBase, TsBase

\* An odd item shows otherwise on the page: without its quotes, normalised, or empty.
LEMMA OddItemDiffers ==
  ASSUME NEW m, m.agents \in Seq(AgentEntry), NEW item \in Item, TsFound(m, item), OddItem(m, item)
  PROVE  PageValue(m, item) # TsValue(m, item)
<1>1. CASE item.key # None /\ m.agents # <<>>
  <2>1. item.name = "signature-agent"
    BY <1>1 DEF Item
  <2>2. /\ item.key \in Labels(m.agents) /\ Member(m.agents, item.key).uri \in Uri
        /\ TsValue(m, item) = Member(m.agents, item.key).uri
    BY <1>1, <2>1, MemberHasValue
  <2>3. PageValue(m, item) = <<"bare", Member(m.agents, item.key).uri>>
    BY <1>1, <2>1, <2>2 DEF PageValue
  <2>4. QED
    BY <2>2, <2>3, ShownIsOther DEF ShownOtherwise
<1>2. CASE item.name = "@target-uri" /\ m.authority \in Unnormalised
  <2>1. TsValue(m, item) = m.authority
    BY <1>2 DEF TsValue, Value
  <2>2. PageValue(m, item) = <<"normalised", m.authority>>
    BY <1>2 DEF PageValue
  <2>3. QED
    BY <1>2, <2>1, <2>2, ShownIsOther DEF ShownOtherwise
<1>3. CASE item.name = "header"
  <2>1. TsValue(m, item) = HeaderValue
    BY <1>3 DEF TsValue, Value
  <2>2. PageValue(m, item) = <<>>
    BY <1>3 DEF PageValue
  <2>3. QED
    BY <2>1, <2>2, ShownIsOther DEF ShownOtherwise
<1>4. QED
  BY <1>1, <1>2, <1>3 DEF OddItem

LEMMA OddBaseDiffers ==
  ASSUME NEW m, m.agents \in Seq(AgentEntry), NEW list,
         \A item \in ItemsOf(list) : item \in Item /\ TsFound(m, item),
         NEW odd \in ItemsOf(list), OddItem(m, odd)
  PROVE  PageBase(m, list) # TsBase(m, list)
<1>1. PICK i \in DOMAIN list.items : odd = list.items[i]
  BY DEF ItemsOf
<1>2. /\ PageBase(m, list).components[i] = <<odd, PageValue(m, odd)>>
      /\ TsBase(m, list).components[i] = <<odd, TsValue(m, odd)>>
  BY <1>1 DEF PageBase, TsBase
<1>3. PageValue(m, odd) # TsValue(m, odd)
  BY OddItemDiffers
<1>4. <<odd, PageValue(m, odd)>> # <<odd, TsValue(m, odd)>>
  BY <1>3
<1>5. QED
  BY <1>2, <1>4

LEMMA LibraryValid == PageInv => LibraryValidIsPageValid
<1> SUFFICES ASSUME PageInv, signatureResult.is = "verified",
                    LET jwk == signatureResult.of.jwk
                        m == signatureResult.of.message
                    IN /\ Named(jwk) /\ IsEd25519(jwk) /\ ~jwk.secret /\ MakesVerifier(jwk)
                       /\ TsVerifies(m, jwk.pub, "Ed25519", signatureResult.at)
                       /\ m.inputs[1].list.params.keyid = KeyId(jwk)
             PROVE  LET m == signatureResult.of.message
                    IN /\ signatureResult.valid
                            <=> AgentsValid(m) /\ \A item \in ItemsOf(m.inputs[1].list) : ~OddItem(m, item)
                       /\ ~signatureResult.warned
  BY DEF LibraryValidIsPageValid
<1> DEFINE jwk == signatureResult.of.jwk
           m == signatureResult.of.message
           at == signatureResult.at
           list == m.inputs[1].list
           AllPlain == \A item \in ItemsOf(list) : ~OddItem(m, item)
<1>1. /\ jwk \in JwkText /\ m \in Versions(examined.msg) /\ at \in Nat
      /\ signatureResult.valid = PageVerifies(jwk, m, at)
      /\ signatureResult.warned = (PageVerifies(jwk, m, at) /\ Expired(m, at))
  BY DEF PageInv, ChecksAreOfVersions
<1>2. /\ Named(jwk) /\ IsEd25519(jwk) /\ ~jwk.secret /\ MakesVerifier(jwk)
      /\ TsVerifies(m, jwk.pub, "Ed25519", at)
      /\ list.params.keyid = KeyId(jwk)
  OBVIOUS
<1>3. PICK p \in Program : examined = MadeBy(p)
  BY DEF PageInv
<1>4. /\ list = p.list
      /\ m.agents \in {p.unsigned.agents, <<>>, p.unsigned.agents \o p.unsigned.agents}
  BY <1>1, <1>3, VersionType
<1> HIDE DEF jwk, m, at
<1>5. Imports(jwk, "verify")
  <2>1. jwk \in WebKeyShape
    BY <1>1, <1>2 DEF Named, JwkText
  <2>2. Public(jwk).pub = jwk.pub
    BY <2>1 DEF Public, WebKeyShape
  <2>3. QED
    BY <1>2, <2>2 DEF MakesVerifier, Imports
<1>6. /\ TsSingle(m) /\ TsTimely(list.params, at) /\ list.params.tag = "web-bot-auth"
      /\ TsCovers(list, {"@authority", "@target-uri"})
      /\ \A item \in ItemsOf(list) : TsFound(m, item)
      /\ m.sigs[1].sig = Signature(jwk.pub, "Ed25519", TsBase(m, list))
  BY <1>2 DEF TsVerifies
<1>7. m.agents \in Seq(AgentEntry)
  <2>1. p.unsigned.agents \in Seq(AgentEntry)
    BY ProgramType DEF Message
  <2>2. p.unsigned.agents \o p.unsigned.agents \in Seq(AgentEntry)
    BY <2>1, ConcatProperties
  <2>3. <<>> \in Seq(AgentEntry)
    OBVIOUS
  <2> DEFINE own == p.unsigned.agents
             twice == own \o own
             none == <<>>
  <2>4. m.agents \in {own, none, twice} /\ {own, none, twice} \subseteq Seq(AgentEntry)
    BY <1>4, <2>1, <2>2, <2>3
  <2> HIDE DEF own, twice, none
  <2>5. QED
    BY <2>4
<1>8. \A item \in ItemsOf(list) : item \in Item
  BY <1>4, ProgramType
<1>9. list.items # <<>>
  BY <1>6 DEF TsCovers, ItemsOf
<1>10. PageTimely(list.params, at)
  BY <1>6 DEF TsTimely, PageTimely
<1>11. PageVerifies(jwk, m, at) <=> AgentsValid(m) /\ PageBase(m, list) = TsBase(m, list)
  <2>1. PageVerifies(jwk, m, at) <=>
          AgentsValid(m) /\ m.sigs[1].sig = Signature(jwk.pub, "Ed25519", PageBase(m, list))
    BY <1>2, <1>5, <1>6, <1>9, <1>10 DEF PageVerifies
  <2>2. QED
    BY <1>6, <2>1 DEF Signature
<1>12. PageBase(m, list) = TsBase(m, list) <=> AllPlain
  <2>1. CASE AllPlain
    BY <1>8, <2>1, PageBaseIsTsBase
  <2>2. CASE ~AllPlain
    <3>1. PICK odd \in ItemsOf(list) : OddItem(m, odd)
      BY <2>2
    <3>2. PageBase(m, list) # TsBase(m, list)
      BY <1>6, <1>7, <1>8, <3>1, OddBaseDiffers
    <3>3. QED
      BY <2>2, <3>2
  <2>3. QED
    BY <2>1, <2>2
<1>13. ~Expired(m, at)
  <2>1. list.params.expires \in Nat /\ at <= list.params.expires
    <3>1. list.params \in Params
      BY <1>4, ProgramType DEF InnerList
    <3>2. QED
      BY <1>6, <3>1 DEF TsTimely, Params
  <2>2. QED
    BY <1>1, <2>1 DEF Expired
<1>14. (signatureResult.valid <=> AgentsValid(m) /\ AllPlain) /\ ~signatureResult.warned
  <2> HIDE DEF AllPlain
  <2>1. QED
    BY <1>1, <1>11, <1>12, <1>13
<1>15. QED
  BY <1>14 DEF m

\* Of the requests the library verifies with the key of the form, the page calls valid, and without
\* a warning, just those with at most one agent, written as the page has it, that cover neither a
\* member of it, nor a URL the page normalises, nor a header field but the pasted three (verify of
\* packages/web-bot-auth, verifySignatureLocally).
THEOREM LibraryLeadsPage == PageSpec => []LibraryValidIsPageValid
BY LibraryValid, PageInvHolds, PTL

LEMMA SignerMatches == PageInv => SignerMatchesVerifier
<1> SUFFICES ASSUME PageInv,
                    TsTimely(examined.msg.inputs[1].list.params, clock),
                    TsCovers(examined.msg.inputs[1].list, {"@authority", "@target-uri"}),
                    NEW jwk \in {examined.jwk, Public(examined.jwk)}
             PROVE  MakesVerifier(jwk) /\ TsVerifies(examined.msg, jwk.pub, WebAlgorithm(jwk), clock)
  BY DEF SignerMatchesVerifier
<1>1. PICK p \in Program : examined = MadeBy(p)
  BY DEF PageInv
<1> DEFINE m == examined.msg
           unsigned == p.unsigned
           list == p.list
<1>2. examined.jwk = p.jwk /\ p.jwk \in WebKeyShape /\ MakesSigner(p.jwk)
  BY <1>1, ProgramType DEF MadeBy
<1>3. jwk.pub = p.jwk.pub /\ WebAlgorithm(jwk) = WebAlgorithm(p.jwk) /\ MakesVerifier(jwk)
  BY <1>2 DEF Public, WebKeyShape, WebAlgorithm, MakesVerifier, MakesSigner, IsSupported, IsEd25519,
              Imports
<1>4. /\ TsSingle(m) /\ m.inputs[1].list = list
      /\ m.sigs[1].sig = Signature(jwk.pub, WebAlgorithm(jwk), TsBase(unsigned, list))
  BY <1>1, <1>3, VersionType DEF Versions
<1>5. m.agents = unsigned.agents /\ m.authority = unsigned.authority
  <2>1. unsigned \in Message
    BY ProgramType
  <2>2. QED
    BY <1>1, <2>1 DEF MadeBy, TsSigned, Message
<1>6. TsBase(m, list) = TsBase(unsigned, list)
  BY <1>5 DEF TsBase, TsValue, Value
<1>7. \A item \in ItemsOf(list) : TsFound(m, item)
  BY <1>5, ProgramType DEF TsFound, Found
<1>8. m.agents # <<>> => TsCovers(list, {"signature-agent"})
  BY <1>5, ProgramType DEF TsSignable, CoversAgent, TsCovers
<1>9. list.params.tag = "web-bot-auth" /\ list.params.keyid # None
  BY ProgramType, MessageAssumption DEF SignsAs
<1>10. TsTimely(list.params, clock) /\ TsCovers(list, {"@authority", "@target-uri"})
  BY <1>4
<1> HIDE DEF m, list
<1>11. TsVerifies(m, jwk.pub, WebAlgorithm(jwk), clock)
  BY <1>4, <1>6, <1>7, <1>8, <1>9, <1>10 DEF TsVerifies
<1>12. QED
  BY <1>3, <1>11 DEF m

\* What the signer made of a JWK signs, the verifier made of the same JWK, or of its public part,
\* verifies until it expires (signerFromJWK, verifierFromJWK, verify).
THEOREM SignersMatchVerifiers == PageSpec => []SignerMatchesVerifier
BY SignerMatches, PageInvHolds, PTL

-------------------------------------------------------------------------------
(* The page asks of the proxy only what DirectoryFetch lets a caller ask.  *)

LEMMA PageCalls == ASSUME PageInv, [PageNext]_pageVars PROVE [Proxy!Next]_call
<1>1. ASSUME NEW r \in Request, NEW url \in Url, SubmitDirectory(r, url) PROVE [Proxy!Next]_call
  <2>1. widget \in Token \cup {None}
    BY TokensAreThere DEF PageInv
  <2>2. QED
    BY <1>1, <2>1 DEF SubmitDirectory, Proxy!Next
<1>2. ASSUME NEW r \in Request, ProxyAnswers(r) PROVE [Proxy!Next]_call
  BY <1>2 DEF ProxyAnswers, Proxy!Next
<1>3. CASE \/ UNCHANGED pageVars
           \/ PageTick
           \/ Solve
           \/ \E r \in Request : CallFails(r)
           \/ \E r \in Request : AnswerRead(r)
           \/ \E r \in Request : KeysImported(r)
           \/ \E text : SubmitKeyID(text)
           \/ \E jwk \in computing : KeyIDComputed(jwk)
           \/ \E jwk, m : SubmitSignature(jwk, m)
           \/ \E held \in checking : SignatureChecked(held)
           \/ \E link : OpenLink(link)
  BY <1>3 DEF pageVars, directoryVars, PageTick, Solve, CallFails, AnswerRead, KeysImported, SubmitKeyID,
              KeyIDComputed, SubmitSignature, SignatureChecked, OpenLink
<1>4. QED
  BY <1>1, <1>2, <1>3, PageActions

\* The page and the proxy together keep the contract DirectoryProxy implements: each call is made
\* once, and served only what was asked for with a token not redeemed before (the directory
\* handler of debug-html.ts).
THEOREM PageIsACaller == PageSpec => Proxy!Safety
<1>1. PageInit => Proxy!Init
  BY DEF PageInit
<1>2. PageInv /\ [PageNext]_pageVars => [Proxy!Next]_call
  BY PageCalls
<1>3. QED
  BY <1>1, <1>2, PageInvHolds, PTL DEF PageSpec, Proxy!Safety
===============================================================================
