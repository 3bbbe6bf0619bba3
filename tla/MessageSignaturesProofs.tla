------------------------ MODULE MessageSignaturesProofs ------------------------
(***************************************************************************)
(* Lemmas about the operators of MessageSignatures: dictionaries, lookups, *)
(* signature bases, and what a parse that succeeds returns.                *)
(***************************************************************************)
EXTENDS MessageSignatures, KeyRingOpsProofs, SequenceTheorems

LEMMA LargestExists ==
  ASSUME NEW n \in Nat, NEW S \in SUBSET (1..n), S # {}
  PROVE  \E i \in S : \A j \in S : j <= i
<1> DEFINE T == { k \in Nat : n - k \in S }
<1>1. PICK i \in S : TRUE
  OBVIOUS
<1>2. n - i \in T
  BY SMT
<1>3. PICK k \in T : \A j \in T : k <= j
  <2> HIDE DEF T
  <2>1. T \in SUBSET Nat /\ T # {}
    BY <1>2 DEF T
  <2>2. QED
    BY <2>1, SmallestExists
<1>4. n - k \in S
  OBVIOUS
<1>5. ASSUME NEW j \in S PROVE j <= n - k
  <2>1. n - j \in T
    BY SMT
  <2>2. k <= n - j
    BY <1>3, <2>1
  <2>3. QED
    BY <2>2, SMT
<1>6. QED
  BY <1>4, <1>5

LEMMA LargestChosen ==
  ASSUME NEW S, \E i \in S : \A j \in S : j <= i
  PROVE  (CHOOSE i \in S : \A j \in S : j <= i) \in S
OBVIOUS

\* The value of a label that occurs is one of the members with that label.
LEMMA MemberIsOne ==
  ASSUME NEW T, NEW members \in Seq(T), NEW l \in Labels(members)
  PROVE  \E i \in DOMAIN members : members[i].label = l /\ Member(members, l) = members[i]
<1>1. Occurrences(members, l) \in SUBSET (1..Len(members)) /\ Occurrences(members, l) # {}
  BY DEF Labels, Occurrences
<1>2. \E i \in Occurrences(members, l) : \A j \in Occurrences(members, l) : j <= i
  <2>1. Len(members) \in Nat
    OBVIOUS
  <2>2. QED
    BY <1>1, <2>1, LargestExists
<1>3. (CHOOSE i \in Occurrences(members, l) : \A j \in Occurrences(members, l) : j <= i)
         \in Occurrences(members, l)
  BY <1>2, LargestChosen
<1>4. QED
  BY <1>3 DEF Member, Occurrences

LEMMA PlaceIsNat ==
  ASSUME NEW T, NEW members \in Seq(T), NEW l \in Labels(members)
  PROVE  Place(members, l) \in Nat
<1>1. Occurrences(members, l) \in SUBSET Nat /\ Occurrences(members, l) # {}
  BY DEF Labels, Occurrences
<1>2. \E i \in Occurrences(members, l) : \A j \in Occurrences(members, l) : i <= j
  BY <1>1, SmallestExists
<1>3. QED
  BY <1>1, <1>2 DEF Place

\* Of several suitable signatures one is picked.
LEMMA PickedIsCandidate ==
  ASSUME NEW m \in Message, Candidates(m) # {}
  PROVE  Picked(m) \in Candidates(m)
<1> DEFINE P == { Place(m.inputs, l) : l \in Candidates(m) }
<1>1. m.inputs \in Seq(InputEntry)
  BY DEF Message
<1>2. \A l \in Candidates(m) : Place(m.inputs, l) \in Nat
  BY <1>1, PlaceIsNat DEF Candidates
<1>3. P \in SUBSET Nat /\ P # {}
  BY <1>2
<1>4. PICK p \in P : \A q \in P : p <= q
  <2> HIDE DEF P
  <2>1. QED
    BY <1>3, SmallestExists
<1>5. \E l \in Candidates(m) :
        \A other \in Candidates(m) : Place(m.inputs, l) <= Place(m.inputs, other)
  BY <1>4
<1>6. QED
  BY <1>5 DEF Picked

\* What a lookup that finds its component returns.
LEMMA ValueType ==
  ASSUME NEW m \in Message, NEW item \in Item, Found(m, item)
  PROVE  Value(m, item) \in ComponentValue
<1>1. m.authority \in Authority /\ m.agents \in Seq(AgentEntry)
  BY DEF Message
<1>2. CASE item.name = "signature-agent" /\ item.key # None
  <2>1. Malformed.label \notin Labels(m.agents) /\ item.key \in Labels(m.agents)
    BY <1>2 DEF Found
  <2>2. PICK i \in DOMAIN m.agents : Member(m.agents, item.key) = m.agents[i]
    BY <1>1, <2>1, MemberIsOne
  <2>3. m.agents[i].label # Malformed.label
    BY <2>1 DEF Labels
  <2>4. m.agents[i] \in AgentEntry /\ m.agents[i] # Malformed
    BY <1>1, <2>3
  <2>5. m.agents[i].uri \in Uri
    BY <2>4 DEF AgentEntry
  <2>6. Value(m, item) = m.agents[i].uri
    BY <1>2, <2>2 DEF Value
  <2>7. QED
    BY <2>5, <2>6 DEF ComponentValue
<1>3. CASE item.name = "signature-agent" /\ item.key = None
  BY <1>1, <1>3 DEF Value, ComponentValue
<1>4. CASE item.name = "@method"
  BY <1>4 DEF Value, ComponentValue
<1>5. CASE item.name \in {"@authority", "@target-uri"}
  BY <1>1, <1>5 DEF Value, ComponentValue
<1>6. CASE item.name = "header"
  BY <1>6 DEF Value, ComponentValue
<1>7. QED
  BY <1>2, <1>3, <1>4, <1>5, <1>6 DEF Item

LEMMA BaseType ==
  ASSUME NEW m \in Message, NEW list \in InnerList,
         \A i \in DOMAIN list.items : Found(m, list.items[i])
  PROVE  Base(m, list) \in SignatureBase
<1>1. list.items \in Seq(Item) /\ list.params \in Params
  BY DEF InnerList
<1>2. \A i \in DOMAIN list.items : <<list.items[i], Value(m, list.items[i])>> \in Item \X ComponentValue
  <2>1. SUFFICES ASSUME NEW i \in DOMAIN list.items
                 PROVE  list.items[i] \in Item /\ Value(m, list.items[i]) \in ComponentValue
    OBVIOUS
  <2>2. list.items[i] \in Item /\ Found(m, list.items[i])
    BY <1>1
  <2>3. QED
    BY <2>2, ValueType
<1>3. [i \in DOMAIN list.items |-> <<list.items[i], Value(m, list.items[i])>>] \in Seq(Item \X ComponentValue)
  <2> DEFINE f == [i \in DOMAIN list.items |-> <<list.items[i], Value(m, list.items[i])>>]
  <2>1. Len(list.items) \in Nat /\ DOMAIN list.items = 1..Len(list.items)
    BY <1>1
  <2>2. f \in [1..Len(list.items) -> Item \X ComponentValue]
    BY <1>2, <2>1
  <2> HIDE DEF f
  <2>3. f \in Seq(Item \X ComponentValue)
    BY <2>1, <2>2, SeqDef
  <2>4. QED
    BY <2>3 DEF f
<1>4. QED
  BY <1>1, <1>3 DEF Base, SignatureBase

\* What WebBotAuthVerifier::parse returns when it returns no error: a signature of the message,
\* a base computed from this very message, over a list that suits Web Bot Auth.
LEMMA ParseSucceeds ==
  ASSUME NEW m \in Message, ParseError(m) = None
  PROVE  /\ PickedList(m) \in InnerList
         /\ Pick(m, PickedList(m))
         /\ Parsed(m) \in ParsedLabel
         /\ Parsed(m).base = Base(m, PickedList(m))
         /\ \E i \in DOMAIN m.sigs : Parsed(m).signature = m.sigs[i].sig
         /\ \A i \in DOMAIN m.agents : m.agents[i].uri \in Uri
<1>1. /\ Candidates(m) # {}
      /\ Picked(m) \in Labels(m.sigs)
      /\ \A item \in ItemsOf(PickedList(m)) : Found(m, item)
      /\ ~AgentsRefused(m)
  <2>1. /\ None # "NoValidHeader" /\ None # "NoMatchingLabel" /\ None # "NoSignatureForLabel"
        /\ None # "LookupError" /\ None # "MalformedSignatureAgent"
    BY MessageAssumption DEF Error
  <2>2. ~(m.inputs = <<>> \/ m.sigs = <<>>)
    BY <2>1 DEF ParseError
  <2>3. Candidates(m) # {}
    BY <2>1, <2>2 DEF ParseError
  <2>4. Picked(m) \in Labels(m.sigs)
    BY <2>1, <2>2, <2>3 DEF ParseError
  <2>5. \A item \in ItemsOf(PickedList(m)) : Found(m, item)
    BY <2>1, <2>2, <2>3, <2>4 DEF ParseError
  <2>6. ~AgentsRefused(m)
    BY <2>1, <2>2, <2>3, <2>4, <2>5 DEF ParseError
  <2>7. QED
    BY <2>3, <2>4, <2>5, <2>6
<1>2. Picked(m) \in Candidates(m)
  BY <1>1, PickedIsCandidate
<1>3. Picked(m) \in Labels(m.inputs) /\ Pick(m, PickedList(m))
  BY <1>2 DEF Candidates, PickedList
<1>4. /\ m.inputs \in Seq(InputEntry)
      /\ m.sigs \in Seq(SigEntry)
  BY DEF Message
<1>5. PICK n \in DOMAIN m.inputs : m.inputs[n].label = Picked(m) /\ Member(m.inputs, Picked(m)) = m.inputs[n]
  BY <1>3, <1>4, MemberIsOne
<1>6. PICK i \in DOMAIN m.sigs : Member(m.sigs, Picked(m)) = m.sigs[i]
  BY <1>1, <1>4, MemberIsOne
<1>7. m.inputs[n] \in InputEntry /\ m.sigs[i] \in SigEntry
  BY <1>4
<1>8. PickedList(m) \in InnerList /\ Picked(m) \in Label /\ m.sigs[i].sig \in SignatureBytes
  BY <1>5, <1>7 DEF PickedList, InputEntry, SigEntry
<1>9. \A k \in DOMAIN PickedList(m).items : Found(m, PickedList(m).items[k])
  BY <1>1 DEF ItemsOf
<1>10. Base(m, PickedList(m)) \in SignatureBase
  BY <1>8, <1>9, BaseType
<1>11. /\ Parsed(m).label = Picked(m)
       /\ Parsed(m).signature = m.sigs[i].sig
       /\ Parsed(m).base = Base(m, PickedList(m))
  BY <1>6 DEF Parsed
<1>12. Parsed(m) \in ParsedLabel
  BY <1>6, <1>8, <1>10 DEF Parsed, ParsedLabel
<1>13. ASSUME NEW k \in DOMAIN m.agents PROVE m.agents[k].uri \in Uri
  <2>1. m.agents[k] \in AgentEntry
    BY DEF Message
  <2>2. m.agents[k] # Malformed
    BY <1>1 DEF AgentsRefused
  <2>3. QED
    BY <2>1, <2>2 DEF AgentEntry
<1>14. QED
  BY <1>3, <1>8, <1>11, <1>12, <1>13

-------------------------------------------------------------------------------
TargetItem == {Plain("@authority"), Plain("@target-uri")}

\* Every component of a base that names the target carries the authority of the message it
\* was computed from, and a list that covers the target has such a component.
LEMMA BaseShowsTarget ==
  ASSUME NEW m, NEW list
  PROVE  /\ \A i \in DOMAIN Base(m, list).components :
              Base(m, list).components[i][1] \in TargetItem =>
                Base(m, list).components[i][2] = m.authority
         /\ CoversTarget(list) =>
              \E i \in DOMAIN Base(m, list).components :
                /\ Base(m, list).components[i][1] \in TargetItem
                /\ Base(m, list).components[i][2] = m.authority
<1>1. \A item \in TargetItem : Value(m, item) = m.authority
  BY DEF TargetItem, Plain, Value
<1>2. /\ DOMAIN Base(m, list).components = DOMAIN list.items
      /\ \A i \in DOMAIN list.items :
           Base(m, list).components[i] = <<list.items[i], Value(m, list.items[i])>>
  BY DEF Base
<1>3. CoversTarget(list) => \E i \in DOMAIN list.items : list.items[i] \in TargetItem
  BY DEF CoversTarget, ItemsOf, TargetItem
<1>4. QED
  BY <1>1, <1>2, <1>3

\* MessageVerifier::verify accepts only what the key its keyid names signed over this base.
LEMMA VerifySucceeds ==
  ASSUME NEW parsed, NEW r, VerifyError(parsed, r) = None
  PROVE  /\ parsed.base.params.keyid \in DOMAIN r
         /\ parsed.signature = Signature(r[parsed.base.params.keyid][2], "Ed25519", parsed.base)
<1>1. None # "NoSuchKey" /\ None # "UnsupportedAlgorithm" /\ None # "FailedToVerify"
  BY MessageAssumption DEF Error
<1>2. QED
  BY <1>1 DEF VerifyError

LEMMA SeqWidens ==
  ASSUME NEW S, NEW T, S \subseteq T, NEW s \in Seq(S)
  PROVE  s \in Seq(T)
<1>1. Len(s) \in Nat /\ s \in [1..Len(s) -> S]
  OBVIOUS
<1>2. s \in [1..Len(s) -> T]
  BY <1>1
<1>3. QED
  BY <1>1, <1>2, SeqDef
===============================================================================
