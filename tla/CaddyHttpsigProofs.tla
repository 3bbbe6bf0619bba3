--------------------------- MODULE CaddyHttpsigProofs ---------------------------
(***************************************************************************)
(* What the Caddy middleware loads and admits, for any sources, documents  *)
(* and configuration, any fetch failing: strict mode is complete, failures *)
(* are contained, and who gets through was listed.                         *)
(*                                                                         *)
(* The inductive invariant speaks of the loaders alone: each one, whether  *)
(* it has run or waits in work, was called for by a document (Sound); what *)
(* the middleware holds is what the loaders that ran have read             *)
(* (HoldsWhatWasRead); and while no error is recorded, every loader that a *)
(* document calls for has run or waits (Complete).                         *)
(***************************************************************************)
EXTENDS CaddyHttpsig, SequenceTheorems, WellFoundedInduction, TLAPS

Loader ==
  [op : {"directory", "registry", "card"}, url : Url, ips : {None}]
    \cup [op : {"jwks"}, url : Url, ips : Url \cup {None}]
    \cup [op : {"ips"}, url : Url, ids : SUBSET Key]

TypeOK ==
  /\ published \in [Url -> Document]
  /\ strict \in BOOLEAN
  /\ work \in Seq(Loader)
  /\ keys \subseteq Key
  /\ nets \in [Key -> SUBSET Network]
  /\ errors \in BOOLEAN
  /\ phase \in {"provision", "serving", "failed"}
  /\ loaded \subseteq Loader

KeysAt(url) == Good(published[url].keys)

NetsAt(url) == Nets(published[url].prefixes)

JwksOf(c) == [op |-> "jwks", url |-> published[c].jwks, ips |-> published[c].ips]

IpsOf(c) == [op |-> "ips", url |-> published[c].ips, ids |-> CardKeys(c)]

\* A document calls for the loader.
CalledFor(l) ==
  /\ l.op = "directory" => l.url = Directory
  /\ l.op = "registry" => l.url \in ToSet(Registries)
  /\ l.op = "card" => l.url \in Cards
  /\ l.op = "jwks" => \E c \in Cards : published[c].jwks # None /\ l = JwksOf(c)
  /\ l.op = "ips" => \E c \in Cards : published[c].ips # None /\ l = IpsOf(c)

Sound == \A l \in loaded \cup ToSet(work) : CalledFor(l)

\* The loaders that ran and read keys.
KeyLoaders ==
  { l \in loaded : l.op \in {"directory", "jwks"} \/ (l.op = "card" /\ published[l.url].jwks = None) }

NetLoaders(k) == { l \in loaded : l.op = "ips" /\ k \in l.ids }

HoldsWhatWasRead ==
  /\ keys = UNION { KeysAt(l.url) : l \in KeyLoaders }
  /\ \A k \in Key : nets[k] = UNION { NetsAt(l.url) : l \in NetLoaders(k) }

Known(l) == l \in loaded \cup ToSet(work)

\* The loaders that one which ran has called.
Called(l) ==
  /\ l.op = "registry" => \A c \in ToSet(published[l.url].cards) : Known(Load("card", c))
  /\ l.op = "card" /\ published[l.url].jwks # None => Known(JwksOf(l.url))
  /\ l.op = "card" /\ published[l.url].jwks = None /\ published[l.url].ips # None
       /\ KeysAt(l.url) # {} => Known(IpsOf(l.url))
  /\ l.op = "jwks" /\ l.ips # None /\ KeysAt(l.url) # {} =>
       Known([op |-> "ips", url |-> l.ips, ids |-> KeysAt(l.url)])

Complete ==
  ~errors =>
    /\ Directory # None => Known(Load("directory", Directory))
    /\ \A r \in ToSet(Registries) : Known(Load("registry", r))
    /\ \A l \in loaded : Called(l)

\* The middleware starts when there is nothing left to do, in strict mode if no error is recorded.
Starts ==
  /\ phase # "provision" => work = <<>>
  /\ phase = "serving" /\ strict => ~errors
  /\ answer.status = 200 => phase = "serving"

Inv == TypeOK /\ Sound /\ HoldsWhatWasRead /\ Complete /\ Starts

-------------------------------------------------------------------------------
(* Documents and what they call for.                                       *)

LEMMA GoodAreKeys == \A jwks : Good(jwks) \subseteq Key
BY DEF Good

LEMMA NetsAreNetworks == \A prefixes \in Seq(Prefix) : Nets(prefixes) \subseteq Network
BY DEF Nets, Prefix, ToSet

\* What is published says what is called for, and it does not change.
LEMMA PublishedStays ==
  ASSUME UNCHANGED published
  PROVE  /\ \A l : CalledFor(l)' = CalledFor(l)
         /\ \A url : KeysAt(url)' = KeysAt(url) /\ NetsAt(url)' = NetsAt(url)
         /\ \A c : JwksOf(c)' = JwksOf(c) /\ IpsOf(c)' = IpsOf(c)
BY DEF CalledFor, Cards, JwksOf, IpsOf, CardKeys, KeysAt, NetsAt, Good, Nets

LEMMA CardsAreUrls ==
  ASSUME TypeOK
  PROVE  Cards \subseteq Url
<1>1. ASSUME NEW r \in ToSet(Registries) PROVE ToSet(published[r].cards) \subseteq Url
  <2>1. r \in Url
    BY UrlAssumption DEF ToSet
  <2>2. published[r] \in Document
    BY <2>1 DEF TypeOK
  <2>3. published[r].cards \in Seq(Url)
    BY <2>2 DEF Document
  <2>4. QED
    BY <2>3 DEF ToSet
<1>2. QED
  BY <1>1 DEF Cards

LEMMA CardsOf ==
  ASSUME NEW r \in ToSet(Registries)
  PROVE  ToSet(published[r].cards) \subseteq Cards
BY DEF Cards

\* A loader returns: what it calls is added to what has run or waits.
LEMMA ReturnAdds ==
  ASSUME TypeOK, work # <<>>, NEW more \in Seq(Loader), Return(more)
  PROVE  /\ Head(work) \in Loader /\ Head(work) \in ToSet(work)
         /\ work' \in Seq(Loader)
         /\ ToSet(work) = {Head(work)} \cup ToSet(Tail(work))
         /\ ToSet(work') = ToSet(more) \cup ToSet(Tail(work))
<1>1. work \in Seq(Loader)
  BY DEF TypeOK
<1>2. /\ Head(work) \in Loader /\ Tail(work) \in Seq(Loader) /\ Len(Tail(work)) = Len(work) - 1
      /\ \A i \in 1 .. Len(Tail(work)) : Tail(work)[i] = work[i + 1]
  BY <1>1, HeadTailProperties
<1>3. Len(work) \in Nat /\ Len(work) # 0 /\ DOMAIN work = 1 .. Len(work) /\ Head(work) = work[1]
  BY <1>1, EmptySeq, LenProperties
<1>4. DOMAIN Tail(work) = 1 .. (Len(work) - 1)
  BY <1>2
<1>5. ToSet(work) = {Head(work)} \cup ToSet(Tail(work))
  <2>1. ASSUME NEW i \in DOMAIN work PROVE work[i] \in {Head(work)} \cup ToSet(Tail(work))
    <3>1. CASE i = 1
      BY <1>3, <3>1
    <3>2. CASE i # 1
      <4>1. i - 1 \in DOMAIN Tail(work) /\ Tail(work)[i - 1] = work[i]
        BY <1>2, <1>3, <1>4, <3>2
      <4>2. QED
        BY <4>1 DEF ToSet
    <3>3. QED
      BY <3>1, <3>2
  <2>2. ASSUME NEW i \in DOMAIN Tail(work) PROVE Tail(work)[i] \in ToSet(work)
    <3>1. i + 1 \in DOMAIN work /\ Tail(work)[i] = work[i + 1]
      BY <1>2, <1>3, <1>4
    <3>2. QED
      BY <3>1 DEF ToSet
  <2>3. Head(work) \in ToSet(work)
    BY <1>3 DEF ToSet
  <2>4. QED
    BY <2>1, <2>2, <2>3 DEF ToSet
<1>6. work' \in Seq(Loader) /\ Range(work') = Range(more) \cup Range(Tail(work))
  BY <1>2, RangeConcatenation, ConcatProperties DEF Return
<1>7. ToSet(work') = ToSet(more) \cup ToSet(Tail(work))
  BY <1>6 DEF ToSet, Range
<1>8. QED
  BY <1>2, <1>5, <1>6, <1>7

\* A loader has run: what is left to show is that it did what it read.
LEMMA RanInv ==
  ASSUME Inv, NEW op, Fetched(op), NEW h, h = Head(work), NEW more \in Seq(Loader), Return(more),
         \A l \in ToSet(more) : CalledFor(l),
         keys' \subseteq Key, nets' \in [Key -> SUBSET Network], errors' \in BOOLEAN,
         errors => errors', HoldsWhatWasRead', ~errors' => Called(h)'
  PROVE  Inv'
<1>1. /\ h \in Loader /\ work' \in Seq(Loader)
      /\ ToSet(work) = {h} \cup ToSet(Tail(work))
      /\ ToSet(work') = ToSet(more) \cup ToSet(Tail(work))
  BY ReturnAdds DEF Inv, Fetched
<1>2. loaded' = loaded \cup {h} /\ UNCHANGED <<published, strict, phase, answer>>
  BY DEF Fetched
<1>3. loaded' \cup ToSet(work') = (loaded \cup ToSet(work)) \cup ToSet(more)
  BY <1>1, <1>2
<1>4. ToSet(work)' = ToSet(work')
  OBVIOUS
<1>5. TypeOK'
  BY <1>1, <1>2 DEF Inv, TypeOK
<1>6. Sound'
  <2>1. \A l \in loaded' \cup ToSet(work') : CalledFor(l)
    BY <1>3 DEF Inv, Sound
  <2>2. QED
    BY <1>2, <1>4, <2>1, PublishedStays DEF Sound
<1>7. Complete'
  <2>1. ASSUME NEW l, Known(l) PROVE Known(l)'
    BY <1>3, <1>4, <2>1 DEF Known
  <2>2. SUFFICES ASSUME ~errors' PROVE Complete!2'
    BY DEF Complete
  <2>3. ASSUME NEW l \in loaded PROVE Called(l)'
    <3>1. Called(l)
      BY <2>2 DEF Inv, Complete
    <3>2. QED
      BY <1>2, <2>1, <3>1, PublishedStays DEF Called
  <2>4. \A l \in loaded' : Called(l)'
    BY <1>2, <2>2, <2>3
  <2>5. Complete!2
    BY <2>2 DEF Inv, Complete
  <2>6. (Directory # None => Known(Load("directory", Directory)))'
    BY <2>1, <2>5 DEF Load
  <2>7. (\A r \in ToSet(Registries) : Known(Load("registry", r)))'
    BY <2>1, <2>5 DEF Load
  <2>8. QED
    BY <2>4, <2>6, <2>7
<1>8. Starts'
  BY <1>2 DEF Inv, Starts, Fetched
<1>9. QED
  BY <1>5, <1>6, <1>7, <1>8 DEF Inv

-------------------------------------------------------------------------------
(* The loaders.                                                            *)

LEMMA HeadIsSound ==
  ASSUME Inv, NEW op, Fetched(op)
  PROVE  /\ Head(work) \in Loader /\ Head(work).op = op /\ CalledFor(Head(work))
         /\ published[Head(work).url] \in Document
<1>1. Head(work) \in Loader /\ Head(work) \in ToSet(work)
  <2>1. <<>> \in Seq(Loader) /\ \A s \in Seq(Loader) : s # <<>> => Len(s) \in Nat \ {0}
    BY EmptySeq
  <2>2. work \in Seq(Loader) /\ work # <<>>
    BY DEF Inv, TypeOK, Fetched
  <2>3. 1 \in DOMAIN work /\ Head(work) = work[1]
    BY <2>1, <2>2, LenProperties
  <2>4. QED
    BY <2>2, <2>3, HeadTailProperties DEF ToSet
<1>2. Head(work).url \in Url
  BY <1>1 DEF Loader
<1>3. QED
  BY <1>1, <1>2 DEF Inv, Sound, TypeOK, Fetched

LEMMA ReadsKeys ==
  ASSUME Inv, NEW op, Fetched(op), NEW h, h = Head(work), UNCHANGED nets, op # "ips",
         h.op \in {"directory", "jwks"} \/ (h.op = "card" /\ published[h.url].jwks = None),
         keys' = keys \cup KeysAt(h.url)
  PROVE  HoldsWhatWasRead'
<1>1. loaded' = loaded \cup {h} /\ UNCHANGED published /\ h.op = op
  BY DEF Fetched
<1>2. KeyLoaders' = KeyLoaders \cup {h}
  BY <1>1 DEF KeyLoaders
<1>3. \A k : NetLoaders(k)' = NetLoaders(k)
  BY <1>1 DEF NetLoaders
<1>4. keys' = UNION { KeysAt(l.url)' : l \in KeyLoaders' }
  BY <1>1, <1>2, PublishedStays DEF Inv, HoldsWhatWasRead
<1>5. \A k \in Key : nets'[k] = UNION { NetsAt(l.url)' : l \in NetLoaders(k)' }
  BY <1>1, <1>3, PublishedStays DEF Inv, HoldsWhatWasRead
<1>6. QED
  BY <1>4, <1>5 DEF HoldsWhatWasRead

LEMMA ReadsNoKeys ==
  ASSUME Inv, NEW op, Fetched(op), NEW h, h = Head(work), UNCHANGED <<keys, nets>>,
         op = "registry" \/ (op = "card" /\ published[h.url].jwks # None)
  PROVE  HoldsWhatWasRead'
<1>1. loaded' = loaded \cup {h} /\ UNCHANGED published /\ h.op = op
  BY DEF Fetched
<1>2. KeyLoaders' = KeyLoaders
  BY <1>1 DEF KeyLoaders
<1>3. \A k : NetLoaders(k)' = NetLoaders(k)
  BY <1>1 DEF NetLoaders
<1>4. keys' = UNION { KeysAt(l.url)' : l \in KeyLoaders' }
  BY <1>1, <1>2, PublishedStays DEF Inv, HoldsWhatWasRead
<1>5. \A k \in Key : nets'[k] = UNION { NetsAt(l.url)' : l \in NetLoaders(k)' }
  BY <1>1, <1>3, PublishedStays DEF Inv, HoldsWhatWasRead
<1>6. QED
  BY <1>4, <1>5 DEF HoldsWhatWasRead

LEMMA ReadsNets ==
  ASSUME Inv, Fetched("ips"), NEW h, h = Head(work), UNCHANGED keys,
         nets' = NetsOf(h.ids, NetsAt(h.url))
  PROVE  HoldsWhatWasRead'
<1>1. loaded' = loaded \cup {h} /\ UNCHANGED published /\ h.op = "ips"
  BY DEF Fetched
<1>2. KeyLoaders' = KeyLoaders
  BY <1>1 DEF KeyLoaders
<1>3. \A k : NetLoaders(k)' = IF k \in h.ids THEN NetLoaders(k) \cup {h} ELSE NetLoaders(k)
  BY <1>1 DEF NetLoaders
<1>4. keys' = UNION { KeysAt(l.url)' : l \in KeyLoaders' }
  BY <1>1, <1>2, PublishedStays DEF Inv, HoldsWhatWasRead
<1>5. ASSUME NEW k \in Key
      PROVE  nets'[k] = UNION { NetsAt(l.url)' : l \in NetLoaders(k)' }
  <2>1. nets'[k] = IF k \in h.ids THEN nets[k] \cup NetsAt(h.url) ELSE nets[k]
    BY DEF NetsOf
  <2>2. nets[k] = UNION { NetsAt(l.url) : l \in NetLoaders(k) }
    BY DEF Inv, HoldsWhatWasRead
  <2>3. \A url : NetsAt(url)' = NetsAt(url)
    BY <1>1, PublishedStays
  <2>4. QED
    BY <1>3, <2>1, <2>2, <2>3
<1>6. QED
  BY <1>4, <1>5 DEF HoldsWhatWasRead

\* What addKeys calls next, and that it keeps the types.
CalledByKeys(jwks, ips) ==
  IF ips # None /\ Good(jwks) # {}
  THEN <<[op |-> "ips", url |-> ips, ids |-> Good(jwks)]>> ELSE <<>>

LEMMA AddKeysReturns ==
  ASSUME Inv, NEW jwks, NEW ips \in Url \cup {None}, AddKeys(jwks, ips)
  PROVE  /\ Return(CalledByKeys(jwks, ips)) /\ CalledByKeys(jwks, ips) \in Seq(Loader)
         /\ ToSet(CalledByKeys(jwks, ips)) =
              IF ips # None /\ Good(jwks) # {}
              THEN {[op |-> "ips", url |-> ips, ids |-> Good(jwks)]} ELSE {}
         /\ keys' = keys \cup Good(jwks) /\ keys' \subseteq Key
         /\ errors' \in BOOLEAN /\ (errors => errors')
<1>1. Return(CalledByKeys(jwks, ips)) /\ keys' = keys \cup Good(jwks)
  BY DEF AddKeys, CalledByKeys
<1>2. ips # None => [op |-> "ips", url |-> ips, ids |-> Good(jwks)] \in Loader
  BY GoodAreKeys DEF Loader
<1>3. CalledByKeys(jwks, ips) \in Seq(Loader)
  BY <1>2 DEF CalledByKeys
<1>4. ToSet(CalledByKeys(jwks, ips)) =
        IF ips # None /\ Good(jwks) # {}
        THEN {[op |-> "ips", url |-> ips, ids |-> Good(jwks)]} ELSE {}
  BY DEF CalledByKeys, ToSet
<1>5. keys' \subseteq Key
  BY <1>1, GoodAreKeys DEF Inv, TypeOK
<1>6. errors' \in BOOLEAN /\ (errors => errors')
  BY DEF AddKeys, Inv, TypeOK
<1>7. QED
  BY <1>1, <1>3, <1>4, <1>5, <1>6

LEMMA DirectoryStep ==
  ASSUME Inv, AddKeysFromDirectory
  PROVE  Inv'
<1> PICK h : h = Head(work)
  OBVIOUS
<1> DEFINE jwks == published[h.url].keys
<1>1. Fetched("directory") /\ AddKeys(jwks, None) /\ UNCHANGED nets
  BY DEF AddKeysFromDirectory, Got
<1>2. h.op = "directory"
  BY <1>1 DEF Fetched
<1>3. /\ Return(<<>>) /\ ToSet(<<>>) = {} /\ <<>> \in Seq(Loader)
      /\ keys' = keys \cup KeysAt(h.url) /\ keys' \subseteq Key
      /\ errors' \in BOOLEAN /\ (errors => errors')
  <2>1. CalledByKeys(jwks, None) = <<>>
    BY DEF CalledByKeys
  <2>2. QED
    BY <1>1, <2>1, AddKeysReturns DEF KeysAt, ToSet
<1>4. HoldsWhatWasRead'
  BY <1>1, <1>2, <1>3, ReadsKeys
<1>5. nets' \in [Key -> SUBSET Network]
  BY <1>1 DEF Inv, TypeOK
<1> HIDE DEF jwks
<1>6. Called(h)'
  BY <1>2 DEF Called
<1>7. QED
  BY <1>1, <1>3, <1>4, <1>5, <1>6, RanInv

LEMMA RegistryStep ==
  ASSUME Inv, AddKeysFromRegistry
  PROVE  Inv'
<1> PICK h : h = Head(work)
  OBVIOUS
<1> DEFINE cards == published[h.url].cards
           more == [i \in DOMAIN cards |-> Load("card", cards[i])]
<1>1. Fetched("registry") /\ Return(more) /\ UNCHANGED <<keys, nets, errors>>
  BY DEF AddKeysFromRegistry, Got
<1>2. h.op = "registry" /\ h.url \in ToSet(Registries) /\ published[h.url] \in Document
  BY <1>1, HeadIsSound DEF CalledFor
<1>3. cards \in Seq(Url)
  BY <1>2 DEF Document
<1>4. more \in Seq(Loader)
  <2>1. DOMAIN cards = 1 .. Len(cards) /\ Len(cards) \in Nat
    BY <1>3, LenProperties
  <2>2. \A i \in DOMAIN cards : Load("card", cards[i]) \in Loader
    BY <1>3, <2>1, ElementOfSeq DEF Load, Loader
  <2>3. QED
    BY <2>1, <2>2, IsASeq
<1>5. ToSet(more) = { Load("card", c) : c \in ToSet(cards) }
  BY DEF ToSet
<1>6. \A l \in ToSet(more) : CalledFor(l)
  BY <1>2, <1>5, CardsOf DEF CalledFor, Load
<1>7. HoldsWhatWasRead'
  BY <1>1, ReadsNoKeys
<1> HIDE DEF more
<1>8. Called(h)'
  <2>1. published' = published
    BY <1>1 DEF Fetched
  <2>2. ToSet(more) \subseteq ToSet(work')
    BY <1>1, <1>4, ReturnAdds DEF Fetched, Inv
  <2>3. \A c \in ToSet(published'[h.url].cards) : Known(Load("card", c))'
    BY <1>5, <2>1, <2>2 DEF Known, Load
  <2>4. QED
    BY <1>2, <2>3 DEF Called
<1>9. /\ keys' \subseteq Key /\ nets' \in [Key -> SUBSET Network] /\ errors' \in BOOLEAN
      /\ (errors => errors')
  BY <1>1 DEF Inv, TypeOK
<1>10. QED
  BY <1>1, <1>4, <1>6, <1>7, <1>8, <1>9, RanInv

\* The loader of a key set is called, or the one of an IP list.
LEMMA CardStep ==
  ASSUME Inv, AddKeysFromCard
  PROVE  Inv'
<1> PICK h : h = Head(work)
  OBVIOUS
<1> DEFINE card == published[h.url]
<1>1. Fetched("card") /\ UNCHANGED nets
  BY DEF AddKeysFromCard
<1>2. h.op = "card" /\ h.url \in Cards /\ card \in Document
  BY <1>1, HeadIsSound DEF CalledFor
<1>3. published' = published
  BY <1>1 DEF Fetched
<1>4. nets' \in [Key -> SUBSET Network]
  BY <1>1 DEF Inv, TypeOK
<1>5. CASE card.jwks = None
  <2>1. AddKeys(card.keys, card.ips) /\ card.ips \in Url \cup {None}
    BY <1>2, <1>5 DEF AddKeysFromCard, Got, Document
  <2> DEFINE more == CalledByKeys(card.keys, card.ips)
  <2>2. /\ Return(more) /\ more \in Seq(Loader)
        /\ ToSet(more) = IF card.ips # None /\ KeysAt(h.url) # {} THEN {IpsOf(h.url)} ELSE {}
        /\ keys' = keys \cup KeysAt(h.url) /\ keys' \subseteq Key
        /\ errors' \in BOOLEAN /\ (errors => errors')
    <3>1. IpsOf(h.url) = [op |-> "ips", url |-> card.ips, ids |-> Good(card.keys)]
      BY <1>5 DEF IpsOf, CardKeys
    <3>2. QED
      BY <2>1, <3>1, AddKeysReturns DEF KeysAt
  <2>3. HoldsWhatWasRead'
    BY <1>1, <1>2, <1>5, <2>2, ReadsKeys
  <2>4. \A l \in ToSet(more) : CalledFor(l)
    <3>1. IpsOf(h.url).op = "ips"
      BY DEF IpsOf
    <3>2. card.ips # None => CalledFor(IpsOf(h.url))
      BY <1>2, <3>1 DEF CalledFor
    <3>3. QED
      BY <2>2, <3>2
  <2> HIDE DEF more
  <2>5. Called(h)'
    <3>1. ToSet(more) \subseteq ToSet(work')
      BY <1>1, <2>2, ReturnAdds DEF Fetched, Inv
    <3>2. /\ IpsOf(h.url)' = IpsOf(h.url) /\ KeysAt(h.url)' = KeysAt(h.url)
      BY <1>3, PublishedStays
    <3>3. card.ips # None /\ KeysAt(h.url) # {} => Known(IpsOf(h.url))'
      BY <2>2, <3>1, <3>2 DEF Known
    <3>4. QED
      BY <1>2, <1>3, <1>5, <3>2, <3>3 DEF Called
  <2>6. QED
    BY <1>1, <1>4, <2>2, <2>3, <2>4, <2>5, RanInv
<1>6. CASE card.jwks # None
  <2> DEFINE more == <<JwksOf(h.url)>>
  <2>1. Return(more) /\ UNCHANGED <<keys, errors>>
    BY <1>6 DEF AddKeysFromCard, Got, JwksOf
  <2>2. JwksOf(h.url) \in Loader /\ JwksOf(h.url).op = "jwks"
    BY <1>2, <1>6 DEF JwksOf, Loader, Document
  <2>3. more \in Seq(Loader) /\ ToSet(more) = {JwksOf(h.url)}
    BY <2>2 DEF ToSet
  <2>4. HoldsWhatWasRead'
    BY <1>1, <1>6, <2>1, ReadsNoKeys
  <2>5. \A l \in ToSet(more) : CalledFor(l)
    BY <1>2, <1>6, <2>2, <2>3 DEF CalledFor
  <2> HIDE DEF more
  <2>6. Called(h)'
    <3>1. ToSet(more) \subseteq ToSet(work')
      BY <1>1, <2>1, <2>3, ReturnAdds DEF Fetched, Inv
    <3>2. JwksOf(h.url)' = JwksOf(h.url)
      BY <1>3, PublishedStays
    <3>3. Known(JwksOf(h.url))'
      BY <2>3, <3>1, <3>2 DEF Known
    <3>4. QED
      BY <1>2, <1>3, <1>6, <3>3 DEF Called
  <2>7. keys' \subseteq Key /\ errors' \in BOOLEAN /\ (errors => errors')
    BY <2>1 DEF Inv, TypeOK
  <2>8. QED
    BY <1>1, <1>4, <2>1, <2>3, <2>4, <2>5, <2>6, <2>7, RanInv
<1>7. QED
  BY <1>5, <1>6

\* The keys of a jwks_uri are the card's, and so are the networks called for.
LEMMA JwksStep ==
  ASSUME Inv, AddKeysFromJwksUri
  PROVE  Inv'
<1> PICK h : h = Head(work)
  OBVIOUS
<1> DEFINE more == CalledByKeys(published[h.url].keys, h.ips)
<1>1. Fetched("jwks") /\ AddKeys(published[h.url].keys, h.ips) /\ UNCHANGED nets
  BY DEF AddKeysFromJwksUri, Got
<1>2. h \in Loader /\ h.op = "jwks"
  BY <1>1, HeadIsSound
<1>3. PICK c \in Cards : published[c].jwks # None /\ h = JwksOf(c)
  BY <1>1, <1>2, HeadIsSound DEF CalledFor
<1>4. h.ips = published[c].ips /\ h.ips \in Url \cup {None} /\ KeysAt(h.url) = CardKeys(c)
  BY <1>2, <1>3 DEF Loader, JwksOf, KeysAt, CardKeys
<1>5. /\ Return(more) /\ more \in Seq(Loader)
      /\ ToSet(more) = IF h.ips # None /\ KeysAt(h.url) # {}
                       THEN {[op |-> "ips", url |-> h.ips, ids |-> KeysAt(h.url)]} ELSE {}
      /\ keys' = keys \cup KeysAt(h.url) /\ keys' \subseteq Key
      /\ errors' \in BOOLEAN /\ (errors => errors')
  BY <1>1, <1>4, AddKeysReturns DEF KeysAt
<1>6. HoldsWhatWasRead'
  BY <1>1, <1>2, <1>5, ReadsKeys
<1>7. \A l \in ToSet(more) : CalledFor(l)
  <2>1. [op |-> "ips", url |-> h.ips, ids |-> KeysAt(h.url)] = IpsOf(c)
    BY <1>4 DEF IpsOf
  <2>2. IpsOf(c).op = "ips"
    BY DEF IpsOf
  <2>3. h.ips # None => CalledFor(IpsOf(c))
    BY <1>3, <1>4, <2>2 DEF CalledFor
  <2>4. QED
    BY <1>5, <2>1, <2>3
<1> HIDE DEF more
<1>8. Called(h)'
  <2>1. ToSet(more) \subseteq ToSet(work')
    BY <1>1, <1>5, ReturnAdds DEF Fetched, Inv
  <2>2. KeysAt(h.url)' = KeysAt(h.url)
    BY <1>1, PublishedStays DEF Fetched
  <2>3. h.ips # None /\ KeysAt(h.url) # {} =>
          Known([op |-> "ips", url |-> h.ips, ids |-> KeysAt(h.url)])'
    BY <1>5, <2>1, <2>2 DEF Known
  <2>4. QED
    BY <1>2, <2>2, <2>3 DEF Called
<1>9. nets' \in [Key -> SUBSET Network]
  BY <1>1 DEF Inv, TypeOK
<1>10. QED
  BY <1>1, <1>5, <1>6, <1>7, <1>8, <1>9, RanInv

LEMMA IpsStep ==
  ASSUME Inv, AddAllowedNets
  PROVE  Inv'
<1> PICK h : h = Head(work)
  OBVIOUS
<1>1. /\ Fetched("ips") /\ nets' = NetsOf(h.ids, NetsAt(h.url)) /\ UNCHANGED keys
      /\ Return(<<>>) /\ (errors => errors') /\ errors' \in BOOLEAN
  BY DEF AddAllowedNets, Got, NetsAt, Inv, TypeOK
<1>2. h \in Loader /\ h.op = "ips" /\ published[h.url] \in Document
  BY <1>1, HeadIsSound
<1>3. NetsAt(h.url) \subseteq Network
  BY <1>2, NetsAreNetworks DEF NetsAt, Document
<1>4. nets' \in [Key -> SUBSET Network]
  BY <1>1, <1>3 DEF NetsOf, Inv, TypeOK
<1>5. keys' \subseteq Key
  BY <1>1 DEF Inv, TypeOK
<1>6. HoldsWhatWasRead'
  BY <1>1, ReadsNets
<1>7. Called(h)'
  BY <1>2 DEF Called
<1>8. <<>> \in Seq(Loader) /\ ToSet(<<>>) = {}
  BY DEF ToSet
<1>9. QED
  BY <1>1, <1>4, <1>5, <1>6, <1>7, <1>8, RanInv

\* The loaders left keep what they were called for; Complete no longer speaks.
LEMMA FailStep ==
  ASSUME Inv, FetchFails
  PROVE  Inv'
<1>1. /\ UNCHANGED <<published, strict, keys, nets, phase, loaded, answer>>
      /\ work # <<>> /\ Return(<<>>) /\ errors' = TRUE
  BY DEF FetchFails, Recorded
<1>2. <<>> \in Seq(Loader) /\ ToSet(<<>>) = {}
  BY DEF ToSet
<1>3. work' \in Seq(Loader) /\ ToSet(work') \subseteq ToSet(work)
  BY <1>1, <1>2, ReturnAdds DEF Inv
<1>4. TypeOK'
  BY <1>1, <1>3 DEF Inv, TypeOK
<1>5. Sound'
  <2>1. \A l \in loaded' \cup ToSet(work') : CalledFor(l)
    BY <1>1, <1>3 DEF Inv, Sound
  <2>2. QED
    BY <1>1, <2>1, PublishedStays DEF Sound
<1>6. HoldsWhatWasRead'
  BY <1>1 DEF Inv, HoldsWhatWasRead, KeyLoaders, NetLoaders, KeysAt, NetsAt, Good, Nets
<1>7. Complete' /\ Starts'
  BY <1>1 DEF Complete, Starts, Inv
<1>8. QED
  BY <1>4, <1>5, <1>6, <1>7 DEF Inv

\* Steps that run no loader.
LEMMA IdleInv ==
  ASSUME Inv, UNCHANGED <<published, strict, work, keys, nets, loaded>>,
         errors' \in BOOLEAN, errors => errors', Starts',
         phase' \in {"provision", "serving", "failed"}
  PROVE  Inv'
<1>1. TypeOK'
  BY DEF Inv, TypeOK
<1>2. Sound'
  BY PublishedStays DEF Inv, Sound
<1>3. HoldsWhatWasRead'
  BY DEF Inv, HoldsWhatWasRead, KeyLoaders, NetLoaders, KeysAt, NetsAt, Good, Nets
<1>4. Complete'
  <2>1. \A l : Known(l)' = Known(l)
    BY DEF Known
  <2>2. \A l : Called(l)' = Called(l)
    BY <2>1, PublishedStays DEF Called
  <2>3. QED
    BY <2>1, <2>2 DEF Inv, Complete, Load
<1>5. QED
  BY <1>1, <1>2, <1>3, <1>4 DEF Inv

LEMMA ProvisionedStep ==
  ASSUME Inv, Provisioned
  PROVE  Inv'
<1>1. /\ UNCHANGED <<published, strict, work, keys, nets, loaded, answer>>
      /\ phase = "provision" /\ work = <<>> /\ errors' = (errors \/ keys = {})
      /\ phase' = IF strict /\ errors' THEN "failed" ELSE "serving"
  BY DEF Provisioned
<1>2. Starts'
  BY <1>1 DEF Inv, Starts
<1>3. errors' \in BOOLEAN /\ (errors => errors')
  BY <1>1 DEF Inv, TypeOK
<1>4. QED
  BY <1>1, <1>2, <1>3, IdleInv

LEMMA ServeStep ==
  ASSUME Inv, NEW r \in Request, ServeHTTP(r)
  PROVE  Inv'
<1>1. Starts'
  BY DEF ServeHTTP, Inv, Starts
<1>2. QED
  BY <1>1, IdleInv DEF ServeHTTP, Inv, TypeOK

LEMMA NextInv == Inv /\ [Next]_vars => Inv'
<1> SUFFICES ASSUME Inv, [Next]_vars PROVE Inv'
  OBVIOUS
<1>1. CASE UNCHANGED vars
  <2>1. Starts'
    BY <1>1 DEF vars, Inv, Starts
  <2>2. QED
    BY <1>1, <2>1, IdleInv DEF vars, Inv, TypeOK
<1>2. QED
  BY <1>1, DirectoryStep, RegistryStep, CardStep, JwksStep, IpsStep, FailStep, ProvisionedStep,
     ServeStep DEF Next

LEMMA InitInv == Init => Inv
<1> SUFFICES ASSUME Init PROVE Inv
  OBVIOUS
<1> DEFINE first == IF Directory = None THEN <<>> ELSE <<Load("directory", Directory)>>
           others == [i \in DOMAIN Registries |-> Load("registry", Registries[i])]
<1>1. /\ work = first \o others /\ keys = {} /\ nets = [k \in Key |-> {}] /\ errors = FALSE
      /\ phase = "provision" /\ loaded = {} /\ answer.status = 0 /\ strict \in BOOLEAN
      /\ published \in [Url -> Document]
  BY WorldsAssumption DEF Init, NoAnswer
<1>2. DOMAIN Registries = 1 .. Len(Registries) /\ Len(Registries) \in Nat
  BY UrlAssumption, LenProperties
<1>3. first \in Seq(Loader)
  <2>1. Directory # None => Load("directory", Directory) \in Loader
    BY UrlAssumption DEF Loader, Load
  <2>2. CASE Directory = None
    BY <2>2
  <2>3. CASE Directory # None
    BY <2>1, <2>3
  <2>4. QED
    BY <2>2, <2>3
<1>4. others \in Seq(Loader)
  <2>1. \A i \in 1 .. Len(Registries) : Load("registry", Registries[i]) \in Loader
    BY UrlAssumption, ElementOfSeq DEF Loader, Load
  <2>2. QED
    BY <1>2, <2>1, IsASeq
<1>5. ToSet(first) = IF Directory = None THEN {} ELSE {Load("directory", Directory)}
  BY DEF ToSet
<1>6. ToSet(others) = { Load("registry", r) : r \in ToSet(Registries) }
  BY DEF ToSet
<1> HIDE DEF first, others
<1>7. work \in Seq(Loader) /\ ToSet(work) = ToSet(first) \cup ToSet(others)
  <2>1. Range(first \o others) = Range(first) \cup Range(others)
    BY <1>3, <1>4, RangeConcatenation
  <2>2. QED
    BY <1>1, <1>3, <1>4, <2>1, ConcatProperties DEF ToSet, Range
<1>8. TypeOK
  BY <1>1, <1>7 DEF TypeOK
<1>9. Sound
  BY <1>1, <1>5, <1>6, <1>7 DEF Sound, CalledFor, Load
<1>10. HoldsWhatWasRead
  BY <1>1 DEF HoldsWhatWasRead, KeyLoaders, NetLoaders
<1>11. Complete
  BY <1>1, <1>5, <1>6, <1>7 DEF Complete, Known
<1>12. Starts
  BY <1>1 DEF Starts
<1>13. QED
  BY <1>8, <1>9, <1>10, <1>11, <1>12 DEF Inv

-------------------------------------------------------------------------------
(* What the invariant says of keys and networks.                           *)

LEMMA KeysArePublished ==
  ASSUME Inv
  PROVE  keys \subseteq PublishedKeys
<1>1. SUFFICES ASSUME NEW l \in KeyLoaders PROVE KeysAt(l.url) \subseteq PublishedKeys
  BY DEF Inv, HoldsWhatWasRead
<1>2. l \in Loader /\ CalledFor(l)
  BY DEF Inv, TypeOK, Sound, KeyLoaders
<1>3. CASE l.op = "directory"
  <2>1. l.url = Directory /\ Directory # None
    BY <1>2, <1>3, NoneAssumption DEF CalledFor, Loader
  <2>2. QED
    BY <2>1 DEF KeysAt, PublishedKeys, DirectoryKeys
<1>4. CASE l.op = "card"
  <2>1. l.url \in Cards /\ published[l.url].jwks = None
    BY <1>2, <1>4 DEF CalledFor, KeyLoaders
  <2>2. KeysAt(l.url) = CardKeys(l.url)
    BY <2>1 DEF KeysAt, CardKeys
  <2>3. QED
    BY <2>1, <2>2 DEF PublishedKeys
<1>5. CASE l.op = "jwks"
  <2>1. PICK c \in Cards : published[c].jwks # None /\ l = JwksOf(c)
    BY <1>2, <1>5 DEF CalledFor
  <2>2. KeysAt(l.url) = CardKeys(c)
    BY <2>1 DEF KeysAt, CardKeys, JwksOf
  <2>3. QED
    BY <2>2 DEF PublishedKeys
<1>6. QED
  BY <1>3, <1>4, <1>5 DEF KeyLoaders

LEMMA NetsArePublished ==
  ASSUME Inv, NEW k \in Key
  PROVE  nets[k] \subseteq PublishedNets(k)
<1>1. SUFFICES ASSUME NEW l \in NetLoaders(k) PROVE NetsAt(l.url) \subseteq PublishedNets(k)
  BY DEF Inv, HoldsWhatWasRead
<1>2. PICK c \in Cards : published[c].ips # None /\ l = IpsOf(c)
  BY DEF Inv, Sound, CalledFor, NetLoaders
<1>3. k \in CardKeys(c) /\ NetsAt(l.url) = Nets(published[published[c].ips].prefixes)
  BY <1>2 DEF NetLoaders, IpsOf, NetsAt
<1>4. QED
  BY <1>2, <1>3 DEF PublishedNets

\* The loader that reads the keys of a card.
LEMMA KeysOfCardAreRead ==
  ASSUME Inv, ~errors, work = <<>>, NEW c \in Cards
  PROVE  \E l \in KeyLoaders :
           /\ KeysAt(l.url) = CardKeys(c)
           /\ published[c].ips # None /\ CardKeys(c) # {} => IpsOf(c) \in loaded
<1>1. \A l : Known(l) => l \in loaded
  BY DEF Known, ToSet
<1>2. PICK r \in ToSet(Registries) : c \in ToSet(published[r].cards)
  BY DEF Cards
<1>3. Load("registry", r) \in loaded
  BY <1>1 DEF Inv, Complete
<1>4. Load("card", c) \in loaded
  BY <1>1, <1>2, <1>3 DEF Inv, Complete, Called, Load
<1>5. Called(Load("card", c))
  BY <1>4 DEF Inv, Complete
<1>6. CASE published[c].jwks = None
  <2>1. Load("card", c) \in KeyLoaders
    BY <1>4, <1>6 DEF KeyLoaders, Load
  <2>2. KeysAt(c) = CardKeys(c)
    BY <1>6 DEF KeysAt, CardKeys
  <2>3. published[c].ips # None /\ CardKeys(c) # {} => IpsOf(c) \in loaded
    BY <1>1, <1>5, <1>6, <2>2 DEF Called, Load
  <2>4. Load("card", c).url = c
    BY DEF Load
  <2>5. QED
    BY <2>1, <2>2, <2>3, <2>4
<1>7. CASE published[c].jwks # None
  <2>1. JwksOf(c) \in loaded
    BY <1>1, <1>5, <1>7 DEF Called, Load
  <2>2. JwksOf(c).op = "jwks" /\ JwksOf(c).url = published[c].jwks /\ JwksOf(c).ips = published[c].ips
    BY DEF JwksOf
  <2>3. JwksOf(c) \in KeyLoaders /\ Called(JwksOf(c))
    BY <2>1, <2>2 DEF KeyLoaders, Inv, Complete
  <2>4. KeysAt(JwksOf(c).url) = CardKeys(c)
    BY <1>7, <2>2 DEF KeysAt, CardKeys
  <2>5. IpsOf(c) = [op |-> "ips", url |-> JwksOf(c).ips, ids |-> KeysAt(JwksOf(c).url)]
    BY <2>2, <2>4 DEF IpsOf
  <2>6. published[c].ips # None /\ CardKeys(c) # {} => IpsOf(c) \in loaded
    BY <1>1, <2>2, <2>3, <2>4, <2>5 DEF Called
  <2>7. QED
    BY <2>3, <2>4, <2>6
<1>8. QED
  BY <1>6, <1>7

LEMMA DoneIsComplete ==
  ASSUME Inv, ~errors, work = <<>>
  PROVE  keys = PublishedKeys /\ \A k \in Key : nets[k] = PublishedNets(k)
<1>1. PublishedKeys \subseteq keys
  <2>1. DirectoryKeys \subseteq keys
    <3>1. CASE Directory = None
      BY <3>1 DEF DirectoryKeys
    <3>2. CASE Directory # None
      <4>1. Load("directory", Directory) \in loaded
        BY <3>2 DEF Inv, Complete, Known, ToSet
      <4>2. Load("directory", Directory) \in KeyLoaders /\ Load("directory", Directory).url = Directory
        BY <4>1 DEF KeyLoaders, Load
      <4>3. KeysAt(Directory) \subseteq keys
        BY <4>2 DEF Inv, HoldsWhatWasRead
      <4>4. QED
        BY <3>2, <4>3 DEF KeysAt, DirectoryKeys
    <3>3. QED
      BY <3>1, <3>2
  <2>2. ASSUME NEW c \in Cards PROVE CardKeys(c) \subseteq keys
    BY KeysOfCardAreRead DEF Inv, HoldsWhatWasRead
  <2>3. QED
    BY <2>1, <2>2 DEF PublishedKeys
<1>2. ASSUME NEW k \in Key PROVE PublishedNets(k) \subseteq nets[k]
  <2>1. SUFFICES ASSUME NEW c \in Cards, k \in CardKeys(c), published[c].ips # None
                 PROVE  Nets(published[published[c].ips].prefixes) \subseteq nets[k]
    BY DEF PublishedNets
  <2>2. IpsOf(c) \in loaded
    BY <2>1, KeysOfCardAreRead
  <2>3. IpsOf(c) \in NetLoaders(k) /\ NetsAt(IpsOf(c).url) = Nets(published[published[c].ips].prefixes)
    BY <2>1, <2>2 DEF NetLoaders, IpsOf, NetsAt
  <2>4. QED
    BY <2>3 DEF Inv, HoldsWhatWasRead
<1>3. QED
  BY <1>1, <1>2, KeysArePublished, NetsArePublished

-------------------------------------------------------------------------------
(* Who gets through.                                                       *)

LEMMA SmallestExists ==
  ASSUME NEW S \in SUBSET Nat, S # {}
  PROVE  \E i \in S : \A j \in S : i <= j
<1>1. IsWellFoundedOn(OpToRel(<, Nat), Nat)
  BY NatLessThanWellFounded
<1>2. \E i \in S : \A j \in S : ~ (<<j, i>> \in OpToRel(<, Nat))
  BY <1>1, WFMin
<1>3. \A i, j \in Nat : ~ (<<j, i>> \in OpToRel(<, Nat)) => i <= j
  BY DEF OpToRel
<1>4. QED
  BY <1>2, <1>3

\* The key whose networks count is one of a signature that verified.
LEMMA KeyIdVerified ==
  ASSUME NEW r \in Request, Verified(r) # {}
  PROVE  \E i \in DOMAIN r.sigs :
           r.sigs[i].verifies /\ r.sigs[i].keyid = KeyIdOf(r) /\ KeyIdOf(r) \in keys
<1>1. Verified(r) \subseteq Nat
  <2>1. PICK n \in 0 .. MaxLabels : r.sigs \in [1 .. n -> Signature]
    BY MaxLabelsAssumption DEF Request, BoundedSeq, SeqOf
  <2>2. QED
    BY <2>1 DEF Verified
<1> DEFINE first == CHOOSE i \in Verified(r) : \A j \in Verified(r) : i <= j
<1>2. first \in Verified(r)
  BY <1>1, SmallestExists
<1>3. KeyIdOf(r) = r.sigs[first].keyid
  BY DEF KeyIdOf
<1>4. QED
  BY <1>2, <1>3 DEF Verified

\* AdmittedFromListed of a request that is let through.
AdmittedIs(r) ==
  \E i \in DOMAIN r.sigs :
    LET k == r.sigs[i].keyid IN
    /\ r.sigs[i].verifies
    /\ k \in PublishedKeys
    /\ \/ PublishedNets(k) = {}
       \/ \E n \in PublishedNets(k) : r.from \in In[n]
       \/ ~strict /\ \A l \in loaded : l.op = "ips" /\ k \in l.ids => Nets(published[l.url].prefixes) = {}

LEMMA ServedIsListed ==
  ASSUME Inv, phase = "serving", NEW r \in Request, Status(r) = 200
  PROVE  AdmittedIs(r)
<1>1. Verified(r) # {}
  BY DEF Status
<1>2. PICK i \in DOMAIN r.sigs :
        r.sigs[i].verifies /\ r.sigs[i].keyid = KeyIdOf(r) /\ KeyIdOf(r) \in keys
  BY <1>1, KeyIdVerified
<1>3. PICK k : k = KeyIdOf(r)
  OBVIOUS
<1>4. k \in PublishedKeys /\ k \in Key
  BY <1>2, <1>3, KeysArePublished DEF Inv, TypeOK
<1>5. nets[k] = {} \/ \E n \in nets[k] : r.from \in In[n]
  BY <1>3 DEF Status, RemoteIPAllowed
<1>6. CASE nets[k] # {}
  BY <1>2, <1>3, <1>4, <1>5, <1>6, NetsArePublished DEF AdmittedIs
<1>7. CASE nets[k] = {} /\ strict
  <2>1. PublishedNets(k) = {}
    BY <1>4, <1>7, DoneIsComplete DEF Inv, Starts
  <2>2. QED
    BY <1>2, <1>3, <1>4, <2>1 DEF AdmittedIs
<1>8. CASE nets[k] = {} /\ ~strict
  <2>1. ASSUME NEW l \in loaded, l.op = "ips", k \in l.ids
        PROVE  Nets(published[l.url].prefixes) = {}
    <3>1. l \in NetLoaders(k)
      BY <2>1 DEF NetLoaders
    <3>2. NetsAt(l.url) \subseteq nets[k]
      BY <1>4, <3>1 DEF Inv, HoldsWhatWasRead
    <3>3. QED
      BY <1>8, <3>2 DEF NetsAt
  <2>2. QED
    BY <1>2, <1>3, <1>4, <1>8, <2>1 DEF AdmittedIs
<1>9. QED
  BY <1>6, <1>7, <1>8, <1>4 DEF Inv, TypeOK

LEMMA ListedStays ==
  ASSUME UNCHANGED <<published, strict, loaded>>, NEW r, AdmittedIs(r)
  PROVE  AdmittedIs(r)'
<1>1. \A c : CardKeys(c)' = CardKeys(c)
  BY DEF CardKeys, Good
<1>2. Cards' = Cards /\ DirectoryKeys' = DirectoryKeys
  BY DEF Cards, DirectoryKeys, Good
<1>3. PublishedKeys' = PublishedKeys
  BY <1>1, <1>2 DEF PublishedKeys
<1>4. \A k : PublishedNets(k)' = PublishedNets(k)
  BY <1>1, <1>2 DEF PublishedNets, Nets
<1>5. QED
  BY <1>3, <1>4 DEF AdmittedIs, Nets

\* Nothing more is loaded once a request was let through.
LEMMA AdmittedStep ==
  ASSUME Inv, AdmittedFromListed, [Next]_vars
  PROVE  AdmittedFromListed'
<1>1. SUFFICES ASSUME answer'.status = 200, NEW r, r = answer'.request PROVE AdmittedIs(r)'
  BY DEF AdmittedFromListed, AdmittedIs
<1>2. CASE \E q \in Request : ServeHTTP(q)
  <2>1. r \in Request /\ ServeHTTP(r)
    BY <1>1, <1>2 DEF ServeHTTP
  <2>2. phase = "serving" /\ Status(r) = 200 /\ UNCHANGED <<published, strict, loaded>>
    BY <1>1, <2>1 DEF ServeHTTP
  <2>3. QED
    BY <2>1, <2>2, ServedIsListed, ListedStays
<1>3. CASE UNCHANGED <<published, strict, loaded, answer>>
  <2>1. AdmittedIs(r)
    BY <1>1, <1>3 DEF AdmittedFromListed, AdmittedIs
  <2>2. QED
    BY <1>3, <2>1, ListedStays
<1>4. CASE work # <<>> /\ UNCHANGED answer
  BY <1>1, <1>4 DEF Inv, Starts
<1>5. QED
  <2>1. \/ \E q \in Request : ServeHTTP(q)
        \/ UNCHANGED <<published, strict, loaded, answer>>
        \/ work # <<>> /\ UNCHANGED answer
    BY DEF Next, vars, FetchFails, AddKeysFromDirectory, AddKeysFromRegistry, AddKeysFromCard,
           AddKeysFromJwksUri, AddAllowedNets, Provisioned, Fetched
  <2>2. QED
    BY <1>2, <1>3, <1>4, <2>1

-------------------------------------------------------------------------------
(* The theorems.                                                           *)

\* The loaders, the keys and the networks have their types (Middleware of httpsig.go).
THEOREM CaddyTypeCorrect == Spec => []TypeOK
<1>1. Inv => TypeOK
  BY DEF Inv
<1>2. QED
  BY <1>1, InitInv, NextInv, PTL DEF Spec

\* In strict mode the middleware serves only with every key and every network that its sources
\* publish, whichever fetches fail (Provision with fail_on_load_error).
THEOREM StrictModeIsComplete == Spec => []StrictIsComplete
<1>1. Inv => StrictIsComplete
  BY DoneIsComplete DEF StrictIsComplete, Inv, Starts
<1>2. QED
  BY <1>1, InitInv, NextInv, PTL DEF Spec

\* What was read is loaded, whatever else failed (record and continue, registry.go).
THEOREM FailuresAreContained == Spec => []SourcesSurvive
<1>1. ASSUME Inv PROVE SourcesSurvive
  <2>1. ASSUME NEW l \in KeyLoaders PROVE KeysAt(l.url) \subseteq keys
    BY <1>1 DEF Inv, HoldsWhatWasRead
  <2>2. ASSUME NEW l \in loaded, l.op \in {"directory", "jwks"}
        PROVE  Good(published[l.url].keys) \subseteq keys
    BY <2>1, <2>2 DEF KeyLoaders, KeysAt
  <2>3. ASSUME NEW l \in loaded, l.op = "card", published[l.url].jwks = None
        PROVE  CardKeys(l.url) \subseteq keys
    BY <2>1, <2>3 DEF KeyLoaders, KeysAt, CardKeys
  <2>4. QED
    BY <2>2, <2>3 DEF SourcesSurvive
<1>2. QED
  BY <1>1, InitInv, NextInv, PTL DEF Spec

\* A request that gets through is signed with a published key, from a network of that key's lists
\* unless they name none or, outside strict mode, none was loaded (Validate and ServeHTTP).
THEOREM AdmittedAreListed == Spec => []AdmittedFromListed
<1>1. Init => AdmittedFromListed
  BY DEF Init, NoAnswer, AdmittedFromListed
<1>2. QED
  BY <1>1, InitInv, NextInv, AdmittedStep, PTL DEF Spec
===============================================================================
