-------------------------- MODULE DirectoryProxyProofs --------------------------
(***************************************************************************)
(* What DirectoryProxy guarantees for any number of calls, tokens, URLs    *)
(* and bodies: a token buys one fetch, only whole bodies are answered, no  *)
(* URL is fetched but a directory's, and the safety part of DirectoryFetch *)
(* is implemented.                                                         *)
(*                                                                         *)
(* The inductive invariant says of each call, whatever the others do, what *)
(* its handler has established by the time it is where it is.              *)
(***************************************************************************)
EXTENDS DirectoryProxy, TLAPS

PastTheForm(r) == request[r].pc \in {"turnstile", "fetch", "read"} \/ request[r].status \in {200, 502}

\* What the handler of a call knows, of that call alone.
HandlerKnows(r) ==
  /\ request[r].status # None => Is(r, "answered")
  /\ Is(r, "answered") => request[r].status # None
  /\ PastTheForm(r) => request[r].url \in Url /\ Abstract!IsDirectoryUrl(request[r].url)
  /\ request[r].pc \notin {"read", "answered"} => request[r].got = 0
  /\ Is(r, "read") => request[r].body \in Body /\ request[r].got <= Limit
  /\ request[r].status = 200 =>
       /\ request[r].body \in Body
       /\ request[r].got = Size[request[r].body] /\ request[r].got <= Limit

HandlersKnow == \A r \in Request : HandlerKnows(r)

Inv == TypeOK /\ HandlersKnow /\ FetchedWithToken /\ OnlyDirectoriesContacted

-------------------------------------------------------------------------------
LEMMA Constants ==
  /\ None \notin Url /\ None \notin Token /\ None \notin Body /\ None \notin Nat
  /\ Genuine \subseteq Token /\ Size \in [Body -> Nat] /\ Limit \in Nat
BY ProxyAssumption DEF Abstract!FetchAssumption

LEMMA InitInv == Init => Inv
<1> SUFFICES ASSUME Init PROVE Inv
  OBVIOUS
<1>1. TypeOK
  BY DEF Init, TypeOK, State
<1>2. HandlersKnow
  <2> SUFFICES ASSUME NEW r \in Request PROVE HandlerKnows(r)
    BY DEF HandlersKnow
  <2>1. request[r].pc = "none" /\ request[r].status = None /\ request[r].got = 0
    BY DEF Init
  <2>2. request[r].status \notin {200, 502}
    BY <2>1, Constants
  <2>3. ~PastTheForm(r)
    BY <2>1, <2>2 DEF PastTheForm
  <2>4. QED
    BY <2>1, <2>2, <2>3 DEF HandlerKnows, Is
<1>3. FetchedWithToken
  BY Constants DEF Init, FetchedWithToken, Fetching
<1>4. OnlyDirectoriesContacted
  BY DEF Init, OnlyDirectoriesContacted
<1>5. QED
  BY <1>1, <1>2, <1>3, <1>4 DEF Inv

-------------------------------------------------------------------------------
(* What a step of one call does to the invariant.                          *)

\* Only the call moves, and into a state of its type.
Moves(r) ==
  /\ request' \in [Request -> State]
  /\ \A q \in Request \ {r} : request'[q] = request[q]

\* It moves without beginning to fetch.
Proceeds(r) ==
  /\ Moves(r) /\ HandlerKnows(r)'
  /\ Fetching(r)' => Fetching(r) /\ request'[r].token = request[r].token
  /\ redeemed \subseteq redeemed' /\ redeemed' \subseteq Genuine
  /\ contacted' = contacted

LEMMA OthersKnow ==
  ASSUME NEW r \in Request, Moves(r), HandlersKnow, HandlerKnows(r)'
  PROVE  HandlersKnow'
<1> SUFFICES ASSUME NEW q \in Request PROVE HandlerKnows(q)'
  BY DEF HandlersKnow
<1>1. CASE q = r
  BY <1>1
<1>2. CASE q # r
  <2>1. request'[q] = request[q]
    BY <1>2 DEF Moves
  <2>2. HandlerKnows(q)
    BY DEF HandlersKnow
  <2>3. QED
    BY <2>1, <2>2 DEF HandlerKnows, PastTheForm, Is
<1>3. QED
  BY <1>1, <1>2

LEMMA ProceedsKeepsInv ==
  ASSUME Inv, NEW r \in Request, Proceeds(r)
  PROVE  Inv'
<1>1. TypeOK'
  BY DEF Inv, TypeOK, Proceeds, Moves
<1>2. HandlersKnow'
  BY OthersKnow DEF Inv, Proceeds
<1>3. FetchedWithToken'
  <2>1. \A q \in Request : Fetching(q)' => Fetching(q) /\ request'[q].token = request[q].token
    BY DEF Proceeds, Moves, Fetching
  <2>2. QED
    BY <2>1 DEF Inv, FetchedWithToken, Proceeds
<1>4. OnlyDirectoriesContacted'
  BY DEF Inv, Proceeds, OnlyDirectoriesContacted
<1>5. QED
  BY <1>1, <1>2, <1>3, <1>4 DEF Inv

Ended(s, status) == [s EXCEPT !.pc = "answered", !.status = status]

LEMMA EndedIs ==
  ASSUME NEW s \in State, NEW status \in {200, 400, 403, 405, 502}
  PROVE  /\ Ended(s, status) \in State
         /\ Ended(s, status).pc = "answered" /\ Ended(s, status).status = status
         /\ Ended(s, status).url = s.url /\ Ended(s, status).token = s.token
         /\ Ended(s, status).body = s.body /\ Ended(s, status).got = s.got
<1> DEFINE moved == [s EXCEPT !.pc = "answered"]
<1>1. moved \in State
  BY DEF State
<1>2. Ended(s, status) = [moved EXCEPT !.status = status]
  BY DEF Ended
<1>3. /\ Ended(s, status).pc = "answered" /\ Ended(s, status).status = status
      /\ Ended(s, status).url = s.url /\ Ended(s, status).token = s.token
      /\ Ended(s, status).body = s.body /\ Ended(s, status).got = s.got
  BY DEF Ended, State
<1> HIDE DEF moved
<1>4. [moved EXCEPT !.status = status] \in State
  BY <1>1 DEF State
<1>5. QED
  BY <1>2, <1>3, <1>4

LEMMA RespondIs ==
  ASSUME TypeOK, NEW r \in Request, NEW status \in {200, 400, 403, 405, 502}, Respond(r, status)
  PROVE  /\ Moves(r) /\ request'[r] \in State
         /\ request'[r].pc = "answered" /\ request'[r].status = status
         /\ request'[r].url = request[r].url /\ request'[r].token = request[r].token
         /\ request'[r].body = request[r].body /\ request'[r].got = request[r].got
<1>1. request[r] \in State
  BY DEF TypeOK
<1>2. request' = [request EXCEPT ![r] = Ended(request[r], status)]
  BY DEF Respond, Ended
<1>3. request'[r] = Ended(request[r], status)
  BY <1>2 DEF TypeOK
<1>4. Ended(request[r], status) \in State
  BY <1>1, EndedIs
<1>5. Moves(r)
  BY <1>2, <1>4 DEF Moves, TypeOK
<1>6. QED
  BY <1>1, <1>3, <1>5, EndedIs

\* An answer that is an error.
LEMMA ErrorProceeds ==
  ASSUME Inv, NEW r \in Request, NEW status \in {400, 403, 405, 502}, Respond(r, status),
         ~Is(r, "answered"),
         status = 502 => request[r].pc \in {"fetch", "read"},
         redeemed \subseteq redeemed', redeemed' \subseteq Genuine, contacted' = contacted
  PROVE  Proceeds(r)
<1>1. TypeOK /\ status \in {200, 400, 403, 405, 502}
  BY DEF Inv
<1>2. /\ Moves(r) /\ request'[r].pc = "answered" /\ request'[r].status = status
      /\ request'[r].url = request[r].url /\ request'[r].token = request[r].token
  BY <1>1, RespondIs
<1>3. status \in Nat /\ status # None /\ status # 200
  BY Constants
<1>4. HandlerKnows(r)
  BY DEF Inv, HandlersKnow
<1>5. HandlerKnows(r)'
  <2>1. CASE status = 502
    BY <1>2, <1>3, <1>4, <2>1 DEF HandlerKnows, Is, PastTheForm
  <2>2. CASE status # 502
    BY <1>2, <1>3, <2>2 DEF HandlerKnows, Is, PastTheForm
  <2>3. QED
    BY <2>1, <2>2
<1>6. Fetching(r)' => Fetching(r)
  BY <1>2, <1>3 DEF Fetching
<1>7. QED
  BY <1>2, <1>5, <1>6 DEF Proceeds

\* A handler that goes on, without beginning to fetch.
LEMMA GoesOn ==
  ASSUME Inv, NEW r \in Request, NEW s \in State, request' = [request EXCEPT ![r] = s],
         s.status = None, s.pc # "answered",
         s.pc \in {"turnstile", "fetch", "read"} => s.url \in Url /\ Abstract!IsDirectoryUrl(s.url),
         s.pc # "read" => s.got = 0,
         s.pc = "read" => s.body \in Body /\ s.got <= Limit
  PROVE  /\ Moves(r) /\ HandlerKnows(r)' /\ request'[r] = s
         /\ (s.pc \in {"fetch", "read"} => request[r].pc \in {"fetch", "read"} /\ s.token = request[r].token)
              /\ UNCHANGED <<redeemed, contacted>> => Proceeds(r)
<1>1. request'[r] = s
  BY DEF Inv, TypeOK
<1>2. Moves(r)
  BY DEF Moves, Inv, TypeOK
<1>3. s.status \notin {200, 502}
  BY Constants
<1>4. HandlerKnows(r)'
  BY <1>1, <1>3 DEF HandlerKnows, Is, PastTheForm
<1>5. ASSUME s.pc \in {"fetch", "read"} => request[r].pc \in {"fetch", "read"} /\ s.token = request[r].token,
             UNCHANGED <<redeemed, contacted>>
      PROVE  Proceeds(r)
  <2>1. Fetching(r)' => s.pc \in {"fetch", "read"}
    BY <1>1, <1>3 DEF Fetching
  <2>2. Fetching(r)' => Fetching(r) /\ request'[r].token = request[r].token
    BY <1>1, <1>5, <2>1 DEF Fetching
  <2>3. QED
    BY <1>2, <1>4, <1>5, <2>2 DEF Proceeds, Inv, TypeOK
<1>6. QED
  BY <1>1, <1>2, <1>4, <1>5

At(s, pc) == [s EXCEPT !.pc = pc]

LEMMA ToIs ==
  ASSUME TypeOK, NEW r \in Request, NEW pc \in {"form", "turnstile", "fetch", "read"}, To(r, pc)
  PROVE  \E s \in State :
           /\ request' = [request EXCEPT ![r] = s]
           /\ s.pc = pc /\ s.url = request[r].url /\ s.token = request[r].token
           /\ s.body = request[r].body /\ s.got = request[r].got /\ s.status = request[r].status
<1>1. request[r] \in State
  BY DEF TypeOK
<1>2. At(request[r], pc) \in State
  BY <1>1 DEF At, State
<1>3. request' = [request EXCEPT ![r] = At(request[r], pc)]
  BY DEF To, At
<1>4. WITNESS At(request[r], pc) \in State
<1>5. QED
  BY <1>1, <1>3 DEF At, State

-------------------------------------------------------------------------------
(* The actions.                                                            *)

LEMMA Running ==
  ASSUME Inv, NEW r \in Request, ~Is(r, "answered")
  PROVE  /\ request[r] \in State /\ request[r].status = None /\ HandlerKnows(r)
         /\ request[r].status \notin {200, 502} /\ redeemed \subseteq Genuine
         /\ ~Is(r, "read") => request[r].got = 0
<1>1. HandlerKnows(r) /\ request[r] \in State /\ redeemed \subseteq Genuine
  BY DEF Inv, HandlersKnow, TypeOK
<1>2. QED
  BY <1>1, Constants DEF HandlerKnows, Is

LEMMA ArriveProceeds == ASSUME Inv, NEW r \in Request, Arrive(r) PROVE Proceeds(r)
<1>1. Is(r, "sent") /\ ~Is(r, "answered") /\ UNCHANGED <<redeemed, contacted>>
  BY DEF Arrive, Is
<1>2. redeemed \subseteq Genuine
  BY <1>1, Running
<1>3. CASE \E status \in {400, 405} : Respond(r, status)
  BY <1>1, <1>2, <1>3, ErrorProceeds
<1>4. CASE To(r, "form")
  <2>1. PICK s \in State :
          /\ request' = [request EXCEPT ![r] = s]
          /\ s.pc = "form" /\ s.got = request[r].got /\ s.status = request[r].status
    BY <1>4, ToIs DEF Inv
  <2>2. s.got = 0 /\ s.status = None
    BY <1>1, <2>1, Running DEF Is
  <2>3. QED
    BY <1>1, <2>1, <2>2, GoesOn
<1>5. QED
  BY <1>3, <1>4 DEF Arrive

LEMMA ReadFormProceeds == ASSUME Inv, NEW r \in Request, ReadForm(r) PROVE Proceeds(r)
<1>1. Is(r, "form") /\ ~Is(r, "answered") /\ UNCHANGED <<redeemed, contacted>>
  BY DEF ReadForm, Is
<1>2. redeemed \subseteq Genuine
  BY <1>1, Running
<1>3. CASE Respond(r, 400)
  BY <1>1, <1>2, <1>3, ErrorProceeds
<1>4. CASE To(r, "turnstile") /\ request[r].url # None /\ Abstract!IsDirectoryUrl(request[r].url)
  <2>1. PICK s \in State :
          /\ request' = [request EXCEPT ![r] = s]
          /\ s.pc = "turnstile" /\ s.url = request[r].url
          /\ s.got = request[r].got /\ s.status = request[r].status
    BY <1>4, ToIs DEF Inv
  <2>2. s.got = 0 /\ s.status = None
    BY <1>1, <2>1, Running DEF Is
  <2>3. s.url \in Url
    BY <1>4, <2>1 DEF State
  <2>4. Abstract!IsDirectoryUrl(s.url)
    BY <1>4, <2>1
  <2>5. QED
    BY <1>1, <2>1, <2>2, <2>3, <2>4, GoesOn
<1>5. QED
  BY <1>3, <1>4 DEF ReadForm

Sent(s, defect, url, token) == [s EXCEPT !.pc = "sent", !.defect = defect, !.url = url, !.token = token]

LEMMA SentIs ==
  ASSUME NEW s \in State, NEW defect \in Defect \cup {None}, NEW url \in Url \cup {None},
         NEW token \in Token \cup {None}
  PROVE  /\ Sent(s, defect, url, token) \in State
         /\ Sent(s, defect, url, token).pc = "sent"
         /\ Sent(s, defect, url, token).got = s.got /\ Sent(s, defect, url, token).status = s.status
<1> DEFINE s1 == [s EXCEPT !.pc = "sent"]
           s2 == [s1 EXCEPT !.defect = defect]
           s3 == [s2 EXCEPT !.url = url]
           s4 == [s3 EXCEPT !.token = token]
<1>1. Sent(s, defect, url, token) = s4
  BY DEF Sent
<1>2. s1 \in State /\ s1.pc = "sent" /\ s1.got = s.got /\ s1.status = s.status
  BY DEF State
<1> HIDE DEF s1
<1>3. s2 \in State /\ s2.pc = s1.pc /\ s2.got = s1.got /\ s2.status = s1.status
  BY <1>2 DEF State
<1> HIDE DEF s2
<1>4. s3 \in State /\ s3.pc = s2.pc /\ s3.got = s2.got /\ s3.status = s2.status
  BY <1>3 DEF State
<1> HIDE DEF s3
<1>5. s4 \in State /\ s4.pc = s3.pc /\ s4.got = s3.got /\ s4.status = s3.status
  BY <1>4 DEF State
<1> HIDE DEF s4
<1>6. QED
  BY <1>1, <1>2, <1>3, <1>4, <1>5

LEMMA SendProceeds ==
  ASSUME Inv, NEW r \in Request, NEW defect \in Defect \cup {None}, NEW url \in Url \cup {None},
         NEW token \in Token \cup {None}, Send(r, defect, url, token)
  PROVE  Proceeds(r)
<1> DEFINE before == request[r]
           s == Sent(before, defect, url, token)
<1>1. before \in State /\ before.got = 0 /\ before.status = None
  BY Running DEF Send, Is
<1>2. s \in State /\ s.pc = "sent" /\ s.got = before.got /\ s.status = before.status
  <2> HIDE DEF before
  <2>1. \A d \in Defect \cup {None}, u \in Url \cup {None}, t \in Token \cup {None} :
          /\ Sent(before, d, u, t) \in State /\ Sent(before, d, u, t).pc = "sent"
          /\ Sent(before, d, u, t).got = before.got /\ Sent(before, d, u, t).status = before.status
    BY <1>1, SentIs
  <2>2. QED
    BY <2>1
<1>3. request' = [request EXCEPT ![r] = s] /\ UNCHANGED <<redeemed, contacted>>
  BY DEF Send, Sent
<1> HIDE DEF before, s
<1>4. QED
  BY <1>1, <1>2, <1>3, GoesOn

Reading(s, body) == [s EXCEPT !.pc = "read", !.body = body]

LEMMA ReadingIs ==
  ASSUME NEW s \in State, NEW body \in Body
  PROVE  /\ Reading(s, body) \in State
         /\ Reading(s, body).pc = "read" /\ Reading(s, body).body = body
         /\ Reading(s, body).url = s.url /\ Reading(s, body).token = s.token
         /\ Reading(s, body).got = s.got /\ Reading(s, body).status = s.status
<1> DEFINE s1 == [s EXCEPT !.pc = "read"]
           s2 == [s1 EXCEPT !.body = body]
<1>1. Reading(s, body) = s2
  BY DEF Reading
<1>2. /\ s1 \in State /\ s1.pc = "read" /\ s1.url = s.url /\ s1.token = s.token
      /\ s1.got = s.got /\ s1.status = s.status
  BY DEF State
<1> HIDE DEF s1
<1>3. /\ s2 \in State /\ s2.pc = s1.pc /\ s2.url = s1.url /\ s2.token = s1.token
      /\ s2.got = s1.got /\ s2.status = s1.status /\ s2.body = body
  BY <1>2 DEF State
<1> HIDE DEF s2
<1>4. QED
  BY <1>1, <1>2, <1>3

LEMMA HostAnswersProceeds ==
  ASSUME Inv, NEW r \in Request, NEW body \in Body, HostAnswers(r, body)
  PROVE  Proceeds(r)
<1> DEFINE before == request[r]
           s == Reading(before, body)
<1>1. /\ before \in State /\ before.got = 0 /\ before.status = None /\ before.pc = "fetch"
      /\ before.url \in Url /\ Abstract!IsDirectoryUrl(before.url)
  BY Running DEF HostAnswers, Is, HandlerKnows, PastTheForm
<1>2. /\ s \in State /\ s.pc = "read" /\ s.got = before.got /\ s.status = before.status
      /\ s.url = before.url /\ s.body = body /\ s.token = before.token
  BY <1>1, ReadingIs
<1>3. request' = [request EXCEPT ![r] = s] /\ UNCHANGED <<redeemed, contacted>>
  BY DEF HostAnswers, Reading
<1>4. before.token = request[r].token /\ request[r].pc = "fetch"
  BY <1>1
<1> HIDE DEF before, s
<1>5. s.url \in Url /\ Abstract!IsDirectoryUrl(s.url)
  BY <1>1, <1>2
<1>6. s.got <= Limit
  BY <1>1, <1>2, Constants
<1>7. QED
  BY <1>1, <1>2, <1>3, <1>4, <1>5, <1>6, GoesOn

More(s, n) == [s EXCEPT !.got = @ + n]

LEMMA ReadChunkProceeds ==
  ASSUME Inv, NEW r \in Request, Is(r, "read"), NEW n \in 1..Size[request[r].body], ReadChunk(r, n)
  PROVE  Proceeds(r)
<1> DEFINE before == request[r]
           s == More(before, n)
<1>1. /\ before \in State /\ before.status = None /\ before.pc = "read"
      /\ before.url \in Url /\ Abstract!IsDirectoryUrl(before.url) /\ before.body \in Body
      /\ redeemed \subseteq Genuine
  BY Running DEF Is, HandlerKnows, PastTheForm
<1>2. UNCHANGED <<redeemed, contacted>>
  BY DEF ReadChunk
<1>3. CASE Respond(r, 502)
  BY <1>1, <1>2, <1>3, ErrorProceeds DEF Is
<1>4. CASE ~TooLarge(r, n) /\ request' = [request EXCEPT ![r].got = @ + n]
  <2>1. before.got \in Nat /\ n \in Nat /\ before.got + n <= Limit
    BY <1>1, <1>4, Constants DEF TooLarge, State
  <2>2. request' = [request EXCEPT ![r] = s]
    BY <1>4 DEF More
  <2>3. s = [ pc |-> "read", defect |-> before.defect, url |-> before.url, token |-> before.token,
              body |-> before.body, got |-> before.got + n, status |-> before.status ]
    <3> HIDE DEF before
    <3>1. QED
      BY <1>1 DEF More, State
  <2>4. before.token = request[r].token /\ request[r].pc = "read"
    BY <1>1
  <2> HIDE DEF before, s
  <2>5. /\ s \in State /\ s.pc = "read" /\ s.got = before.got + n /\ s.status = None
        /\ s.url = before.url /\ s.body = before.body /\ s.token = before.token
    BY <1>1, <2>1, <2>3 DEF State
  <2>6. s.url \in Url /\ Abstract!IsDirectoryUrl(s.url)
    BY <1>1, <2>5
  <2>7. QED
    BY <1>1, <1>2, <2>1, <2>2, <2>4, <2>5, <2>6, GoesOn
<1>5. QED
  BY <1>3, <1>4 DEF ReadChunk

LEMMA ReadDoneProceeds == ASSUME Inv, NEW r \in Request, ReadDone(r) PROVE Proceeds(r)
<1>1. /\ Is(r, "read") /\ HandlerKnows(r) /\ request[r].got = Size[request[r].body]
      /\ redeemed \subseteq Genuine /\ UNCHANGED <<redeemed, contacted>>
  BY Running DEF ReadDone, Is
<1>2. /\ Moves(r) /\ request'[r].pc = "answered" /\ request'[r].status = 200
      /\ request'[r].url = request[r].url /\ request'[r].token = request[r].token
      /\ request'[r].body = request[r].body /\ request'[r].got = request[r].got
  BY RespondIs DEF ReadDone, Inv
<1>3. HandlerKnows(r)'
  BY <1>1, <1>2, Constants DEF HandlerKnows, Is, PastTheForm
<1>4. Fetching(r)
  BY <1>1 DEF Fetching, Is
<1>5. QED
  BY <1>1, <1>2, <1>3, <1>4 DEF Proceeds

LEMMA HostFailsProceeds ==
  ASSUME Inv, NEW r \in Request, HostRefuses(r) \/ HostBreaks(r) \/ TimeOut(r)
  PROVE  Proceeds(r)
<1>1. request[r].pc \in {"fetch", "read"} /\ Respond(r, 502) /\ UNCHANGED <<redeemed, contacted>>
  BY DEF HostRefuses, HostBreaks, TimeOut, Is
<1>2. ~Is(r, "answered") /\ redeemed \subseteq Genuine
  BY <1>1 DEF Is, Inv, TypeOK
<1>3. QED
  BY <1>1, <1>2, ErrorProceeds

LEMMA TurnstileFailsProceeds == ASSUME Inv, NEW r \in Request, TurnstileFails(r) PROVE Proceeds(r)
<1>1. Is(r, "turnstile") /\ ~Is(r, "answered") /\ Respond(r, 403) /\ contacted' = contacted
  BY DEF TurnstileFails, Is
<1>2. redeemed \subseteq redeemed' /\ redeemed' \subseteq Genuine
  BY <1>1, Running DEF TurnstileFails
<1>3. QED
  BY <1>1, <1>2, ErrorProceeds

\* The one step that begins to fetch.
Begins(r) ==
  /\ Moves(r) /\ HandlerKnows(r)'
  /\ request'[r].token = request[r].token /\ request[r].token \in Genuine \ redeemed
  /\ redeemed' = redeemed \cup {request[r].token}
  /\ request[r].url \in Url /\ Abstract!IsDirectoryUrl(request[r].url)
  /\ contacted' = contacted \cup {request[r].url}

LEMMA TurnstileAnswersStep ==
  ASSUME Inv, NEW r \in Request, TurnstileAnswers(r)
  PROVE  Proceeds(r) \/ (Begins(r) /\ To(r, "fetch"))
<1>1. Is(r, "turnstile") /\ ~Is(r, "answered")
  BY DEF TurnstileAnswers, Is
<1>2. redeemed \subseteq Genuine /\ request[r].got = 0 /\ request[r].status = None /\ HandlerKnows(r)
  BY <1>1, Running DEF Is
<1>3. CASE Respond(r, 403) /\ UNCHANGED <<redeemed, contacted>>
  BY <1>1, <1>2, <1>3, ErrorProceeds
<1>4. CASE /\ request[r].token \in Genuine \ redeemed /\ Fetch(r)
           /\ redeemed' = redeemed \cup {request[r].token}
  <2>1. PICK s \in State :
          /\ request' = [request EXCEPT ![r] = s]
          /\ s.pc = "fetch" /\ s.url = request[r].url /\ s.token = request[r].token
          /\ s.got = request[r].got /\ s.status = request[r].status
    BY <1>4, ToIs DEF Inv, Fetch
  <2>2. request[r].url \in Url /\ Abstract!IsDirectoryUrl(request[r].url)
    BY <1>1, <1>2 DEF HandlerKnows, PastTheForm, Is
  <2>3. s.url \in Url /\ Abstract!IsDirectoryUrl(s.url)
    BY <2>1, <2>2
  <2>4. Moves(r) /\ HandlerKnows(r)' /\ request'[r] = s
    BY <1>2, <2>1, <2>3, GoesOn
  <2>5. QED
    BY <1>4, <2>1, <2>2, <2>4 DEF Begins, Fetch
<1>5. QED
  BY <1>3, <1>4 DEF TurnstileAnswers

LEMMA BeginsKeepsInv == ASSUME Inv, NEW r \in Request, Begins(r) PROVE Inv'
<1>1. TypeOK'
  BY DEF Inv, TypeOK, Begins, Moves
<1>2. HandlersKnow'
  BY OthersKnow DEF Inv, Begins
<1>3. FetchedWithToken'
  <2>1. \A q \in Request \ {r} : (Fetching(q)' <=> Fetching(q)) /\ request'[q].token = request[q].token
    BY DEF Begins, Moves, Fetching
  <2>2. \A q \in Request : Fetching(q) => request[q].token \in redeemed
    BY DEF Inv, FetchedWithToken
  <2>3. request'[r].token \in redeemed'
    BY DEF Begins
  <2>4. \A q \in Request \ {r} : Fetching(q)' => request'[q].token \in redeemed /\ request'[q].token # request'[r].token
    BY <2>1, <2>2 DEF Begins
  <2>5. ASSUME NEW q \in Request, Fetching(q)'
        PROVE  /\ request'[q].token \in redeemed'
               /\ \A other \in Request \ {q} : Fetching(other)' => request'[other].token # request'[q].token
    <3>1. CASE q = r
      BY <2>3, <2>4, <3>1
    <3>2. CASE q # r
      <4>1. request'[q].token \in redeemed'
        BY <2>4, <2>5, <3>2 DEF Begins
      <4>2. Fetching(q) /\ request'[q].token = request[q].token
        BY <2>1, <2>5, <3>2
      <4>3. \A other \in Request \ {q} : Fetching(other) => request[other].token # request[q].token
        BY <4>2 DEF Inv, FetchedWithToken
      <4>4. ASSUME NEW other \in Request \ {q}, Fetching(other)'
            PROVE  request'[other].token # request'[q].token
        <5>1. CASE other = r
          BY <2>4, <2>5, <3>2, <5>1
        <5>2. CASE other # r
          BY <2>1, <4>2, <4>3, <4>4, <5>2
        <5>3. QED
          BY <5>1, <5>2
      <4>5. QED
        BY <4>1, <4>4
    <3>3. QED
      BY <3>1, <3>2
  <2>6. QED
    BY <2>5 DEF FetchedWithToken
<1>4. OnlyDirectoriesContacted'
  BY DEF Inv, Begins, OnlyDirectoriesContacted
<1>5. QED
  BY <1>1, <1>2, <1>3, <1>4 DEF Inv

LEMMA StepCases ==
  ASSUME Inv, Next
  PROVE  \E r \in Request : Proceeds(r) \/ Begins(r)
<1>1. PICK r \in Request :
        \/ \E defect \in Defect \cup {None}, url \in Url \cup {None}, token \in Token \cup {None} :
             Send(r, defect, url, token)
        \/ Arrive(r) \/ ReadForm(r) \/ TurnstileAnswers(r) \/ TurnstileFails(r)
        \/ \E body \in Body : HostAnswers(r, body)
        \/ Is(r, "read") /\ \E n \in 1..Size[request[r].body] : ReadChunk(r, n)
        \/ ReadDone(r)
        \/ HostRefuses(r) \/ HostBreaks(r) \/ TimeOut(r)
  BY DEF Next, Settle, Host
<1>2. Proceeds(r) \/ Begins(r)
  BY <1>1, SendProceeds, ArriveProceeds, ReadFormProceeds, TurnstileAnswersStep,
     TurnstileFailsProceeds, HostAnswersProceeds, ReadChunkProceeds, ReadDoneProceeds, HostFailsProceeds
<1>3. QED
  BY <1>2

LEMMA Invariance == Spec => []Inv
<1>1. Inv /\ [Next]_vars => Inv'
  <2> SUFFICES ASSUME Inv, [Next]_vars PROVE Inv'
    OBVIOUS
  <2>1. CASE Next
    BY <2>1, StepCases, ProceedsKeepsInv, BeginsKeepsInv
  <2>2. CASE UNCHANGED vars
    BY <2>2 DEF vars, Inv, TypeOK, HandlersKnow, HandlerKnows, PastTheForm, Is,
         FetchedWithToken, Fetching, OnlyDirectoriesContacted
  <2>3. QED
    BY <2>1, <2>2
<1>2. QED
  BY InitInv, <1>1, PTL DEF Spec, Safety

-------------------------------------------------------------------------------
(* The refinement: most steps are hidden from the page, the others are one *)
(* step of DirectoryFetch.                                                 *)

Pending(r) == request[r].pc \notin {"none", "answered"} /\ request[r].status = None

Hidden(r) ==
  /\ Pending(r) /\ Pending(r)'
  /\ request'[r].url = request[r].url /\ request'[r].token = request[r].token

Asks(r) == Is(r, "none") /\ request[r].status = None /\ Pending(r)'

Refused(r) == Pending(r) /\ \E status \in {400, 403, 405, 502} : Respond(r, status)

Visible(r) == Asks(r) \/ Refused(r) \/ ReadDone(r)

LEMMA ToIsHidden ==
  ASSUME Inv, NEW r \in Request, NEW pc \in {"form", "turnstile", "fetch", "read"}, To(r, pc), Pending(r)
  PROVE  Hidden(r)
<1>1. PICK s \in State :
        /\ request' = [request EXCEPT ![r] = s]
        /\ s.pc = pc /\ s.url = request[r].url /\ s.token = request[r].token
        /\ s.status = request[r].status
  BY ToIs DEF Inv
<1>2. request'[r] = s
  BY <1>1 DEF Inv, TypeOK
<1>3. QED
  BY <1>1, <1>2 DEF Hidden, Pending

LEMMA RunningIsPending ==
  ASSUME Inv, NEW r \in Request, request[r].pc \in {"sent", "form", "turnstile", "fetch", "read"}
  PROVE  Pending(r)
BY Running DEF Pending, Is

LEMMA EarlyStepIs ==
  ASSUME Inv, NEW r \in Request, Arrive(r) \/ ReadForm(r) \/ TurnstileAnswers(r) \/ TurnstileFails(r)
  PROVE  Hidden(r) \/ Refused(r)
<1>1. request[r].pc \in {"sent", "form", "turnstile"}
  BY DEF Arrive, ReadForm, TurnstileAnswers, TurnstileFails, Is
<1>2. Pending(r)
  BY <1>1, RunningIsPending
<1>3. CASE \E status \in {400, 403, 405} : Respond(r, status)
  BY <1>2, <1>3 DEF Refused
<1>4. CASE \E pc \in {"form", "turnstile", "fetch"} : To(r, pc)
  BY <1>2, <1>4, ToIsHidden
<1>5. QED
  BY <1>3, <1>4 DEF Arrive, ReadForm, TurnstileAnswers, TurnstileFails, Fetch

LEMMA HostStepIs ==
  ASSUME Inv, NEW r \in Request,
         \/ \E body \in Body : HostAnswers(r, body)
         \/ Is(r, "read") /\ \E n \in 1..Size[request[r].body] : ReadChunk(r, n)
         \/ HostRefuses(r) \/ HostBreaks(r) \/ TimeOut(r)
  PROVE  Hidden(r) \/ Refused(r)
<1>1. request[r].pc \in {"fetch", "read"}
  BY DEF HostAnswers, HostRefuses, HostBreaks, TimeOut, Is
<1>2. Pending(r) /\ request[r] \in State
  BY <1>1, RunningIsPending DEF Inv, TypeOK
<1>3. CASE Respond(r, 502)
  BY <1>2, <1>3 DEF Refused
<1>4. CASE \E body \in Body : HostAnswers(r, body)
  <2>1. PICK body \in Body : HostAnswers(r, body)
    BY <1>4
  <2>2. request'[r] = Reading(request[r], body)
    BY <2>1 DEF HostAnswers, Reading, Inv, TypeOK
  <2>3. \A s \in State :
          /\ Reading(s, body).pc = "read" /\ Reading(s, body).status = s.status
          /\ Reading(s, body).url = s.url /\ Reading(s, body).token = s.token
    BY ReadingIs
  <2>4. QED
    BY <1>2, <2>2, <2>3 DEF Hidden, Pending
<1>5. CASE \E n \in 1..Size[request[r].body] : request' = [request EXCEPT ![r].got = @ + n]
  <2>1. PICK n \in 1..Size[request[r].body] : request' = [request EXCEPT ![r].got = @ + n]
    BY <1>5
  <2>2. request'[r] = [request[r] EXCEPT !.got = @ + n]
    BY <2>1 DEF Inv, TypeOK
  <2>3. /\ request'[r].pc = request[r].pc /\ request'[r].status = request[r].status
        /\ request'[r].url = request[r].url /\ request'[r].token = request[r].token
    BY <1>2, <2>2 DEF State
  <2>4. QED
    BY <1>2, <2>3 DEF Hidden, Pending
<1>6. QED
  BY <1>3, <1>4, <1>5 DEF ReadChunk, HostRefuses, HostBreaks, TimeOut

LEMMA SendIs ==
  ASSUME Inv, NEW r \in Request, NEW defect \in Defect \cup {None}, NEW url \in Url \cup {None},
         NEW token \in Token \cup {None}, Send(r, defect, url, token)
  PROVE  Asks(r)
<1>1. Is(r, "none") /\ request[r] \in State /\ request[r].status = None
  BY Running DEF Send, Is
<1>2. request'[r] = Sent(request[r], defect, url, token)
  BY DEF Send, Sent, Inv, TypeOK
<1>3. \A s \in State : /\ Sent(s, defect, url, token).pc = "sent"
                       /\ Sent(s, defect, url, token).status = s.status
  BY SentIs
<1>4. QED
  BY <1>1, <1>2, <1>3 DEF Asks, Pending

LEMMA StepIs ==
  ASSUME Inv, Next
  PROVE  \E r \in Request : Moves(r) /\ (Hidden(r) \/ Visible(r))
<1>1. PICK r \in Request :
        \/ \E defect \in Defect \cup {None}, url \in Url \cup {None}, token \in Token \cup {None} :
             Send(r, defect, url, token)
        \/ Arrive(r) \/ ReadForm(r) \/ TurnstileAnswers(r) \/ TurnstileFails(r)
        \/ \E body \in Body : HostAnswers(r, body)
        \/ Is(r, "read") /\ \E n \in 1..Size[request[r].body] : ReadChunk(r, n)
        \/ ReadDone(r)
        \/ HostRefuses(r) \/ HostBreaks(r) \/ TimeOut(r)
  BY DEF Next, Settle, Host
<1>2. Proceeds(r) \/ Begins(r)
  BY <1>1, SendProceeds, ArriveProceeds, ReadFormProceeds, TurnstileAnswersStep,
     TurnstileFailsProceeds, HostAnswersProceeds, ReadChunkProceeds, ReadDoneProceeds, HostFailsProceeds
<1>3. Hidden(r) \/ Visible(r)
  BY <1>1, SendIs, EarlyStepIs, HostStepIs DEF Visible
<1>4. QED
  BY <1>2, <1>3 DEF Proceeds, Begins

Calls == [r \in Request |-> CallOf(r)]

LEMMA PendingCall ==
  ASSUME NEW r \in Request, Pending(r)
  PROVE  CallOf(r) = [pc |-> "asked", url |-> request[r].url, token |-> request[r].token]
BY Constants DEF CallOf, Pending, Is

LEMMA UnsentCall ==
  ASSUME NEW r \in Request, Is(r, "none"), request[r].status = None
  PROVE  CallOf(r) = [pc |-> "none"]
BY Constants DEF CallOf, Is

LEMMA ServedCall ==
  ASSUME Inv, NEW r \in Request, CallOf(r).pc = "served"
  PROVE  request[r].status = 200 /\ CallOf(r).token = request[r].token
<1>1. ~Is(r, "none")
  BY UnsentCall DEF Inv, HandlersKnow, HandlerKnows, Is
<1>2. CASE request[r].status = 200
  <2>1. CallOf(r) = [pc |-> "served", url |-> request[r].url, token |-> request[r].token,
                     body |-> request[r].body]
    BY <1>1, <1>2 DEF CallOf, Is
  <2>2. QED
    BY <1>2, <2>1
<1>3. CASE request[r].status # 200 /\ Is(r, "answered")
  BY <1>1, <1>3 DEF CallOf, Is
<1>4. CASE request[r].status # 200 /\ ~Is(r, "answered")
  <2>1. CallOf(r) = [pc |-> "asked", url |-> request[r].url, token |-> request[r].token]
    BY <1>1, <1>4 DEF CallOf, Is
  <2>2. QED
    BY <2>1
<1>5. QED
  BY <1>2, <1>3, <1>4

LEMMA OthersKeepCalls ==
  ASSUME NEW r \in Request, Moves(r)
  PROVE  Calls' = [Calls EXCEPT ![r] = CallOf(r)']
<1>1. ASSUME NEW q \in Request \ {r} PROVE CallOf(q)' = CallOf(q)
  BY DEF Moves, CallOf, Is
<1>2. QED
  BY <1>1 DEF Calls

LEMMA StepRefines ==
  ASSUME Inv, [Next]_vars
  PROVE  [Abstract!Next]_Calls
<1>1. CASE UNCHANGED vars
  BY <1>1 DEF vars, Calls, CallOf, Is
<1>2. CASE Next
  <2>1. PICK r \in Request : Moves(r) /\ (Hidden(r) \/ Visible(r))
    BY <1>2, StepIs
  <2>2. Calls' = [Calls EXCEPT ![r] = CallOf(r)'] /\ Calls[r] = CallOf(r)
    BY <2>1, OthersKeepCalls DEF Calls
  <2>3. CASE Hidden(r)
    <3>1. CallOf(r) = [pc |-> "asked", url |-> request[r].url, token |-> request[r].token]
      BY <2>3, PendingCall DEF Hidden
    <3>2. CallOf(r)' = [pc |-> "asked", url |-> request'[r].url, token |-> request'[r].token]
      BY <2>3, Constants DEF Hidden, CallOf, Pending, Is
    <3>3. CallOf(r)' = Calls[r]
      BY <2>2, <2>3, <3>1, <3>2 DEF Hidden
    <3>4. QED
      BY <2>2, <3>3 DEF Calls
  <2>4. CASE Asks(r)
    <3>1. CallOf(r) = [pc |-> "none"]
      BY <2>4, UnsentCall DEF Asks
    <3>2. CallOf(r)' = [pc |-> "asked", url |-> request'[r].url, token |-> request'[r].token]
      BY <2>4, Constants DEF Asks, CallOf, Pending, Is
    <3>3. request'[r].url \in Url \cup {None} /\ request'[r].token \in Token \cup {None}
      BY <2>1 DEF Moves, State
    <3>4. Abstract!Ask(r, request'[r].url, request'[r].token)
      BY <2>2, <3>1, <3>2 DEF Abstract!Ask, Abstract!Asked, Calls
    <3>5. QED
      BY <3>3, <3>4 DEF Abstract!Next
  <2>5. CASE Refused(r)
    <3>1. CallOf(r).pc = "asked"
      BY <2>5, PendingCall DEF Refused
    <3>2. PICK status \in {400, 403, 405, 502} : Respond(r, status)
      BY <2>5 DEF Refused
    <3>3. request'[r].pc = "answered" /\ request'[r].status = status
      BY <3>2, RespondIs DEF Inv
    <3>4. CallOf(r)' = [pc |-> "error"]
      BY <3>3 DEF CallOf, Is
    <3>5. Abstract!Refuse(r)
      BY <2>2, <3>1, <3>4 DEF Abstract!Refuse, Calls
    <3>6. QED
      BY <3>5 DEF Abstract!Next, Abstract!Answer
  <2>6. CASE ReadDone(r)
    <3>1. Is(r, "read") /\ Pending(r)
      BY <2>6, RunningIsPending DEF ReadDone, Is
    <3>2. CallOf(r) = [pc |-> "asked", url |-> request[r].url, token |-> request[r].token]
      BY <3>1, PendingCall
    <3>3. /\ request'[r].pc = "answered" /\ request'[r].status = 200
          /\ request'[r].url = request[r].url /\ request'[r].token = request[r].token
          /\ request'[r].body = request[r].body
      BY <2>6, RespondIs DEF ReadDone, Inv
    <3>4. CallOf(r)' = [pc |-> "served", url |-> request[r].url, token |-> request[r].token,
                        body |-> request[r].body]
      BY <3>3 DEF CallOf, Is
    <3>5. /\ request[r].url \in Url /\ Abstract!IsDirectoryUrl(request[r].url)
          /\ request[r].body \in Body /\ Size[request[r].body] <= Limit
      BY <2>6, <3>1 DEF Inv, HandlersKnow, HandlerKnows, PastTheForm, Is, ReadDone
    <3>6. /\ Fetching(r) /\ request[r].token \in Genuine
          /\ \A other \in Request \ {r} : Fetching(other) => request[other].token # request[r].token
      BY <3>1 DEF Inv, TypeOK, FetchedWithToken, Fetching, Is
    <3>7. ASSUME NEW other \in Request, Calls[other].pc = "served"
          PROVE  Calls[other].token # Calls[r].token
      <4>1. CallOf(other).pc = "served"
        BY <3>7 DEF Calls
      <4>2. request[other].status = 200 /\ CallOf(other).token = request[other].token
        BY <4>1, ServedCall
      <4>3. Fetching(other)
        BY <4>2 DEF Fetching
      <4>4. other # r
        BY <3>2, <4>1
      <4>5. QED
        BY <2>2, <3>2, <3>6, <4>1, <4>2, <4>3, <4>4 DEF Calls
    <3>8. Abstract!Serve(r, request[r].body)
      <4>1. /\ Calls[r].pc = "asked" /\ Calls[r].url = request[r].url
            /\ Calls[r].token = request[r].token
        BY <2>2, <3>2
      <4>2. Calls' = [Calls EXCEPT ![r] =
                        Abstract!Served(Calls[r].url, Calls[r].token, request[r].body)]
        BY <2>2, <3>4, <4>1 DEF Abstract!Served
      <4>3. QED
        BY <3>5, <3>6, <3>7, <4>1, <4>2 DEF Abstract!Serve, Calls
    <3>9. QED
      BY <3>5, <3>8 DEF Abstract!Next, Abstract!Answer
  <2>7. QED
    BY <2>1, <2>3, <2>4, <2>5, <2>6 DEF Visible
<1>3. QED
  BY <1>1, <1>2

-------------------------------------------------------------------------------
\* Calls and tokens keep their types, for any number of calls, tokens, URLs and bodies.
THEOREM TypeCorrect == Spec => []TypeOK
BY Invariance, PTL DEF Inv

\* The worker fetches for a call only with a token redeemed for it alone, in every interleaving
\* of any number of calls (proxyDirectoryRequest).
THEOREM TokenBuysOneFetch == Spec => []FetchedWithToken
BY Invariance, PTL DEF Inv

\* What is answered is the whole of a body within the limit, for bodies of any size cut into
\* chunks of any size (readTextWithLimit).
THEOREM WholeAnswers == Spec => []AnswerIsWhole
<1>1. Inv => AnswerIsWhole
  BY DEF Inv, HandlersKnow, HandlerKnows, AnswerIsWhole
<1>2. QED
  BY Invariance, <1>1, PTL

\* No URL is fetched but a directory's (validateDirectoryURL, redirect: "manual").
THEOREM DirectoriesOnly == Spec => []OnlyDirectoriesContacted
BY Invariance, PTL DEF Inv

\* The proxy implements the safety part of what the debug page is promised: each answer is one
\* DirectoryFetch allows (proxy-directory.ts as debug-html.ts uses it).
THEOREM ImplementsDirectoryFetch == Spec => Abstract!Safety
<1>1. Init => Abstract!Init
  BY Constants DEF Init, Abstract!Init, CallOf, Is
<1>2. Inv /\ [Next]_vars => [Abstract!Next]_Calls
  BY StepRefines
<1>3. QED
  BY <1>1, <1>2, Invariance, PTL DEF Spec, Safety, Abstract!Safety, Calls
===============================================================================
