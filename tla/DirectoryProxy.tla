---------------------------- MODULE DirectoryProxy ----------------------------
(***************************************************************************)
(* proxyDirectoryRequest of examples/verification-workers: the debug page  *)
(* has the worker fetch a directory for it.  A call is checked, its        *)
(* Turnstile token redeemed, the directory fetched and its body read, each *)
(* `await` being a step during which other calls go on.                    *)
(*                                                                         *)
(* Turnstile (external) redeems a token it gave out once.  The host of a   *)
(* directory (external) answers with what it likes, in chunks as the       *)
(* network cuts them, may break off, and may stall for good: only the      *)
(* timer of AbortSignal.timeout, which runs from the fetch to the end of   *)
(* the body, ends the wait then.                                           *)
(***************************************************************************)
EXTENDS Naturals

CONSTANTS Request, Url, Token, Genuine, Body, Size, Limit, None

VARIABLES
  request,    \* what each call sent and how far its handler is
  redeemed,   \* the tokens Turnstile has redeemed
  contacted   \* history: the URLs the worker fetched from

vars == <<request, redeemed, contacted>>

\* What is wrong with a call before its fields are looked at.
Defect == {"method", "origin", "form"}

State == [ pc : {"none", "sent", "form", "turnstile", "fetch", "read", "answered"},
           defect : Defect \cup {None}, url : Url \cup {None}, token : Token \cup {None},
           body : Body \cup {None}, got : Nat, status : {None, 200, 400, 403, 405, 502} ]

Is(r, pc) == request[r].pc = pc

\* What the page sees of a call: the handler's progress is hidden, and any status but 200 is an
\* error.
CallOf(r) ==
  CASE Is(r, "none")           -> [pc |-> "none"]
    [] request[r].status = 200 -> [pc |-> "served", url |-> request[r].url,
                                   token |-> request[r].token, body |-> request[r].body]
    [] request[r].pc = "answered" /\ request[r].status # 200 -> [pc |-> "error"]
    [] OTHER -> [pc |-> "asked", url |-> request[r].url, token |-> request[r].token]

Abstract == INSTANCE DirectoryFetch WITH call <- [r \in Request |-> CallOf(r)]

ASSUME ProxyAssumption == Abstract!FetchAssumption

To(r, pc) == request' = [request EXCEPT ![r].pc = pc]

Respond(r, status) ==
  request' = [request EXCEPT ![r] = [@ EXCEPT !.pc = "answered", !.status = status]]

Init ==
  /\ request = [r \in Request |-> [ pc |-> "none", defect |-> None, url |-> None, token |-> None,
                                    body |-> None, got |-> 0, status |-> None ]]
  /\ redeemed = {}
  /\ contacted = {}

\* The page, or anyone, sends a call (external).
Send(r, defect, url, token) ==
  /\ Is(r, "none")
  /\ request' = [request EXCEPT ![r] =
                   [@ EXCEPT !.pc = "sent", !.defect = defect, !.url = url, !.token = token]]
  /\ UNCHANGED <<redeemed, contacted>>

-------------------------------------------------------------------------------
(* proxyDirectoryRequest up to its first fetch.                            *)

Arrive(r) ==
  /\ Is(r, "sent")
  /\ CASE request[r].defect = "method" -> Respond(r, 405)
       [] request[r].defect = "origin" -> Respond(r, 400)
       [] OTHER                        -> To(r, "form")
  /\ UNCHANGED <<redeemed, contacted>>

\* Mutant: only the fields are asked for.
ReadForm_NoUrlCheck(r) ==
  /\ Is(r, "form")
  /\ IF request[r].defect = "form" \/ request[r].token = None THEN Respond(r, 400)
     ELSE To(r, "turnstile")
  /\ UNCHANGED <<redeemed, contacted>>

ReadForm(r) ==
  /\ Is(r, "form")
  /\ IF request[r].defect = "form" \/ request[r].url = None \/ request[r].token = None
        \/ ~Abstract!IsDirectoryUrl(request[r].url)
     THEN Respond(r, 400)
     ELSE To(r, "turnstile")
  /\ UNCHANGED <<redeemed, contacted>>

-------------------------------------------------------------------------------
(* validateTurnstile                                                       *)

Fetch(r) == To(r, "fetch") /\ contacted' = contacted \cup {request[r].url}

\* siteverify answers: {success: true} for a token it gave out and did not redeem before.
TurnstileAnswers(r) ==
  /\ Is(r, "turnstile")
  /\ IF request[r].token \in Genuine \ redeemed
     THEN Fetch(r) /\ redeemed' = redeemed \cup {request[r].token}
     ELSE Respond(r, 403) /\ UNCHANGED <<redeemed, contacted>>

\* Mutant: only an answer of Turnstile counts as a refusal.
TurnstileFails_Passes(r) ==
  /\ Is(r, "turnstile")
  /\ Fetch(r)
  /\ UNCHANGED redeemed

\* The fetch throws, its answer is not ok or not JSON: the token may have been redeemed.
TurnstileFails(r) ==
  /\ Is(r, "turnstile")
  /\ Respond(r, 403)
  /\ redeemed' \in {redeemed, redeemed \cup ({request[r].token} \cap Genuine)}
  /\ UNCHANGED contacted

-------------------------------------------------------------------------------
(* The fetch of the directory and readTextWithLimit.                       *)

HostAnswers(r, body) ==
  /\ Is(r, "fetch")
  /\ request' = [request EXCEPT ![r] = [@ EXCEPT !.pc = "read", !.body = body]]
  /\ UNCHANGED <<redeemed, contacted>>

\* Mutant: redirects are followed.
HostRefuses_Redirects(r) ==
  /\ Is(r, "fetch")
  /\ \E url \in Url : contacted' = contacted \cup {url}
  /\ UNCHANGED <<request, redeemed>>

\* Any status that is not ok, redirects among them (redirect: "manual").
HostRefuses(r) ==
  /\ Is(r, "fetch")
  /\ Respond(r, 502)
  /\ UNCHANGED <<redeemed, contacted>>

\* Mutant: the length is checked before the chunk is added.
TooLarge_Before(r, n) == request[r].got > Limit

TooLarge(r, n) == request[r].got + n > Limit

\* The reader yields the next chunk, of n bytes; beyond the limit it is cancelled.
ReadChunk(r, n) ==
  /\ Is(r, "read")
  /\ request[r].got + n <= Size[request[r].body]
  /\ IF TooLarge(r, n) THEN Respond(r, 502)
     ELSE request' = [request EXCEPT ![r].got = @ + n]
  /\ UNCHANGED <<redeemed, contacted>>

\* The reader is done, or there is no body: the text is answered.
ReadDone(r) ==
  /\ Is(r, "read")
  /\ request[r].got = Size[request[r].body]
  /\ Respond(r, 200)
  /\ UNCHANGED <<redeemed, contacted>>

\* Mutant: what was read before the body broke off is answered.
HostBreaks_Partial(r) ==
  /\ request[r].pc \in {"fetch", "read"}
  /\ Respond(r, IF Is(r, "read") THEN 200 ELSE 502)
  /\ UNCHANGED <<redeemed, contacted>>

\* The fetch or a read rejects.
HostBreaks(r) ==
  /\ request[r].pc \in {"fetch", "read"}
  /\ Respond(r, 502)
  /\ UNCHANGED <<redeemed, contacted>>

\* Mutant: the timer is cleared when the headers arrive.
TimeOut_HeadersOnly(r) ==
  /\ Is(r, "fetch")
  /\ Respond(r, 502)
  /\ UNCHANGED <<redeemed, contacted>>

\* AbortSignal.timeout(DIRECTORY_FETCH_TIMEOUT_MS) fires.
TimeOut(r) ==
  /\ request[r].pc \in {"fetch", "read"}
  /\ Respond(r, 502)
  /\ UNCHANGED <<redeemed, contacted>>

-------------------------------------------------------------------------------
Settle(r) == TurnstileAnswers(r) \/ TurnstileFails(r)

Host(r) ==
  \/ \E body \in Body : HostAnswers(r, body)
  \/ HostRefuses(r)
  \/ Is(r, "read") /\ \E n \in 1..Size[request[r].body] : ReadChunk(r, n)
  \/ ReadDone(r)
  \/ HostBreaks(r)

Next ==
  \E r \in Request :
    \/ \E defect \in Defect \cup {None}, url \in Url \cup {None}, token \in Token \cup {None} :
         Send(r, defect, url, token)
    \/ Arrive(r)
    \/ ReadForm(r)
    \/ Settle(r)
    \/ Host(r)
    \/ TimeOut(r)

\* The runtime runs a handler that can go on, the page sends the form it began to send, the call
\* of Turnstile settles, and a timer fires.  Nothing is asked of the host.
Fairness ==
  \A r \in Request : WF_vars(Arrive(r)) /\ WF_vars(ReadForm(r)) /\ WF_vars(Settle(r)) /\ WF_vars(TimeOut(r))

Safety == Init /\ [][Next]_vars

Spec == Safety /\ Fairness

-------------------------------------------------------------------------------
(* Properties.                                                             *)

\* Every call is in a state its handler can be in.
TypeOK ==
  /\ request \in [Request -> State]
  /\ redeemed \subseteq Genuine
  /\ contacted \subseteq Url

\* The calls for which a directory was fetched.
Fetching(r) ==
  request[r].pc \in {"fetch", "read"} \/ request[r].status \in {200, 502}

\* The worker fetches for a call only once Turnstile has redeemed the call's own token, which
\* buys no other call a fetch, however the calls interleave (proxyDirectoryRequest).
FetchedWithToken ==
  \A r \in Request : Fetching(r) =>
    /\ request[r].token \in redeemed
    /\ \A other \in Request \ {r} : Fetching(other) => request[other].token # request[r].token

\* A text that is answered is the whole of a body within the limit, whichever chunks it came in
\* and wherever the host broke off (readTextWithLimit).
AnswerIsWhole ==
  \A r \in Request : request[r].status = 200 =>
    request[r].got = Size[request[r].body] /\ request[r].got <= Limit

\* No URL is ever fetched but a directory's, wherever the hosts redirect to
\* (validateDirectoryURL, redirect: "manual").
OnlyDirectoriesContacted == \A url \in contacted : Abstract!IsDirectoryUrl(url)

\* Every call is answered, also when a host sends nothing more
\* (AbortSignal.timeout in proxyDirectoryRequest).
EveryCallIsAnswered == \A r \in Request : Is(r, "sent") ~> Is(r, "answered")

\* The proxy keeps the promise the debug page relies on: DirectoryFetch with its fairness
\* (proxy-directory.ts as debug-html.ts uses it).
ServesThePage == Abstract!Spec
===============================================================================
