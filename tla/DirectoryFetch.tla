---------------------------- MODULE DirectoryFetch ----------------------------
(***************************************************************************)
(* What the debug page of examples/verification-workers is promised by     *)
(* POST /v0/api/proxy-directory: each call ends, with an error or with the *)
(* whole of what the directory served, the URL being one of a directory,   *)
(* and each Turnstile token buys one directory.  DirectoryProxy implements *)
(* it; DebugPage calls it.                                                 *)
(***************************************************************************)
EXTENDS Naturals

CONSTANTS
  Request,   \* calls of the proxy
  Url,       \* URLs that may be asked for
  Token,     \* Turnstile tokens, those a widget gave out and others
  Genuine,   \* those a widget gave out
  Body,      \* what directories may serve
  Size,      \* the bytes of each
  Limit,     \* DIRECTORY_RESPONSE_MAX_BYTES
  None

\* new URL(..) and the parts of a URL the code looks at.
UrlShape == [valid : BOOLEAN, https : BOOLEAN, credentials : BOOLEAN, port : BOOLEAN,
             wellKnown : BOOLEAN]

FetchAssumption ==
  /\ Url \subseteq UrlShape /\ None \notin Url \cup Token \cup Body \cup Nat
  /\ Genuine \subseteq Token
  /\ Size \in [Body -> Nat] /\ Limit \in Nat

VARIABLE call

\* validateDirectoryURL
IsDirectoryUrl(url) ==
  url.valid /\ url.https /\ ~url.credentials /\ ~url.port /\ url.wellKnown

Asked(url, token) == [pc |-> "asked", url |-> url, token |-> token]
Served(url, token, body) == [pc |-> "served", url |-> url, token |-> token, body |-> body]

Init == call = [r \in Request |-> [pc |-> "none"]]

\* The page asks, with what its form holds.
Ask(r, url, token) ==
  /\ call[r].pc = "none"
  /\ call' = [call EXCEPT ![r] = Asked(url, token)]

Refuse(r) ==
  /\ call[r].pc = "asked"
  /\ call' = [call EXCEPT ![r] = [pc |-> "error"]]

Serve(r, body) ==
  /\ call[r].pc = "asked"
  /\ call[r].url \in Url /\ IsDirectoryUrl(call[r].url)
  /\ call[r].token \in Genuine
  /\ \A other \in Request : call[other].pc = "served" => call[other].token # call[r].token
  /\ Size[body] <= Limit
  /\ call' = [call EXCEPT ![r] = Served(call[r].url, call[r].token, body)]

Answer(r) == Refuse(r) \/ \E body \in Body : Serve(r, body)

Next ==
  \E r \in Request :
    \/ \E url \in Url \cup {None}, token \in Token \cup {None} : Ask(r, url, token)
    \/ Answer(r)

Safety == Init /\ [][Next]_call

Spec == Safety /\ \A r \in Request : WF_call(Answer(r))
===============================================================================
