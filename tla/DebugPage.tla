------------------------------- MODULE DebugPage -------------------------------
(***************************************************************************)
(* The debug page of examples/verification-workers (debug-html.ts), open   *)
(* in one browser: three forms whose submit handlers wait for the proxy or *)
(* for WebCrypto while the user goes on.  A handler that ends writes its   *)
(* result, and the directory and the keyid form fill in the JWK of others. *)
(*                                                                         *)
(* The proxy is the one DirectoryFetch promises; DirectoryProxy shows that *)
(* the worker keeps that promise.  The user (external) pastes keys and the *)
(* headers of a request that packages/web-bot-auth signed, intact or not.  *)
(* Not here: the second Turnstile widget, whose token is never sent, and   *)
(* the warning about content types.                                        *)
(***************************************************************************)
EXTENDS TypeScriptSignatures, FiniteSets

CONSTANTS
  Garbled, Digest,                                    \* WebCryptoKeys
  Request, Url, Token, Genuine, Body, Size, Limit,    \* DirectoryFetch
  Document,     \* [Body -> what it parses to]
  Program,      \* what programs sign: records of a JWK, a label, the message and its inner list
  Pasted,       \* JWKs the user may type in, or text that is none
  Elsewhere,    \* an authority no request was signed for
  Unnormalised, \* authorities whose URL is written otherwise than toString of URL writes it
  PageRefuses,  \* agents the page refuses: a type in quotes, other parameters, no URL
  NotJson,      \* a body, or a field, that does not parse
  Null,         \* a member of keys that is no object
  MaxClock, MaxSubmits   \* bounds

INSTANCE WebCryptoKeys WITH KeyBytes <- Key

DocumentShape == [keys : Seq(WebKeyShape \cup {Null}) \cup {None}, purpose : BOOLEAN]

VARIABLES
  clock,
  examined,    \* the request the user looks into: who signed it, and the message
  fields,      \* what the forms hold
  last,        \* history: what wrote the JWK of the signature form last
  widget,      \* the token of the directory form
  sent,        \* history: the tokens sent to the proxy
  call,        \* the calls of the proxy (DirectoryFetch)
  page,        \* how far the handler of each call is
  computing,   \* the JWKs whose keyid is being computed
  checking,    \* what the signature form held at each submit that is being verified
  result, keyIDResult, signatureResult,   \* what the page shows
  submits

signatureVars == <<checking, signatureResult>>
keyIDVars == <<computing, keyIDResult>>
directoryVars == <<widget, sent, call, page, result>>
pageVars == <<clock, examined, fields, last, submits, signatureVars, keyIDVars, directoryVars>>

Proxy == INSTANCE DirectoryFetch

\* signatureHeaders of packages/web-bot-auth: the tag, and the signer's keyid.
SignsAs(params, jwk) == params.tag = "web-bot-auth" /\ params.keyid \in Id /\ params.keyid = KeyId(jwk)

\* What the page takes for a value in another form is none that is signed.
ShownOtherwise ==
  /\ <<>> \notin Uri \cup {HeaderValue}
  /\ \A uri \in Uri : <<"bare", uri>> \notin Uri
  /\ \A authority \in Unnormalised : <<"normalised", authority>> \notin Authority

DebugAssumption ==
  /\ Proxy!FetchAssumption
  /\ Document \in [Body -> DocumentShape \cup {NotJson}]
  /\ Pasted \subseteq WebKeyShape \cup {NotJson}
  /\ \A i, j \in DOMAIN Digest : Digest[i] = Digest[j] => i = j
  /\ Program \subseteq [jwk : WebKeyShape, label : Label, unsigned : Message, list : InnerList]
  /\ \A p \in Program : MakesSigner(p.jwk) /\ SignsAs(p.list.params, p.jwk) /\ TsSignable(p.unsigned, p.list)
  /\ Unnormalised \subseteq Authority /\ PageRefuses \subseteq Uri
  /\ ShownOtherwise
  /\ MaxClock \in Nat /\ MaxSubmits \in Nat

ASSUME DebugAssumption

Field == {"url", "keyID", "jwk", "message"}
Empty == [f \in Field |-> None]
NotAsked == "idle"
Nothing == [is |-> "nothing"]
Failed == [is |-> "failed"]

\* The headers of the request as they may be pasted: intact, for another URL, without the agent
\* or with its line twice.
Versions(m) == { m, [m EXCEPT !.authority = Elsewhere], [m EXCEPT !.agents = <<>>],
                 [m EXCEPT !.agents = @ \o @] }

PageInit ==
  /\ clock = 0
  /\ \E p \in Program :
       examined = [ jwk |-> p.jwk,
                  msg |-> TsSigned(p.unsigned, p.label, p.list, p.jwk.pub, WebAlgorithm(p.jwk)) ]
  /\ fields = Empty /\ last = "none"
  /\ widget = None /\ sent = {} /\ Proxy!Init /\ page = [r \in Request |-> NotAsked]
  /\ computing = {} /\ checking = {}
  /\ result = Nothing /\ keyIDResult = Nothing /\ signatureResult = Nothing
  /\ submits = 0

PageTick ==
  /\ clock < MaxClock /\ clock' = clock + 1
  /\ UNCHANGED <<examined, fields, last, submits, signatureVars, keyIDVars, directoryVars>>

Submit == submits < MaxSubmits /\ submits' = submits + 1

-------------------------------------------------------------------------------
(* The directory form.                                                     *)

\* The widget is solved, or renews a token that expires (external): it has a token that was never
\* sent, whichever it is.
Solve ==
  /\ Genuine # sent
  /\ widget' = CHOOSE token \in Genuine : token \notin sent
  /\ UNCHANGED <<clock, examined, fields, last, submits, sent, call, page, result, signatureVars, keyIDVars>>

\* directoryURLValidation: less than the proxy asks for; a refusal calls nothing.
SubmitDirectory(r, url) ==
  /\ Submit /\ page[r] = NotAsked
  /\ fields' = [fields EXCEPT !.url = url]
  /\ IF url.valid /\ url.wellKnown
     THEN /\ Proxy!Ask(r, url, widget)
          /\ page' = [page EXCEPT ![r] = "fetching"]
          /\ sent' = sent \cup ({widget} \ {None})
          /\ result' = [is |-> "checking"]
     ELSE result' = Failed /\ UNCHANGED <<sent, call, page>>
  /\ UNCHANGED <<clock, examined, last, widget, signatureVars, keyIDVars>>

\* The proxy goes on, whatever became of the page.
ProxyAnswers(r) ==
  /\ Proxy!Answer(r)
  /\ UNCHANGED <<clock, examined, fields, last, submits, widget, sent, page, result, signatureVars, keyIDVars>>

\* firstDirectoryKey
FirstKey(doc) ==
  IF doc = NotJson \/ doc.keys \in {None, <<>>} \/ doc.keys[1] = Null THEN None ELSE doc.keys[1]

\* validateDirectory
WellFormed(doc) ==
  doc.keys \notin {None, <<>>} /\ (\A i \in DOMAIN doc.keys : doc.keys[i] # Null) /\ doc.purpose

\* validateKeys: other keys are warned about; the Ed25519 keys import, and there is one.
KeysValid(doc) ==
  LET ed25519 == { i \in DOMAIN doc.keys : IsEd25519(doc.keys[i]) }
  IN ed25519 # {} /\ \A i \in ed25519 : Imports(doc.keys[i], "verify")

\* fillJWK, after appendDirectory
Fill(jwk) ==
  IF jwk = None THEN UNCHANGED <<fields, last>>
  ELSE fields' = [fields EXCEPT !.keyID = jwk, !.jwk = jwk] /\ last' = "directory"

\* Mutant: the widget is reset only after a directory was shown.
Ends_OnSuccess(r, shown) ==
  /\ page' = [page EXCEPT ![r] = "done"]
  /\ result' = shown
  /\ widget' = IF shown = Failed THEN widget ELSE None

\* The handler ends: `finally` resets the widget.
Ends(r, shown) ==
  /\ page' = [page EXCEPT ![r] = "done"]
  /\ result' = shown
  /\ widget' = None

Shown(body, valid) == [is |-> "shown", body |-> body, valid |-> valid]

\* The call rejects, or the answer breaks off; the proxy may have been at work.
CallFails(r) ==
  /\ page[r] = "fetching"
  /\ Ends(r, Failed)
  /\ UNCHANGED <<clock, examined, fields, last, submits, sent, call, signatureVars, keyIDVars>>

Show(r, valid) ==
  /\ Ends(r, Shown(call[r].body, valid))
  /\ Fill(FirstKey(Document[call[r].body]))

Unreadable(r) == call[r].pc = "error" \/ Document[call[r].body] = NotJson

\* Mutant: the JWK is filled in before the keys are imported.
AnswerRead_FillsFirst(r) ==
  /\ page[r] = "fetching" /\ call[r].pc = "served"
  /\ Document[call[r].body] # NotJson /\ WellFormed(Document[call[r].body])
  /\ page' = [page EXCEPT ![r] = "importing"]
  /\ Fill(FirstKey(Document[call[r].body]))
  /\ UNCHANGED <<clock, examined, widget, result, submits, sent, call, signatureVars, keyIDVars>>

\* Mutant: what does not parse is not caught.
AnswerRead_Uncaught(r) ==
  /\ page[r] = "fetching"
  /\ IF call[r].pc = "error" THEN Ends(r, Failed) /\ UNCHANGED <<fields, last>>
     ELSE call[r].pc = "served" /\ ~Unreadable(r) /\ Show(r, TRUE)
  /\ UNCHANGED <<clock, examined, submits, sent, call, signatureVars, keyIDVars>>

\* The answer is there: an error and what does not parse end the handler, and so does a
\* directory of the wrong shape; otherwise the keys are imported.
AnswerRead(r) ==
  /\ page[r] = "fetching" /\ call[r].pc \in {"served", "error"}
  /\ IF Unreadable(r) THEN Ends(r, Failed) /\ UNCHANGED <<fields, last>>
     ELSE IF ~WellFormed(Document[call[r].body]) THEN Show(r, FALSE)
     ELSE /\ page' = [page EXCEPT ![r] = "importing"]
          /\ UNCHANGED <<fields, last, widget, result>>
  /\ UNCHANGED <<clock, examined, submits, sent, call, signatureVars, keyIDVars>>

KeysImported(r) ==
  /\ page[r] = "importing"
  /\ Show(r, KeysValid(Document[call[r].body]))
  /\ UNCHANGED <<clock, examined, submits, sent, call, signatureVars, keyIDVars>>

-------------------------------------------------------------------------------
(* The keyid form.                                                         *)

\* parseJWK and jwkThumbprintInput fail before anything is awaited.
Named(text) == text \notin {NotJson, None} /\ Thumbprintable(text)

SubmitKeyID(text) ==
  /\ Submit
  /\ fields' = [fields EXCEPT !.keyID = text]
  /\ IF Named(text)
     THEN computing' = computing \cup {text} /\ keyIDResult' = [is |-> "checking"]
     ELSE computing' = computing /\ keyIDResult' = Failed
  /\ UNCHANGED <<clock, examined, last, signatureVars, directoryVars>>

KeyIDComputed(jwk) ==
  /\ jwk \in computing /\ computing' = computing \ {jwk}
  /\ keyIDResult' = [is |-> "keyid", id |-> KeyId(jwk)]
  /\ fields' = [fields EXCEPT !.jwk = jwk] /\ last' = "keyid"
  /\ UNCHANGED <<clock, examined, submits, signatureVars, directoryVars>>

-------------------------------------------------------------------------------
(* The signature form: verifySignatureLocally.                             *)

\* componentValue and dictionaryMemberValue: a member is taken without its quotes and its
\* parameters, and the URL as toString writes it; what is not there is empty, and so is any header
\* field but the three pasted.
PageValue(m, item) ==
  CASE item.name = "signature-agent" /\ item.key # None ->
         IF item.key \in Labels(m.agents) THEN <<"bare", Member(m.agents, item.key).uri>> ELSE <<>>
    [] item.name = "@target-uri" /\ m.authority \in Unnormalised -> <<"normalised", m.authority>>
    [] item.name = "header" -> <<>>
    [] OTHER -> Value(m, item)

\* buildSignedData
PageBase(m, list) ==
  [ components |-> [i \in DOMAIN list.items |-> <<list.items[i], PageValue(m, list.items[i])>>],
    params     |-> list.params ]

\* Mutant: a signature of this very second is from the future.
PageTimely_Strict(params, at) == params.created # None => params.created < at

\* validateWebBotAuthParams: what is absent is not checked, and what is late is no error.
PageTimely(params, at) == params.created # None => params.created <= at

\* signatureAgentValidation: no agent, or one.
AgentsValid(m) ==
  /\ Len(m.agents) <= 1
  /\ \A i \in DOMAIN m.agents : m.agents[i] # Malformed /\ m.agents[i].uri \notin PageRefuses

PageVerifies(jwk, m, at) ==
  /\ AgentsValid(m)
  /\ Named(jwk)
  /\ TsSingle(m)
  /\ LET list == m.inputs[1].list IN
     /\ list.items # <<>>
     /\ list.params.tag = "web-bot-auth" /\ list.params.keyid = KeyId(jwk)
     /\ PageTimely(list.params, at)
     /\ IsEd25519(jwk) /\ Imports(jwk, "verify")
     /\ m.sigs[1].sig = Signature(jwk.pub, "Ed25519", PageBase(m, list))

Expired(m, at) ==
  LET params == m.inputs[1].list.params IN params.expires # None /\ params.expires < at

Held(jwk, m) == [jwk |-> jwk, message |-> m]

\* The handler works on the FormData of the moment of the submit.
SubmitSignature(jwk, m) ==
  /\ Submit
  /\ fields' = [fields EXCEPT !.jwk = jwk, !.message = m]
  /\ last' = IF jwk = fields.jwk THEN last ELSE "user"
  /\ checking' = checking \cup {Held(jwk, m)}
  /\ signatureResult' = [is |-> "checking"]
  /\ UNCHANGED <<clock, examined, keyIDVars, directoryVars>>

PageVerdict(jwk, m, of) ==
  [ is |-> "verified", valid |-> PageVerifies(jwk, m, clock), of |-> of, at |-> clock,
    warned |-> PageVerifies(jwk, m, clock) /\ Expired(m, clock) ]

\* Mutant: the form is read again when the verification begins.
SignatureChecked_Rereads(held) ==
  /\ held \in checking /\ checking' = checking \ {held}
  /\ signatureResult' = PageVerdict(fields.jwk, fields.message, held)
  /\ UNCHANGED <<clock, examined, fields, last, submits, keyIDVars, directoryVars>>

SignatureChecked(held) ==
  /\ held \in checking /\ checking' = checking \ {held}
  /\ signatureResult' = PageVerdict(held.jwk, held.message, held)
  /\ UNCHANGED <<clock, examined, fields, last, submits, keyIDVars, directoryVars>>

-------------------------------------------------------------------------------
(* Links to a section: currentSectionURL puts the forms into the fragment, *)
(* and a page opened with it fills them in again.                          *)

Present(params) == [p \in { q \in DOMAIN params : params[q] # None } |-> params[p]]

\* The URL, the method and the headers of the request are one parameter here.
LinkOf(f) ==
  Present([ p \in {"directory-url", "key-id-jwk", "signature-jwk", "request"} |->
    CASE p = "directory-url" -> f.url [] p = "key-id-jwk" -> f.keyID [] p = "signature-jwk" -> f.jwk
      [] p = "request" -> f.message ])

Param(link, p) == IF p \in DOMAIN link THEN link[p] ELSE None

\* prefill: an old link has one JWK for both forms.
Prefilled(link) ==
  LET jwk(p) == IF Param(link, p) # None THEN Param(link, p) ELSE Param(link, "jwk")
  IN [ url |-> Param(link, "directory-url"), keyID |-> jwk("key-id-jwk"),
       jwk |-> jwk("signature-jwk"), message |-> Param(link, "request") ]

\* The page is opened with a link, of its own or an old one; what it waited for is lost.
OpenLink(link) ==
  /\ fields' = Prefilled(link)
  /\ last' = "none" /\ widget' = None
  /\ page' = [r \in Request |-> IF page[r] = NotAsked THEN NotAsked ELSE "done"]
  /\ computing' = {} /\ checking' = {}
  /\ result' = Nothing /\ keyIDResult' = Nothing /\ signatureResult' = Nothing
  /\ UNCHANGED <<clock, examined, submits, sent, call>>

-------------------------------------------------------------------------------
Typed == Pasted \cup {examined.jwk, Public(examined.jwk)}

\* What the browser runs: handlers whose wait is over.
HandlersRun ==
  \/ \E r \in Request : AnswerRead(r) \/ KeysImported(r)
  \/ \E jwk \in computing : KeyIDComputed(jwk)
  \/ \E held \in checking : SignatureChecked(held)

PageNext ==
  \/ PageTick
  \/ Solve
  \/ \E r \in Request :
       \/ \E url \in Url : SubmitDirectory(r, url)
       \/ ProxyAnswers(r)
       \/ CallFails(r)
  \/ \E text \in Typed \cup ({fields.keyID} \ {None}) : SubmitKeyID(text)
  \/ \E jwk \in Typed \cup ({fields.jwk} \ {None}), m \in Versions(examined.msg) : SubmitSignature(jwk, m)
  \/ HandlersRun
  \/ OpenLink(LinkOf(fields))
  \/ fields = Empty /\ \E jwk \in Typed : OpenLink([jwk |-> jwk])

\* The proxy answers its calls (DirectoryProxy), and a browser with handlers to run runs one.
Fairness == WF_pageVars(\E r \in Request : ProxyAnswers(r)) /\ WF_pageVars(HandlersRun)

PageSpec == PageInit /\ [][PageNext]_pageVars /\ Fairness

-------------------------------------------------------------------------------
(* Properties.                                                             *)

\* The JWK the signature form was given is that of the directory shown, or of the keyid shown,
\* whichever was last, in whatever order the answers came (fillJWK and the keyid handler).
JwkIsOfResult ==
  /\ last = "directory" /\ result.is = "shown" /\ FirstKey(Document[result.body]) # None
       => fields.jwk = FirstKey(Document[result.body])
  /\ last = "keyid" /\ keyIDResult.is = "keyid" => keyIDResult.id = KeyId(fields.jwk)

\* When no call is under way, the token the directory form would send was never sent: a check
\* that failed can be tried again (`finally` of the directory handler; a token redeems once).
RetryHasFreshToken ==
  (\A r \in Request : page[r] \notin {"fetching", "importing"}) => widget \notin sent

\* What is called valid was signed with the key whose public part is in the form, for the URL and
\* the agent of the form where it covers them, and not in the future (verifySignatureLocally).
PageValidIsSigned ==
  signatureResult.is = "verified" /\ signatureResult.valid =>
    LET held == signatureResult.of
        list == held.message.inputs[1].list
    IN /\ Named(held.jwk) /\ ~held.jwk.secret
       /\ ThumbprintInput(held.jwk) = ThumbprintInput(examined.jwk)
       /\ list.params.created # None => list.params.created <= signatureResult.at
       /\ TsCovers(list, {"@authority", "@target-uri"}) =>
            held.message.authority = examined.msg.authority
       /\ TsCovers(list, {"signature-agent"}) => held.message.agents = examined.msg.agents

\* A covered item the page has in another form than build.ts: one member of the agents, which
\* build.ts quotes; a URL, which build.ts:85-88 takes as it is written; a header field not pasted.
OddItem(m, item) ==
  \/ item.key # None /\ m.agents # <<>>
  \/ item.name = "@target-uri" /\ m.authority \in Unnormalised
  \/ item.name = "header"

\* Of the requests the library signed and verifies, with the key of the form, whose keyid is the
\* key's, the page calls valid just those with at most one agent, as debug-html.ts:374 has it
\* written, and no odd item, and without a warning.  The exceptions: an agent refused
\* (debug-html.ts:369-377, 617-620), a member without its quotes (550-557), a URL normalised (567),
\* a header field taken for empty (582-583, 632-636)
\* (verify of packages/web-bot-auth, verifySignatureLocally).
LibraryValidIsPageValid ==
  signatureResult.is = "verified" =>
    LET jwk == signatureResult.of.jwk
        m == signatureResult.of.message
    IN /\ Named(jwk) /\ IsEd25519(jwk) /\ ~jwk.secret /\ MakesVerifier(jwk)
       /\ TsVerifies(m, jwk.pub, "Ed25519", signatureResult.at)
       /\ m.inputs[1].list.params.keyid = KeyId(jwk)
       => /\ signatureResult.valid
               <=> AgentsValid(m) /\ \A item \in ItemsOf(m.inputs[1].list) : ~OddItem(m, item)
          /\ ~signatureResult.warned

\* What a signer made of a JWK signs, the verifier made of the same JWK, or of what its owner
\* publishes of it, verifies until it expires (signerFromJWK, verifierFromJWK, verify).
SignerMatchesVerifier ==
  LET params == examined.msg.inputs[1].list.params IN
  /\ TsTimely(params, clock)
  /\ TsCovers(examined.msg.inputs[1].list, {"@authority", "@target-uri"})
  => \A jwk \in {examined.jwk, Public(examined.jwk)} :
       MakesVerifier(jwk) /\ TsVerifies(examined.msg, jwk.pub, WebAlgorithm(jwk), clock)

\* A directory check comes to an end, whatever the proxy and the directory answer and however
\* checks overlap (the directory handler with its catch clause, on top of DirectoryProxy).
DirectoryCheckEnds == result.is = "checking" ~> result.is # "checking"

\* A request as the library signed it, checked with its key before it expires, is valid on the
\* page: "The selected member value is serialized per RFC 8941, as required by RFC 9421 section
\* 2.1.2" (http-message-sig/src/build.ts).
SignedIsValidOnPage ==
  LET params == examined.msg.inputs[1].list.params IN
  /\ signatureResult.is = "verified" /\ IsEd25519(examined.jwk)
  /\ signatureResult.of = Held(Public(examined.jwk), examined.msg)
  /\ params.created <= signatureResult.at /\ signatureResult.at <= params.expires
  => signatureResult.valid
===============================================================================
