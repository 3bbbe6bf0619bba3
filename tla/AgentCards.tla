------------------------------- MODULE AgentCards -------------------------------
(***************************************************************************)
(* Signature agent cards and registries, as the two libraries read them:   *)
(* packages/web-bot-auth/src/registry.ts (the operators Ts..) and          *)
(* crates/web-bot-auth/src/registry.rs (the operators Rust..), over the    *)
(* same documents.  JSON and URLs are kept to what either parser tells     *)
(* apart.                                                                  *)
(***************************************************************************)
EXTENDS SequencesExt

CONSTANTS
  Undefined,  \* a member that is not there
  Null,       \* JSON null
  Wrong,      \* a value of another JSON type than the member's
  Text,       \* any string where strings are not told apart
  Refused     \* what a parser that throws returns

\* A text where a URL is wanted: its scheme, the rest, and what is odd about how it is written.  The
\* scheme "none": there is no colon, or nothing before it; "malformed": what is there names no scheme.
Uri(scheme, rest) == [scheme |-> scheme, rest |-> rest, manner |-> {}]

WrittenAs(uri, manner) == [scheme |-> uri.scheme, rest |-> uri.rest, manner |-> manner]

\* "capitals" in the scheme; whitespace before it ("indented"); an http(s) URL with other than two
\* slashes ("slashes"); nothing after https://, or after the colon ("empty"); whitespace in the
\* authority that new URL refuses ("gap"), or drops, escapes or takes to end it ("tab"); whitespace
\* after the authority ("blank"); an authority new URL refuses for another reason, as a port that is
\* no number ("bad").
Manner == {"capitals", "indented", "slashes", "empty", "gap", "tab", "blank", "bad"}

Special == {"http", "https"}

Missing == {Undefined, Null}

-------------------------------------------------------------------------------
(* URLs: new URL(..) parses the whole, repairing what it can; the Rust     *)
(* crate looks at what the text begins with and where it has whitespace.   *)

Parses(uri) ==
  /\ uri.scheme \notin {"none", "malformed"}
  /\ uri.manner \cap {"gap", "bad"} = {}
  /\ uri.scheme \in Special => "empty" \notin uri.manner

Protocol(uri) == uri.scheme

\* strip_prefix(scheme) finds it, with what follows it.
BeginsWithScheme(uri) == uri.manner \cap {"capitals", "indented", "slashes", "empty"} = {}

\* Mutant: what the text begins with is enough.
HttpUri_Prefix(uri) == uri.scheme \in Special /\ BeginsWithScheme(uri)

HttpUri(uri) ==
  uri.scheme \in Special /\ BeginsWithScheme(uri) /\ uri.manner \cap {"gap", "tab"} = {}

SpecialUri(uri) ==
  uri.scheme = "data" /\ BeginsWithScheme(uri) /\ uri.manner \cap {"gap", "tab", "blank"} = {}

ValidUri(uri, schemes) == uri.scheme \in schemes /\ (HttpUri(uri) \/ SpecialUri(uri))

\* https:// has a rest, the two slashes.
HasAnyScheme(uri) ==
  /\ uri.scheme # "none"
  /\ uri.manner \cap {"indented", "gap", "tab", "blank"} = {}
  /\ "empty" \in uri.manner => uri.scheme \in Special /\ "slashes" \notin uri.manner

TsString(value) == value \notin {Null, Wrong}

TsUrl(value, schemes) ==
  /\ TsString(value)
  /\ value # Undefined => Parses(value) /\ Protocol(value) \in schemes

\* serde reads null as None.
RustString(value) == value # Wrong

RustUrl(value, schemes) ==
  /\ RustString(value)
  /\ value \notin Missing => ValidUri(value, schemes)

-------------------------------------------------------------------------------
(* Cards: records of the members below, web_bot_auth a record of trigger,  *)
(* ips_uri, text (the other strings) and list.  A key of jwks.keys is      *)
(* Wrong or a record of kty and whole: the members the kty asks for are    *)
(* there, as strings.                                                      *)

CardMember == {"client_id", "client_name", "client_uri", "logo_uri", "contacts", "jwks_uri",
               "jwks", "ips_uri", "web_bot_auth"}

TsContacts(value) ==
  value = Undefined \/ /\ value \notin {Null, Wrong}
                       /\ \A contact \in ToSet(value) : TsString(contact) /\ Parses(contact)

RustContacts(value) ==
  value \in Missing \/ /\ value # Wrong
                       /\ \A contact \in ToSet(value) :
                            contact \notin {Null, Wrong} /\ HasAnyScheme(contact)

TsJwks(value) ==
  \/ value = Undefined
  \/ /\ value \notin {Null, Wrong} /\ value.keys \notin {Undefined, Null, Wrong}
     /\ Wrong \notin ToSet(value.keys)

\* Thumbprintable: a kty of its variants, with that variant's members.
Thumbprintable(jwk) == jwk # Wrong /\ jwk.kty \in {"EC", "OKP", "RSA", "oct"} /\ jwk.whole

RustJwks(value) ==
  \/ value \in Missing
  \/ /\ value # Wrong /\ value.keys \notin {Undefined, Null, Wrong}
     /\ \A jwk \in ToSet(value.keys) : Thumbprintable(jwk)

\* What is read of JSON: URLs where strings are told apart, and no undefined in an array.
UrlMember == {"client_id", "client_uri", "logo_uri", "jwks_uri"}

IsCard(card) ==
  /\ DOMAIN card = CardMember
  /\ \A member \in UrlMember : card[member] # Text
  /\ card.contacts \notin {Undefined, Null, Wrong} =>
       \A contact \in ToSet(card.contacts) : contact \notin {Undefined, Text}
  /\ card.web_bot_auth \notin {Undefined, Null, Wrong} => card.web_bot_auth.ips_uri # Text

Trigger == {"fetcher", "crawler"}

TsWebBotAuth(value) ==
  \/ value = Undefined
  \/ /\ value \notin {Null, Wrong}
     /\ value.trigger \in {Undefined} \cup Trigger
     /\ TsUrl(value.ips_uri, {"https"})
     /\ TsString(value.text) /\ TsString(value.list)

RustWebBotAuth(value) ==
  \/ value \in Missing
  \/ /\ value # Wrong
     /\ value.trigger \in Missing \cup Trigger
     /\ RustUrl(value.ips_uri, {"https"})
     /\ RustString(value.text) /\ RustString(value.list)

\* Mutant: a card with both passes.
TsKeyMaterial_Any(card) == card.jwks # Undefined \/ card.jwks_uri # Undefined

TsKeyMaterial(card) == (card.jwks = Undefined) # (card.jwks_uri = Undefined)

\* Mutant: client_id is compared only where there is one.
TsNamesItself_IfGiven(card, url) == card.client_id \in {Undefined, url}

TsNamesItself(card, url) == card.client_id # Undefined /\ card.client_id = url

\* parseSignatureAgentCard(card, url) of the TypeScript library does not throw.
TsCard(card, url) ==
  /\ card # Wrong
  /\ TsUrl(card.client_id, {"https"})
  /\ TsString(card.client_name)
  /\ TsUrl(card.client_uri, {"http", "https"})
  /\ TsUrl(card.logo_uri, {"http", "https", "data"})
  /\ TsContacts(card.contacts)
  /\ TsUrl(card.jwks_uri, {"https"})
  /\ TsJwks(card.jwks)
  /\ TsUrl(card.ips_uri, {"https"})
  /\ TsWebBotAuth(card.web_bot_auth)
  /\ TsKeyMaterial(card)
  /\ TsNamesItself(card, url)

RustMember == CardMember \ {"ips_uri"}

\* parse_signature_agent_card(card, Some(url)) of the Rust crate is Ok; ips_uri is no member.
RustCard(card, url) ==
  /\ card # Wrong
  /\ \E member \in RustMember : card[member] \notin Missing
  /\ card.jwks_uri \in Missing \/ card.jwks \in Missing
  /\ card.client_id \in Missing \cup {url}
  /\ RustUrl(card.client_id, {"https"})
  /\ RustString(card.client_name)
  /\ RustUrl(card.client_uri, {"http", "https"})
  /\ RustUrl(card.logo_uri, {"http", "https", "data"})
  /\ RustContacts(card.contacts)
  /\ RustUrl(card.jwks_uri, {"https"})
  /\ RustJwks(card.jwks)
  /\ RustWebBotAuth(card.web_bot_auth)

\* A URL written so that what either library looks at decides it.  new URL reads the others too,
\* where the crate refuses them, but for those it refuses itself ("bad"), which the crate takes.
PlainUri(uri) ==
  /\ uri.manner \cap {"capitals", "indented", "slashes", "tab", "bad"} = {}
  /\ uri.scheme = "data" => uri.manner \cap {"empty", "blank"} = {}

\* The same of a contact: the crate asks for a colon, no whitespace and a rest, of any scheme.
PlainContact(uri) ==
  /\ uri.scheme # "malformed"
  /\ uri.manner \cap {"indented", "empty", "tab", "blank", "bad"} = {}

Plain(value) ==
  value # Null /\ (value \notin {Undefined, Wrong, Text} => PlainUri(value))

\* Cards both parsers mean to judge alike: with an identity and keys, of key types the crate knows,
\* plain URLs, and nothing null.  (null is no value to TypeScript, and absence to Rust, which
\* reads no ips_uri either.)
Comparable(card) ==
  /\ card # Wrong /\ card.client_id # Undefined
  /\ card.jwks # Undefined \/ card.jwks_uri # Undefined
  /\ \A member \in CardMember \ {"contacts", "jwks", "web_bot_auth"} : Plain(card[member])
  /\ card.contacts # Null
  /\ card.contacts \notin {Undefined, Wrong} =>
       \A contact \in ToSet(card.contacts) : contact # Null /\ (contact # Wrong => PlainContact(contact))
  /\ card.jwks # Null
  /\ TsJwks(card.jwks) /\ card.jwks # Undefined =>
       \A jwk \in ToSet(card.jwks.keys) : Thumbprintable(jwk)
  /\ TsUrl(card.ips_uri, {"https"})
  /\ card.web_bot_auth # Null
  /\ card.web_bot_auth \notin {Undefined, Wrong} =>
       /\ Null \notin { card.web_bot_auth[member] : member \in {"trigger", "text", "list"} }
       /\ Plain(card.web_bot_auth.ips_uri)

-------------------------------------------------------------------------------
(* Registries: sequences of lines, a line being a sequence of URIs, "#"    *)
(* and blanks.                                                             *)

Hash == [scheme |-> "#"]
Blank == [scheme |-> " "]

Trim(line) ==
  LET solid == { i \in DOMAIN line : line[i] # Blank }
  IN IF solid = {} THEN <<>> ELSE SubSeq(line, Min(solid), Max(solid))

\* Mutant: the first "#" of a line begins a comment.
CommentsAt_Any(line) == { i \in DOMAIN line : line[i] = Hash }

\* A "#" begins a comment at the start of the line and after a blank: elsewhere it is a fragment's.
CommentsAt(line) == { i \in DOMAIN line : line[i] = Hash /\ (i = 1 \/ line[i - 1] = Blank) }

StripComment(line) ==
  Trim(IF CommentsAt(line) = {} THEN line ELSE SubSeq(line, 1, Min(CommentsAt(line)) - 1))

\* What is kept of a sequence, in its order, after each of its elements.
Picks(s, kept) ==
  LET picks[i \in 0..Len(s)] ==
        IF i = 0 THEN <<>>
        ELSE IF s[i] \in kept THEN Append(picks[i - 1], s[i]) ELSE picks[i - 1]
  IN picks

Select(s, kept) == Picks(s, kept)[Len(s)]

Entries(lines) ==
  LET stripped == [i \in DOMAIN lines |-> StripComment(lines[i])]
  IN Select(stripped, ToSet(stripped) \ {<<>>})

\* parseRegistry: one line that is no https URL refuses the whole.
TsRegistry(lines) ==
  IF \A entry \in ToSet(Entries(lines)) : Parses(entry[1]) /\ Protocol(entry[1]) = "https"
  THEN Entries(lines) ELSE Refused

\* What .lines() of the Rust crate makes of the lines, some of which (returns) end with a carriage
\* return alone: that ends no line there, and is a blank.  (A line gone to the next is left empty.)
RustLines(lines, returns) ==
  LET joined[i \in DOMAIN lines] ==
        IF i = 1 \/ i - 1 \notin returns THEN lines[i] ELSE joined[i - 1] \o <<Blank>> \o lines[i]
  IN [i \in DOMAIN lines |-> IF i \in returns /\ i < Len(lines) THEN <<>> ELSE joined[i]]

\* parse_registry
RustRegistry(lines) ==
  IF \A entry \in ToSet(Entries(lines)) : ValidUri(entry[1], {"https"})
  THEN Entries(lines) ELSE Refused
===============================================================================
