--------------------------- MODULE MCAgentDiscovery ---------------------------
(***************************************************************************)
(* Two hosts of the card and registry worker, a listing one host short,    *)
(* and a site whose card is sound, or is wrong in any one member, or has   *)
(* any two of the members that say who it is and where its keys are, or    *)
(* has a URL written in an odd manner.                                     *)
(***************************************************************************)
EXTENDS AgentDiscovery

CONSTANTS x, y, site

TwoHosts == <<x, y>>

Symmetry == Permutations(Key) \cup Permutations(Handler)

Sound ==
  [ client_id |-> CardURL("https", site), client_name |-> Text, client_uri |-> Undefined,
    logo_uri |-> Undefined, contacts |-> Undefined, jwks_uri |-> DirectoryURL("https", site),
    jwks |-> Undefined, ips_uri |-> Undefined, web_bot_auth |-> Undefined ]

Odd == {Undefined, Null, Wrong}

Jwk(kty, whole) == [kty |-> kty, whole |-> whole, key |-> site]

Sets == { [keys |-> Null], [keys |-> <<Wrong>>], [keys |-> <<Jwk("OKP", TRUE)>>],
          [keys |-> <<Jwk(Undefined, TRUE), Jwk("RSA", FALSE)>>] }

Oddly(uri) == { WrittenAs(uri, {manner}) : manner \in Manner }

Identity == { [Sound EXCEPT !.client_id = id] :
  id \in Odd \cup {CardURL("http", site), CardURL("https", x)} \cup Oddly(CardURL("https", site)) }

Location == { [Sound EXCEPT !.jwks_uri = uri, !.jwks = set] :
  uri \in Odd \cup {DirectoryURL("http", site), DirectoryURL("https", site), DirectoryURL("https", x)}
              \cup {CardURL("https", y)},
  set \in Odd \cup Sets }
  \cup { [Sound EXCEPT !.jwks_uri = WrittenAs(DirectoryURL("https", site), {manner})] :
            manner \in {"capitals", "bad"} }

Pages == { [Sound EXCEPT !.client_name = name] : name \in Odd }
  \cup { [Sound EXCEPT !.client_uri = Uri(scheme, Text)] : scheme \in {"http", "data", "none"} }
  \cup { [Sound EXCEPT !.client_uri = uri] : uri \in Oddly(Uri("http", Text)) }
  \cup { [Sound EXCEPT !.logo_uri = Uri(scheme, Text)] : scheme \in {"data", "mailto", "malformed"} }
  \cup { [Sound EXCEPT !.logo_uri = uri] : uri \in Oddly(Uri("data", Text)) }
  \cup { [Sound EXCEPT !.contacts = value] :
           value \in {Null, Wrong} \cup { <<Uri(scheme, Text)>> : scheme \in {"mailto", "none", "malformed"} }
                     \cup {<<Uri("https", Text), Null>>}
                     \cup { <<uri>> : uri \in Oddly(Uri("mailto", Text)) \cup Oddly(Uri("https", Text)) } }
  \cup { [Sound EXCEPT !.ips_uri = value] : value \in {Null} \cup { Uri(s, Text) : s \in {"http", "https"} } }

Metadata ==
  [trigger : {Undefined, Null, "crawler", "spider"}, ips_uri : {Undefined}, text : {Text}, list : {Undefined}]
    \cup [trigger : {Undefined}, ips_uri : {Uri("http", Text), Uri("https", Text)}, text : {Text},
           list : {Undefined, Wrong}]

Bots == { [Sound EXCEPT !.web_bot_auth = value] : value \in {Null, Wrong} \cup Metadata }

MCCards == {Wrong} \cup Identity \cup Location \cup Pages \cup Bots

MCKeySets == {Wrong, [keys |-> <<Jwk("other", FALSE)>>], [keys |-> <<Jwk("OKP", TRUE), Jwk(Undefined, TRUE)>>]}

\* Any first line, plain or with an odd URL, a second, and either line break between them.
MCRegistries ==
  LET Line(uris, indents) == [uri : uris, fragment : BOOLEAN, indent : indents, remark : BOOLEAN]
      Url(scheme) == CardURL(scheme, site)
      first == Line({Undefined, Url("https"), Url("http")}, BOOLEAN)
      odd == [uri : {Url("data")} \cup { uri \in Oddly(Url("https")) : "indented" \notin uri.manner },
              fragment : {FALSE}, indent : {FALSE}, remark : {FALSE}]
      second == Line({Undefined, Url("https")}, {FALSE})
  IN { [lines |-> <<one, two>>, returns |-> {}] : one \in first \cup odd, two \in second }
       \cup { [lines |-> <<one, two>>, returns |-> {1}] : one \in first, two \in second }
===============================================================================
