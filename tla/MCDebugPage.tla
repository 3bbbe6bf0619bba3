------------------------------ MODULE MCDebugPage ------------------------------
(***************************************************************************)
(* A small instance of DebugPage: two calls of the proxy, programs that    *)
(* sign what the page reads as the library does and what it reads          *)
(* otherwise, and directories of every kind the page tells apart.  Any two *)
(* checks overlap.                                                         *)
(***************************************************************************)
EXTENDS DebugPage, TLC

CONSTANTS l1, l2, agent, quoted, origin, raw, other, valid, mixed, private, text

NoJwk == {}
NoBytes == [x \in {} |-> "none"]
NoThumbprint == [j \in {} |-> "none"]

Ed25519(pub, secret) ==
  [kty |-> "OKP", crv |-> "Ed25519", alg |-> "other", pub |-> pub, secret |-> secret]
Rsa(pub, secret) ==
  [kty |-> "RSA", crv |-> "other", alg |-> "PS512", pub |-> pub, secret |-> secret]

MCDigest ==
  LET inputs == { ThumbprintInput(jwk) : jwk \in WebKeyShape }
  IN [i \in inputs |-> IF i.pub = Garbled THEN <<i.kty, i.crv>> ELSE <<i.kty, i.crv, i.pub>>]
MCId == { MCDigest[i] : i \in DOMAIN MCDigest }

Directory(keys, purpose) == [keys |-> keys, purpose |-> purpose]
MCDocument == [b \in {valid, mixed, private, text} |->
  CASE b = valid   -> Directory(<<Ed25519("k1", FALSE)>>, TRUE)
    [] b = mixed   -> Directory(<<Null, Ed25519("k1", FALSE)>>, TRUE)
    [] b = private -> Directory(<<Rsa("k2", FALSE), Ed25519("k1", TRUE)>>, TRUE)
    [] b = text    -> NotJson ]
MCSize == [b \in {valid, mixed, private, text} |-> IF b = text THEN 3 ELSE 1]

\* Made at 0 or 1 and good for that second only: with the clock to 1 a request is checked before it
\* was made and in time, or in time and after it has expired.
List(jwk, items, at) ==
  [ items |-> items,
    params |-> [ keyid |-> KeyId(jwk), tag |-> "web-bot-auth", alg |-> WebAlgName(jwk),
                 created |-> at, expires |-> at ] ]
Unsigned(authority, agents) == [authority |-> authority, agents |-> agents, inputs |-> <<>>, sigs |-> <<>>]
Signs(jwk, authority, agents, items, at) ==
  [ jwk |-> jwk, label |-> l1, unsigned |-> Unsigned(authority, agents), list |-> List(jwk, items, at) ]

Agent(l, uri) == [label |-> l, uri |-> uri]
OneAgent == <<Agent(l1, agent)>>
Header == [name |-> "header", key |-> None, req |-> FALSE]
Whole == <<Plain("@authority"), Plain("signature-agent")>>
Keyed == <<Plain("@authority"), AgentMember(l1)>>

MCKeyedProgram == { Signs(Ed25519("k1", TRUE), origin, OneAgent, Keyed, 1) }

\* With an agent, whole or one member covered, with two agents, and with one in quotes; with none,
\* and an RSA key, a URL the page writes otherwise, or another header field.
MCProgram ==
  LET Plainly(authority, agents, items) == Signs(Ed25519("k1", TRUE), authority, agents, items, 0)
  IN MCKeyedProgram \cup
     { Signs(Ed25519("k1", TRUE), origin, OneAgent, <<Plain("@target-uri"), Plain("signature-agent")>>, 1),
       Signs(Rsa("k2", TRUE), origin, <<>>, <<Plain("@authority")>>, 0),
       Plainly(origin, <<Agent(l1, agent), Agent(l2, agent)>>, Whole),
       Plainly(origin, <<Agent(l1, quoted)>>, Whole),
       Plainly(raw, <<>>, <<Plain("@target-uri")>>),
       Plainly(origin, <<>>, <<Plain("@target-uri"), Header>>) }

Good == [valid |-> TRUE, https |-> TRUE, credentials |-> FALSE, port |-> FALSE, wellKnown |-> TRUE]
MCUrl == { Good, [Good EXCEPT !.wellKnown = FALSE] }

MCPasted == {NotJson}
===============================================================================
