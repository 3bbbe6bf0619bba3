----------------------------- MODULE MCWebBotAuth -----------------------------
(***************************************************************************)
(* A small instance of WebBotAuth: one bot, one intermediary with a key of *)
(* its own, two agent URIs, two authorities.  The lists an intermediary    *)
(* signs are of another tag, and complete, naming its own key or the       *)
(* bot's.                                                                  *)
(***************************************************************************)
EXTENDS WebBotAuth, TLC

CONSTANTS l1, l2, u1, u2

Bot   == [kty |-> "OKP", crv |-> "Ed25519", x |-> "xBot"]
Proxy == [kty |-> "OKP", crv |-> "Ed25519", x |-> "xProxy"]
MCJwk == {Bot, Proxy}
MCBytes == [xBot |-> "kBot", xProxy |-> "kProxy"]
MCThumbprint == [j \in MCJwk |-> IF j = Bot THEN "tBot" ELSE "tProxy"]

Entry1(l, u) == <<[label |-> l, uri |-> u]>>
MCAgentHeader == {<<>>, Entry1(l1, u1), Entry1(Legacy, u1)}

MCCoverage == { <<Plain("@authority")>>, <<Plain("@target-uri"), Plain("signature-agent")>>,
                <<Plain("@authority"), AgentMember(l1)>>, <<Plain("@method")>> }

Params1(keyid, tag, expires) ==
  [keyid |-> keyid, tag |-> tag, alg |-> "ed25519", created |-> 0, expires |-> expires]
MCForeignList ==
  { [items |-> <<Plain("@method")>>, params |-> Params1("tProxy", "other", 1)],
    [items |-> <<Plain("@authority")>>, params |-> Params1("tProxy", "web-bot-auth", 1)],
    [items |-> <<Plain("@authority"), AgentMember(l1)>>, params |-> Params1("tBot", "web-bot-auth", 1)] }

MCBotJwk == {Bot}

Symmetry == Permutations(Authority)

NoKeys == EmptyRing

\* Smaller sets for the run in which requests share the keyring.
MCOneCoverage == { <<Plain("@authority"), AgentMember(l1)>> }
MCTwoForeignLists == { list \in MCForeignList : list.params.keyid = "tProxy" }
MCOneAgent == {Entry1(l1, u1)}

\* An origin that already knows the intermediary's key, under its thumbprint.
ProxyKnown == [id \in {"tProxy"} |-> <<"Ed25519", "kProxy">>]
===============================================================================
