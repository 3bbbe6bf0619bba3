------------------------- MODULE MCVerificationWorker -------------------------
(***************************************************************************)
(* A small instance of VerificationWorker: the worker's own origin, one    *)
(* other directory and one card; one authority the request is for and one  *)
(* it is not; an intermediary that signs with a key of its own and adds    *)
(* agents of every kind the header parser tells apart.                     *)
(***************************************************************************)
EXTENDS VerificationWorker, TLC

CONSTANTS l1, l2, own, dir, card, data, quoted

NoJwk == {}
NoBytes == [x \in {} |-> "none"]
NoThumbprint == [j \in {} |-> "none"]

Agent(l, u) == [label |-> l, uri |-> u]

MCPageHeader == {<<>>, <<Agent(l2, card)>>, <<Agent(Legacy, dir)>>}
MCAddedAgent == { Agent(l1, dir), Agent(l1, data), Agent(l2, dir), Agent(l2, quoted), Agent(Legacy, card), Malformed }

ForeignParams(tag, keyid) == [keyid |-> keyid, tag |-> tag, alg |-> "ed25519", created |-> 0, expires |-> 1]
MCForeignList ==
  { [items |-> <<Plain("@authority"), AgentMember(l1)>>, params |-> ForeignParams("web-bot-auth", "kid")],
    [items |-> <<Plain("@authority")>>, params |-> ForeignParams("web-bot-auth", "kid")],
    [items |-> <<Plain("@method"), Plain("signature-agent")>>, params |-> ForeignParams("other", "kid")] }

MCKeyLists == { <<"kExample">>, <<"kForeign", "kExample">>, <<>> }

Symmetry == Permutations(Authority)
===============================================================================
