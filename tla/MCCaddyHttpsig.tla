---------------------------- MODULE MCCaddyHttpsig ----------------------------
(***************************************************************************)
(* A directory, a registry listed twice over, and two cards: c1 lists its  *)
(* keys itself, c2 has a jwks_uri beside keys of its own; both list k2 and *)
(* each has an IP list.  Three worlds: everything is in order; a key and a *)
(* prefix do not parse; the key set is empty and nothing else has keys.    *)
(***************************************************************************)
EXTENDS CaddyHttpsig

CONSTANTS k1, k2, k3, a1, a2, n1, n2, dir, r1, r2, c1, c2, set2, ips1, ips2

MCRegistries == <<r1, r2>>

Empty == [cards |-> <<>>, keys |-> <<>>, jwks |-> None, ips |-> None, prefixes |-> <<>>]

World(dirKeys, keys1, keys2, nets1, nets2) ==
  [u \in Url |->
     CASE u = dir  -> [Empty EXCEPT !.keys = dirKeys]
       [] u = r1   -> [Empty EXCEPT !.cards = <<c1, c2>>]
       [] u = r2   -> [Empty EXCEPT !.cards = <<c2>>]
       [] u = c1   -> [Empty EXCEPT !.keys = keys1, !.ips = ips1]
       [] u = c2   -> [Empty EXCEPT !.keys = <<k3>>, !.jwks = set2, !.ips = ips2]
       [] u = set2 -> [Empty EXCEPT !.keys = keys2]
       [] u = ips1 -> [Empty EXCEPT !.prefixes = nets1]
       [] u = ips2 -> [Empty EXCEPT !.prefixes = nets2]]

MCIn == [n \in Network |-> IF n = n1 THEN {a1} ELSE {a2}]

MCWorlds ==
  { World(<<k1>>, <<k2>>, <<k2>>, <<n1>>, <<n2>>),
    World(<<BadKey, k1>>, <<k2>>, <<BadKey, k2>>, <<BadPrefix, n1>>, <<>>),
    World(<<BadKey>>, <<>>, <<>>, <<n1>>, <<n2>>) }
===============================================================================
