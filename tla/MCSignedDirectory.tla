--------------------------- MODULE MCSignedDirectory ---------------------------
(***************************************************************************)
(* Key sets of at most two among two Ed25519 keys, one that is not a curve *)
(* point and an RSA key; at most two signers, each with a keyid of its own *)
(* or with another's.                                                      *)
(***************************************************************************)
EXTENDS SignedDirectory

J(kty, x) == [kty |-> kty, crv |-> IF kty = "OKP" THEN "Ed25519" ELSE "other", x |-> x]

J1 == J("OKP", "x1")
J2 == J("OKP", "x2")
NotPoint == J("OKP", "notPoint")
Rsa == J("RSA", "x1")

MCJwk == {J1, J2, NotPoint, Rsa}
MCMaterial == {"x1", "x2", "notPoint"}
MCBytes == [m \in MCMaterial |->
              CASE m = "x1" -> "k1" [] m = "x2" -> "k2" [] m = "notPoint" -> "ConversionError"]
MCThumbprint == [j \in MCJwk |->
                   CASE j = J1 -> "t1" [] j = J2 -> "t2" [] j = NotPoint -> "t3" [] j = Rsa -> "t4"]

MCKeyLists == {<<>>, <<J1>>, <<J1, J2>>, <<J2, J1>>, <<J1, J1>>, <<J1, NotPoint>>, <<Rsa, J1>>}

MCSigner == { [keyid |-> "t1", key |-> "k1"], [keyid |-> "t2", key |-> "k2"], [keyid |-> "t1", key |-> "k2"] }

MCSignerLists == {<<>>} \cup { <<s>> : s \in MCSigner } \cup { <<s, t>> : s, t \in MCSigner }
===============================================================================
