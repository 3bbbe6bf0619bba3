------------------------------- MODULE MCKeyRing -------------------------------
(***************************************************************************)
(* A small instance of KeyRing: two good Ed25519 JWKs, one whose material  *)
(* is not base64, one that is not a curve point, and an RSA key.  The      *)
(* thumbprint "t1" is also a name the application chooses by hand, as the  *)
(* examples in examples/rust do; "t2" is not.                              *)
(***************************************************************************)
EXTENDS KeyRing

J(kty, x) == [kty |-> kty, crv |-> IF kty = "OKP" THEN "Ed25519" ELSE "other", x |-> x]

MCMaterial == {"x1", "x2", "notBase64", "notPoint"}

MCBytes == [m \in MCMaterial |->
              CASE m = "x1" -> "k1"
                [] m = "x2" -> "k2"
                [] m = "notBase64" -> "ParsingError"
                [] m = "notPoint" -> "ConversionError"]

MCJwk == {J("OKP", "x1"), J("OKP", "x2"), J("OKP", "notBase64"), J("OKP", "notPoint"), J("RSA", "x1")}

MCThumbprint == [j \in MCJwk |->
                   CASE j = J("OKP", "x1") -> "t1"
                     [] j = J("OKP", "x2") -> "t2"
                     [] j = J("OKP", "notBase64") -> "t3"
                     [] j = J("OKP", "notPoint") -> "t4"
                     [] OTHER -> "t5"]

MCRawEntry == {<<"Ed25519", "k1">>, <<"HmacSha256", "k3">>}
===============================================================================
