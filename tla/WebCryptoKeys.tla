----------------------------- MODULE WebCryptoKeys -----------------------------
(***************************************************************************)
(* JSON Web Keys as the TypeScript programs use them: jsonwebkey-thumbprint*)
(* names them, packages/web-bot-auth/src/crypto.ts makes signers and       *)
(* verifiers of them, and the debug page and the worker import them as     *)
(* they are.  Only operators.                                              *)
(*                                                                         *)
(* A key is what these look at: its type, curve and algorithm, the public  *)
(* key its members decode to, and whether it has the private member.       *)
(* WebCrypto (external) refuses to import a private key for verifying and  *)
(* a public one for signing.                                               *)
(***************************************************************************)
CONSTANTS
  KeyBytes,    \* public keys
  Garbled,     \* what members that do not decode stand for
  Digest       \* [ThumbprintInput -> names]: SHA-256 and base64url, injective

WebKeyShape ==
  [ kty : {"OKP", "EC", "RSA", "other"}, crv : {"Ed25519", "other"}, alg : {"PS512", "other"},
    pub : KeyBytes \cup {Garbled}, secret : BOOLEAN ]

\* jwkThumbprintPreCompute, jwkThumbprintInput: the members of the type; others throw.
Thumbprintable(jwk) == jwk.kty # "other"

ThumbprintInput(jwk) ==
  [kty |-> jwk.kty, crv |-> IF jwk.kty = "RSA" THEN "other" ELSE jwk.crv, pub |-> jwk.pub]

KeyId(jwk) == Digest[ThumbprintInput(jwk)]

\* What a peer publishes of a key.
Public(jwk) == [jwk EXCEPT !.secret = FALSE]

\* crypto.subtle.importKey for one usage.
Imports(jwk, usage) == jwk.pub \in KeyBytes /\ (jwk.secret <=> usage = "sign")

IsEd25519(jwk) == jwk.kty = "OKP" /\ jwk.crv = "Ed25519"

\* signerFromJWK and verifierFromJWK: RSA keys must say PS512.
IsSupported(jwk) == IsEd25519(jwk) \/ (jwk.kty = "RSA" /\ jwk.alg = "PS512")

WebAlgorithm(jwk) == IF jwk.kty = "RSA" THEN "RsaPssSha512" ELSE "Ed25519"

WebAlgName(jwk) == IF jwk.kty = "RSA" THEN "rsa-pss-sha512" ELSE "ed25519"

\* Ed25519Signer.fromJWK and RSAPSSSHA512Signer.fromJWK import the key as it is.
MakesSigner(jwk) == IsSupported(jwk) /\ Imports(jwk, "sign")

\* Mutant: the key is imported as it is.
MakesVerifier_Whole(jwk) == IsSupported(jwk) /\ Imports(jwk, "verify")

\* verifierFromJWK imports the public members only.
MakesVerifier(jwk) == IsSupported(jwk) /\ Imports(Public(jwk), "verify")
===============================================================================
