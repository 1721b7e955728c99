-------------------------------- MODULE Scram --------------------------------
(***************************************************************************)
(* The client's side of SCRAM-SHA-512 (package scram): which messages it   *)
(* accepts and what it computes from them.  Keys, proofs and signatures    *)
(* are terms: two of them are equal when they were computed in the same    *)
(* way from equal things, which is what a hash function is used for.       *)
(*                                                                         *)
(* A server-first message is the function of its attributes: "r" is        *)
(* [nonce, size], "s" is [salt, size] and "i" a number.                    *)
(***************************************************************************)
EXTENDS Integers

CONSTANTS Names,     \* what users give as user name
          Reserved,  \* the names with a comma or an equals sign
          SASLprep   \* what the stringprep profile makes of a name, "" if it refuses

ASSUME ScramAssumption ==
  /\ Reserved \subseteq Names
  /\ SASLprep \in [Names -> Names \cup {""}] /\ ("" \in Names => SASLprep[""] = "")

MinIters == 50000
MaxIters == 5000000
NonceSize == 32
MaxSaltSize == 1024

Refused == [ok |-> FALSE]

\* No channel binding; a binding is a pair.
NoBinding == <<>>

-----------------------------------------------------------------------------
(* A wrong form of a definition below, which no specification uses. *)

\* The digest of the certificate's signature is taken as it is.
DigestAsSigned(signature) == IF signature = "EdDSA" THEN "none" ELSE signature

-----------------------------------------------------------------------------
(* Keys *)

Salted(secret, salt, iterations) == <<secret, salt, iterations>>
ClientKey(salted) == <<"client", salted>>
StoredKey(salted) == <<"stored", salted>>
ServerKey(salted) == <<"server", salted>>

\* A precomputed key of another length than a digest.
ShortKey == <<"short">>

\* Hi has an output only for a key and a salt that are not empty.
CanHash(secret, salt) == secret # "" /\ salt.size > 0

-----------------------------------------------------------------------------
(* Messages *)

\* Without an id in it the name means the user's own credential.
NewClientFirst(username, apiKeyID, binding, nonce) ==
  IF username = "" \/ username \in Reserved \/ SASLprep[username] = "" THEN Refused
  ELSE [ok |-> TRUE, gs2 |-> IF binding = NoBinding THEN "n" ELSE "p",
        bare |-> <<SASLprep[username], apiKeyID, nonce>>]

\* An attribute without a value is malformed.
AcceptableServerFirst(m) ==
  /\ DOMAIN m = {"r", "s", "i"}
  /\ m["i"] \in MinIters..MaxIters
  /\ m["r"].size \in {NonceSize, 2 * NonceSize}
  /\ m["s"].size \in 1..MaxSaltSize

AuthMessage(first, serverFirst, binding) ==
  [bare |-> first.bare, serverFirst |-> serverFirst,
   c |-> <<first.gs2, binding>>, r |-> serverFirst["r"].nonce]

Proof(clientKey, storedKey, message) == <<clientKey, storedKey, message>>

\* The flag and the binding data have to agree, and the keys to have one size.
NewClientFinal(first, serverFirst, clientKey, storedKey, binding) ==
  IF (first.gs2 = "p") # (binding # NoBinding) \/ clientKey = ShortKey THEN Refused
  ELSE LET message == AuthMessage(first, serverFirst, binding) IN
       [ok |-> TRUE, message |-> message, proof |-> Proof(clientKey, storedKey, message)]

Signature(serverKey, message) == <<serverKey, message>>

\* A signature that is missing altogether is <<>>.
SignatureVerifies(signature, serverKey, message) ==
  signature # <<>> /\ signature = Signature(serverKey, message)

-----------------------------------------------------------------------------
(* Channel binding *)

\* MD5 and SHA-1 are promoted; a signature without one hash has no binding.
Digest(signature) ==
  CASE signature \in {"MD5", "SHA1", "SHA256"} -> "SHA256"
    [] signature \in {"SHA384", "SHA512"} -> signature
    [] OTHER -> "none"

\* The tls-server-end-point of a certificate, if it is defined.
EndPoint(cert) ==
  IF Digest(cert.signature) = "none" THEN NoBinding ELSE <<Digest(cert.signature), cert.key>>
=============================================================================
