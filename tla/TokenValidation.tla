-------------------------- MODULE TokenValidation --------------------------
(***************************************************************************)
(* ValidateIDToken of pkg/oidc/jwt.go and the functions it calls, as a     *)
(* predicate on a token, a key set and a time.                             *)
(*                                                                         *)
(* A token is a record.  parses: it has three parts that decode, with JSON *)
(* header and claims.  sig is what produced the signature: the private key *)
(* or HMAC secret, and the algorithm it was used with.  iss is a base and  *)
(* a number of trailing slashes; aud is a kind and a set; exp and nbf are  *)
(* times, or Absent when the claim is missing or not a number.             *)
(*                                                                         *)
(* A key of the set is a record: kid and alg ("" when absent), kty, crv    *)
(* (its curve), usable (its parameters decode and, for an EC key, give a   *)
(* point on its curve) and pub, the private key it belongs to.             *)
(***************************************************************************)
EXTENDS Integers, Sequences, FiniteSetsExt

CONSTANTS
    Absent,     \* a missing claim
    Skew        \* the clock skew allowed for nbf (60 seconds), in ticks

ASSUME SkewAssumption == Skew \in Nat

HMACAlgs == {"HS256", "HS384", "HS512"}
DefaultAlgs == {"RS256", "RS384", "RS512", "ES256", "ES384", "ES512", "EdDSA"}

ktyOf == [a \in DefaultAlgs |->
            CASE a \in {"RS256", "RS384", "RS512"} -> "RSA"
              [] a \in {"ES256", "ES384", "ES512"} -> "EC"
              [] a = "EdDSA" -> "OKP"]

\* The curve verifyECDSA and verifyEdDSA insist on.
curveOf == [a \in {"ES256", "ES384", "ES512", "EdDSA"} |->
              CASE a = "ES256" -> "P-256"
                [] a = "ES384" -> "P-384"
                [] a = "ES512" -> "P-521"
                [] a = "EdDSA" -> "Ed25519"]

\* Mutant of algAllowed: an empty allowlist permits every algorithm.
algAllowedAny(alg, allowedAlgs) ==
    /\ alg \notin {"", "none"}
    /\ allowedAlgs # {} => alg \in allowedAlgs

\* "" and "none" are refused before the allowlist, an empty allowlist is the
\* default one.
algAllowed(alg, allowedAlgs) ==
    /\ alg \notin {"", "none"}
    /\ alg \in (IF allowedAlgs = {} THEN DefaultAlgs ELSE allowedAlgs)

isAlgCompatible(key, alg) ==
    IF key.alg # "" THEN key.alg = alg
    ELSE alg \in DefaultAlgs /\ key.kty = ktyOf[alg]

\* The keys findKey would take: by kid whatever their algorithm, or, for a
\* token without kid, by algorithm.
Candidates(jwks, kid, alg) ==
    {k \in DOMAIN jwks : IF kid # "" THEN jwks[k].kid = kid
                                     ELSE isAlgCompatible(jwks[k], alg)}

\* The signature was made by the key's private half, with the header's
\* algorithm, and the key is of the algorithm's type.
verifySignature(alg, key, sig) ==
    /\ alg \in DefaultAlgs
    /\ key.usable
    /\ key.kty = ktyOf[alg]
    /\ alg \in DOMAIN curveOf => key.crv = curveOf[alg]
    /\ sig = [by |-> key.pub, alg |-> alg]

\* findKey returns the first candidate, and only that one is tried.
verifyWithJWKS(tok, jwks) ==
    LET c == Candidates(jwks, tok.kid, tok.alg)
    IN  c # {} /\ verifySignature(tok.alg, jwks[Min(c)], tok.sig)

verifyHMAC(tok, secret) ==
    secret # "" /\ tok.sig = [by |-> secret, alg |-> tok.alg]

signatureOK(tok, jwks, secret) ==
    IF tok.alg \in HMACAlgs THEN verifyHMAC(tok, secret)
                            ELSE verifyWithJWKS(tok, jwks)

\* strings.TrimSuffix removes one slash.
trimSlash(iss) ==
    [iss EXCEPT !.slashes = IF iss.slashes = 0 THEN 0 ELSE iss.slashes - 1]

issuerOK(tok, issuer) == trimSlash(tok.iss) = trimSlash(issuer)

\* Mutant of validateAudience: a list of audiences is not understood.
validateAudienceString(aud, clientID) ==
    aud.kind = "string" /\ aud.vals = {clientID}

validateAudience(aud, clientID) ==
    \/ (aud.kind = "string" /\ aud.vals = {clientID})
    \/ (aud.kind = "list" /\ clientID \in aud.vals)

\* Mutant of timesOK: no clock skew for nbf.
timesOKNoSkew(tok, now) ==
    /\ tok.exp # Absent /\ tok.exp >= now
    /\ tok.nbf # Absent => tok.nbf <= now

timesOK(tok, now) ==
    /\ tok.exp # Absent /\ tok.exp >= now
    /\ tok.nbf # Absent => tok.nbf <= now + Skew

ValidateIDToken(tok, jwks, issuer, clientID, secret, allowedAlgs, now) ==
    /\ tok.parses
    /\ algAllowed(tok.alg, allowedAlgs)
    /\ signatureOK(tok, jwks, secret)
    /\ issuerOK(tok, issuer)
    /\ validateAudience(tok.aud, clientID)
    /\ timesOK(tok, now)

\* Server.validateToken passes no allowlist.
validateToken(tok, jwks, issuer, clientID, secret, now) ==
    ValidateIDToken(tok, jwks, issuer, clientID, secret, {}, now)
=============================================================================
