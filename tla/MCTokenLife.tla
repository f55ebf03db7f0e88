---------------------------- MODULE MCTokenLife ----------------------------
(* TokenLife for TLC: every combination of algorithm, kid and signer, one   *)
(* good set of claims and one for each way in which claims can differ.      *)
EXTENDS TokenLife

CONSTANTS absent

Jwk(kid, kty, crv, alg, pub) ==
    [kid |-> kid, kty |-> kty, crv |-> crv, alg |-> alg, usable |-> TRUE, pub |-> pub]

R1 == Jwk("k1", "RSA", "", "", "priv1")
R2 == Jwk("k2", "RSA", "", "RS256", "priv2")
E1 == Jwk("k1", "EC", "P-256", "", "priv1")
E2 == Jwk("", "EC", "P-384", "", "priv2")
O2 == Jwk("k2", "OKP", "Ed25519", "EdDSA", "priv2")
Broken == [R1 EXCEPT !.usable = FALSE]

MCKeySets == {<<>>, <<R1>>, <<R1, R2>>, <<R2, R1>>, <<E1>>, <<R2, E1>>, <<E2, E1>>,
              <<O2>>, <<R1, O2>>, <<Broken, R2>>, <<R1, E1>>}

MCIssuer == [base |-> "https://idp", slashes |-> 0]

Good == [iss |-> [base |-> "https://idp", slashes |-> 0],
         aud |-> [kind |-> "string", vals |-> {"talos"}],
         exp |-> 2, nbf |-> 0]

Claims ==
    {Good,
     [Good EXCEPT !.iss.slashes = 1],
     [Good EXCEPT !.iss.slashes = 2],
     [Good EXCEPT !.iss.base = "https://other"],
     [Good EXCEPT !.aud = [kind |-> "list", vals |-> {"talos", "web"}]],
     [Good EXCEPT !.aud = [kind |-> "list", vals |-> {"web"}]],
     [Good EXCEPT !.aud = [kind |-> "missing", vals |-> {}]],
     [Good EXCEPT !.exp = absent],
     [Good EXCEPT !.exp = 0],
     [Good EXCEPT !.nbf = absent],
     [Good EXCEPT !.nbf = 3, !.exp = 4]}

Token(alg, kid, sig, c) ==
    [parses |-> TRUE, alg |-> alg, kid |-> kid, sig |-> sig,
     iss |-> c.iss, aud |-> c.aud, exp |-> c.exp, nbf |-> c.nbf]

Algs == {"none", "RS256", "ES256", "ES384", "EdDSA", "HS256"}

MCTokens ==
    {Token(a[1], kid, [by |-> by, alg |-> a[2]], c) :
        a \in {p \in Algs \X Algs : p[2] \in {p[1], "RS256"}},
        kid \in {"", "k1", "k2"},
        by \in {"priv1", "priv2", "secret"},
        c \in Claims}
    \cup {[Token("RS256", "k1", [by |-> "priv1", alg |-> "RS256"], Good)
             EXCEPT !.parses = FALSE]}
=============================================================================
