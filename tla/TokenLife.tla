----------------------------- MODULE TokenLife -----------------------------
(***************************************************************************)
(* The life of an ID token that a client presents again and again while    *)
(* the clock runs and the provider rotates its keys: what                  *)
(* Server.validateToken answers at every moment.                           *)
(***************************************************************************)
EXTENDS TokenValidation

CONSTANTS
    Tokens,     \* tokens presented
    KeySets,    \* key sets the provider may serve
    Issuer,     \* cfg.IssuerURL
    ClientID,   \* cfg.ClientID
    Secret,     \* cfg.ClientSecret, "" if none
    MaxTime     \* bound on the clock

ASSUME TimeAssumption == MaxTime \in Nat

\* Times are whole seconds; a key set is a list.
ASSUME TokenAssumption ==
    /\ \A t \in Tokens :
          /\ t.exp \in Int \cup {Absent} /\ t.nbf \in Int \cup {Absent}
          /\ t.sig = [by |-> t.sig.by, alg |-> t.sig.alg]
    /\ \A iss \in {t.iss : t \in Tokens} \cup {Issuer} :
          iss = [base |-> iss.base, slashes |-> iss.slashes] /\ iss.slashes \in Nat
    /\ \A set \in KeySets : DOMAIN set \subseteq Nat \ {0}

VARIABLES tok, jwks, now

vars == <<tok, jwks, now>>

Init == tok \in Tokens /\ jwks \in KeySets /\ now = 0

Tick ==
    /\ now < MaxTime
    /\ now' = now + 1
    /\ UNCHANGED <<tok, jwks>>

\* External: the cache holds another key set.
Rotate(set) ==
    /\ set # jwks
    /\ jwks' = set
    /\ UNCHANGED <<tok, now>>

Next == Tick \/ \E set \in KeySets : Rotate(set)

Spec == Init /\ [][Next]_vars

-----------------------------------------------------------------------------
(* Properties *)

Accepted == validateToken(tok, jwks, Issuer, ClientID, Secret, now)

\* The private keys whose public half is in the key set, with the type of
\* algorithm that half is for.
Signers(kty) == {jwks[k].pub : k \in {j \in DOMAIN jwks : jwks[j].kty = kty}}

\* An accepted token was signed by a private key of the current key set, with
\* the algorithm its header names and a key of that algorithm's type; so a
\* token signed with a withdrawn key, with the client secret, with no
\* algorithm or with a key of another type is refused.
Authentic ==
    Accepted =>
        /\ tok.alg \in DefaultAlgs
        /\ tok.sig.alg = tok.alg
        /\ tok.sig.by \in Signers(ktyOf[tok.alg])

\* Claims as the provider issues them for this client.
ClaimsGood ==
    /\ tok.iss.base = Issuer.base /\ tok.iss.slashes <= 1
    /\ ClientID \in tok.aud.vals
    /\ \/ tok.aud.kind = "list"
       \/ tok.aud.kind = "string" /\ tok.aud.vals = {ClientID}
    /\ tok.exp # Absent /\ tok.nbf # Absent
    /\ now \in tok.nbf .. tok.exp

\* The key that made the signature is in the set, fit for the algorithm, and
\* the only one with the token's kid or, for a token without kid, the only one
\* of its type.
KeyUnambiguous ==
    \E k \in DOMAIN jwks :
        /\ jwks[k].pub = tok.sig.by /\ jwks[k].usable
        /\ tok.alg \in DefaultAlgs
        /\ jwks[k].kty = ktyOf[tok.alg] /\ jwks[k].alg \in {"", tok.alg}
        /\ tok.alg \in DOMAIN curveOf => jwks[k].crv = curveOf[tok.alg]
        /\ {j \in DOMAIN jwks : IF tok.kid # "" THEN jwks[j].kid = tok.kid
                                 ELSE jwks[j].kty = jwks[k].kty} = {k}
        /\ tok.kid # "" => jwks[k].kid = tok.kid

\* A token that the provider really issued for this client is accepted as long
\* as it is valid and its key can be told from the others: no combination of
\* audience form, trailing slash, missing kid or key order locks a user out.
NoLockout ==
    (tok.parses /\ tok.sig.alg = tok.alg /\ KeyUnambiguous /\ ClaimsGood) => Accepted

\* Time alone makes a refused token acceptable only by reaching its nbf: an
\* expired token stays refused for good.
NoResurrection ==
    [][(jwks' = jwks /\ ~Accepted /\ Accepted') =>
         tok.nbf # Absent /\ tok.nbf = now' + Skew]_vars

\* What the configuration documents: a token signed with HS256 and the
\* client secret is accepted.  It does not hold: see MCTokenLifeHMAC.
HMACTokenAccepted ==
    (/\ tok.parses /\ tok.alg \in HMACAlgs
     /\ Secret # "" /\ tok.sig = [by |-> Secret, alg |-> tok.alg]
     /\ ClaimsGood) => Accepted
=============================================================================
