----------------------------- MODULE AccessProofs -----------------------------
(***************************************************************************)
(* Theorems about what the server decides of a request: which tokens it    *)
(* accepts (TokenLife), which address it accounts the request to and which *)
(* roles it grants (AccessPolicy), for every value of their constants.     *)
(***************************************************************************)
EXTENDS TokenLife, AccessPolicy, WellFoundedInduction, TLAPS

-----------------------------------------------------------------------------
(* Tokens.                                                                 *)

\* A set of natural numbers that is not empty has a least element.
LEMMA LeastExists ==
    ASSUME NEW S \in SUBSET Nat, S # {}
    PROVE  Min(S) \in S /\ \A y \in S : Min(S) <= y
<1> DEFINE R == {ss \in Nat \X Nat : ss[1] < ss[2]}
<1>1. IsWellFoundedOn(R, Nat)
  BY NatLessThanWellFounded DEF OpToRel
<1>2. PICK x \in S : \A y \in S : ~ (<<y, x>> \in R)
  BY <1>1, WFMin
<1>3. \A y \in S : y \in Nat /\ x \in Nat /\ ~ (y < x)
  <2>1. \A y \in S : <<y, x>> \in Nat \X Nat
    OBVIOUS
  <2>2. \A y \in S : <<y, x>> \in R <=> y < x
    BY <2>1
  <2> QED
    BY <1>2, <2>2
<1>4. \A y \in S : x <= y
  BY <1>3
<1> QED
  BY <1>4 DEF Min

\* findKey returns a key of the set.
LEMMA FoundKey ==
    ASSUME NEW set \in KeySets, NEW kid, NEW alg, Candidates(set, kid, alg) # {}
    PROVE  Min(Candidates(set, kid, alg)) \in Candidates(set, kid, alg)
<1>1. Candidates(set, kid, alg) \subseteq Nat
  BY TokenAssumption DEF Candidates
<1> QED
  BY <1>1, LeastExists

Presented == tok \in Tokens /\ jwks \in KeySets /\ now \in Nat

LEMMA PresentedHolds == Spec => []Presented
<1>1. Init => Presented
  BY DEF Init, Presented
<1>2. Presented /\ [Next]_vars => Presented'
  BY DEF Presented, Next, Tick, Rotate, vars
<1> QED
  BY <1>1, <1>2, PTL DEF Spec

\* ValidateIDToken accepts no token but one signed by a private key of the
\* current key set, with the header's algorithm and a key of its type.
THEOREM TokensAreAuthentic == Spec => []Authentic
<1>1. ASSUME Presented, Accepted
      PROVE  /\ tok.alg \in DefaultAlgs
             /\ tok.sig.alg = tok.alg
             /\ tok.sig.by \in Signers(ktyOf[tok.alg])
  <2>1. tok.alg \in DefaultAlgs /\ signatureOK(tok, jwks, Secret)
    BY <1>1 DEF Accepted, validateToken, ValidateIDToken, algAllowed
  <2>2. tok.alg \notin HMACAlgs
    BY <2>1 DEF DefaultAlgs, HMACAlgs
  <2> DEFINE c == Candidates(jwks, tok.kid, tok.alg)
             k == Min(c)
  <2>3. c # {} /\ verifySignature(tok.alg, jwks[k], tok.sig)
    BY <2>1, <2>2 DEF signatureOK, verifyWithJWKS
  <2>4. k \in DOMAIN jwks
    BY <1>1, <2>3, FoundKey DEF Presented, Candidates
  <2>5. jwks[k].kty = ktyOf[tok.alg] /\ tok.sig = [by |-> jwks[k].pub, alg |-> tok.alg]
    BY <2>3 DEF verifySignature
  <2>6. tok.sig.alg = tok.alg /\ tok.sig.by = jwks[k].pub
    BY <2>5
  <2>7. jwks[k].pub \in Signers(ktyOf[tok.alg])
    BY <2>4, <2>5 DEF Signers
  <2> QED
    BY <2>1, <2>6, <2>7
<1>2. Presented => Authentic
  BY <1>1 DEF Authentic
<1> QED
  BY <1>2, PresentedHolds, PTL

\* A key that names an algorithm is of that algorithm's type (RFC 7518).
KeysFit ==
    \A set \in KeySets : \A k \in DOMAIN set :
        set[k].alg \in DefaultAlgs => set[k].kty = ktyOf[set[k].alg]

\* ValidateIDToken accepts every token that the provider issued for this
\* client while it is valid and its key can be told from the others, if the
\* provider's keys fit the algorithms they name and the configured issuer does
\* not end in two slashes.
THEOREM NobodyIsLockedOut ==
    ASSUME KeysFit, Issuer.slashes <= 1
    PROVE  Spec => []NoLockout
<1>1. ASSUME Presented, tok.parses, tok.sig.alg = tok.alg, KeyUnambiguous, ClaimsGood
      PROVE  Accepted
  <2>1. PICK k \in DOMAIN jwks :
          /\ jwks[k].pub = tok.sig.by /\ jwks[k].usable
          /\ tok.alg \in DefaultAlgs
          /\ jwks[k].kty = ktyOf[tok.alg] /\ jwks[k].alg \in {"", tok.alg}
          /\ tok.alg \in DOMAIN curveOf => jwks[k].crv = curveOf[tok.alg]
          /\ {j \in DOMAIN jwks : IF tok.kid # "" THEN jwks[j].kid = tok.kid
                                   ELSE jwks[j].kty = jwks[k].kty} = {k}
          /\ tok.kid # "" => jwks[k].kid = tok.kid
    BY <1>1 DEF KeyUnambiguous
  <2>2. /\ tok.exp \in Int \cup {Absent} /\ tok.nbf \in Int \cup {Absent}
        /\ tok.sig = [by |-> tok.sig.by, alg |-> tok.sig.alg]
        /\ tok.iss = [base |-> tok.iss.base, slashes |-> tok.iss.slashes]
        /\ Issuer = [base |-> Issuer.base, slashes |-> Issuer.slashes]
        /\ tok.iss.slashes \in Nat /\ Issuer.slashes \in Nat
        /\ now \in Nat /\ Skew \in Nat
    BY <1>1, TokenAssumption, SkewAssumption DEF Presented
  <2>3. algAllowed(tok.alg, {}) /\ tok.alg \notin HMACAlgs
    BY <2>1 DEF algAllowed, DefaultAlgs, HMACAlgs
  <2>4. Candidates(jwks, tok.kid, tok.alg) = {k}
    <3>1. CASE tok.kid # ""
      BY <2>1, <3>1 DEF Candidates
    <3>2. CASE tok.kid = ""
      <4>1. isAlgCompatible(jwks[k], tok.alg)
        BY <2>1 DEF isAlgCompatible
      <4>2. ASSUME NEW j \in DOMAIN jwks, isAlgCompatible(jwks[j], tok.alg) PROVE j = k
        <5>1. jwks[j].kty = ktyOf[tok.alg]
          BY <1>1, <2>1, <4>2 DEF isAlgCompatible, KeysFit, Presented
        <5>2. j \in {i \in DOMAIN jwks : IF tok.kid # "" THEN jwks[i].kid = tok.kid
                                          ELSE jwks[i].kty = jwks[k].kty}
          BY <2>1, <3>2, <5>1
        <5> QED
          BY <2>1, <5>2
      <4> QED
        BY <3>2, <4>1, <4>2 DEF Candidates
    <3> QED
      BY <3>1, <3>2
  <2>5. Min({k}) = k
    <3>1. k \in Nat
      BY <1>1, TokenAssumption DEF Presented
    <3> QED
      BY <3>1, LeastExists
  <2>6. signatureOK(tok, jwks, Secret)
    <3>1. tok.sig = [by |-> jwks[k].pub, alg |-> tok.alg]
      BY <1>1, <2>1, <2>2
    <3> QED
      BY <2>1, <2>3, <2>4, <2>5, <3>1 DEF signatureOK, verifyWithJWKS, verifySignature
  <2>7. issuerOK(tok, Issuer)
    <3>1. trimSlash(tok.iss) = [base |-> tok.iss.base, slashes |-> 0]
      <4>1. tok.iss.slashes = 0 \/ tok.iss.slashes = 1
        BY <1>1, <2>2 DEF ClaimsGood
      <4> QED
        BY <2>2, <4>1 DEF trimSlash
    <3>2. trimSlash(Issuer) = [base |-> Issuer.base, slashes |-> 0]
      <4>1. Issuer.slashes = 0 \/ Issuer.slashes = 1
        BY <2>2
      <4> QED
        BY <2>2, <4>1 DEF trimSlash
    <3> QED
      BY <1>1, <3>1, <3>2 DEF issuerOK, ClaimsGood
  <2>8. validateAudience(tok.aud, ClientID)
    BY <1>1 DEF ClaimsGood, validateAudience
  <2>9. timesOK(tok, now)
    BY <1>1, <2>2 DEF ClaimsGood, timesOK
  <2> QED
    BY <1>1, <2>3, <2>6, <2>7, <2>8, <2>9 DEF Accepted, validateToken, ValidateIDToken
<1>2. Presented => NoLockout
  BY <1>1 DEF NoLockout
<1> QED
  BY <1>2, PresentedHolds, PTL

\* ValidateIDToken refuses an expired token for good: while the keys stay, a
\* token becomes acceptable only by reaching its nbf.
THEOREM NothingIsResurrected == Spec => NoResurrection
<1>1. ASSUME Presented, Next, jwks' = jwks, ~Accepted, Accepted'
      PROVE  tok.nbf # Absent /\ tok.nbf = now' + Skew
  <2>1. tok' = tok /\ now' = now + 1
    BY <1>1 DEF Next, Tick, Rotate
  <2>2. /\ tok.exp \in Int \cup {Absent} /\ tok.nbf \in Int \cup {Absent}
        /\ now \in Nat /\ Skew \in Nat
    BY <1>1, TokenAssumption, SkewAssumption DEF Presented
  <2>3. timesOK(tok, now + 1) /\ ~timesOK(tok, now)
    BY <1>1, <2>1 DEF Accepted, validateToken, ValidateIDToken
  <2> QED
    BY <2>1, <2>2, <2>3 DEF timesOK
<1>2. ASSUME Presented, [Next]_vars
      PROVE  [(jwks' = jwks /\ ~Accepted /\ Accepted') =>
                tok.nbf # Absent /\ tok.nbf = now' + Skew]_vars
  BY <1>1, <1>2
<1> QED
  BY <1>2, PresentedHolds, PTL DEF Spec, NoResurrection

-----------------------------------------------------------------------------
(* Addresses.                                                              *)

LEMMA GreatestIs ==
    ASSUME NEW U \in SUBSET Int, NEW m \in U, \A k \in U : k <= m
    PROVE  Max(U) = m
<1>1. \A x \in U : x >= m => x = m
  OBVIOUS
<1>2. \A k \in U : m >= k
  OBVIOUS
<1> QED
  BY <1>1, <1>2 DEF Max

Strings == Addrs \cup Parts \cup {CHOOSE a \in Addrs : TRUE}

\* Parts of the header that the client wrote: all but one for each proxy.
Written == Len(xff.parts) - (Len(path) - 1)

\* The header's last parts are the hops a request took before the last one,
\* behind whatever the client wrote.
Listing ==
    /\ path \in Seq(Strings) /\ Len(path) >= 1
    /\ xff.parts \in Seq(Strings) /\ Len(xff.parts) >= Len(path) - 1
    /\ \A k \in 1 .. Len(path) - 1 : xff.parts[Written + k] = path[k]

\* The first line holds all that came before a proxy that sends one line; if
\* the client sent no header it holds the client's own address.
FirstLine ==
    /\ xff.first \in Nat /\ xff.first <= Len(xff.parts)
    /\ \A k \in 2 .. Len(path) : path[k] \in Merging => xff.first >= Written + k - 1
    /\ sent.lines = 0 =>
         Written = 0 /\ IF Len(path) = 1 THEN xff.lines = 0 ELSE xff.first >= 1

\* Of the hops that are no trusted proxies, one is the last.
LastUntrusted ==
    UntrustedHops # {} =>
        \E m \in UntrustedHops : \A k \in UntrustedHops : k <= m

Routed == Listing /\ FirstLine /\ LastUntrusted

LEMMA RouteInit == ASSUME AccessInit PROVE Routed
<1>1. xff = sent /\ (xff \in Headers \/ xff = NoHeader)
  BY DEF AccessInit
<1>2. /\ xff.parts \in Seq(Strings) /\ xff.first \in Nat
      /\ xff.first <= Len(xff.parts)
      /\ xff.lines = 0 => Len(xff.parts) = 0
  <2>1. CASE xff = NoHeader
    BY <2>1 DEF NoHeader
  <2>2. CASE xff \in Headers
    <3>1. /\ xff.parts \in UNION {[1 .. n -> Parts] : n \in 0 .. MaxParts}
          /\ xff.first \in 0 .. MaxParts /\ xff.first <= Len(xff.parts)
          /\ xff.lines = 0 => xff = NoHeader
      BY <2>2 DEF Headers
    <3>2. PICK n \in 0 .. MaxParts : xff.parts \in [1 .. n -> Parts]
      BY <3>1
    <3>3. xff.parts \in Seq(Strings)
      BY <3>2 DEF Strings
    <3>4. xff.lines = 0 => Len(xff.parts) = 0
      BY <3>1 DEF NoHeader
    <3> QED
      BY <3>1, <3>3, <3>4, AccessAssumption
  <2> QED
    BY <1>1, <2>1, <2>2
<1>3. PICK a \in Strings : path = <<a>>
  BY DEF AccessInit, Strings
<1>4. path \in Seq(Strings) /\ Len(path) = 1 /\ DOMAIN path = {1}
  BY <1>3
<1>5. Len(xff.parts) \in Nat
  BY <1>2
<1>6. Listing
  BY <1>2, <1>4, <1>5 DEF Listing
<1>7. FirstLine
  BY <1>1, <1>2, <1>4, <1>5 DEF FirstLine, Written
<1>8. LastUntrusted
  BY <1>4 DEF LastUntrusted, UntrustedHops
<1> QED
  BY <1>6, <1>7, <1>8 DEF Routed

LEMMA RouteStep ==
    ASSUME Routed, [AccessNext]_accessVars
    PROVE  Routed'
<1>1. CASE UNCHANGED <<path, xff, sent>>
  BY <1>1 DEF Routed, Listing, FirstLine, Written, LastUntrusted, UntrustedHops
<1>2. ASSUME NEW p \in Addrs, Forward(p) PROVE Routed'
  <2> DEFINE n == Len(path)
             l == Len(xff.parts)
             d == l - (n - 1)
  <2>1. /\ n \in Nat /\ n >= 1 /\ l \in Nat /\ d \in Nat
        /\ p \in Strings /\ path[n] \in Strings
        /\ DOMAIN path = 1 .. n
    BY DEF Routed, Listing, Strings
  <2>2. path' = Append(path, p) /\ xff'.parts = Append(xff.parts, path[n]) /\ sent' = sent
    BY <1>2 DEF Forward
  <2>3. /\ path' \in Seq(Strings) /\ Len(path') = n + 1 /\ DOMAIN path' = 1 .. (n + 1)
        /\ path'[n + 1] = p /\ \A k \in 1 .. n : path'[k] = path[k]
    BY <2>1, <2>2 DEF Routed, Listing
  <2>4. /\ xff'.parts \in Seq(Strings) /\ Len(xff'.parts) = l + 1
        /\ xff'.parts[l + 1] = path[n] /\ \A k \in 1 .. l : xff'.parts[k] = xff.parts[k]
    BY <2>1, <2>2 DEF Routed, Listing
  <2>5. /\ Len(path') - 1 = n /\ Written = d /\ Written' = d
        /\ Len(xff'.parts) >= n /\ l + 1 = d + n
    BY <2>1, <2>3, <2>4 DEF Written
  <2>6. Listing'
    <3>1. ASSUME NEW k \in 1 .. n PROVE xff'.parts[d + k] = path'[k]
      <4>1. CASE k = n
        <5>1. d + k = l + 1
          BY <2>1, <4>1
        <5> QED
          BY <2>3, <2>4, <4>1, <5>1
      <4>2. CASE k # n
        <5>1. k \in 1 .. n - 1
          <6>1. n \in Nat
            BY <2>1
          <6> HIDE DEF n
          <6> QED
            BY <4>2, <6>1
        <5>2. d + k \in 1 .. l
          BY <2>1, <5>1
        <5>3. xff.parts[d + k] = path[k]
          BY <2>5, <5>1 DEF Routed, Listing
        <5> QED
          BY <2>3, <2>4, <5>2, <5>1, <5>3
      <4> QED
        BY <4>1, <4>2
    <3> QED
      BY <2>1, <2>3, <2>4, <2>5, <3>1 DEF Listing
  <2>7. FirstLine'
    <3>1. /\ xff.first \in Nat /\ xff.first <= l
          /\ \A k \in 2 .. n : path[k] \in Merging => xff.first >= d + k - 1
          /\ sent.lines = 0 => d = 0 /\ IF n = 1 THEN xff.lines = 0 ELSE xff.first >= 1
      BY <2>5 DEF Routed, FirstLine
    <3>2. xff'.first = IF p \in Merging \/ xff.lines = 0 THEN l + 1 ELSE xff.first
      BY <1>2, <2>2, <2>4 DEF Forward
    <3> HIDE DEF n, l, d
    <3>3. ASSUME NEW k \in 2 .. n + 1, path'[k] \in Merging PROVE xff'.first >= d + k - 1
      <4>1. CASE k = n + 1
        BY <2>1, <2>3, <2>5, <3>2, <3>3, <4>1
      <4>2. CASE k # n + 1
        <5>1. k \in 2 .. n /\ path[k] \in Merging
          BY <2>1, <2>3, <3>3, <4>2
        <5> QED
          BY <2>1, <2>5, <3>1, <3>2, <5>1
      <4> QED
        BY <4>1, <4>2
    <3>4. xff'.first \in Nat /\ xff'.first <= l + 1
      BY <2>1, <3>1, <3>2
    <3>5. sent.lines = 0 => d = 0 /\ n + 1 # 1 /\ xff'.first >= 1
      BY <2>1, <3>1, <3>2
    <3> QED
      BY <2>2, <2>3, <2>4, <2>5, <3>3, <3>4, <3>5 DEF FirstLine
  <2>8. LastUntrusted'
    <3>1. UntrustedHops' = {k \in 1 .. (n + 1) : ~isTrustedProxy(path'[k])}
      BY <2>3 DEF UntrustedHops
    <3>2. UntrustedHops = {k \in 1 .. n : ~isTrustedProxy(path[k])}
      BY <2>1 DEF UntrustedHops
    <3>3. CASE ~isTrustedProxy(p)
      <4>1. n + 1 \in UntrustedHops' /\ \A k \in UntrustedHops' : k <= n + 1
        BY <2>1, <2>3, <3>1, <3>3
      <4> QED
        BY <4>1 DEF LastUntrusted
    <3>4. CASE isTrustedProxy(p)
      <4>1. UntrustedHops' = UntrustedHops
        <5>1. \A k \in 1 .. (n + 1) : k \in 1 .. n \/ k = n + 1
          BY <2>1
        <5>2. \A k \in 1 .. n : k \in 1 .. (n + 1)
          BY <2>1
        <5> QED
          BY <2>3, <3>1, <3>2, <3>4, <5>1, <5>2
      <4> QED
        BY <4>1 DEF LastUntrusted, Routed
    <3> QED
      BY <3>3, <3>4
  <2> QED
    BY <2>6, <2>7, <2>8 DEF Routed
<1> QED
  BY <1>1, <1>2 DEF AccessNext, AddRule, SetRoles, accessVars

\* extractIP accounts a request to the last hop that is no trusted proxy, in
\* whatever lines and parts the client wrote X-Forwarded-For, as long as that
\* hop's address is in the line Header.Get reads: it is the peer itself, one of
\* the trusted proxies behind it sends a single line, or the client reached
\* them directly and without a header.
THEOREM AddressesAreGenuine == AccessSpec => []SpoofResistant
<1>1. ASSUME Routed, UntrustedHops # {}, InFirstLine
      PROVE  Key = path[LastHop]
  <2> DEFINE n == Len(path)
             l == Len(xff.parts)
             d == l - (n - 1)
             f == xff.first
             U == UntrustedHops
             V == {k \in DOMAIN Get(xff) : ~isTrustedProxy(Get(xff)[k])}
  <2>1. /\ n \in Nat /\ n >= 1 /\ l \in Nat /\ d \in Nat /\ d = Written
        /\ DOMAIN path = 1 .. n
        /\ f \in 0 .. l
    BY <1>1 DEF Routed, Listing, FirstLine, Written
  <2>2. U = {k \in 1 .. n : ~isTrustedProxy(path[k])}
    BY <2>1 DEF UntrustedHops
  <2>3. PICK m \in U : \A k \in U : k <= m
    BY <1>1 DEF Routed, LastUntrusted
  <2>4. LastHop = m /\ m \in 1 .. n
    <3>1. U \subseteq Int
      BY <2>1, <2>2
    <3>2. LastHop = Max(U)
      BY DEF LastHop
    <3> HIDE DEF U
    <3>3. Max(U) = m
      BY <2>3, <3>1, GreatestIs
    <3> QED
      BY <2>2, <2>3, <3>2, <3>3
  <2>5. CASE ~isTrustedProxy(path[n])
    <3>1. n \in U
      BY <2>1, <2>2, <2>5
    <3> HIDE DEF U, n
    <3>2. m = n
      <4>1. n <= m
        BY <2>3, <3>1
      <4> QED
        BY <2>1, <2>4, <4>1
    <3> QED
      BY <2>4, <2>5, <3>2 DEF U, n, Key, extractIP
  <2>6. CASE isTrustedProxy(path[n])
    <3>1. m \in 1 .. n - 1
      BY <2>1, <2>2, <2>3, <2>4, <2>6
    <3>2. xff.parts[d + m] = path[m]
      BY <1>1, <2>1, <3>1 DEF Routed, Listing
    <3>3. f >= d + m
      <4>1. /\ \A k \in 2 .. n : path[k] \in Merging => f >= d + k - 1
            /\ sent.lines = 0 => d = 0 /\ IF n = 1 THEN xff.lines = 0 ELSE f >= 1
        BY <1>1, <2>1 DEF Routed, FirstLine
      <4>2. \/ \E k \in m + 1 .. n : path[k] \in Merging
            \/ m = 1 /\ sent.lines = 0
        <5>1. m # n
          <6> HIDE DEF n
          <6> QED
            BY <2>1, <3>1
        <5> QED
          BY <1>1, <2>4, <5>1 DEF InFirstLine
      <4> HIDE DEF n, d, f
      <4> QED
        BY <2>1, <3>1, <4>1, <4>2
    <3>4. DOMAIN Get(xff) = 1 .. f /\ \A k \in 1 .. f : Get(xff)[k] = xff.parts[k]
      BY <1>1, <2>1 DEF Get, Routed, Listing
    <3>5. d + m \in V
      BY <2>1, <2>2, <2>3, <3>1, <3>2, <3>3, <3>4
    <3>6. ASSUME NEW v \in V PROVE v <= d + m
      <4>0. v \in 1 .. f /\ ~isTrustedProxy(xff.parts[v])
        BY <3>4
      <4>1. SUFFICES ASSUME v > d + m PROVE FALSE
        BY <2>1, <2>4, <4>0
      <4>2. v - d \in 1 .. n - 1 /\ v - d > m /\ d + (v - d) = v
        <5>1. l = d + n - 1
          BY <2>1
        <5> HIDE DEF n, l, d, f
        <5> QED
          BY <2>1, <3>1, <4>0, <4>1, <5>1
      <4>3. xff.parts[d + (v - d)] = path[v - d]
        BY <1>1, <2>1, <4>2 DEF Routed, Listing
      <4>4. v - d \in U
        <5>1. v - d \in 1 .. n
          BY <2>1, <4>2
        <5> HIDE DEF n, d, U
        <5> QED
          BY <2>2, <4>0, <4>2, <4>3, <5>1
      <4> QED
        BY <2>1, <2>3, <2>4, <4>2, <4>4
    <3>7. Max(V) = d + m
      <4>1. V \subseteq Int
        BY <2>1, <3>4
      <4> HIDE DEF V, d
      <4> QED
        BY <3>5, <3>6, <4>1, GreatestIs
    <3>8. Key = Get(xff)[Max(V)]
      BY <2>6, <3>5 DEF Key, extractIP
    <3>9. d + m \in 1 .. f
      BY <2>1, <3>1, <3>3
    <3> QED
      BY <2>4, <3>2, <3>4, <3>7, <3>8, <3>9
  <2> QED
    BY <2>5, <2>6
<1>2. Routed => SpoofResistant
  BY <1>1 DEF SpoofResistant
<1>3. AccessInit => Routed
  BY RouteInit
<1>4. Routed /\ [AccessNext]_accessVars => Routed'
  BY RouteStep
<1> QED
  BY <1>2, <1>3, <1>4, PTL DEF AccessSpec

-----------------------------------------------------------------------------
(* Roles.                                                                  *)

\* MapRoles and ApplyDefaults grant os:admin only through a list or a rule
\* that names it, or when neither is configured.
THEOREM PrivilegeIsLeast == AccessSpec => []LeastPrivilege
<1>1. LeastPrivilege
  <2> DEFINE m == Matching(rules, claims)
  <2>1. CASE rules = <<>>
    <3>1. Granted = IF roles = {} THEN {Admin} ELSE roles
      BY <2>1 DEF Granted, RolesFor, DefaultRoles
    <3>2. m = {}
      BY <2>1 DEF Matching
    <3> QED
      BY <2>1, <3>1, <3>2 DEF LeastPrivilege
  <2>2. CASE rules # <<>>
    <3>1. Granted = IF m = {} THEN roles ELSE UNION {rules[k].roles : k \in m}
      BY <2>2 DEF Granted, RolesFor, DefaultRoles, MapRoles
    <3> QED
      BY <2>2, <3>1 DEF LeastPrivilege
  <2> QED
    BY <2>1, <2>2
<1> QED
  BY <1>1, PTL

\* A rule that the operator adds behind one that matches takes no role away.
THEOREM RulesOnlyAdd == AccessSpec => RulesAccumulate
<1>0. <<>> \in Seq(Rules)
  OBVIOUS
<1>1. AccessInit => rules \in Seq(Rules)
  BY <1>0 DEF AccessInit
<1>2. rules \in Seq(Rules) /\ [AccessNext]_accessVars => (rules \in Seq(Rules))'
  BY DEF AccessNext, Forward, AddRule, SetRoles, accessVars
<1>3. ASSUME rules \in Seq(Rules), AccessNext, rules' # rules,
             Matching(rules, claims) # {}
      PROVE  Granted \subseteq Granted'
  <2>1. PICK r \in Rules : rules' = Append(rules, r) /\ claims' = claims
    BY <1>3 DEF AccessNext, Forward, AddRule, SetRoles
  <2>2. \A k \in DOMAIN rules : k \in DOMAIN rules' /\ rules'[k] = rules[k]
    BY <1>3, <2>1
  <2> DEFINE m == Matching(rules, claims)
             mm == Matching(rules, claims)'
  <2>3. m \subseteq mm /\ m \subseteq DOMAIN rules
    BY <2>1, <2>2 DEF Matching
  <2>4. rules # <<>> /\ rules' # <<>>
    BY <1>3, <2>3, <2>2
  <2>5. Granted = UNION {rules[k].roles : k \in m}
    BY <1>3, <2>4 DEF Granted, RolesFor, MapRoles
  <2>6. Granted' = UNION {rules'[k].roles : k \in mm}
    BY <1>3, <2>3, <2>4 DEF Granted, RolesFor, MapRoles
  <2> QED
    BY <2>2, <2>3, <2>5, <2>6
<1>4. ASSUME rules \in Seq(Rules), [AccessNext]_accessVars
      PROVE  [(Matching(rules, claims) # {} /\ rules' # rules) =>
                Granted \subseteq Granted']_accessVars
  BY <1>3, <1>4
<1> QED
  BY <1>1, <1>2, <1>4, PTL DEF AccessSpec, RulesAccumulate
=============================================================================
