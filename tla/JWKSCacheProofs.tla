-------------------------- MODULE JWKSCacheProofs --------------------------
(***************************************************************************)
(* Theorems about the key cache, for any number of handlers, any TTL and   *)
(* fetch timeout and any number of key sets.                               *)
(*                                                                         *)
(* All of them rest on one invariant.  Its core is that the write lock is  *)
(* held from the second look at the cache to the end of the fetch          *)
(* (WriterOK), so that what was found expired is still expired, and what   *)
(* the provider answered is still newer than the cache, when the answer is *)
(* stored (AnswerOK).                                                      *)
(***************************************************************************)
EXTENDS JWKSCache, TLAPS

\* A handler fetches exactly while it holds c.mu, and discovers exactly while
\* it holds jwksCacheMu.
WriterOK ==
    \A t \in Threads : /\ pc[t] = "fetch" <=> mu = t
                       /\ pc[t] = "discover" <=> discMu = t

\* Without a cache nobody uses it and nothing was returned; discovery runs
\* only then.
DiscoveryOK ==
    /\ \A t \in Threads : pc[t] = "discover" => ~discovered
    /\ ~discovered =>
         /\ jwks = 0
         /\ ret.ver = 0
         /\ \A t \in Threads : pc[t] \notin {"get", "lock", "fetch"}

\* Nothing is dated in the future, and a fetch runs into its timeout.
ClockOK ==
    /\ fetchedAt <= now
    /\ ret.at <= now
    /\ \A v \in Versions : publishedAt[v] <= now
    /\ \A t \in Threads : /\ since[t] <= now
                          /\ pc[t] = "fetch" => now <= since[t] + FetchTimeout

\* During a fetch the cached set is expired.  The provider's answer is not
\* older than it, and was current when the fetch began or later.
AnswerOK ==
    \A t \in Threads :
        /\ pc[t] = "fetch" /\ jwks # 0 => now - fetchedAt >= TTL
        /\ resp[t] # 0 =>
             /\ pc[t] = "fetch"
             /\ resp[t] <= keys
             /\ jwks <= resp[t]
             /\ resp[t] < keys => since[t] <= publishedAt[resp[t] + 1]

\* The cached set was current FetchTimeout before its stamp or later, and no
\* newer set was returned.
CacheOK ==
    /\ jwks <= keys
    /\ jwks # 0 /\ jwks < keys => fetchedAt - FetchTimeout <= publishedAt[jwks + 1]
    /\ ret.ver <= jwks

CInv ==
    /\ TypeOK
    /\ WriterOK
    /\ DiscoveryOK
    /\ ClockOK
    /\ AnswerOK
    /\ CacheOK
    /\ RevocationBounded

-----------------------------------------------------------------------------
LEMMA CInvInit == Init => CInv
<1> SUFFICES ASSUME Init
             PROVE  CInv
  OBVIOUS
<1> USE CacheAssumption
<1>1. TypeOK
  <2>1. keys \in Versions /\ publishedAt \in [Versions -> Nat]
    BY DEF Init, Versions
  <2>2. ret \in Return
    BY DEF Init, Return
  <2> QED
    BY <2>1, <2>2 DEF Init, TypeOK, PCs
<1>2. WriterOK /\ DiscoveryOK
  BY DEF Init, WriterOK, DiscoveryOK
<1>3. ClockOK /\ AnswerOK
  BY DEF Init, ClockOK, AnswerOK
<1>4. CacheOK /\ RevocationBounded
  BY DEF Init, CacheOK, RevocationBounded
<1> QED
  BY <1>1, <1>2, <1>3, <1>4 DEF CInv

\* The invariant is inductive.
LEMMA CInvNext == CInv /\ [Next]_vars => CInv'
<1> SUFFICES ASSUME CInv, [Next]_vars
             PROVE  CInv'
  OBVIOUS
<1> USE CacheAssumption
<1>1. ASSUME NEW t \in Threads, ValidateStart(t)
      PROVE  CInv'
  <2>1. TypeOK'
    BY <1>1 DEF CInv, TypeOK, PCs, ValidateStart, provider
  <2>2. WriterOK'
    BY <1>1 DEF CInv, WriterOK, ValidateStart
  <2>3. DiscoveryOK'
    BY <1>1 DEF CInv, DiscoveryOK, ValidateStart
  <2>4. ClockOK'
    BY <1>1 DEF CInv, ClockOK, ValidateStart, provider
  <2>5. AnswerOK'
    BY <1>1 DEF CInv, AnswerOK, ValidateStart, provider
  <2>6. CacheOK' /\ RevocationBounded'
    BY <1>1 DEF CInv, CacheOK, RevocationBounded, ValidateStart, provider,
           CurrentUntil
  <2> QED
    BY <2>1, <2>2, <2>3, <2>4, <2>5, <2>6 DEF CInv
<1>2. ASSUME NEW t \in Threads, CacheReady(t)
      PROVE  CInv'
  <2>1. TypeOK'
    BY <1>2 DEF CInv, TypeOK, PCs, CacheReady, provider
  <2>2. WriterOK'
    BY <1>2 DEF CInv, WriterOK, CacheReady
  <2>3. DiscoveryOK'
    BY <1>2 DEF CInv, DiscoveryOK, CacheReady
  <2>4. ClockOK'
    BY <1>2 DEF CInv, ClockOK, CacheReady, provider
  <2>5. AnswerOK'
    BY <1>2 DEF CInv, AnswerOK, CacheReady, provider
  <2>6. CacheOK' /\ RevocationBounded'
    BY <1>2 DEF CInv, CacheOK, RevocationBounded, CacheReady, provider,
           CurrentUntil
  <2> QED
    BY <2>1, <2>2, <2>3, <2>4, <2>5, <2>6 DEF CInv
<1>3. ASSUME NEW t \in Threads, DiscoverStart(t)
      PROVE  CInv'
  <2>1. TypeOK'
    BY <1>3 DEF CInv, TypeOK, PCs, DiscoverStart, provider
  <2>2. WriterOK'
    BY <1>3 DEF CInv, TypeOK, WriterOK, DiscoverStart
  <2>3. DiscoveryOK'
    BY <1>3 DEF CInv, DiscoveryOK, DiscoverStart
  <2>4. ClockOK'
    BY <1>3 DEF CInv, TypeOK, ClockOK, DiscoverStart, provider
  <2>5. AnswerOK'
    BY <1>3 DEF CInv, AnswerOK, DiscoverStart, provider
  <2>6. CacheOK' /\ RevocationBounded'
    BY <1>3 DEF CInv, CacheOK, RevocationBounded, DiscoverStart, provider,
           CurrentUntil
  <2> QED
    BY <2>1, <2>2, <2>3, <2>4, <2>5, <2>6 DEF CInv
<1>4. ASSUME NEW t \in Threads, DiscoverOK(t)
      PROVE  CInv'
  <2>1. TypeOK'
    BY <1>4 DEF CInv, TypeOK, PCs, DiscoverOK, provider
  <2>2. WriterOK'
    BY <1>4 DEF CInv, TypeOK, WriterOK, DiscoverOK
  <2>3. DiscoveryOK'
    BY <1>4 DEF CInv, TypeOK, DiscoveryOK, WriterOK, DiscoverOK
  <2>4. ClockOK'
    BY <1>4 DEF CInv, TypeOK, ClockOK, DiscoverOK, provider
  <2>5. AnswerOK'
    BY <1>4 DEF CInv, AnswerOK, DiscoveryOK, DiscoverOK
  <2>6. CacheOK'
    BY <1>4 DEF CInv, CacheOK, DiscoveryOK, DiscoverOK, provider
  <2>7. RevocationBounded'
    BY <1>4 DEF CInv, RevocationBounded, DiscoverOK, provider, CurrentUntil
  <2> QED
    BY <2>1, <2>2, <2>3, <2>4, <2>5, <2>6, <2>7 DEF CInv
<1>5. ASSUME NEW t \in Threads, DiscoverFail(t)
      PROVE  CInv'
  <2>1. TypeOK'
    BY <1>5 DEF CInv, TypeOK, PCs, Return, DiscoverFail, provider, ReturnTo
  <2>2. WriterOK'
    BY <1>5 DEF CInv, TypeOK, WriterOK, DiscoverFail, ReturnTo
  <2>3. DiscoveryOK'
    BY <1>5 DEF CInv, DiscoveryOK, DiscoverFail, ReturnTo
  <2>4. ClockOK'
    BY <1>5 DEF CInv, TypeOK, ClockOK, DiscoverFail, provider, ReturnTo
  <2>5. AnswerOK'
    BY <1>5 DEF CInv, AnswerOK, DiscoverFail, provider, ReturnTo
  <2>6. CacheOK'
    BY <1>5 DEF CInv, CacheOK, DiscoveryOK, DiscoverFail, provider, ReturnTo
  <2>7. RevocationBounded'
    BY <1>5 DEF CInv, RevocationBounded, DiscoverFail, ReturnTo
  <2> QED
    BY <2>1, <2>2, <2>3, <2>4, <2>5, <2>6, <2>7 DEF CInv
<1>6. ASSUME NEW t \in Threads, FastHit(t)
      PROVE  CInv'
  <2>1. TypeOK'
    BY <1>6 DEF CInv, TypeOK, PCs, Return, FastHit, provider, ReturnTo
  <2>2. WriterOK'
    BY <1>6 DEF CInv, WriterOK, FastHit, ReturnTo
  <2>3. DiscoveryOK'
    BY <1>6 DEF CInv, DiscoveryOK, FastHit, ReturnTo
  <2>4. ClockOK'
    BY <1>6 DEF CInv, TypeOK, ClockOK, FastHit, provider, ReturnTo
  <2>5. AnswerOK'
    BY <1>6 DEF CInv, AnswerOK, FastHit, provider, ReturnTo
  <2>6. CacheOK'
    BY <1>6 DEF CInv, TypeOK, CacheOK, FastHit, provider, ReturnTo
  <2>7. RevocationBounded'
    BY <1>6 DEF CInv, TypeOK, RevocationBounded, CurrentUntil, CacheOK,
           Versions, FastHit, provider, ReturnTo, Fresh
  <2> QED
    BY <2>1, <2>2, <2>3, <2>4, <2>5, <2>6, <2>7 DEF CInv
<1>7. ASSUME NEW t \in Threads, FastMiss(t)
      PROVE  CInv'
  <2>1. TypeOK'
    BY <1>7 DEF CInv, TypeOK, PCs, FastMiss, provider
  <2>2. WriterOK'
    BY <1>7 DEF CInv, WriterOK, FastMiss
  <2>3. DiscoveryOK'
    BY <1>7 DEF CInv, DiscoveryOK, FastMiss
  <2>4. ClockOK'
    BY <1>7 DEF CInv, ClockOK, FastMiss, provider
  <2>5. AnswerOK'
    BY <1>7 DEF CInv, AnswerOK, FastMiss, provider
  <2>6. CacheOK' /\ RevocationBounded'
    BY <1>7 DEF CInv, CacheOK, RevocationBounded, FastMiss, provider,
           CurrentUntil
  <2> QED
    BY <2>1, <2>2, <2>3, <2>4, <2>5, <2>6 DEF CInv
<1>8. ASSUME NEW t \in Threads, RecheckHit(t)
      PROVE  CInv'
  <2>1. TypeOK'
    BY <1>8 DEF CInv, TypeOK, PCs, Return, RecheckHit, provider, ReturnTo
  <2>2. WriterOK'
    BY <1>8 DEF CInv, WriterOK, RecheckHit, ReturnTo
  <2>3. DiscoveryOK'
    BY <1>8 DEF CInv, DiscoveryOK, RecheckHit, ReturnTo
  <2>4. ClockOK'
    BY <1>8 DEF CInv, TypeOK, ClockOK, RecheckHit, provider, ReturnTo
  <2>5. AnswerOK'
    BY <1>8 DEF CInv, AnswerOK, RecheckHit, provider, ReturnTo
  <2>6. CacheOK'
    BY <1>8 DEF CInv, TypeOK, CacheOK, RecheckHit, provider, ReturnTo
  <2>7. RevocationBounded'
    BY <1>8 DEF CInv, TypeOK, RevocationBounded, CurrentUntil, CacheOK,
           Versions, RecheckHit, provider, ReturnTo, Fresh
  <2> QED
    BY <2>1, <2>2, <2>3, <2>4, <2>5, <2>6, <2>7 DEF CInv
<1>9. ASSUME NEW t \in Threads, FetchStart(t)
      PROVE  CInv'
  <2>1. TypeOK'
    BY <1>9 DEF CInv, TypeOK, PCs, FetchStart, provider
  <2>2. WriterOK'
    BY <1>9 DEF CInv, TypeOK, WriterOK, FetchStart
  <2>3. DiscoveryOK'
    BY <1>9 DEF CInv, DiscoveryOK, FetchStart
  <2>4. ClockOK'
    BY <1>9 DEF CInv, TypeOK, ClockOK, FetchStart, provider
  <2>5. AnswerOK'
    BY <1>9 DEF CInv, TypeOK, AnswerOK, FetchStart, provider, Fresh
  <2>6. CacheOK' /\ RevocationBounded'
    BY <1>9 DEF CInv, CacheOK, RevocationBounded, FetchStart, provider,
           CurrentUntil
  <2> QED
    BY <2>1, <2>2, <2>3, <2>4, <2>5, <2>6 DEF CInv
<1>10. ASSUME NEW t \in Threads, ProviderAnswer(t)
      PROVE  CInv'
  <2>1. TypeOK'
    BY <1>10 DEF CInv, TypeOK, Versions, ProviderAnswer, provider
  <2>2. AnswerOK'
    BY <1>10 DEF CInv, TypeOK, AnswerOK, CacheOK, Versions, ProviderAnswer,
           provider
  <2>3. WriterOK' /\ DiscoveryOK' /\ ClockOK' /\ CacheOK' /\ RevocationBounded'
    BY <1>10 DEF CInv, WriterOK, DiscoveryOK, ClockOK, CacheOK,
           RevocationBounded, ProviderAnswer, provider, CurrentUntil
  <2> QED
    BY <2>1, <2>2, <2>3 DEF CInv
<1>11. ASSUME NEW t \in Threads, FetchOK(t)
      PROVE  CInv'
  <2>1. TypeOK'
    BY <1>11 DEF CInv, TypeOK, PCs, Return, FetchOK, provider, ReturnTo
  <2>2. WriterOK'
    BY <1>11 DEF CInv, TypeOK, WriterOK, FetchOK, ReturnTo
  <2>3. DiscoveryOK'
    BY <1>11 DEF CInv, DiscoveryOK, FetchOK, ReturnTo
  <2>4. ClockOK'
    BY <1>11 DEF CInv, TypeOK, ClockOK, FetchOK, provider, ReturnTo
  <2>5. AnswerOK'
    BY <1>11 DEF CInv, TypeOK, AnswerOK, WriterOK, FetchOK, ReturnTo
  <2>6. /\ jwks' = resp[t] /\ fetchedAt' = now /\ now' = now /\ now \in Nat
        /\ keys' = keys /\ publishedAt' = publishedAt
        /\ ret' = [ver |-> resp[t], failed |-> FALSE, at |-> now]
        /\ pc[t] = "fetch" /\ resp[t] # 0
        /\ resp[t] \in Nat /\ since[t] \in Nat
    BY <1>11 DEF CInv, TypeOK, FetchOK, provider, ReturnTo
  <2>7. /\ resp[t] <= keys
        /\ resp[t] < keys => since[t] <= publishedAt[resp[t] + 1]
        /\ now <= since[t] + FetchTimeout
    BY <2>6 DEF CInv, AnswerOK, ClockOK
  <2>8. keys \in Nat /\ (resp[t] < keys => publishedAt[resp[t] + 1] \in Nat)
    BY <2>6 DEF CInv, TypeOK, Versions
  <2>9. resp[t] < keys => now - FetchTimeout <= publishedAt[resp[t] + 1]
    BY <2>6, <2>7, <2>8
  <2>10. CacheOK'
    BY <2>6, <2>7, <2>9 DEF CacheOK
  <2>11. RevocationBounded'
    <3>1. CASE resp[t] < keys
      <4>1. publishedAt[resp[t] + 1] > now - TTL - FetchTimeout
        BY <2>6, <2>8, <2>9, <3>1
      <4> QED
        BY <2>6, <3>1, <4>1 DEF RevocationBounded, CurrentUntil
    <3>2. CASE ~(resp[t] < keys)
      <4>1. now > now - TTL - FetchTimeout
        BY <2>6
      <4> QED
        BY <2>6, <3>2, <4>1 DEF RevocationBounded, CurrentUntil
    <3> QED
      BY <3>1, <3>2
  <2> QED
    BY <2>1, <2>2, <2>3, <2>4, <2>5, <2>10, <2>11 DEF CInv
<1>12. ASSUME NEW t \in Threads, FetchFail(t)
      PROVE  CInv'
  <2>1. TypeOK'
    BY <1>12 DEF CInv, TypeOK, PCs, Return, FetchFail, provider, ReturnTo
  <2>2. WriterOK'
    BY <1>12 DEF CInv, TypeOK, WriterOK, FetchFail, ReturnTo
  <2>3. DiscoveryOK'
    BY <1>12 DEF CInv, DiscoveryOK, FetchFail, ReturnTo
  <2>4. ClockOK'
    BY <1>12 DEF CInv, TypeOK, ClockOK, FetchFail, provider, ReturnTo
  <2>5. AnswerOK'
    BY <1>12 DEF CInv, TypeOK, AnswerOK, FetchFail, provider, ReturnTo
  <2>6. CacheOK'
    BY <1>12 DEF CInv, TypeOK, CacheOK, FetchFail, provider, ReturnTo
  <2>7. RevocationBounded'
    BY <1>12 DEF CInv, RevocationBounded, FetchFail, ReturnTo
  <2> QED
    BY <2>1, <2>2, <2>3, <2>4, <2>5, <2>6, <2>7 DEF CInv
<1>13. CASE Rotate
  <2>1. TypeOK'
    BY <1>13 DEF CInv, TypeOK, Versions, Rotate
  <2>2. ClockOK'
    BY <1>13 DEF CInv, TypeOK, ClockOK, Rotate
  <2>3. AnswerOK'
    <3> SUFFICES ASSUME NEW t \in Threads
                 PROVE  /\ pc[t] = "fetch" /\ jwks # 0 => now - fetchedAt >= TTL
                        /\ resp[t] # 0 =>
                             /\ pc[t] = "fetch"
                             /\ resp[t] <= keys + 1
                             /\ jwks <= resp[t]
                             /\ resp[t] < keys + 1 => since[t] <= publishedAt'[resp[t] + 1]
      BY <1>13 DEF AnswerOK, Rotate
    <3>1. /\ resp[t] \in Nat /\ since[t] \in Nat /\ since[t] <= now
          /\ keys \in Versions /\ keys + 1 \in Versions
          /\ publishedAt \in [Versions -> Nat]
      BY <1>13 DEF CInv, TypeOK, ClockOK, Versions, Rotate
    <3>2. publishedAt'[keys + 1] = now
      BY <1>13, <3>1 DEF Rotate
    <3>3. ASSUME resp[t] # 0, resp[t] < keys
          PROVE  publishedAt'[resp[t] + 1] = publishedAt[resp[t] + 1]
      BY <1>13, <3>1, <3>3 DEF Versions, Rotate
    <3> QED
      BY <3>1, <3>2, <3>3 DEF CInv, AnswerOK, Versions
  <2>4. CacheOK'
    BY <1>13 DEF CInv, TypeOK, CacheOK, ClockOK, Versions, Rotate
  <2>5. RevocationBounded'
    <3> SUFFICES ASSUME ret.ver # 0, ~ret.failed
                 PROVE  CurrentUntil(ret.ver)' > ret.at - TTL - FetchTimeout
      BY <1>13 DEF RevocationBounded, Rotate
    <3>1. /\ keys' = keys + 1 /\ UNCHANGED <<now, ret>>
          /\ publishedAt' = [publishedAt EXCEPT ![keys + 1] = now]
      BY <1>13 DEF Rotate
    <3>2. /\ ret.ver \in Nat /\ ret.ver <= keys
          /\ keys \in Versions /\ keys + 1 \in Versions
          /\ publishedAt \in [Versions -> Nat] /\ now \in Nat
      BY <1>13 DEF CInv, TypeOK, CacheOK, Return, Versions, Rotate
    <3>3. CurrentUntil(ret.ver) > ret.at - TTL - FetchTimeout
      BY DEF CInv, RevocationBounded
    <3>4. CASE ret.ver < keys
      <4>1. ret.ver + 1 \in Versions /\ ret.ver + 1 # keys + 1
        BY <3>2, <3>4 DEF Versions
      <4>2. CurrentUntil(ret.ver)' = CurrentUntil(ret.ver)
        BY <3>1, <3>2, <3>4, <4>1 DEF CurrentUntil, Versions
      <4> QED
        BY <3>3, <4>2
    <3>5. CASE ret.ver = keys
      <4>1. CurrentUntil(ret.ver)' = now /\ CurrentUntil(ret.ver) = now
        BY <3>1, <3>2, <3>5 DEF CurrentUntil, Versions
      <4> QED
        BY <3>3, <4>1
    <3> QED
      BY <3>2, <3>4, <3>5 DEF Versions
  <2>6. WriterOK' /\ DiscoveryOK'
    BY <1>13 DEF CInv, WriterOK, DiscoveryOK, Rotate
  <2> QED
    BY <2>1, <2>2, <2>3, <2>4, <2>5, <2>6 DEF CInv
<1>14. CASE Tick
  <2>1. TypeOK'
    BY <1>14 DEF CInv, TypeOK, Tick, provider
  <2>2. ClockOK'
    BY <1>14 DEF CInv, TypeOK, ClockOK, Return, Tick, provider
  <2>3. AnswerOK'
    BY <1>14 DEF CInv, TypeOK, AnswerOK, Tick, provider
  <2>4. RevocationBounded'
    BY <1>14 DEF CInv, TypeOK, RevocationBounded, CurrentUntil, Return, Tick,
           provider
  <2>5. WriterOK' /\ DiscoveryOK' /\ CacheOK'
    BY <1>14 DEF CInv, WriterOK, DiscoveryOK, CacheOK, Tick, provider
  <2> QED
    BY <2>1, <2>2, <2>3, <2>4, <2>5 DEF CInv
<1>15. CASE UNCHANGED vars
  BY <1>15 DEF CInv, TypeOK, WriterOK, DiscoveryOK, ClockOK, AnswerOK,
         CacheOK, RevocationBounded, CurrentUntil, vars, provider
<1> QED
  BY <1>1, <1>2, <1>3, <1>4, <1>5, <1>6, <1>7, <1>8, <1>9, <1>10, <1>11,
     <1>12, <1>13, <1>14, <1>15
     DEF Next, EnterDisc, DiscoverEnd, EnterGet, EnterLock, FetchEnd

-----------------------------------------------------------------------------
(* The theorems *)

THEOREM CacheInductive == Spec => []CInv
<1>1. Init => CInv
  BY CInvInit
<1>2. CInv /\ [Next]_vars => CInv'
  BY CInvNext
<1> QED
  BY <1>1, <1>2, PTL DEF Spec

\* The cache and its handlers keep their data well formed: fetchedAt and the
\* versions stay natural numbers, whatever fetch fails.
THEOREM CacheTypeCorrect == Spec => []TypeOK
<1>1. CInv => TypeOK
  BY DEF CInv
<1> QED
  BY <1>1, CacheInductive, PTL

\* JWKSCache.Get never returns, without having reported a failed fetch, a key
\* set that was withdrawn TTL + FetchTimeout ago.
THEOREM RevocationIsBounded == Spec => []RevocationBounded
<1>1. CInv => RevocationBounded
  BY DEF CInv
<1> QED
  BY <1>1, CacheInductive, PTL

\* Two successful fetches are TTL apart: the double check in Get works.
THEOREM RefreshesOncePerTTL == Spec => RefreshOncePerTTL
<1>1. CInv => [(jwks # 0 /\ \E t \in Threads : FetchOK(t))
                 => now - fetchedAt >= TTL]_vars
  BY DEF CInv, AnswerOK, FetchOK
<1> QED
  BY <1>1, CacheInductive, PTL DEF RefreshOncePerTTL

\* Get never hands out an older set than it handed out before.
THEOREM KeysNeverRegress == Spec => NoKeyRegression
<1>1. CInv /\ [Next]_vars => [ret'.ver # 0 => ret.ver <= ret'.ver]_vars
  <2> SUFFICES ASSUME CInv, Next, ret'.ver # 0
               PROVE  ret.ver <= ret'.ver
    BY DEF vars
  <2>1. ret.ver \in Nat
    BY DEF CInv, TypeOK, Return
  <2>2. ASSUME NEW t \in Threads, FetchOK(t)
        PROVE  ret.ver <= ret'.ver
    BY <2>1, <2>2 DEF CInv, TypeOK, CacheOK, AnswerOK, FetchOK, ReturnTo
  <2>3. ASSUME NEW t \in Threads, FetchFail(t) \/ FastHit(t) \/ RecheckHit(t)
        PROVE  ret.ver <= ret'.ver
    BY <2>3 DEF CInv, CacheOK, FetchFail, FastHit, RecheckHit, ReturnTo
  <2>4. ASSUME NEW t \in Threads, DiscoverFail(t)
        PROVE  ret.ver <= ret'.ver
    BY <2>4 DEF DiscoverFail, ReturnTo
  <2>5. CASE UNCHANGED ret
    BY <2>1, <2>5
  <2> QED
    BY <2>2, <2>3, <2>4, <2>5
       DEF Next, EnterDisc, DiscoverEnd, EnterGet, EnterLock, FetchEnd,
           ValidateStart, CacheReady, DiscoverStart, DiscoverOK, FastMiss,
           FetchStart, ProviderAnswer, Rotate, Tick
<1> QED
  BY <1>1, CacheInductive, PTL DEF Spec, NoKeyRegression

\* Once a key set was fetched, Get does not fail any more.
THEOREM OutagesTolerated == Spec => OutageTolerated
<1> DEFINE Served ==
      jwks # 0 =>
         /\ jwks' # 0
         /\ \A t \in Threads :
              pc[t] \in {"get", "lock", "fetch"} /\ pc'[t] = "idle"
                => ret'.ver # 0
<1>1. CInv /\ [Next]_vars => [Served]_vars
  <2> SUFFICES ASSUME CInv, Next, jwks # 0
               PROVE  /\ jwks' # 0
                      /\ \A t \in Threads :
                           pc[t] \in {"get", "lock", "fetch"} /\ pc'[t] = "idle"
                             => ret'.ver # 0
    OBVIOUS
  <2>1. /\ pc \in [Threads -> PCs]
        /\ \A t \in Threads : pc[t] # "discover"
    BY DEF CInv, TypeOK, DiscoveryOK
  <2>2. ASSUME NEW t \in Threads,
               FetchOK(t) \/ FetchFail(t) \/ FastHit(t) \/ RecheckHit(t)
        PROVE  jwks' # 0 /\ ret'.ver # 0
    BY <2>2 DEF FetchOK, FetchFail, FastHit, RecheckHit, ReturnTo
  <2>3. ASSUME NEW t \in Threads,
               \/ ValidateStart(t) \/ CacheReady(t) \/ DiscoverStart(t)
               \/ FastMiss(t) \/ FetchStart(t) \/ ProviderAnswer(t)
        PROVE  /\ jwks' # 0
               /\ \A s \in Threads : pc'[s] = "idle" => pc[s] = "idle"
    BY <2>1, <2>3 DEF ValidateStart, CacheReady, DiscoverStart, FastMiss,
                      FetchStart, ProviderAnswer
  <2>4. CASE Rotate \/ Tick
    BY <2>4 DEF Rotate, Tick
  <2> QED
    BY <2>1, <2>2, <2>3, <2>4
       DEF Next, EnterDisc, DiscoverEnd, EnterGet, EnterLock, FetchEnd,
           DiscoverOK, DiscoverFail
<1> QED
  BY <1>1, CacheInductive, PTL DEF Spec, OutageTolerated

-----------------------------------------------------------------------------
(* Refinement: the cache implements KeyService *)

\* A handler that gets a set without a failed fetch of its own makes the
\* service's step Answer.
LEMMA HitAnswers ==
    ASSUME CInv, CInv',
           NEW v \in Nat, v # 0, jwks <= v, v <= keys,
           jwks' = v, ret' = [ver |-> v, failed |-> FALSE, at |-> now],
           UNCHANGED <<now, keys, publishedAt>>
    PROVE  KS!Answer
<1>1. /\ keys \in Nat /\ now \in Nat /\ v \in 1 .. keys
      /\ publishedAt \in [Versions -> Nat] /\ keys \in Versions
  <2>1. now \in Nat /\ keys \in Versions /\ publishedAt \in [Versions -> Nat]
    BY DEF CInv, TypeOK
  <2> QED
    BY <2>1, CacheAssumption DEF Versions
<1>2. v < keys => publishedAt[v + 1] > now - TTL - FetchTimeout
  <2>1. /\ ret'.ver = v /\ ~ret'.failed /\ ret'.at = now
        /\ keys' = keys /\ publishedAt' = publishedAt
    OBVIOUS
  <2> QED
    BY <2>1 DEF CInv, RevocationBounded, CurrentUntil
<1>3. KS!Recent(v)
  <2>1. CASE v = keys
    BY <2>1 DEF KS!Recent
  <2>2. CASE v < keys
    <3>1. publishedAt[v + 1] \in Nat
      BY <1>1, <2>2, CacheAssumption DEF Versions
    <3> QED
      BY <1>1, <1>2, <2>2, <3>1, CacheAssumption DEF KS!Recent
  <2> QED
    BY <1>1, <2>1, <2>2
<1>4. KS!Give(v, FALSE)
  BY DEF KS!Give
<1> QED
  BY <1>1, <1>3, <1>4 DEF KS!Answer

\* Every step of the cache is a step of the service, or leaves it alone.
LEMMA StepRefines == CInv /\ CInv' /\ [Next]_vars => [KS!Next]_(KS!vars)
<1> SUFFICES ASSUME CInv, CInv', [Next]_vars
             PROVE  KS!Next \/ UNCHANGED <<now, keys, publishedAt, jwks, ret>>
  BY DEF KS!vars
<1>1. /\ jwks \in Nat /\ keys \in Nat /\ jwks <= keys
      /\ \A t \in Threads : resp[t] \in Nat
  BY DEF CInv, TypeOK, CacheOK, Versions
<1>2. ASSUME NEW t \in Threads, FastHit(t) \/ RecheckHit(t)
      PROVE  KS!Answer
  BY <1>1, <1>2, HitAnswers DEF FastHit, RecheckHit, Fresh, ReturnTo, provider
<1>3. ASSUME NEW t \in Threads, FetchOK(t)
      PROVE  KS!Answer
  <2>1. jwks <= resp[t] /\ resp[t] <= keys /\ resp[t] # 0
    BY <1>3 DEF CInv, AnswerOK, FetchOK
  <2> QED
    BY <1>1, <1>3, <2>1, HitAnswers DEF FetchOK, ReturnTo, provider
<1>4. ASSUME NEW t \in Threads, FetchFail(t)
      PROVE  KS!Outage
  BY <1>4 DEF FetchFail, ReturnTo, provider, KS!Outage, KS!Give
<1>5. ASSUME NEW t \in Threads, DiscoverFail(t)
      PROVE  KS!Outage
  <2>1. jwks = 0
    BY <1>5 DEF CInv, DiscoveryOK, DiscoverFail
  <2> QED
    BY <1>5, <2>1 DEF DiscoverFail, ReturnTo, provider, KS!Outage, KS!Give
<1>6. ASSUME NEW t \in Threads, DiscoverOK(t)
      PROVE  UNCHANGED <<now, keys, publishedAt, jwks, ret>>
  <2>1. jwks = 0
    BY <1>6 DEF CInv, DiscoveryOK, DiscoverOK
  <2> QED
    BY <1>6, <2>1 DEF DiscoverOK, provider
<1>7. ASSUME NEW t \in Threads,
             \/ ValidateStart(t) \/ CacheReady(t) \/ DiscoverStart(t)
             \/ FastMiss(t) \/ FetchStart(t) \/ ProviderAnswer(t)
      PROVE  UNCHANGED <<now, keys, publishedAt, jwks, ret>>
  BY <1>7 DEF ValidateStart, CacheReady, DiscoverStart, FastMiss, FetchStart,
              ProviderAnswer, provider
<1>8. CASE Rotate
  BY <1>8 DEF Rotate, KS!Rotate, KS!Next
<1>9. CASE Tick
  BY <1>9 DEF Tick, provider, KS!Tick, KS!Next
<1>10. CASE UNCHANGED vars
  BY <1>10 DEF vars, provider
<1> QED
  BY <1>2, <1>3, <1>4, <1>5, <1>6, <1>7, <1>8, <1>9, <1>10
     DEF Next, EnterDisc, DiscoverEnd, EnterGet, EnterLock, FetchEnd, KS!Next

\* The cache with its locks and fetches implements the atomic key service: a
\* validation may reason as if each answer were one step.
THEOREM CacheImplementsKeyService == Spec => ImplementsKeyService
<1>1. Init => KS!Init
  BY DEF Init, KS!Init, Versions
<1>2. CInv /\ CInv' /\ [Next]_vars => [KS!Next]_(KS!vars)
  BY StepRefines
<1> QED
  BY <1>1, <1>2, CacheInductive, PTL DEF Spec, ImplementsKeyService, KS!Spec
=============================================================================
