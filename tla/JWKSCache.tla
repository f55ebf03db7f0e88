----------------------------- MODULE JWKSCache -----------------------------
(***************************************************************************)
(* How a request handler of pkg/server obtains the provider's signing keys:*)
(* Server.jwksCacheForIssuer (lazy OIDC discovery under jwksCacheMu) and   *)
(* JWKSCache.Get of pkg/oidc/jwks_cache.go (double-checked refresh under a *)
(* RWMutex), run by concurrent handlers while the provider rotates its     *)
(* keys and may fail to answer.                                            *)
(*                                                                         *)
(* A key set is its version number: the provider serves versions 1, 2, ... *)
(* and 0 is the nil *JWKS.  A critical section without a network call is   *)
(* one step; both network calls are made while the lock is held.           *)
(***************************************************************************)
EXTENDS Integers, FiniteSets

CONSTANTS
    Threads,        \* request handlers
    NoThread,       \* an unlocked mutex
    TTL,            \* c.ttl, in ticks
    FetchTimeout,   \* oidcHTTPClient.Timeout, in ticks
    MaxTime,        \* bound on the clock
    MaxVersions     \* bound on the key sets the provider publishes

ASSUME CacheAssumption ==
    /\ TTL \in Nat \ {0}            \* NewJWKSCache replaces a ttl <= 0
    /\ FetchTimeout \in Nat
    /\ MaxTime \in Nat
    /\ MaxVersions \in Nat \ {0}
    /\ NoThread \notin Threads

VARIABLES
    now,            \* the clock
    keys,           \* external: the version the provider serves
    publishedAt,    \* history: when the provider published each version
    discMu,         \* the holder of s.jwksCacheMu
    discovered,     \* s.jwksCache # nil
    mu,             \* the holder of c.mu as a writer
    jwks,           \* c.jwks
    fetchedAt,      \* c.fetchedAt
    pc, since, resp,    \* a handler: its pc, when its call began, the answer
    ret             \* history: what the call that ended last returned, and when

provider == <<keys, publishedAt>>
vars == <<now, provider, discMu, discovered, mu, jwks, fetchedAt, pc, since,
          resp, ret>>

Versions == 1 .. MaxVersions

PCs == {"idle", "discMu", "discover", "get", "lock", "fetch"}

\* ver = 0 is an error; failed: this call's own fetch failed.
Return == [ver : Nat, failed : BOOLEAN, at : Nat]

TypeOK ==
    /\ now \in Nat
    /\ keys \in Versions
    /\ publishedAt \in [Versions -> Nat]
    /\ discMu \in Threads \cup {NoThread}
    /\ discovered \in BOOLEAN
    /\ mu \in Threads \cup {NoThread}
    /\ jwks \in Nat
    /\ fetchedAt \in Nat
    /\ pc \in [Threads -> PCs]
    /\ since \in [Threads -> Nat]
    /\ resp \in [Threads -> Nat]
    /\ ret \in Return

Init ==
    /\ now = 0
    /\ keys = 1
    /\ publishedAt = [v \in Versions |-> 0]
    /\ discMu = NoThread
    /\ discovered = FALSE
    /\ mu = NoThread
    /\ jwks = 0
    /\ fetchedAt = 0
    /\ pc = [t \in Threads |-> "idle"]
    /\ since = [t \in Threads |-> 0]
    /\ resp = [t \in Threads |-> 0]
    /\ ret = [ver |-> 0, failed |-> FALSE, at |-> 0]

-----------------------------------------------------------------------------
\* validateToken calls jwksCacheForIssuer.
ValidateStart(t) ==
    /\ pc[t] = "idle"
    /\ pc' = [pc EXCEPT ![t] = "discMu"]
    /\ UNCHANGED <<now, provider, discMu, discovered, mu, jwks, fetchedAt,
                   since, resp, ret>>

\* The call returns; its locals go out of scope.
ReturnTo(t, ver, failed) ==
    /\ pc' = [pc EXCEPT ![t] = "idle"]
    /\ since' = [since EXCEPT ![t] = 0]
    /\ resp' = [resp EXCEPT ![t] = 0]
    /\ ret' = [ver |-> ver, failed |-> failed, at |-> now]

(* Server.jwksCacheForIssuer *)

\* The cache exists: lock, look, unlock.
CacheReady(t) ==
    /\ pc[t] = "discMu"
    /\ discMu = NoThread
    /\ discovered
    /\ pc' = [pc EXCEPT ![t] = "get"]
    /\ UNCHANGED <<now, provider, discMu, discovered, mu, jwks, fetchedAt,
                   since, resp, ret>>

\* No cache yet: run discovery while holding jwksCacheMu.
DiscoverStart(t) ==
    /\ pc[t] = "discMu"
    /\ discMu = NoThread
    /\ ~discovered
    /\ discMu' = t
    /\ pc' = [pc EXCEPT ![t] = "discover"]
    /\ since' = [since EXCEPT ![t] = now]
    /\ UNCHANGED <<now, provider, discovered, mu, jwks, fetchedAt, resp, ret>>

DiscoverOK(t) ==
    /\ pc[t] = "discover"
    /\ discovered' = TRUE
    /\ jwks' = 0           \* NewJWKSCache: an empty cache
    /\ fetchedAt' = 0
    /\ discMu' = NoThread
    /\ pc' = [pc EXCEPT ![t] = "get"]
    /\ UNCHANGED <<now, provider, mu, since, resp, ret>>

\* A failed discovery is not cached: the next call tries again.
DiscoverFail(t) ==
    /\ pc[t] = "discover"
    /\ discMu' = NoThread
    /\ ReturnTo(t, 0, TRUE)
    /\ UNCHANGED <<now, provider, discovered, mu, jwks, fetchedAt>>

(* JWKSCache.Get *)

Fresh == jwks # 0 /\ now - fetchedAt < TTL

\* Under RLock: the cached set, if it is younger than the TTL.
FastHit(t) ==
    /\ pc[t] = "get"
    /\ mu = NoThread
    /\ Fresh
    /\ ReturnTo(t, jwks, FALSE)
    /\ UNCHANGED <<now, provider, discMu, discovered, mu, jwks, fetchedAt>>

FastMiss(t) ==
    /\ pc[t] = "get"
    /\ mu = NoThread
    /\ ~Fresh
    /\ pc' = [pc EXCEPT ![t] = "lock"]
    /\ UNCHANGED <<now, provider, discMu, discovered, mu, jwks, fetchedAt,
                   since, resp, ret>>

\* The double check after c.mu.Lock(): another handler refreshed the set.
RecheckHit(t) ==
    /\ pc[t] = "lock"
    /\ mu = NoThread
    /\ Fresh
    /\ ReturnTo(t, jwks, FALSE)
    /\ UNCHANGED <<now, provider, discMu, discovered, mu, jwks, fetchedAt>>

\* Mutant of FetchStart: no second look at the cache under the lock.
FetchStartNoRecheck(t) ==
    /\ pc[t] = "lock"
    /\ mu = NoThread
    /\ mu' = t
    /\ pc' = [pc EXCEPT ![t] = "fetch"]
    /\ since' = [since EXCEPT ![t] = now]
    /\ UNCHANGED <<now, provider, discMu, discovered, jwks, fetchedAt, resp,
                   ret>>

\* Mutant of FetchStart: the lock is not held during the fetch.
FetchStartUnlocked(t) ==
    /\ pc[t] = "lock"
    /\ mu = NoThread
    /\ ~Fresh
    /\ pc' = [pc EXCEPT ![t] = "fetch"]
    /\ since' = [since EXCEPT ![t] = now]
    /\ UNCHANGED <<now, provider, discMu, discovered, mu, jwks, fetchedAt,
                   resp, ret>>

\* Fetch while holding c.mu.
FetchStart(t) ==
    /\ pc[t] = "lock"
    /\ mu = NoThread
    /\ ~Fresh
    /\ mu' = t
    /\ pc' = [pc EXCEPT ![t] = "fetch"]
    /\ since' = [since EXCEPT ![t] = now]
    /\ UNCHANGED <<now, provider, discMu, discovered, jwks, fetchedAt, resp,
                   ret>>

\* External: the provider's answer, with the keys of that moment.
ProviderAnswer(t) ==
    /\ pc[t] = "fetch"
    /\ resp[t] = 0
    /\ resp' = [resp EXCEPT ![t] = keys]
    /\ UNCHANGED <<now, provider, discMu, discovered, mu, jwks, fetchedAt, pc,
                   since, ret>>

\* The answer arrived and decodes: store it, with the time of arrival.
FetchOK(t) ==
    /\ pc[t] = "fetch"
    /\ resp[t] # 0
    /\ jwks' = resp[t]
    /\ fetchedAt' = now
    /\ mu' = NoThread
    /\ ReturnTo(t, resp[t], FALSE)
    /\ UNCHANGED <<now, provider, discMu, discovered>>

\* Mutant of FetchFail: the stale set is stamped as if it were new.
FetchFailRestamp(t) ==
    /\ pc[t] = "fetch"
    /\ mu' = NoThread
    /\ fetchedAt' = now
    /\ ReturnTo(t, jwks, TRUE)
    /\ UNCHANGED <<now, provider, discMu, discovered, jwks>>

\* Mutant of FetchFail: the error is returned although a stale set is there.
FetchFailError(t) ==
    /\ pc[t] = "fetch"
    /\ mu' = NoThread
    /\ ReturnTo(t, 0, TRUE)
    /\ UNCHANGED <<now, provider, discMu, discovered, jwks, fetchedAt>>

\* Mutant of FetchFail: the error path does not unlock.
FetchFailLocked(t) ==
    /\ pc[t] = "fetch"
    /\ ReturnTo(t, jwks, TRUE)
    /\ UNCHANGED <<now, provider, discMu, discovered, mu, jwks, fetchedAt>>

\* Transport error, timeout, cancelled request, bad status or bad JSON: the
\* stale set if there is one, else the error.  fetchedAt stays.
FetchFail(t) ==
    /\ pc[t] = "fetch"
    /\ mu' = NoThread
    /\ ReturnTo(t, jwks, TRUE)
    /\ UNCHANGED <<now, provider, discMu, discovered, jwks, fetchedAt>>

-----------------------------------------------------------------------------
\* External: the provider rotates its keys.
Rotate ==
    /\ keys < MaxVersions
    /\ keys' = keys + 1
    /\ publishedAt' = [publishedAt EXCEPT ![keys + 1] = now]
    /\ UNCHANGED <<now, discMu, discovered, mu, jwks, fetchedAt, pc, since,
                   resp, ret>>

\* The clock; the HTTP client gives up after FetchTimeout.
Tick ==
    /\ now < MaxTime
    /\ \A t \in Threads : pc[t] = "fetch" => now - since[t] < FetchTimeout
    /\ now' = now + 1
    /\ UNCHANGED <<provider, discMu, discovered, mu, jwks, fetchedAt, pc,
                   since, resp, ret>>

DiscoverEnd(t) == DiscoverOK(t) \/ DiscoverFail(t)
FetchEnd(t) == FetchOK(t) \/ FetchFail(t)
EnterDisc(t) == CacheReady(t) \/ DiscoverStart(t)
EnterGet(t) == FastHit(t) \/ FastMiss(t)
EnterLock(t) == RecheckHit(t) \/ FetchStart(t)

Next ==
    \/ \E t \in Threads :
         \/ ValidateStart(t)
         \/ EnterDisc(t)
         \/ DiscoverEnd(t)
         \/ EnterGet(t)
         \/ EnterLock(t)
         \/ ProviderAnswer(t)
         \/ FetchEnd(t)
    \/ Rotate
    \/ Tick

Spec == Init /\ [][Next]_vars

\* Both network calls end, at the latest by the client's timeout, and Go's
\* mutexes do not starve a waiter: strong fairness for taking a lock.
Fairness ==
    \A t \in Threads :
        /\ WF_vars(DiscoverEnd(t))
        /\ WF_vars(FetchEnd(t))
        /\ SF_vars(EnterDisc(t))
        /\ SF_vars(EnterGet(t))
        /\ SF_vars(EnterLock(t))

FairSpec == Spec /\ Fairness

-----------------------------------------------------------------------------
(* Properties *)

\* When a version stopped being the provider's current one (now if it has
\* not).
CurrentUntil(v) == IF v < keys THEN publishedAt[v + 1] ELSE now

\* A key set that Get returns without a failed fetch of its own was the
\* provider's current one less than TTL + FetchTimeout ago: a withdrawn key
\* stops validating tokens within that time, although a set is stamped when
\* it arrives, not when the provider produced it, and two reads of the cache
\* lie between.
RevocationBounded ==
    (ret.ver # 0 /\ ~ret.failed) =>
        CurrentUntil(ret.ver) > ret.at - TTL - FetchTimeout

\* No handler gets an older key set than one that was already returned to
\* some handler: refreshes are not applied out of order.
NoKeyRegression ==
    [][ret'.ver # 0 => ret.ver <= ret'.ver]_vars

\* Handlers that all missed the cache do not all refetch: two successful
\* fetches are at least TTL apart.
RefreshOncePerTTL ==
    [][(jwks # 0 /\ \E t \in Threads : FetchOK(t)) => now - fetchedAt >= TTL]_vars

\* Once a key set was fetched, an unreachable provider does not make Get
\* fail, and the discovered cache is never thrown away by a late discovery.
OutageTolerated ==
    [][jwks # 0 =>
         /\ jwks' # 0
         /\ \A t \in Threads :
              pc[t] \in {"get", "lock", "fetch"} /\ pc'[t] = "idle"
                => ret'.ver # 0]_vars

\* Every validation gets its keys or an error: no handler waits for ever
\* behind the two locks that are held across network calls.
GetReturns ==
    \A t \in Threads : pc[t] # "idle" ~> pc[t] = "idle"

\* The two locks, the double check and the fetches behave as one service that
\* answers in a single step: recent sets, never an older one, the last one
\* again when the provider is down, an error only before the first.
KS == INSTANCE KeyService WITH Delay <- TTL + FetchTimeout,
                               served <- jwks, answer <- ret

ImplementsKeyService == KS!Spec
=============================================================================
