------------------------ MODULE AdminDashboardProofs ------------------------
(***************************************************************************)
(* Theorems about AdminDashboard, for every value of its constants: any    *)
(* number of handlers and addresses, any limits.                           *)
(***************************************************************************)
EXTENDS AdminDashboard, FiniteSetTheorems, SequenceTheorems, TLAPS

\* The handlers that are past the check and have not compared their token.
Comparing(a) == {t \in Threads : pc[t] = "compare" /\ ip[t] = a}

\* A handler of a login has an address; one that uses the store found it or
\* made it.
Placed ==
    \A t \in Threads :
        /\ pc[t] \in {"bfInit", "isLockedOut", "compare"} => ip[t] \in Addresses
        /\ pc[t] \in {"create", "validate"} => adminSessions

\* What an entry counts covers the recent guesses, and is covered by the
\* wrong tokens since a right one.
CountedAt(a) ==
    /\ attempts[a].lastFail <= now
    /\ Len(guesses[a]) <= attempts[a].count
    /\ \A i \in 1 .. Len(guesses[a]) : guesses[a][i] <= attempts[a].lastFail
    /\ Len(guesses[a]) > 0 => now - attempts[a].lastFail <= Window
    /\ wrong[a] < MaxAttempts => attempts[a].count <= wrong[a]

Counted == \A a \in Addresses : CountedAt(a)

\* While an address is locked out, only handlers that were past the check add
\* to its count.
Fenced ==
    \A a \in Addresses :
        LockedOut(a) => attempts[a].count + Cardinality(Comparing(a))
                          <= MaxAttempts + Cardinality(Threads) - 1

\* A cookie that was dead when its request began is dead until it is checked.
Dead ==
    \A t \in Threads : stale[t] =>
        /\ pc[t] \in {"dashInit", "validate"}
        /\ token[t] \notin sessions \/ Expired(token[t])

LoggedOut == sessions \cap closed = {}

Core == TypeOK /\ Placed /\ Counted /\ Fenced /\ Dead /\ LoggedOut

-----------------------------------------------------------------------------

\* What getClientIP returns is an address, whatever the headers.
LEMMA ClientsAreAddresses == Clients \subseteq Addresses
<1>1. ASSUME NEW h \in Headers, h # <<>> PROVE h[1] \in Addresses
  BY <1>1 DEF Headers
<1> QED
  BY <1>1 DEF Clients, getClientIP

\* recordFailed keeps an entry locked out exactly while it counts MaxAttempts
\* failures, and dates a lockout by the last of them.
LEMMA FailedEntry ==
    ASSUME NEW e \in Attempt, now \in Nat,
           e.lockedOut <=> e.count >= MaxAttempts
    PROVE  /\ Failed(e) \in Attempt
           /\ Failed(e).lockedOut <=> Failed(e).count >= MaxAttempts
           /\ Failed(e).lockedOut => Failed(e).lockoutAt = now
           /\ Failed(e).lastFail = now
           /\ Failed(e).count = IF now - e.lastFail > Window THEN 1 ELSE e.count + 1
<1> DEFINE restart == now - e.lastFail > Window
           count == IF restart THEN 1 ELSE e.count + 1
           locks == count >= MaxAttempts
<1>1. /\ e.count \in Nat /\ e.lastFail \in Nat /\ e.lockedOut \in BOOLEAN /\ e.lockoutAt \in Nat
      /\ MaxAttempts \in Nat /\ MaxAttempts >= 1
  BY AdminAssumption DEF Attempt
<1>2. count \in Nat /\ locks \in BOOLEAN
  BY <1>1
<1>3. (locks \/ (e.lockedOut /\ ~restart)) <=> locks
  BY <1>1
<1>4. Failed(e) = [count |-> count, lastFail |-> now, lockedOut |-> locks,
                   lockoutAt |-> IF locks THEN now ELSE e.lockoutAt]
  <2> HIDE DEF locks, restart
  <2> QED
    BY <1>3 DEF Failed, locks, restart
<1> HIDE DEF locks
<1>5. Failed(e) \in Attempt
  BY <1>1, <1>2, <1>4 DEF Attempt
<1>6. /\ Failed(e).lockedOut = locks /\ Failed(e).count = count /\ Failed(e).lastFail = now
      /\ Failed(e).lockoutAt = IF locks THEN now ELSE e.lockoutAt
  BY <1>4
<1> QED
  BY <1>5, <1>6 DEF locks

\* What is recent of a list of guesses is part of the list, and nothing if
\* all of them are old.
LEMMA RecentFacts ==
    ASSUME NEW gs \in Seq(Nat), NEW time \in Nat
    PROVE  /\ RecentAt(time, gs) \in Seq(Nat)
           /\ Len(RecentAt(time, gs)) <= Len(gs)
           /\ \A i \in 1 .. Len(RecentAt(time, gs)) :
                \E j \in 1 .. Len(gs) : RecentAt(time, gs)[i] = gs[j]
           /\ (\A i \in 1 .. Len(gs) : time - gs[i] > Window) => Len(RecentAt(time, gs)) = 0
<1> DEFINE old == {i \in 1 .. Len(gs) : time - gs[i] > Window}
           k == Cardinality(old)
<1>1. Len(gs) \in Nat /\ IsFiniteSet(1 .. Len(gs)) /\ Cardinality(1 .. Len(gs)) = Len(gs)
  <2>1. Len(gs) \in Nat
    OBVIOUS
  <2> DEFINE n == Len(gs)
  <2>2. /\ IsFiniteSet(1 .. n)
        /\ Cardinality(1 .. n) = IF 1 > n THEN 0 ELSE n - 1 + 1
    BY <2>1, FS_Interval
  <2> QED
    BY <2>1, <2>2
<1>2. k \in Nat /\ k <= Len(gs)
  <2>1. old \subseteq 1 .. Len(gs)
    OBVIOUS
  <2> QED
    BY <1>1, <2>1, FS_Subset, FS_CardinalityType
<1>3. (\A i \in 1 .. Len(gs) : time - gs[i] > Window) => k = Len(gs)
  <2>1. (\A i \in 1 .. Len(gs) : time - gs[i] > Window) => old = 1 .. Len(gs)
    OBVIOUS
  <2> QED
    BY <1>1, <2>1
<1>4. RecentAt(time, gs) = SubSeq(gs, k + 1, Len(gs))
  BY DEF RecentAt
<1> HIDE DEF k
<1>5. \A i \in (k + 1) .. Len(gs) : gs[i] \in Nat
  BY <1>2
<1>6. /\ SubSeq(gs, k + 1, Len(gs)) \in Seq(Nat)
      /\ Len(SubSeq(gs, k + 1, Len(gs))) = IF k + 1 <= Len(gs) THEN Len(gs) - (k + 1) + 1 ELSE 0
      /\ \A i \in 1 .. (Len(gs) - (k + 1) + 1) : SubSeq(gs, k + 1, Len(gs))[i] = gs[(k + 1) + i - 1]
  <2>1. k + 1 \in Int /\ Len(gs) \in Int
    BY <1>1, <1>2
  <2> QED
    BY <1>5, <2>1, SubSeqProperties
<1>7. ASSUME NEW i \in 1 .. Len(RecentAt(time, gs))
      PROVE  \E j \in 1 .. Len(gs) : RecentAt(time, gs)[i] = gs[j]
  <2>1. i + k \in 1 .. Len(gs) /\ i \in 1 .. (Len(gs) - (k + 1) + 1) /\ (k + 1) + i - 1 = i + k
    BY <1>1, <1>2, <1>4, <1>6
  <2> QED
    BY <1>4, <1>6, <2>1
<1> QED
  BY <1>1, <1>2, <1>3, <1>4, <1>6, <1>7

\* A handler that goes on, or returns, leaves the others where they are.
LEMMA Moved ==
    ASSUME TypeOK, NEW t \in Threads, NEW next \in PCs, pc' = [pc EXCEPT ![t] = next]
    PROVE  /\ pc' \in [Threads -> PCs] /\ pc'[t] = next
           /\ \A u \in Threads \ {t} : pc'[u] = pc[u]
  BY DEF TypeOK

LEMMA Returned ==
    ASSUME TypeOK, NEW t \in Threads, Return(t)
    PROVE  /\ pc' \in [Threads -> PCs] /\ pc'[t] = "idle"
           /\ \A u \in Threads \ {t} : /\ pc'[u] = pc[u] /\ ip'[u] = ip[u]
                                       /\ token'[u] = token[u] /\ stale'[u] = stale[u]
           /\ ip' \in [Threads -> Addresses \cup {NoAddress}]
           /\ token' \in [Threads -> 0 .. issued] /\ stale' \in [Threads -> BOOLEAN]
           /\ token'[t] = 0 /\ ~stale'[t] /\ ip'[t] = NoAddress
<1>1. "idle" \in PCs
  BY DEF PCs
<1>2. /\ pc' \in [Threads -> PCs] /\ pc'[t] = "idle"
      /\ \A u \in Threads \ {t} : pc'[u] = pc[u]
  BY <1>1, Moved DEF Return
<1>3. /\ ip' \in [Threads -> Addresses \cup {NoAddress}] /\ ip'[t] = NoAddress
      /\ \A u \in Threads \ {t} : ip'[u] = ip[u]
  BY DEF Return, TypeOK
<1>4. /\ token' \in [Threads -> 0 .. issued] /\ token'[t] = 0
      /\ \A u \in Threads \ {t} : token'[u] = token[u]
  BY DEF Return, TypeOK
<1>5. /\ stale' \in [Threads -> BOOLEAN] /\ ~stale'[t]
      /\ \A u \in Threads \ {t} : stale'[u] = stale[u]
  BY DEF Return, TypeOK
<1> QED
  BY <1>2, <1>3, <1>4, <1>5

\* What a step does to the table of failed attempts.
LEMMA LockoutSteps ==
    ASSUME Next
    PROVE  \/ UNCHANGED <<attempts, guesses, wrong, now, bruteForce>>
           \/ Tick
           \/ \E t \in Threads : BruteForceInit(t)
           \/ \E t \in Threads : /\ pc[t] = "compare" /\ now' = now
                               /\ Return(t) /\ recordFailed(ip[t])
           \/ \E t \in Threads : /\ pc[t] = "compare" /\ now' = now
                               /\ Goto(t, "signIn") /\ recordSuccess(ip[t])
<1>1. ASSUME NEW t \in Threads, Handler(t)
      PROVE  \/ UNCHANGED <<attempts, guesses, wrong, now, bruteForce>>
             \/ BruteForceInit(t)
             \/ /\ pc[t] = "compare" /\ now' = now
                /\ \/ Return(t) /\ recordFailed(ip[t])
                   \/ Goto(t, "signIn") /\ recordSuccess(ip[t])
  BY <1>1 DEF Handler, Login, BruteForceInit, CheckLockout, Compare, SignIn, SessionsInit,
              Create, Dashboard, Validate, Show, Logout, API, lockouts
<1> QED
  BY <1>1 DEF Next

\* The part of TypeOK about the table of failed attempts.
Entries ==
    /\ now \in Nat /\ bruteForce \in BOOLEAN
    /\ attempts \in [Addresses -> Attempt]
    /\ guesses \in [Addresses -> Seq(Nat)]
    /\ wrong \in [Addresses -> 0 .. MaxAttempts]
    /\ \A a \in Addresses : LET e == attempts[a] IN
          /\ e.lockedOut <=> e.count >= MaxAttempts
          /\ e.lockedOut => e.lockoutAt = e.lastFail

LEMMA EntriesStep ==
    ASSUME TypeOK, Placed, Next
    PROVE  Entries'
<1>1. /\ now \in Nat /\ MaxAttempts \in Nat /\ MaxAttempts >= 1
      /\ attempts \in [Addresses -> Attempt] /\ bruteForce \in BOOLEAN
      /\ guesses \in [Addresses -> Seq(Nat)]
      /\ wrong \in [Addresses -> 0 .. MaxAttempts]
  BY AdminAssumption DEF TypeOK
<1>2. /\ Absent \in Attempt /\ Absent.lockedOut = FALSE /\ Absent.count = 0
      /\ <<>> \in Seq(Nat) /\ 0 \in 0 .. MaxAttempts
  BY <1>1 DEF Absent, Attempt
<1>3. CASE UNCHANGED <<attempts, guesses, wrong, now, bruteForce>>
  BY <1>3 DEF TypeOK, Entries
<1>4. CASE Tick
  <2>1. now + 1 \in Nat
    BY <1>1
  <2>2. \A a \in Addresses : RecentAt(now + 1, guesses[a]) \in Seq(Nat)
    BY <1>1, <2>1, RecentFacts
  <2> QED
    BY <1>4, <2>1, <2>2 DEF Tick, TypeOK, Entries
<1>5. ASSUME NEW t \in Threads, BruteForceInit(t)
      PROVE  Entries'
  BY <1>1, <1>2, <1>5 DEF BruteForceInit, Entries
<1>6. ASSUME NEW t \in Threads, pc[t] = "compare", now' = now, recordFailed(ip[t])
      PROVE  Entries'
  <2>1. ip[t] \in Addresses
    BY <1>6 DEF Placed
  <2>2. attempts[ip[t]] \in Attempt /\ wrong[ip[t]] \in 0 .. MaxAttempts
        /\ guesses[ip[t]] \in Seq(Nat)
        /\ (attempts[ip[t]].lockedOut <=> attempts[ip[t]].count >= MaxAttempts)
    BY <1>1, <2>1 DEF TypeOK
  <2>3. /\ Failed(attempts[ip[t]]) \in Attempt
        /\ Failed(attempts[ip[t]]).lockedOut <=> Failed(attempts[ip[t]]).count >= MaxAttempts
        /\ Failed(attempts[ip[t]]).lockedOut =>
              Failed(attempts[ip[t]]).lockoutAt = Failed(attempts[ip[t]]).lastFail
    BY <1>1, <2>2, FailedEntry
  <2>4. Append(guesses[ip[t]], now) \in Seq(Nat)
    BY <1>1, <2>2
  <2>5. Least(wrong[ip[t]] + 1, MaxAttempts) \in 0 .. MaxAttempts
    BY <1>1, <2>2 DEF Least
  <2> QED
    BY <1>1, <1>6, <2>1, <2>3, <2>4, <2>5 DEF recordFailed, TypeOK, Entries
<1>7. ASSUME NEW t \in Threads, pc[t] = "compare", now' = now, recordSuccess(ip[t])
      PROVE  Entries'
  <2>1. \A a \in Addresses : attempts'[a] \in {attempts[a], Absent}
    BY <1>1, <1>7 DEF recordSuccess
  <2>2. \A a \in Addresses : LET e == attempts'[a] IN
          /\ e.lockedOut <=> e.count >= MaxAttempts
          /\ e.lockedOut => e.lockoutAt = e.lastFail
    <3>1. TAKE a \in Addresses
    <3>2. CASE attempts'[a] = attempts[a]
      BY <3>2 DEF TypeOK
    <3>3. CASE attempts'[a] = Absent
      BY <1>1, <1>2, <3>3
    <3> QED
      BY <2>1, <3>2, <3>3
  <2> QED
    BY <1>1, <1>2, <1>7, <2>2 DEF recordSuccess, Entries
<1> QED
  BY <1>3, <1>4, <1>5, <1>6, <1>7, LockoutSteps

\* The part of TypeOK about the sessions.
Stored ==
    /\ adminSessions \in BOOLEAN
    /\ issued \in 0 .. MaxSessions
    /\ sessions \subseteq 1 .. issued
    /\ closed \subseteq 1 .. issued
    /\ createdAt \in [Tokens -> Nat]
    /\ ~adminSessions => sessions = {}

\* A store is made, or a session added or removed.
LEMMA StoreSteps ==
    ASSUME Next
    PROVE  \/ UNCHANGED store
           \/ \E t \in Threads : SessionsInit(t) \/ Create(t) \/ Logout(t)
  BY DEF Next, Tick, Handler, Login, BruteForceInit, CheckLockout, Compare, SignIn,
         Dashboard, Validate, Show, API

LEMMA StoredStep ==
    ASSUME TypeOK, Placed, Next
    PROVE  Stored' /\ issued' >= issued /\ (adminSessions => adminSessions')
<1>1. Stored /\ MaxSessions \in Nat /\ now \in Nat
  BY AdminAssumption DEF TypeOK, Stored
<1>2. CASE UNCHANGED store
  BY <1>1, <1>2 DEF Stored, store
<1>3. ASSUME NEW t \in Threads, SessionsInit(t)
      PROVE  Stored' /\ issued' >= issued /\ (adminSessions => adminSessions')
  BY <1>1, <1>3 DEF SessionsInit, Stored
<1>4. ASSUME NEW t \in Threads, Create(t)
      PROVE  Stored' /\ issued' >= issued /\ (adminSessions => adminSessions')
  <2>1. adminSessions = TRUE /\ adminSessions' = TRUE /\ closed' = closed
    BY <1>1, <1>4 DEF Create, Placed, Stored
  <2>2. CASE create
    <3>1. issued + 1 \in 1 .. MaxSessions /\ issued' = issued + 1
      BY <1>1, <2>2 DEF create, Stored
    <3>2. createdAt' \in [Tokens -> Nat]
      BY <1>1, <2>2 DEF create, Stored
    <3>3. sessions' \subseteq 1 .. issued' /\ closed' \subseteq 1 .. issued'
      <4>1. sessions' \subseteq sessions \cup {issued + 1}
        BY <2>2 DEF create
      <4> QED
        BY <1>1, <2>1, <3>1, <4>1 DEF Stored
    <3> QED
      BY <1>1, <2>1, <3>1, <3>2, <3>3 DEF Stored
  <2>3. CASE UNCHANGED <<sessions, createdAt, issued>>
    BY <1>1, <2>1, <2>3 DEF Stored
  <2> QED
    BY <1>4, <2>2, <2>3 DEF Create
<1>5. ASSUME NEW t \in Threads, Logout(t)
      PROVE  Stored' /\ issued' >= issued /\ (adminSessions => adminSessions')
  BY <1>1, <1>5 DEF Logout, Stored
<1> QED
  BY <1>2, <1>3, <1>4, <1>5, StoreSteps

\* The part of TypeOK about the handlers.
Serving ==
    /\ pc \in [Threads -> PCs]
    /\ ip \in [Threads -> Addresses \cup {NoAddress}]
    /\ token \in [Threads -> 0 .. issued]
    /\ stale \in [Threads -> BOOLEAN]

\* A handler goes on with its request, or returns.
LEMMA GoneOn ==
    ASSUME TypeOK, NEW t \in Threads, NEW next \in PCs, Goto(t, next),
           issued' \in Nat, issued' >= issued, adminSessions => adminSessions',
           next \in {"bfInit", "isLockedOut", "compare"} => ip[t] \in Addresses,
           next \in {"create", "validate"} => adminSessions',
           Placed
    PROVE  Serving' /\ Placed'
<1>1. /\ pc' \in [Threads -> PCs] /\ pc'[t] = next
      /\ \A u \in Threads \ {t} : pc'[u] = pc[u]
  BY Moved DEF Goto
<1>2. ip' = ip /\ token' = token /\ stale' = stale /\ issued \in Nat
  BY DEF Goto, request, TypeOK
<1>3. token \in [Threads -> 0 .. issued']
  BY <1>2 DEF TypeOK
<1>4. Placed'
  BY <1>1, <1>2 DEF Placed
<1> QED
  BY <1>1, <1>2, <1>3, <1>4 DEF Serving, TypeOK

LEMMA GoneHome ==
    ASSUME TypeOK, NEW t \in Threads, Return(t), Placed,
           issued' \in Nat, issued' >= issued, adminSessions => adminSessions'
    PROVE  Serving' /\ Placed'
<1>1. issued \in Nat
  BY DEF TypeOK
<1>2. token' \in [Threads -> 0 .. issued']
  BY <1>1, Returned
<1>3. Placed'
  BY Returned DEF Placed
<1> QED
  BY <1>2, <1>3, Returned DEF Serving

LEMMA ServingStep ==
    ASSUME TypeOK, Placed, Next
    PROVE  Serving' /\ Placed'
<1>1. /\ issued' \in Nat /\ issued' >= issued /\ (adminSessions => adminSessions')
      /\ issued \in Nat
  BY StoredStep DEF Stored, TypeOK
<1>2. /\ PCs = {"idle", "bfInit", "isLockedOut", "compare", "signIn", "loginInit",
                "create", "dashInit", "validate", "show"}
  BY DEF PCs
<1>3. CASE Tick
  BY <1>3 DEF Tick, Serving, Placed, TypeOK, request, store
<1>4. ASSUME NEW t \in Threads, Login(t) PROVE Serving' /\ Placed'
  <2>1. PICK a \in Addresses : ip' = [ip EXCEPT ![t] = a]
    BY <1>4, ClientsAreAddresses DEF Login
  <2>2. PICK next \in {"isLockedOut", "bfInit"} : pc' = [pc EXCEPT ![t] = next]
    BY <1>4 DEF Login
  <2>3. /\ pc' \in [Threads -> PCs] /\ pc'[t] = next
        /\ \A u \in Threads \ {t} : pc'[u] = pc[u]
    BY <1>2, <2>2, Moved
  <2>4. /\ ip' \in [Threads -> Addresses \cup {NoAddress}] /\ ip'[t] = a
        /\ \A u \in Threads \ {t} : ip'[u] = ip[u]
    BY <2>1 DEF TypeOK
  <2>5. UNCHANGED <<token, stale, issued, adminSessions>>
    BY <1>4 DEF Login, store
  <2> QED
    BY <2>3, <2>4, <2>5 DEF Serving, Placed, TypeOK
<1>5. ASSUME NEW t \in Threads, BruteForceInit(t) PROVE Serving' /\ Placed'
  BY <1>1, <1>2, <1>5, GoneOn DEF BruteForceInit, Placed
<1>6. ASSUME NEW t \in Threads, CheckLockout(t) PROVE Serving' /\ Placed'
  BY <1>1, <1>2, <1>6, GoneOn, GoneHome DEF CheckLockout, Placed
<1>7. ASSUME NEW t \in Threads, Compare(t) PROVE Serving' /\ Placed'
  BY <1>1, <1>2, <1>7, GoneOn, GoneHome DEF Compare
<1>8. ASSUME NEW t \in Threads, SignIn(t) PROVE Serving' /\ Placed'
  BY <1>1, <1>2, <1>8, GoneOn DEF SignIn
<1>9. ASSUME NEW t \in Threads, SessionsInit(t) PROVE Serving' /\ Placed'
  BY <1>1, <1>2, <1>9, GoneOn DEF SessionsInit
<1>10. ASSUME NEW t \in Threads, Create(t) PROVE Serving' /\ Placed'
  BY <1>1, <1>10, GoneHome DEF Create
<1>11. ASSUME NEW t \in Threads, Dashboard(t) PROVE Serving' /\ Placed'
  <2>1. PICK n \in 0 .. issued :
          /\ token' = [token EXCEPT ![t] = n]
          /\ stale' = [stale EXCEPT ![t] = n = 0 \/ n \in closed \/ Expired(n)]
    BY <1>11 DEF Dashboard
  <2>2. /\ pc' = [pc EXCEPT ![t] = IF adminSessions THEN "validate" ELSE "dashInit"]
        /\ UNCHANGED <<ip, issued, adminSessions>>
    BY <1>11 DEF Dashboard, store
  <2>3. /\ pc' \in [Threads -> PCs] /\ \A u \in Threads \ {t} : pc'[u] = pc[u]
        /\ pc'[t] = IF adminSessions THEN "validate" ELSE "dashInit"
    BY <1>2, <2>2, Moved
  <2>4. Placed'
    BY <2>2, <2>3 DEF Placed
  <2>5. token' \in [Threads -> 0 .. issued']
    BY <2>1, <2>2 DEF TypeOK
  <2>6. stale' \in [Threads -> BOOLEAN]
    <3>1. (n = 0 \/ n \in closed \/ Expired(n)) \in BOOLEAN
      OBVIOUS
    <3> DEFINE dead == n = 0 \/ n \in closed \/ Expired(n)
    <3> HIDE DEF dead
    <3>2. stale' = [stale EXCEPT ![t] = dead] /\ dead \in BOOLEAN
      BY <2>1, <3>1 DEF dead
    <3> QED
      BY <3>2 DEF TypeOK
  <2> QED
    BY <2>2, <2>3, <2>4, <2>5, <2>6 DEF Serving, TypeOK
<1>12. ASSUME NEW t \in Threads, Validate(t) PROVE Serving' /\ Placed'
  BY <1>1, <1>2, <1>12, GoneOn, GoneHome DEF Validate
<1>13. ASSUME NEW t \in Threads, Show(t) PROVE Serving' /\ Placed'
  BY <1>1, <1>13, GoneHome DEF Show
<1>14. ASSUME NEW t \in Threads, API(t) PROVE Serving' /\ Placed'
  <2>1. Goto(t, "show")
    BY <1>14 DEF API, Goto
  <2> QED
    BY <1>1, <1>2, <2>1, GoneOn
<1>15. ASSUME NEW t \in Threads, Logout(t) PROVE Serving' /\ Placed'
  BY <1>15 DEF Logout, Serving, Placed, TypeOK, request
<1> QED
  BY <1>3, <1>4, <1>5, <1>6, <1>7, <1>8, <1>9, <1>10, <1>11, <1>12, <1>13, <1>14, <1>15
     DEF Next, Handler

LEMMA TypeStep ==
    ASSUME TypeOK, Placed, Next
    PROVE  TypeOK' /\ Placed'
<1>1. Entries' /\ Stored' /\ Serving' /\ Placed'
  BY EntriesStep, StoredStep, ServingStep
<1> QED
  BY <1>1 DEF Entries, Stored, Serving, TypeOK

-----------------------------------------------------------------------------
(* The lockout.                                                            *)

LEMMA CountedStep ==
    ASSUME TypeOK, Placed, Counted, Next
    PROVE  Counted'
<1>1. /\ now \in Nat /\ MaxAttempts \in Nat /\ MaxAttempts >= 1 /\ Window \in Nat
  BY AdminAssumption DEF TypeOK
<1>2. \A a \in Addresses :
        /\ attempts[a] \in Attempt /\ guesses[a] \in Seq(Nat) /\ wrong[a] \in 0 .. MaxAttempts
        /\ attempts[a].count \in Nat /\ attempts[a].lastFail \in Nat
        /\ Len(guesses[a]) \in Nat
        /\ (attempts[a].lockedOut <=> attempts[a].count >= MaxAttempts)
  BY DEF TypeOK, Attempt
<1>3. CASE UNCHANGED <<attempts, guesses, wrong, now, bruteForce>>
  BY <1>3 DEF Counted, CountedAt
<1>4. CASE Tick
  <2>1. SUFFICES ASSUME NEW a \in Addresses PROVE CountedAt(a)'
    BY DEF Counted
  <2>2. now' = now + 1 /\ attempts' = attempts /\ wrong' = wrong
        /\ guesses'[a] = RecentAt(now + 1, guesses[a])
    BY <1>4 DEF Tick
  <2> DEFINE gs == guesses[a]
             later == now + 1
             rs == RecentAt(later, gs)
  <2>3. gs \in Seq(Nat) /\ later \in Nat
    BY <1>1, <1>2
  <2> HIDE DEF gs, later
  <2>4. /\ rs \in Seq(Nat) /\ Len(rs) <= Len(gs)
        /\ \A i \in 1 .. Len(rs) : \E j \in 1 .. Len(gs) : rs[i] = gs[j]
        /\ (\A i \in 1 .. Len(gs) : later - gs[i] > Window) => Len(rs) = 0
    BY <2>3, RecentFacts
  <2> USE DEF gs, later
  <2>5. /\ \A i \in 1 .. Len(gs) : gs[i] \in Nat /\ gs[i] <= attempts[a].lastFail
        /\ attempts[a].lastFail <= now /\ Len(gs) <= attempts[a].count
        /\ wrong[a] < MaxAttempts => attempts[a].count <= wrong[a]
    BY <1>2 DEF Counted, CountedAt
  <2> HIDE DEF rs
  <2>6. Len(rs) > 0 => now + 1 - attempts[a].lastFail <= Window
    <3>1. CASE now + 1 - attempts[a].lastFail > Window
      <4>1. ASSUME NEW i \in 1 .. Len(gs) PROVE later - gs[i] > Window
        <5>1. gs[i] \in Nat /\ gs[i] <= attempts[a].lastFail
          BY <2>5
        <5>2. attempts[a].lastFail \in Nat /\ later = now + 1
          BY <1>2
        <5> HIDE DEF gs, later
        <5> QED
          BY <1>1, <3>1, <5>1, <5>2
      <4> QED
        BY <2>4, <4>1
    <3> QED
      BY <1>1, <1>2, <3>1
  <2>7. guesses'[a] = rs
    BY <2>2 DEF rs
  <2> QED
    <3>1. /\ Len(rs) \in Nat /\ Len(rs) <= attempts[a].count
          /\ attempts[a].lastFail <= now + 1
          /\ wrong[a] < MaxAttempts => attempts[a].count <= wrong[a]
      BY <1>1, <1>2, <2>4, <2>5
    <3>2. \A i \in 1 .. Len(rs) : rs[i] <= attempts[a].lastFail
      BY <2>4, <2>5
    <3> QED
      BY <1>1, <1>2, <2>2, <2>6, <2>7, <3>1, <3>2 DEF CountedAt
<1>5. ASSUME NEW t \in Threads, BruteForceInit(t) PROVE Counted'
  BY <1>1, <1>5 DEF BruteForceInit, Counted, CountedAt, Absent
<1>6. ASSUME NEW t \in Threads, pc[t] = "compare", now' = now, recordFailed(ip[t])
      PROVE  Counted'
  <2>1. SUFFICES ASSUME NEW a \in Addresses PROVE CountedAt(a)'
    BY DEF Counted
  <2>2. CASE a # ip[t]
    BY <1>2, <1>6, <2>2 DEF recordFailed, Counted, CountedAt, TypeOK
  <2>3. CASE a = ip[t]
    <3>1. /\ attempts'[a] = Failed(attempts[a])
          /\ guesses'[a] = Append(guesses[a], now)
          /\ wrong'[a] = Least(wrong[a] + 1, MaxAttempts)
      BY <1>6, <2>3 DEF recordFailed, TypeOK
    <3>2. /\ attempts'[a].lastFail = now
          /\ attempts'[a].count = IF now - attempts[a].lastFail > Window
                                    THEN 1 ELSE attempts[a].count + 1
      <4>1. attempts[a] \in Attempt /\ now \in Nat
            /\ (attempts[a].lockedOut <=> attempts[a].count >= MaxAttempts)
        BY <1>1, <1>2
      <4>2. /\ Failed(attempts[a]).lastFail = now
            /\ Failed(attempts[a]).count =
                 IF now - attempts[a].lastFail > Window
                   THEN 1 ELSE attempts[a].count + 1
        BY <4>1, FailedEntry
      <4> QED
        BY <3>1, <4>2
    <3>3. Len(guesses'[a]) = Len(guesses[a]) + 1
      <4>1. guesses[a] \in Seq(Nat) /\ now \in Nat
        BY <1>1, <1>2
      <4> QED
        BY <3>1, <4>1
    <3>4. Len(guesses'[a]) <= attempts'[a].count
      <4>1. /\ Len(guesses[a]) <= attempts[a].count
            /\ Len(guesses[a]) > 0 => now - attempts[a].lastFail <= Window
        BY DEF Counted, CountedAt
      <4>2. Len(guesses[a]) \in Nat /\ attempts[a].count \in Nat
        BY <1>2
      <4>3. CASE now - attempts[a].lastFail > Window
        <5>1. ~(Len(guesses[a]) > 0)
          BY <1>1, <1>2, <4>1, <4>3
        <5> QED
          BY <3>2, <3>3, <4>2, <4>3, <5>1
      <4>4. CASE ~(now - attempts[a].lastFail > Window)
        BY <3>2, <3>3, <4>1, <4>2, <4>4
      <4> QED
        BY <4>3, <4>4
    <3>5. wrong'[a] < MaxAttempts => attempts'[a].count <= wrong'[a]
      <4>1. wrong'[a] < MaxAttempts => wrong'[a] = wrong[a] + 1 /\ wrong[a] < MaxAttempts
        BY <1>1, <1>2, <3>1 DEF Least
      <4>2. wrong[a] < MaxAttempts => attempts[a].count <= wrong[a]
        BY DEF Counted, CountedAt
      <4>3. wrong[a] \in Nat /\ attempts[a].count \in Nat
        BY <1>2
      <4> QED
        BY <3>2, <4>1, <4>2, <4>3
    <3>6. ASSUME NEW i \in 1 .. Len(guesses'[a]) PROVE guesses'[a][i] <= now
      <4>1. guesses[a] \in Seq(Nat) /\ now \in Nat /\ Len(guesses[a]) \in Nat
        BY <1>1, <1>2
      <4>2. CASE i = Len(guesses[a]) + 1
        <5>1. guesses'[a][i] = now
          BY <3>1, <4>1, <4>2
        <5> QED
          BY <4>1, <5>1
      <4>3. CASE i \in 1 .. Len(guesses[a])
        <5>1. guesses'[a][i] = guesses[a][i]
          BY <3>1, <4>1, <4>3
        <5>2. /\ guesses[a][i] \in Nat /\ guesses[a][i] <= attempts[a].lastFail
              /\ attempts[a].lastFail <= now
          BY <4>1, <4>3 DEF Counted, CountedAt
        <5>3. attempts[a].lastFail \in Nat
          BY <1>2
        <5> QED
          BY <4>1, <5>1, <5>2, <5>3
      <4> QED
        BY <3>3, <4>1, <4>2, <4>3
    <3> QED
      BY <1>1, <1>2, <1>6, <3>2, <3>4, <3>5, <3>6 DEF CountedAt
  <2> QED
    BY <2>2, <2>3
<1>7. ASSUME NEW t \in Threads, pc[t] = "compare", now' = now, recordSuccess(ip[t])
      PROVE  Counted'
  <2>1. SUFFICES ASSUME NEW a \in Addresses PROVE CountedAt(a)'
    BY DEF Counted
  <2>2. CASE a # ip[t]
    BY <1>2, <1>7, <2>2 DEF recordSuccess, Counted, CountedAt, TypeOK
  <2>3. CASE a = ip[t]
    BY <1>1, <1>7, <2>3 DEF recordSuccess, Counted, CountedAt, TypeOK, Absent
  <2> QED
    BY <2>2, <2>3
<1> QED
  BY <1>3, <1>4, <1>5, <1>6, <1>7, LockoutSteps

\* A handler gets past the check only if its address is not locked out.
LEMMA EntersCompare ==
    ASSUME TypeOK, Next, NEW u \in Threads, pc'[u] = "compare"
    PROVE  /\ ip'[u] = ip[u]
           /\ pc[u] = "compare" \/ (attempts' = attempts /\ ~LockedOut(ip[u]))
<1>1. CASE Tick
  BY <1>1 DEF Tick, request
<1>2. ASSUME NEW t \in Threads, NEW next \in PCs, next # "compare", Handler(t), Goto(t, next)
      PROVE  ip'[u] = ip[u] /\ pc[u] = "compare"
  BY <1>2, Moved DEF Goto, request
<1>3. ASSUME NEW t \in Threads, Handler(t), Return(t)
      PROVE  ip'[u] = ip[u] /\ pc[u] = "compare"
  BY <1>3, Returned
<1>4. ASSUME NEW t \in Threads, CheckLockout(t), Goto(t, "compare"), ~LockedOut(ip[t])
      PROVE  ip'[u] = ip[u] /\ (pc[u] = "compare" \/ (attempts' = attempts /\ ~LockedOut(ip[u])))
  <2>1. \A v \in Threads \ {t} : pc'[v] = pc[v]
    BY <1>4, Moved DEF Goto, PCs
  <2> QED
    BY <1>4, <2>1 DEF CheckLockout, Goto, request, lockouts
<1>5. ASSUME NEW t \in Threads, Handler(t), NEW next \in PCs, next # "compare",
             pc' = [pc EXCEPT ![t] = next], \A v \in Threads \ {t} : ip'[v] = ip[v]
      PROVE  ip'[u] = ip[u] /\ pc[u] = "compare"
  BY <1>5, Moved
<1>6. PCs = {"idle", "bfInit", "isLockedOut", "compare", "signIn", "loginInit",
             "create", "dashInit", "validate", "show"}
  BY DEF PCs
<1>7. ASSUME NEW t \in Threads, Login(t) PROVE ip'[u] = ip[u] /\ pc[u] = "compare"
  <2>1. PICK next \in {"isLockedOut", "bfInit"} : pc' = [pc EXCEPT ![t] = next]
    BY <1>7 DEF Login
  <2>2. \A v \in Threads \ {t} : ip'[v] = ip[v]
    BY <1>7 DEF Login, TypeOK
  <2> QED
    BY <1>5, <1>6, <1>7, <2>1, <2>2 DEF Handler
<1>8. ASSUME NEW t \in Threads, Dashboard(t) PROVE ip'[u] = ip[u] /\ pc[u] = "compare"
  <2>1. PICK next \in {"validate", "dashInit"} : pc' = [pc EXCEPT ![t] = next]
    BY <1>8 DEF Dashboard
  <2> QED
    BY <1>5, <1>6, <1>8, <2>1 DEF Handler, Dashboard
<1>9. ASSUME NEW t \in Threads, API(t) \/ Logout(t) PROVE ip'[u] = ip[u] /\ pc[u] = "compare"
  <2>1. CASE API(t)
    BY <1>2, <1>6, <2>1 DEF Handler, API, Goto
  <2>2. CASE Logout(t)
    BY <2>2 DEF Logout, request
  <2> QED
    BY <1>9, <2>1, <2>2
<1>10. ASSUME NEW t \in Threads, BruteForceInit(t) \/ SignIn(t) \/ SessionsInit(t)
       PROVE  ip'[u] = ip[u] /\ pc[u] = "compare"
  BY <1>2, <1>6, <1>10 DEF Handler, BruteForceInit, SignIn, SessionsInit
<1>11. ASSUME NEW t \in Threads, Compare(t) \/ Validate(t) \/ Create(t) \/ Show(t)
       PROVE  ip'[u] = ip[u] /\ pc[u] = "compare"
  BY <1>2, <1>3, <1>6, <1>11 DEF Handler, Compare, Validate, Create, Show
<1>12. ASSUME NEW t \in Threads, CheckLockout(t)
       PROVE  ip'[u] = ip[u] /\ (pc[u] = "compare" \/ (attempts' = attempts /\ ~LockedOut(ip[u])))
  BY <1>3, <1>4, <1>12 DEF Handler, CheckLockout
<1> QED
  BY <1>1, <1>7, <1>8, <1>9, <1>10, <1>11, <1>12 DEF Next, Handler

LEMMA FewHandlers ==
    ASSUME NEW S \in SUBSET Threads
    PROVE  /\ IsFiniteSet(S) /\ Cardinality(S) \in Nat
           /\ Cardinality(Threads) \in Nat /\ Cardinality(S) <= Cardinality(Threads)
           /\ \A t \in Threads \ S : Cardinality(S) <= Cardinality(Threads) - 1
           /\ \A t \in S : \A R \in SUBSET (S \ {t}) :
                /\ Cardinality(R) \in Nat
                /\ Cardinality(R) <= Cardinality(S) - 1
<1>1. /\ IsFiniteSet(S) /\ Cardinality(S) \in Nat
      /\ Cardinality(Threads) \in Nat /\ Cardinality(S) <= Cardinality(Threads)
  BY AdminAssumption, FS_Subset, FS_CardinalityType
<1>2. ASSUME NEW t \in Threads \ S PROVE Cardinality(S) <= Cardinality(Threads) - 1
  <2>1. IsFiniteSet(Threads \ {t}) /\ Cardinality(Threads \ {t}) = Cardinality(Threads) - 1
    BY AdminAssumption, FS_RemoveElement
  <2>2. S \in SUBSET (Threads \ {t})
    OBVIOUS
  <2>3. Cardinality(S) <= Cardinality(Threads \ {t})
    BY <2>1, <2>2, FS_Subset
  <2> QED
    BY <2>1, <2>3
<1>3. ASSUME NEW t \in S, NEW R \in SUBSET (S \ {t})
      PROVE  Cardinality(R) \in Nat /\ Cardinality(R) <= Cardinality(S) - 1
  <2>1. IsFiniteSet(S \ {t}) /\ Cardinality(S \ {t}) = Cardinality(S) - 1
    BY <1>1, FS_RemoveElement
  <2>2. IsFiniteSet(R) /\ Cardinality(R) <= Cardinality(S \ {t})
    BY <2>1, FS_Subset
  <2> QED
    BY <2>1, <2>2, FS_CardinalityType
<1> QED
  BY <1>1, <1>2, <1>3

\* Who is between the check and the comparison for a locked out address was
\* there before.
LEMMA NobodyEnters ==
    ASSUME TypeOK, Next, NEW a \in Addresses, LockedOut(a) \/ attempts' # attempts
    PROVE  Comparing(a)' \subseteq Comparing(a)
  BY EntersCompare DEF Comparing

LEMMA FencedStep ==
    ASSUME TypeOK, Placed, Counted, Fenced, Next
    PROVE  Fenced'
<1> DEFINE limit == MaxAttempts + Cardinality(Threads) - 1
<1>1. /\ now \in Nat /\ MaxAttempts \in Nat /\ MaxAttempts >= 1 /\ Window \in Nat
      /\ Lockout \in Nat /\ Lockout >= Window /\ Cardinality(Threads) \in Nat
  BY AdminAssumption, FS_CardinalityType DEF TypeOK
<1>2. SUFFICES ASSUME NEW a \in Addresses, LockedOut(a)'
               PROVE  (attempts[a].count + Cardinality(Comparing(a)) <= limit)'
  BY DEF Fenced
<1>3. /\ attempts[a] \in Attempt
      /\ attempts[a].count \in Nat /\ attempts[a].lastFail \in Nat
      /\ attempts[a].lockoutAt \in Nat
      /\ (attempts[a].lockedOut <=> attempts[a].count >= MaxAttempts)
      /\ (attempts[a].lockedOut => attempts[a].lockoutAt = attempts[a].lastFail)
  BY DEF TypeOK, Attempt
<1>4. Comparing(a) \in SUBSET Threads /\ Comparing(a)' \in SUBSET Threads
  BY DEF Comparing
<1>5. /\ Cardinality(Comparing(a)) \in Nat /\ Cardinality(Comparing(a)') \in Nat
      /\ Comparing(a)' \subseteq Comparing(a) =>
            Cardinality(Comparing(a)') <= Cardinality(Comparing(a))
  <2>1. IsFiniteSet(Comparing(a)) /\ IsFiniteSet(Comparing(a)')
    BY <1>4, FewHandlers
  <2> QED
    BY <2>1, FS_Subset, FS_CardinalityType
<1>6. CASE LockedOut(a) /\ attempts'[a] = attempts[a]
  <2>1. Cardinality(Comparing(a)') <= Cardinality(Comparing(a))
    BY <1>5, <1>6, NobodyEnters
  <2>2. attempts[a].count + Cardinality(Comparing(a)) <= limit
    BY <1>6 DEF Fenced
  <2> QED
    BY <1>1, <1>3, <1>5, <1>6, <2>1, <2>2
<1>7. ASSUME attempts'[a] = attempts[a], now' >= now, now' \in Nat PROVE LockedOut(a)
  BY <1>1, <1>2, <1>3, <1>7 DEF LockedOut
<1>8. CASE UNCHANGED <<attempts, guesses, wrong, now, bruteForce>>
  BY <1>1, <1>6, <1>7, <1>8
<1>9. CASE Tick
  BY <1>1, <1>6, <1>7, <1>9 DEF Tick
<1>10. CASE attempts'[a] = Absent
  BY <1>2, <1>10 DEF LockedOut, Absent
<1>11. ASSUME NEW t \in Threads, BruteForceInit(t) PROVE attempts'[a] = Absent
  BY <1>11 DEF BruteForceInit
<1>12. ASSUME NEW t \in Threads, pc[t] = "compare", now' = now, recordSuccess(ip[t])
       PROVE  attempts'[a] \in {Absent, attempts[a]}
  BY <1>12 DEF recordSuccess, TypeOK
<1>13. ASSUME NEW t \in Threads, pc[t] = "compare", now' = now, Return(t), recordFailed(ip[t])
       PROVE  (attempts[a].count + Cardinality(Comparing(a)) <= limit)'
  <2>1. CASE a # ip[t]
    <3>1. attempts'[a] = attempts[a]
      BY <1>13, <2>1 DEF recordFailed, TypeOK
    <3> QED
      BY <1>1, <1>6, <1>7, <1>13, <3>1
  <2>2. CASE a = ip[t]
    <3>1. attempts'[a] = Failed(attempts[a])
      BY <1>13, <2>2 DEF recordFailed, TypeOK
    <3>2. attempts'[a].count = IF now - attempts[a].lastFail > Window
                                THEN 1 ELSE attempts[a].count + 1
      BY <1>1, <1>3, <3>1, FailedEntry
    <3>3. t \in Comparing(a) /\ t \notin Comparing(a)'
      BY <1>13, <2>2, Returned DEF Comparing
    <3>4. Cardinality(Comparing(a)') <= Cardinality(Threads) - 1
      BY <1>4, <3>3, FewHandlers
    <3>5. CASE attempts'[a].count <= MaxAttempts
      BY <1>1, <1>3, <1>5, <3>2, <3>4, <3>5
    <3>6. CASE attempts'[a].count > MaxAttempts
      <4>1. /\ attempts'[a].count = attempts[a].count + 1
            /\ attempts[a].count >= MaxAttempts
            /\ now - attempts[a].lastFail <= Window
        BY <1>1, <1>3, <3>2, <3>6
      <4>2. LockedOut(a)
        BY <1>1, <1>3, <4>1 DEF LockedOut
      <4>3. Comparing(a)' \subseteq Comparing(a) \ {t}
        BY <3>3, <4>2, NobodyEnters
      <4>4. Cardinality(Comparing(a)') <= Cardinality(Comparing(a)) - 1
        BY <1>4, <3>3, <4>3, FewHandlers
      <4>5. attempts[a].count + Cardinality(Comparing(a)) <= limit
        BY <4>2 DEF Fenced
      <4> QED
        BY <1>1, <1>3, <1>5, <4>1, <4>4, <4>5
    <3> QED
      BY <1>1, <1>3, <3>2, <3>5, <3>6
  <2> QED
    BY <2>1, <2>2
<1> QED
  BY <1>1, <1>6, <1>7, <1>8, <1>9, <1>10, <1>11, <1>12, <1>13, LockoutSteps

-----------------------------------------------------------------------------
(* The sessions.                                                           *)

\* A session logged out is not made again.
LEMMA LoggedOutStep ==
    ASSUME TypeOK, Placed, LoggedOut, Next
    PROVE  LoggedOut'
<1>1. sessions \subseteq 1 .. issued /\ closed \subseteq 1 .. issued /\ issued \in Nat
  BY DEF TypeOK
<1>2. CASE UNCHANGED store
  BY <1>2 DEF LoggedOut, store
<1>3. ASSUME NEW t \in Threads, SessionsInit(t) PROVE LoggedOut'
  BY <1>3 DEF SessionsInit, LoggedOut
<1>4. ASSUME NEW t \in Threads, Create(t) PROVE LoggedOut'
  <2>1. closed' = closed /\ sessions' \subseteq sessions \cup {issued + 1}
    BY <1>4 DEF Create, create
  <2>2. issued + 1 \notin closed
    BY <1>1
  <2> QED
    BY <2>1, <2>2 DEF LoggedOut
<1>5. ASSUME NEW t \in Threads, Logout(t) PROVE LoggedOut'
  BY <1>5 DEF Logout, LoggedOut
<1> QED
  BY <1>2, <1>3, <1>4, <1>5, StoreSteps

\* A token that exists and names no live session never names one again.
LEMMA StaysDead ==
    ASSUME TypeOK, Placed, Next, NEW n \in 0 .. issued, n \notin sessions \/ Expired(n)
    PROVE  n \notin sessions' \/ Expired(n)'
<1>1. /\ now \in Nat /\ issued \in Nat /\ issued <= MaxSessions /\ MaxSessions \in Nat
      /\ createdAt \in [Tokens -> Nat] /\ SessionTimeout \in Nat
      /\ sessions \subseteq 1 .. issued
  BY AdminAssumption DEF TypeOK
<1>2. now' = now \/ now' = now + 1
  BY DEF Next, Tick, Handler, Login, BruteForceInit, CheckLockout, Compare, SignIn,
         SessionsInit, Create, Dashboard, Validate, Show, API, Logout
<1>3. n \in sessions => n \in Tokens /\ createdAt[n] \in Nat
  BY <1>1 DEF Tokens
<1>4. CASE createdAt'[n] = createdAt[n] /\ sessions' \subseteq sessions
  BY <1>1, <1>2, <1>3, <1>4 DEF Expired
<1>5. CASE UNCHANGED store
  BY <1>4, <1>5 DEF store
<1>6. ASSUME NEW t \in Threads, SessionsInit(t) \/ Logout(t)
      PROVE  createdAt'[n] = createdAt[n] /\ sessions' \subseteq sessions
  BY <1>6 DEF SessionsInit, Logout
<1>7. ASSUME NEW t \in Threads, Create(t) PROVE n \notin sessions' \/ Expired(n)'
  <2>1. CASE create
    <3>1. n # issued + 1 /\ issued + 1 \in Nat
      BY <1>1
    <3>2. n \in sessions' => n \in sessions /\ ~Expired(n)
      BY <2>1, <3>1 DEF create
    <3> QED
      BY <3>2
  <2>2. CASE UNCHANGED <<sessions, createdAt, issued>>
    BY <1>4, <2>2
  <2> QED
    BY <1>7, <2>1, <2>2 DEF Create
<1> QED
  BY <1>4, <1>5, <1>6, <1>7, StoreSteps

LEMMA DeadStep ==
    ASSUME TypeOK, Placed, Dead, LoggedOut, Next
    PROVE  Dead'
<1> DEFINE DeadAt(u) == stale[u] => /\ pc[u] \in {"dashInit", "validate"}
                                    /\ token[u] \notin sessions \/ Expired(token[u])
<1>1. SUFFICES ASSUME NEW u \in Threads PROVE DeadAt(u)'
  BY DEF Dead
<1>2. token[u] \in 0 .. issued /\ DeadAt(u)
  BY DEF TypeOK, Dead
<1>3. ASSUME token'[u] = token[u], stale'[u] = stale[u],
             stale[u] => pc'[u] \in {"dashInit", "validate"}
      PROVE  DeadAt(u)'
  <2>1. PICK n \in 0 .. issued : n = token[u]
    BY <1>2
  <2>2. CASE stale[u]
    <3>1. n \notin sessions \/ Expired(n)
      BY <1>2, <2>1, <2>2
    <3>2. n \notin sessions' \/ Expired(n)'
      BY <3>1, StaysDead
    <3> QED
      BY <1>3, <2>1, <2>2, <3>2 DEF Expired
  <2>3. CASE ~stale[u]
    BY <1>3, <2>3
  <2> QED
    BY <2>2, <2>3
<1>4. ASSUME ~stale'[u] PROVE DeadAt(u)'
  BY <1>4
<1>5. CASE Tick
  BY <1>2, <1>3, <1>5 DEF Tick, request
<1>6. ASSUME NEW t \in Threads, Return(t) PROVE DeadAt(u)'
  BY <1>2, <1>3, <1>4, <1>6, Returned
<1>7. ASSUME NEW t \in Threads, NEW next \in PCs, Goto(t, next),
             pc[t] \in {"dashInit", "validate"} =>
               next \in {"dashInit", "validate"} \/ ~stale[t]
      PROVE  DeadAt(u)'
  <2>1. /\ pc'[t] = next /\ \A v \in Threads \ {t} : pc'[v] = pc[v]
        /\ token' = token /\ stale' = stale
    BY <1>7, Moved DEF Goto, request
  <2> QED
    BY <1>2, <1>3, <1>7, <2>1
<1>8. PCs = {"idle", "bfInit", "isLockedOut", "compare", "signIn", "loginInit",
             "create", "dashInit", "validate", "show"}
  BY DEF PCs
<1>9. ASSUME NEW t \in Threads, Login(t) PROVE DeadAt(u)'
  <2>1. PICK next \in {"isLockedOut", "bfInit"} : pc' = [pc EXCEPT ![t] = next]
    BY <1>9 DEF Login
  <2>2. \A v \in Threads \ {t} : pc'[v] = pc[v]
    BY <1>8, <2>1, Moved
  <2>3. token' = token /\ stale' = stale /\ pc[t] = "idle"
    BY <1>9 DEF Login
  <2> QED
    BY <1>2, <1>3, <2>2, <2>3
<1>10. ASSUME NEW t \in Threads, BruteForceInit(t) \/ SignIn(t) PROVE DeadAt(u)'
  BY <1>7, <1>8, <1>10 DEF BruteForceInit, SignIn
<1>11. ASSUME NEW t \in Threads, CheckLockout(t) \/ Compare(t) PROVE DeadAt(u)'
  BY <1>6, <1>7, <1>8, <1>11 DEF CheckLockout, Compare
<1>12. ASSUME NEW t \in Threads, SessionsInit(t) PROVE DeadAt(u)'
  BY <1>7, <1>8, <1>12 DEF SessionsInit
<1>13. ASSUME NEW t \in Threads, Create(t) \/ Show(t) PROVE DeadAt(u)'
  BY <1>6, <1>13 DEF Create, Show
<1>14. ASSUME NEW t \in Threads, Dashboard(t) PROVE DeadAt(u)'
  <2>1. PICK n \in 0 .. issued :
          /\ token' = [token EXCEPT ![t] = n]
          /\ stale' = [stale EXCEPT ![t] = n = 0 \/ n \in closed \/ Expired(n)]
    BY <1>14 DEF Dashboard
  <2>2. PICK next \in {"validate", "dashInit"} : pc' = [pc EXCEPT ![t] = next]
    BY <1>14 DEF Dashboard
  <2>3. pc'[t] = next /\ \A v \in Threads \ {t} : pc'[v] = pc[v]
    BY <1>8, <2>2, Moved
  <2>4. CASE u # t
    BY <1>2, <1>3, <2>1, <2>3, <2>4 DEF TypeOK
  <2>5. CASE u = t
    <3>1. token'[t] = n
      BY <2>1 DEF TypeOK
    <3>2. stale'[t] => n = 0 \/ n \in closed \/ Expired(n)
      BY <2>1 DEF TypeOK
    <3>3. sessions' = sessions /\ (Expired(n)' <=> Expired(n)) /\ 0 \notin sessions
      BY <1>14 DEF Dashboard, store, Expired, TypeOK
    <3>4. stale'[t] => n \notin sessions' \/ Expired(n)'
      BY <3>2, <3>3 DEF LoggedOut
    <3>5. stale'[t] => token'[t] \notin sessions' \/ Expired(token[t])'
      BY <3>1, <3>4 DEF Expired
    <3> QED
      BY <2>3, <2>5, <3>5
  <2> QED
    BY <2>4, <2>5
<1>15. ASSUME NEW t \in Threads, Validate(t) PROVE DeadAt(u)'
  <2>1. CASE validate(token[t]) /\ Goto(t, "show")
    <3>1. ~stale[t]
      BY <2>1 DEF validate, Dead
    <3> QED
      BY <1>7, <1>8, <2>1, <3>1
  <2> QED
    BY <1>6, <1>15, <2>1 DEF Validate
<1>16. ASSUME NEW t \in Threads, API(t) PROVE DeadAt(u)'
  <2>1. Goto(t, "show") /\ pc[t] = "idle"
    BY <1>16 DEF API, Goto
  <2> QED
    BY <1>7, <1>8, <2>1
<1>17. ASSUME NEW t \in Threads, Logout(t) PROVE DeadAt(u)'
  BY <1>2, <1>3, <1>17 DEF Logout, request
<1> QED
  BY <1>5, <1>9, <1>10, <1>11, <1>12, <1>13, <1>14, <1>15, <1>16, <1>17 DEF Next, Handler

-----------------------------------------------------------------------------

LEMMA CoreInit == ASSUME Init PROVE Core
<1>1. "idle" \in PCs /\ Absent \in Attempt /\ ~Absent.lockedOut /\ Absent.count = 0
      /\ Absent.lastFail = 0 /\ MaxAttempts \in Nat /\ MaxAttempts >= 1 /\ MaxSessions \in Nat
  BY AdminAssumption DEF PCs, Absent, Attempt
<1>2. TypeOK
  <2>1. Entries
    <3>1. /\ now \in Nat /\ bruteForce \in BOOLEAN
          /\ attempts \in [Addresses -> Attempt]
          /\ \A a \in Addresses : attempts[a] = Absent
      BY <1>1 DEF Init
    <3>2. guesses \in [Addresses -> Seq(Nat)]
      <4>1. <<>> \in Seq(Nat)
        OBVIOUS
      <4> QED
        BY <4>1 DEF Init
    <3>3. wrong \in [Addresses -> 0 .. MaxAttempts]
      BY <1>1 DEF Init
    <3>4. \A a \in Addresses : /\ ~attempts[a].lockedOut
                               /\ ~(attempts[a].count >= MaxAttempts)
      BY <1>1, <3>1
    <3> QED
      BY <3>1, <3>2, <3>3, <3>4 DEF Entries
  <2>2. Stored
    <3>1. adminSessions = FALSE /\ issued = 0 /\ sessions = {} /\ closed = {}
      BY DEF Init
    <3>2. createdAt \in [Tokens -> Nat]
      BY DEF Init
    <3>3. issued \in 0 .. MaxSessions
      BY <1>1, <3>1
    <3> QED
      BY <3>1, <3>2, <3>3 DEF Stored
  <2>3. Serving
    BY <1>1 DEF Init, Serving
  <2> QED
    BY <2>1, <2>2, <2>3 DEF Entries, Stored, Serving, TypeOK
<1>3. Placed /\ Dead /\ LoggedOut
  BY DEF Init, Placed, Dead, LoggedOut
<1>4. Counted
  BY <1>1 DEF Init, Counted, CountedAt
<1>5. Fenced
  BY <1>1 DEF Init, Fenced, LockedOut
<1> QED
  BY <1>2, <1>3, <1>4, <1>5 DEF Core

LEMMA CoreStep == ASSUME Core, [Next]_vars PROVE Core'
<1>1. CASE Next
  BY <1>1, TypeStep, CountedStep, FencedStep, LoggedOutStep, DeadStep DEF Core
<1>2. CASE UNCHANGED vars
  BY <1>2 DEF vars, lockouts, store, request, Core, TypeOK, Placed, Counted, CountedAt,
              Fenced, LockedOut, Comparing, Dead, Expired, LoggedOut
<1> QED
  BY <1>1, <1>2

LEMMA CoreHolds == Spec => []Core
  BY CoreInit, CoreStep, PTL DEF Spec

\* The lockout table, the session store and the handlers keep their types, and
\* an entry is locked out exactly while it counts MaxAttempts failures.
THEOREM DashboardTypeCorrect == Spec => []TypeOK
<1>1. Core => TypeOK
  BY DEF Core
<1> QED
  BY <1>1, CoreHolds, PTL

\* handleAdminLogin: within a window an address has MaxAttempts wrong tokens
\* compared, and one for every other handler past the check.
THEOREM GuessesAreBounded == Spec => []GuessesBounded
<1>1. ASSUME Core PROVE GuessesBounded
  <2>1. SUFFICES ASSUME NEW a \in Addresses
                 PROVE  Len(guesses[a]) <= MaxAttempts + Cardinality(Threads) - 1
    BY DEF GuessesBounded
  <2>2. /\ now \in Nat /\ MaxAttempts \in Nat /\ MaxAttempts >= 1 /\ Cardinality(Threads) \in Nat
        /\ Window \in Nat /\ Lockout \in Nat /\ Lockout >= Window
    BY <1>1, AdminAssumption, FS_CardinalityType DEF Core, TypeOK
  <2>3. /\ attempts[a].count \in Nat /\ attempts[a].lastFail \in Nat /\ Len(guesses[a]) \in Nat
        /\ attempts[a].lockoutAt \in Nat
        /\ (attempts[a].lockedOut <=> attempts[a].count >= MaxAttempts)
        /\ (attempts[a].lockedOut => attempts[a].lockoutAt = attempts[a].lastFail)
    BY <1>1 DEF Core, TypeOK, Attempt
  <2>4. /\ Len(guesses[a]) <= attempts[a].count
        /\ Len(guesses[a]) > 0 => now - attempts[a].lastFail <= Window
    BY <1>1 DEF Core, Counted, CountedAt
  <2>5. CASE LockedOut(a)
    <3>1. attempts[a].count + Cardinality(Comparing(a)) <= MaxAttempts + Cardinality(Threads) - 1
      BY <1>1, <2>5 DEF Core, Fenced
    <3>2. Cardinality(Comparing(a)) \in Nat
      BY FewHandlers DEF Comparing
    <3> QED
      BY <2>2, <2>3, <2>4, <3>1, <3>2
  <2>6. CASE ~LockedOut(a)
    <3>1. attempts[a].count < MaxAttempts \/ Len(guesses[a]) = 0
      BY <2>2, <2>3, <2>4, <2>6 DEF LockedOut
    <3> QED
      BY <2>2, <2>3, <2>4, <3>1
  <2> QED
    BY <2>5, <2>6
<1> QED
  BY <1>1, CoreHolds, PTL

\* What handleAdminDashboard shows, it shows for a session that was live when
\* the request began.
THEOREM OnlyAdminsAreShown == Spec => []OnlyAdminsSee
<1>1. Core => OnlyAdminsSee
  BY DEF Core, Dead, OnlyAdminsSee
<1> QED
  BY <1>1, CoreHolds, PTL

\* isLockedOut answers 429 only to an address that had MaxAttempts wrong
\* tokens since a right one, the last of them within the lockout.
THEOREM LockoutsAreJustified == Spec => LockoutJustified
<1> DEFINE Earned(t) == /\ wrong[ip[t]] >= MaxAttempts
                        /\ now - attempts[ip[t]].lastFail <= Lockout
<1>1. ASSUME Core, [Next]_vars, NEW t \in Threads, pc[t] = "isLockedOut", pc'[t] = "idle"
      PROVE  Earned(t)
  <2>1. LockedOut(ip[t])
    <3>1. PCs = {"idle", "bfInit", "isLockedOut", "compare", "signIn", "loginInit",
                 "create", "dashInit", "validate", "show"} /\ TypeOK
      BY <1>1 DEF PCs, Core
    <3>2. ASSUME NEW u \in Threads, Handler(u), u # t PROVE FALSE
      <4>1. ASSUME NEW next \in PCs, pc' = [pc EXCEPT ![u] = next] PROVE FALSE
        BY <1>1, <3>1, <3>2, <4>1, Moved
      <4>2. PICK next \in PCs : pc' = [pc EXCEPT ![u] = next] \/ pc' = pc
        BY <3>1, <3>2 DEF Handler, Login, BruteForceInit, CheckLockout, Compare, SignIn,
                          SessionsInit, Create, Dashboard, Validate, Show, API, Logout,
                          Goto, Return
      <4> QED
        BY <1>1, <4>1, <4>2
    <3>3. Handler(t)
      BY <1>1, <3>2 DEF Next, Tick, vars
    <3>4. CheckLockout(t)
      BY <1>1, <3>3 DEF Handler, Login, BruteForceInit, Compare, SignIn,
                        SessionsInit, Create, Dashboard, Validate, Show, API, Logout
    <3>5. ~Goto(t, "compare")
      BY <1>1, <3>1, Moved DEF Goto
    <3> QED
      BY <3>4, <3>5 DEF CheckLockout
  <2>2. ip[t] \in Addresses
    BY <1>1 DEF Core, Placed
  <2>3. /\ MaxAttempts \in Nat /\ wrong[ip[t]] \in Nat /\ attempts[ip[t]].count \in Nat
        /\ attempts[ip[t]].lockedOut /\ attempts[ip[t]].count >= MaxAttempts
        /\ attempts[ip[t]].lockoutAt = attempts[ip[t]].lastFail
    BY <1>1, <2>1, <2>2, AdminAssumption DEF Core, TypeOK, Attempt, LockedOut
  <2>4. wrong[ip[t]] < MaxAttempts => attempts[ip[t]].count <= wrong[ip[t]]
    BY <1>1, <2>2 DEF Core, Counted, CountedAt
  <2> QED
    BY <2>1, <2>3, <2>4 DEF LockedOut
<1>2. ASSUME Core, [Next]_vars
      PROVE  [\A t \in Threads : pc[t] = "isLockedOut" /\ pc'[t] = "idle" =>
                 /\ wrong[ip[t]] >= MaxAttempts
                 /\ now - attempts[ip[t]].lastFail <= Lockout]_vars
  BY <1>1, <1>2
<1> QED
  BY <1>2, CoreHolds, PTL DEF Spec, LockoutJustified

\* sessionStore: while no handler installs a store, a session that has not
\* timed out is removed by its own logout only.
THEOREM SessionsAreKept == Spec => SessionsKept
<1>1. ASSUME Core, [Next]_vars
      PROVE  [(\A t \in Threads : pc[t] \notin {"loginInit", "dashInit"}) =>
                \A n \in sessions : n \in sessions' \cup closed' \/ Expired(n)]_vars
  <2>1. SUFFICES ASSUME Next, \A t \in Threads : pc[t] \notin {"loginInit", "dashInit"},
                        NEW n \in sessions
                 PROVE  n \in sessions' \cup closed' \/ Expired(n)
    BY <1>1
  <2>2. CASE UNCHANGED store
    BY <2>2 DEF store
  <2>3. ASSUME NEW t \in Threads, SessionsInit(t) PROVE FALSE
    BY <2>1, <2>3 DEF SessionsInit
  <2>4. ASSUME NEW t \in Threads, Create(t) PROVE n \in sessions' \/ Expired(n)
    BY <2>4 DEF Create, create
  <2>5. ASSUME NEW t \in Threads, Logout(t) PROVE n \in sessions' \cup closed'
    BY <2>5 DEF Logout
  <2> QED
    BY <2>1, <2>2, <2>3, <2>4, <2>5, StoreSteps
<1> QED
  BY <1>1, CoreHolds, PTL DEF Spec, SessionsKept
=============================================================================
