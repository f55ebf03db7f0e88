-------------------------- MODULE AdminDashboard --------------------------
(***************************************************************************)
(* The admin endpoints of pkg/server/admin_dashboard.go: login with a      *)
(* lockout per address, sessions held in memory, the dashboard and logout, *)
(* and the bearer check of requireAdminToken, run by concurrent handlers.  *)
(*                                                                         *)
(* The lockout table and the session store are created by the first        *)
(* handler that finds the field nil, without a lock.  A store that has     *)
(* been replaced is reachable from nowhere, so only the current one is     *)
(* kept; reading the field and the critical section that follows it are    *)
(* one step, since a call on a store after its replacement has the effect  *)
(* of the same call just before it.                                        *)
(***************************************************************************)
EXTENDS Integers, Sequences, FiniteSets

CONSTANTS
    Threads,        \* request handlers
    Addresses,      \* what a request says it comes from (getClientIP)
    NoAddress,      \* no request
    AdminEnabled,   \* cfg.AdminToken # ""
    MaxAttempts,    \* maxLoginAttempts
    Lockout,        \* lockoutDuration, in ticks
    Window,         \* failedAttemptWindow, in ticks
    SessionTimeout, \* sessionTimeout, in ticks
    MaxSessions,    \* bound on the logins
    MaxTime         \* bound on the clock

ASSUME AdminAssumption ==
    /\ IsFiniteSet(Threads)
    /\ NoAddress \notin Addresses
    /\ AdminEnabled \in BOOLEAN
    /\ MaxAttempts \in Nat \ {0}
    /\ Window \in Nat /\ Lockout \in Nat
    /\ Lockout >= Window        \* both are 15 minutes
    /\ SessionTimeout \in Nat
    /\ MaxSessions \in Nat /\ MaxTime \in Nat

VARIABLES
    now,                    \* the clock
    bruteForce,             \* s.bruteForce # nil
    attempts,               \* b.attempts; count 0 for an absent entry
    adminSessions,          \* s.adminSessions # nil
    sessions,               \* the keys of sessions.sessions
    createdAt,              \* session.createdAt
    issued,                 \* generateToken: tokens 1 .. issued exist
    pc, ip, token,          \* a handler: its pc, client address, cookie
    stale,                  \* history: its cookie was dead when it started
    guesses,                \* history: recent wrong tokens since a right one
    wrong,                  \* history: wrong tokens since a right one, capped
    closed                  \* history: the sessions logged out

lockouts == <<bruteForce, attempts, guesses, wrong>>
store == <<adminSessions, sessions, createdAt, issued, closed>>
request == <<ip, token, stale>>
vars == <<now, lockouts, store, pc, request>>

Tokens == 1 .. MaxSessions

Attempt == [count : Nat, lastFail : Nat, lockedOut : BOOLEAN, lockoutAt : Nat]

Absent == [count |-> 0, lastFail |-> 0, lockedOut |-> FALSE, lockoutAt |-> 0]

PCs == {"idle", "bfInit", "isLockedOut", "compare", "signIn", "loginInit",
        "create", "dashInit", "validate", "show"}

\* An entry is locked out exactly while it counts MaxAttempts failures, and
\* there are no sessions without a store.
TypeOK ==
    /\ now \in Nat
    /\ bruteForce \in BOOLEAN /\ adminSessions \in BOOLEAN
    /\ attempts \in [Addresses -> Attempt]
    /\ issued \in 0 .. MaxSessions
    /\ sessions \subseteq 1 .. issued
    /\ closed \subseteq 1 .. issued
    /\ createdAt \in [Tokens -> Nat]
    /\ pc \in [Threads -> PCs]
    /\ ip \in [Threads -> Addresses \cup {NoAddress}]
    /\ token \in [Threads -> 0 .. issued]
    /\ stale \in [Threads -> BOOLEAN]
    /\ guesses \in [Addresses -> Seq(Nat)]
    /\ wrong \in [Addresses -> 0 .. MaxAttempts]
    /\ \A a \in Addresses : LET e == attempts[a] IN
          /\ e.lockedOut <=> e.count >= MaxAttempts
          /\ e.lockedOut => e.lockoutAt = e.lastFail
    /\ ~adminSessions => sessions = {}

Init ==
    /\ now = 0
    /\ bruteForce = FALSE
    /\ attempts = [a \in Addresses |-> Absent]
    /\ adminSessions = FALSE
    /\ sessions = {}
    /\ createdAt = [n \in Tokens |-> 0]
    /\ issued = 0
    /\ pc = [t \in Threads |-> "idle"]
    /\ ip = [t \in Threads |-> NoAddress]
    /\ token = [t \in Threads |-> 0]
    /\ stale = [t \in Threads |-> FALSE]
    /\ guesses = [a \in Addresses |-> <<>>]
    /\ wrong = [a \in Addresses |-> 0]
    /\ closed = {}

Goto(t, next) == /\ pc' = [pc EXCEPT ![t] = next]
                 /\ UNCHANGED request

\* The handler returns and its locals are forgotten.
Return(t) == /\ pc' = [pc EXCEPT ![t] = "idle"]
             /\ ip' = [ip EXCEPT ![t] = NoAddress]
             /\ token' = [token EXCEPT ![t] = 0]
             /\ stale' = [stale EXCEPT ![t] = FALSE]

\* X-Forwarded-For if present, its first part; X-Real-Ip; the peer.
getClientIP(peer, xff, xri) ==
    IF xff # <<>> THEN xff[1] ELSE IF xri # <<>> THEN xri[1] ELSE peer

Headers == {<<>>} \cup {<<a>> : a \in Addresses} \cup (Addresses \X Addresses)

Clients == {getClientIP(peer, xff, xri) :
              peer \in Addresses, xff \in Headers, xri \in {h \in Headers : Len(h) < 2}}

-----------------------------------------------------------------------------
(* bruteForceProtector.                                                    *)

\* isLockedOut; an entry whose lockout ran out stays as it is.
LockedOut(a) ==
    attempts[a].lockedOut /\ now - attempts[a].lockoutAt <= Lockout

\* Mutant of Failed: the window is measured from the lockout, not the last
\* failure, so the count starts again with every failure.
FailedWindow(e) ==
    LET count == IF now - e.lockoutAt > Window THEN 1 ELSE e.count + 1
        locks == count >= MaxAttempts
    IN  [count |-> count, lastFail |-> now, lockedOut |-> locks,
         lockoutAt |-> IF locks THEN now ELSE e.lockoutAt]

\* An entry after one more failure.  A new entry has lastFail = 0 in the code,
\* long ago; here it has count 0, which the reset would give it.
Failed(e) ==
    LET restart == now - e.lastFail > Window
        count == IF restart THEN 1 ELSE e.count + 1
        locks == count >= MaxAttempts
    IN  [count |-> count, lastFail |-> now,
         lockedOut |-> locks \/ (e.lockedOut /\ ~restart),
         lockoutAt |-> IF locks THEN now ELSE e.lockoutAt]

Least(m, n) == IF m < n THEN m ELSE n

recordFailed(a) ==
    /\ attempts' = [attempts EXCEPT ![a] = Failed(@)]
    /\ guesses' = [guesses EXCEPT ![a] = Append(@, now)]
    /\ wrong' = [wrong EXCEPT ![a] = Least(@ + 1, MaxAttempts)]
    /\ UNCHANGED bruteForce

\* Mutant of recordSuccess: only the count is reset.
recordSuccessCount(a) ==
    /\ attempts' = [attempts EXCEPT ![a].count = 0]
    /\ guesses' = [guesses EXCEPT ![a] = <<>>]
    /\ wrong' = [wrong EXCEPT ![a] = 0]
    /\ UNCHANGED bruteForce

recordSuccess(a) ==
    /\ attempts' = [attempts EXCEPT ![a] = Absent]
    /\ guesses' = [guesses EXCEPT ![a] = <<>>]
    /\ wrong' = [wrong EXCEPT ![a] = 0]
    /\ UNCHANGED bruteForce

-----------------------------------------------------------------------------
(* handleAdminLogin.                                                       *)

\* Sees whether s.bruteForce is nil; without an admin token it answers 403.
Login(t) ==
    /\ pc[t] = "idle" /\ AdminEnabled
    /\ \E a \in Clients : ip' = [ip EXCEPT ![t] = a]
    /\ pc' = [pc EXCEPT ![t] = IF bruteForce THEN "isLockedOut" ELSE "bfInit"]
    /\ UNCHANGED <<now, lockouts, store, token, stale>>

\* s.bruteForce = newBruteForceProtector(): a second one replaces the first.
BruteForceInit(t) ==
    /\ pc[t] = "bfInit"
    /\ bruteForce' = TRUE
    /\ attempts' = [a \in Addresses |-> Absent]
    /\ guesses' = [a \in Addresses |-> <<>>]
    /\ wrong' = [a \in Addresses |-> 0]
    /\ Goto(t, "isLockedOut")
    /\ UNCHANGED <<now, store>>

\* A locked out address gets 429.
CheckLockout(t) ==
    /\ pc[t] = "isLockedOut"
    /\ IF LockedOut(ip[t]) THEN Return(t) ELSE Goto(t, "compare")
    /\ UNCHANGED <<now, lockouts, store>>

\* The form does not parse, or the token is compared with cfg.AdminToken.
Compare(t) ==
    /\ pc[t] = "compare"
    /\ \/ Return(t) /\ UNCHANGED lockouts
       \/ Return(t) /\ recordFailed(ip[t])
       \/ Goto(t, "signIn") /\ recordSuccess(ip[t])
    /\ UNCHANGED <<now, store>>

SignIn(t) ==
    /\ pc[t] = "signIn"
    /\ Goto(t, IF adminSessions THEN "create" ELSE "loginInit")
    /\ UNCHANGED <<now, lockouts, store>>

\* s.adminSessions = newSessionStore(), in a login or in the dashboard.
SessionsInit(t) ==
    /\ \/ pc[t] = "loginInit" /\ Goto(t, "create")
       \/ pc[t] = "dashInit" /\ Goto(t, "validate")
    /\ adminSessions' = TRUE
    /\ sessions' = {}
    /\ UNCHANGED <<now, lockouts, createdAt, issued, closed>>

Expired(n) == now - createdAt[n] > SessionTimeout

\* Mutant of create: the clean-up keeps the expired sessions only.
createSweepLive ==
    /\ issued < MaxSessions
    /\ issued' = issued + 1
    /\ createdAt' = [createdAt EXCEPT ![issued + 1] = now]
    /\ sessions' = {n \in sessions : Expired(n)} \cup {issued + 1}

\* sessionStore.create sweeps the expired sessions and adds one.
create ==
    /\ issued < MaxSessions
    /\ issued' = issued + 1
    /\ createdAt' = [createdAt EXCEPT ![issued + 1] = now]
    /\ sessions' = {n \in sessions : ~Expired(n)} \cup {issued + 1}

\* The response carries the token as a cookie; or none could be generated.
Create(t) ==
    /\ pc[t] = "create"
    /\ Return(t)
    /\ create \/ UNCHANGED <<sessions, createdAt, issued>>
    /\ UNCHANGED <<now, lockouts, adminSessions, closed>>

-----------------------------------------------------------------------------
(* handleAdminDashboard and handleAdminLogout.  A cookie is the token of   *)
(* some login, or 0 for none and for anything else.                        *)

Dashboard(t) ==
    /\ pc[t] = "idle"
    /\ \E n \in 0 .. issued :
          /\ token' = [token EXCEPT ![t] = n]
          /\ stale' = [stale EXCEPT ![t] = n = 0 \/ n \in closed \/ Expired(n)]
    /\ pc' = [pc EXCEPT ![t] = IF adminSessions THEN "validate" ELSE "dashInit"]
    /\ UNCHANGED <<now, lockouts, store, ip>>

\* Mutant of validate: createdAt is not looked at.
validateNoExpiry(n) == n \in sessions

validate(n) == n \in sessions /\ ~Expired(n)

\* Without a valid session the page is the login form.
Validate(t) ==
    /\ pc[t] = "validate"
    /\ IF validate(token[t]) THEN Goto(t, "show") ELSE Return(t)
    /\ UNCHANGED <<now, lockouts, store>>

\* The statistics and the certificates are read and rendered.
Show(t) ==
    /\ pc[t] = "show"
    /\ Return(t)
    /\ UNCHANGED <<now, lockouts, store>>

\* handleAdminStats or handleAdminCerts behind requireAdminToken, given the
\* admin token; any other Authorization header gets 401 or 403.
API(t) ==
    /\ pc[t] = "idle" /\ AdminEnabled
    /\ pc' = [pc EXCEPT ![t] = "show"]
    /\ UNCHANGED <<now, lockouts, store, request>>

\* Deletes the cookie's session from the store, if there is one.
Logout(t) ==
    /\ pc[t] = "idle"
    /\ \E n \in 1 .. issued :
          /\ sessions' = sessions \ {n}
          /\ closed' = closed \cup {n}
    /\ UNCHANGED <<now, lockouts, adminSessions, createdAt, issued, pc, request>>

\* The guesses of an address, oldest first, that are still recent at a time.
RecentAt(time, gs) ==
    LET old == {i \in 1 .. Len(gs) : time - gs[i] > Window}
    IN  SubSeq(gs, Cardinality(old) + 1, Len(gs))

Tick ==
    /\ now < MaxTime
    /\ now' = now + 1
    /\ guesses' = [a \in Addresses |-> RecentAt(now + 1, guesses[a])]
    /\ UNCHANGED <<bruteForce, attempts, wrong, store, pc, request>>

Handler(t) ==
    \/ Login(t) \/ BruteForceInit(t) \/ CheckLockout(t) \/ Compare(t)
    \/ SignIn(t) \/ SessionsInit(t) \/ Create(t)
    \/ Dashboard(t) \/ Validate(t) \/ Show(t) \/ Logout(t)
    \/ API(t)

Next == Tick \/ \E t \in Threads : Handler(t)

Spec == Init /\ [][Next]_vars

-----------------------------------------------------------------------------
(* "max failed attempts before lockout", with the check, the comparison    *)
(* and the record in three critical sections: within any Window an address *)
(* gets MaxAttempts wrong tokens compared, and one more for every other    *)
(* handler that was past the check when the lockout began, however         *)
(* failures, right tokens, lockouts that end and new windows follow each   *)
(* other (counted from the creation of the table in use; a second table,   *)
(* installed by a late initialisation, starts at nothing).                 *)
GuessesBounded ==
    \A a \in Addresses :
        Len(guesses[a]) <= MaxAttempts + Cardinality(Threads) - 1

(* A lockout ends and is earned: an address is answered 429 only if it had *)
(* MaxAttempts wrong tokens since its last right one, and one of them no   *)
(* longer ago than the lockout lasts.  The address is the one each request *)
(* claims, in a header the client writes: whoever claims another's address *)
(* can lock that other out.                                                *)
LockoutJustified ==
    [][\A t \in Threads :
          pc[t] = "isLockedOut" /\ pc'[t] = "idle" =>
              /\ wrong[ip[t]] >= MaxAttempts
              /\ now - attempts[ip[t]].lastFail <= Lockout]_vars

(* "session-based auth ... 24-hour timeout": what a handler shows, it      *)
(* shows for a session that a login opened and that was neither logged out *)
(* nor timed out when the request began, whatever else ran meanwhile.      *)
OnlyAdminsSee ==
    \A t \in Threads : pc[t] = "show" => ~stale[t]

(* Once no handler is about to install a store, a session that has not     *)
(* timed out is only ever removed by its own logout: neither the sweep of  *)
(* another login nor a late initialisation loses it.                       *)
SessionsKept ==
    [][(\A t \in Threads : pc[t] \notin {"loginInit", "dashInit"}) =>
          \A n \in sessions : n \in sessions' \cup closed' \/ Expired(n)]_vars
=============================================================================
