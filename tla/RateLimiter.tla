---------------------------- MODULE RateLimiter ----------------------------
(***************************************************************************)
(* The sliding-window limiter of pkg/ratelimit/ratelimit.go: goroutines in *)
(* Limiter.Allow (called by Limiter.Middleware for every /exchange         *)
(* request) interleave with the background Cleanup goroutine.              *)
(*                                                                         *)
(* Two locks matter.  l.mu guards the map of client objects and is held    *)
(* for the whole of Cleanup, but Allow releases it after the lookup and    *)
(* only then takes the lock of the client object it found.  Cleanup reads  *)
(* len(c.timestamps) after it has released that object's lock, so Allow is *)
(* two steps inside its critical section: an unlocked reader can see the   *)
(* pruned slice before the new stamp is appended.                          *)
(*                                                                         *)
(* A client object's slice is kept as the set `live' of positions in `log',*)
(* the history of every admission through that object: the code filters    *)
(* the slice, appends to it and takes its length, never its order.         *)
(***************************************************************************)
EXTENDS Integers, Sequences, FiniteSets

CONSTANTS
    Threads,    \* goroutines that serve requests
    IPs,        \* rate-limit keys returned by extractIP
    Clients,    \* addresses of client objects, handed out in order
    NoClient,   \* the nil *client
    NoIP,       \* the owner of an object that is not allocated
    NoThread,   \* an unlocked client.mu
    Requests,   \* l.requests
    Window,     \* l.window, in ticks
    MaxDelay,   \* ticks between Allow's time.Now() and its verdict, at most
    MaxTime,    \* bound on the clock
    MaxCalls    \* bound on the number of calls of Allow

ASSUME ParamAssumption ==
    /\ Requests \in Nat \ {0}       \* IsEnabled: 0 disables the limiter
    /\ Window \in Nat \ {0}         \* New replaces a window <= 0
    /\ MaxDelay \in Nat
    /\ MaxTime \in Nat
    /\ MaxCalls \in Nat

ASSUME NullAssumption ==
    /\ Clients \subseteq Nat /\ IsFiniteSet(Clients)
    /\ NoClient \notin Clients
    /\ NoIP \notin IPs
    /\ NoThread \notin Threads

VARIABLES
    now,        \* the clock
    calls,      \* calls of Allow so far
    clients,    \* l.clients
    owner,      \* history: the key an object was allocated for
    raced,      \* history: the keys whose entry went while a call held it
    log,        \* history: the admissions through an object, in order
    live,       \* the positions of log[c] that are still in c.timestamps
    cmu,        \* the holder of c.mu
    pc, ip, tnow, held,     \* Allow's locals
    sweep       \* the Cleanup goroutine: its pc and locals

threadVars == <<pc, ip, tnow, held>>
vars ==
    <<now, calls, clients, owner, raced, log, live, cmu, threadVars, sweep>>

Admission == [stamp : Nat, at : Nat]

PCs == {"idle", "lookup", "lock", "decide"}
SweepPCs == {"idle", "lock", "range", "check"}

TypeOK ==
    /\ now \in Nat
    /\ calls \in Nat
    /\ clients \in [IPs -> Clients \cup {NoClient}]
    /\ owner \in [Clients -> IPs \cup {NoIP}]
    /\ raced \in SUBSET IPs
    /\ log \in [Clients -> Seq(Admission)]
    /\ live \in [Clients -> SUBSET Nat]
    /\ cmu \in [Clients -> Threads \cup {NoThread}]
    /\ pc \in [Threads -> PCs]
    /\ ip \in [Threads -> IPs \cup {NoIP}]
    /\ tnow \in [Threads -> Nat]
    /\ held \in [Threads -> Clients \cup {NoClient}]
    /\ sweep \in [pc : SweepPCs, cutoff : Int, todo : SUBSET IPs,
                  cur : IPs \cup {NoIP}]

Init ==
    /\ now = 0
    /\ calls = 0
    /\ clients = [i \in IPs |-> NoClient]
    /\ owner = [c \in Clients |-> NoIP]
    /\ raced = {}
    /\ log = [c \in Clients |-> <<>>]
    /\ live = [c \in Clients |-> {}]
    /\ cmu = [c \in Clients |-> NoThread]
    /\ pc = [t \in Threads |-> "idle"]
    /\ ip = [t \in Threads |-> NoIP]
    /\ tnow = [t \in Threads |-> 0]
    /\ held = [t \in Threads |-> NoClient]
    /\ sweep = [pc |-> "idle", cutoff |-> 0, todo |-> {}, cur |-> NoIP]

-----------------------------------------------------------------------------
(* Limiter.Allow *)

\* l.mu is free: Allow holds it within one step, Cleanup for its whole loop.
LimiterUnlocked == sweep.pc \in {"idle", "lock"}

\* Mutant of Valid: expired stamps are not dropped.
ValidNoPrune(c, cutoff) == live[c]

\* The stamps that are after the cutoff; the others leave the slice.
Valid(c, cutoff) == {k \in live[c] : log[c][k].stamp > cutoff}

\* The middleware calls Allow, which reads the clock before any lock.
AllowStart(t, i) ==
    /\ pc[t] = "idle"
    /\ calls < MaxCalls
    /\ calls' = calls + 1
    /\ pc' = [pc EXCEPT ![t] = "lookup"]
    /\ ip' = [ip EXCEPT ![t] = i]
    /\ tnow' = [tnow EXCEPT ![t] = now]
    /\ UNCHANGED <<now, clients, owner, raced, log, live, cmu, held, sweep>>

\* Under l.mu: find the object of the key ...
AllowFound(t) ==
    /\ pc[t] = "lookup"
    /\ LimiterUnlocked
    /\ clients[ip[t]] # NoClient
    /\ held' = [held EXCEPT ![t] = clients[ip[t]]]
    /\ pc' = [pc EXCEPT ![t] = "lock"]
    /\ UNCHANGED <<now, calls, clients, owner, raced, log, live, cmu, ip, tnow,
                   sweep>>

\* ... or allocate one and register it.
AllowInsert(t) ==
    /\ pc[t] = "lookup"
    /\ LimiterUnlocked
    /\ clients[ip[t]] = NoClient
    /\ \E c \in Clients :
         /\ owner[c] = NoIP
         /\ \A d \in Clients : owner[d] = NoIP => c <= d
         /\ owner' = [owner EXCEPT ![c] = ip[t]]
         /\ clients' = [clients EXCEPT ![ip[t]] = c]
         /\ held' = [held EXCEPT ![t] = c]
    /\ pc' = [pc EXCEPT ![t] = "lock"]
    /\ UNCHANGED <<now, calls, raced, log, live, cmu, ip, tnow, sweep>>

\* Take c.mu and drop the stamps that left the window.
AllowPrune(t) ==
    /\ pc[t] = "lock"
    /\ cmu[held[t]] = NoThread
    /\ cmu' = [cmu EXCEPT ![held[t]] = t]
    /\ live' = [live EXCEPT ![held[t]] = Valid(held[t], tnow[t] - Window)]
    /\ pc' = [pc EXCEPT ![t] = "decide"]
    /\ UNCHANGED <<now, calls, clients, owner, raced, log, ip, tnow, held,
                   sweep>>

OverLimit(c) == Cardinality(live[c]) >= Requests

\* Release c.mu; the locals go out of scope.
AllowReturn(t) ==
    /\ cmu' = [cmu EXCEPT ![held[t]] = NoThread]
    /\ pc' = [pc EXCEPT ![t] = "idle"]
    /\ ip' = [ip EXCEPT ![t] = NoIP]
    /\ tnow' = [tnow EXCEPT ![t] = 0]
    /\ held' = [held EXCEPT ![t] = NoClient]

\* Under c.mu: refuse ...
AllowDeny(t) ==
    /\ pc[t] = "decide"
    /\ OverLimit(held[t])
    /\ AllowReturn(t)
    /\ UNCHANGED <<now, calls, clients, owner, raced, log, live, sweep>>

\* ... or record the stamp read at the start and admit.
AllowAdmit(t) ==
    /\ pc[t] = "decide"
    /\ ~OverLimit(held[t])
    /\ log' = [log EXCEPT ![held[t]] =
                 Append(@, [stamp |-> tnow[t], at |-> now])]
    /\ live' = [live EXCEPT ![held[t]] = @ \cup {Len(log[held[t]]) + 1}]
    /\ AllowReturn(t)
    /\ UNCHANGED <<now, calls, clients, owner, raced, sweep>>

-----------------------------------------------------------------------------
(* Limiter.Cleanup, run by the goroutine of StartCleanup on every tick of  *)
(* its ticker.                                                             *)

\* Mutant of CleanupStart: the cutoff is the clock, not a window before it.
CleanupStartNow ==
    /\ sweep.pc = "idle"
    /\ sweep' = [sweep EXCEPT !.pc = "lock", !.cutoff = now]
    /\ UNCHANGED <<now, calls, clients, owner, raced, log, live, cmu,
                   threadVars>>

CleanupStart ==
    /\ sweep.pc = "idle"
    /\ sweep' = [sweep EXCEPT !.pc = "lock", !.cutoff = now - Window]
    /\ UNCHANGED <<now, calls, clients, owner, raced, log, live, cmu,
                   threadVars>>

CleanupLock ==
    /\ sweep.pc = "lock"
    /\ sweep' = [sweep EXCEPT !.pc = "range",
                              !.todo = {i \in IPs : clients[i] # NoClient}]
    /\ UNCHANGED <<now, calls, clients, owner, raced, log, live, cmu,
                   threadVars>>

\* One iteration of the map range, in any order: prune under c.mu.
CleanupPrune(i) ==
    /\ sweep.pc = "range"
    /\ i \in sweep.todo
    /\ cmu[clients[i]] = NoThread
    /\ live' = [live EXCEPT ![clients[i]] = Valid(clients[i], sweep.cutoff)]
    /\ sweep' = [sweep EXCEPT !.pc = "check", !.cur = i,
                              !.todo = @ \ {i}]
    /\ UNCHANGED <<now, calls, clients, owner, raced, log, cmu, threadVars>>

\* Mutant of CleanupCheck: the empty entry stays in the map.
CleanupCheckKeep ==
    /\ sweep.pc = "check"
    /\ sweep' = [sweep EXCEPT !.pc = "range", !.cur = NoIP]
    /\ UNCHANGED <<now, calls, clients, owner, raced, log, live, cmu,
                   threadVars>>

\* The calls that have looked the object c up and not returned.
Holding(c) == {t \in Threads : held[t] = c}

\* Mutant of Removable: the entry goes while its slice still counts.
RemovableAlways(c) == TRUE

Removable(c) == live[c] = {}

\* After c.mu.Unlock(): the length is read, and the entry deleted, unlocked.
CleanupCheck ==
    /\ sweep.pc = "check"
    /\ IF Removable(clients[sweep.cur])
         THEN /\ clients' = [clients EXCEPT ![sweep.cur] = NoClient]
              /\ raced' = IF Holding(clients[sweep.cur]) = {} THEN raced
                          ELSE raced \cup {sweep.cur}
         ELSE UNCHANGED <<clients, raced>>
    /\ sweep' = [sweep EXCEPT !.pc = "range", !.cur = NoIP]
    /\ UNCHANGED <<now, calls, owner, log, live, cmu, threadVars>>

CleanupDone ==
    /\ sweep.pc = "range"
    /\ sweep.todo = {}
    /\ sweep' = [sweep EXCEPT !.pc = "idle", !.cutoff = 0]
    /\ UNCHANGED <<now, calls, clients, owner, raced, log, live, cmu,
                   threadVars>>

-----------------------------------------------------------------------------
\* The clock; no call of Allow takes longer than MaxDelay ticks.
Tick ==
    /\ now < MaxTime
    /\ \A t \in Threads : pc[t] # "idle" => now - tnow[t] < MaxDelay
    /\ now' = now + 1
    /\ UNCHANGED <<calls, clients, owner, raced, log, live, cmu, threadVars,
                   sweep>>

AllowStep(t) ==
    \/ AllowFound(t)
    \/ AllowInsert(t)
    \/ AllowPrune(t)
    \/ AllowDeny(t)
    \/ AllowAdmit(t)

Cleanup ==
    \/ CleanupStart
    \/ CleanupLock
    \/ \E i \in IPs : CleanupPrune(i)
    \/ CleanupCheck
    \/ CleanupDone

Next ==
    \/ \E t \in Threads, i \in IPs : AllowStart(t, i)
    \/ \E t \in Threads : AllowStep(t)
    \/ Cleanup
    \/ Tick

Spec == Init /\ [][Next]_vars

\* The ticker of StartCleanup fires again and again, a goroutine that holds a
\* lock runs, and a Go mutex hands over to a waiter that waited for 1ms, so
\* Cleanup is not starved by the calls of Allow.
Fairness ==
    /\ \A t \in Threads : WF_vars(AllowDeny(t) \/ AllowAdmit(t))
    /\ SF_vars(Cleanup)

FairSpec == Spec /\ Fairness

-----------------------------------------------------------------------------
(* Properties *)

\* A client object never admits more than Requests requests in Window -
\* MaxDelay ticks: the admission that comes Requests places after another is
\* at least that much later.  Allow reads its clock before it waits for two
\* locks, so stamps enter the slice out of order and late; Cleanup prunes the
\* same slice with yet another cutoff.
ClientWindow ==
    \A c \in Clients : \A k \in 1 .. (Len(log[c]) - Requests) :
        log[c][k + Requests].at - log[c][k].at >= Window - MaxDelay

\* The admissions of key i in [from, to), whatever object recorded them.
AdmissionsIn(i, from, to) ==
    UNION {{<<c, k>> : k \in {j \in DOMAIN log[c] : /\ log[c][j].at >= from
                                                    /\ log[c][j].at < to}} :
             c \in {d \in Clients : owner[d] = i}}

\* The same of a key, through whatever objects its requests went, as long as
\* Cleanup has deleted the key's entry only while no call held it: that race
\* is the only way past the limit.
KeyWindow ==
    \A i \in IPs \ raced, from \in 0 .. now :
        Cardinality(AdmissionsIn(i, from, from + Window - MaxDelay))
          <= Requests

\* The two locks, the clock read before them, the pruning by calls and by
\* Cleanup and the verdict behave, for each object, as one decision.
SW == INSTANCE SlidingWindow

ImplementsSlidingWindow == SW!Spec

\* The admissions of key i with a stamp after the cutoff, whatever object
\* recorded them.
AdmissionsAfter(i, cutoff) ==
    UNION {{<<c, k>> :
              k \in {j \in DOMAIN log[c] : log[c][j].stamp > cutoff}} :
             c \in {d \in Clients : owner[d] = i}}

\* Allow refuses a request only when Requests requests of the same key were
\* admitted with a stamp inside its window: neither another key's traffic nor
\* an expired stamp, nor an entry Cleanup deleted and Allow created again, can
\* cost a client a request.
DenialJustified ==
    [][\A t \in Threads :
         AllowDeny(t) =>
            Cardinality(AdmissionsAfter(ip[t], tnow[t] - Window))
              >= Requests]_vars

\* The entry of a key with no call in progress and no stamp in the window.
Idle(i) ==
    /\ \A t \in Threads : pc[t] = "idle" \/ ip[t] # i
    /\ \A c \in Clients : owner[c] = i => Valid(c, now - Window) = {}

\* Cleanup eventually deletes the entry of a key that stays idle, so that the
\* map does not keep one object per address ever seen.
IdleEntryReclaimed ==
    \A i \in IPs : <>[]Idle(i) => <>[](clients[i] = NoClient)

\* What the documentation promises for a key: at most Requests admissions in
\* any Window.  It does not hold: see MCRateLimiterOrphan.
IPWindow ==
    \A i \in IPs, from \in 0 .. MaxTime :
        Cardinality(AdmissionsIn(i, from, from + Window)) <= Requests
=============================================================================
