--------------------------- MODULE CertReloader ---------------------------
(***************************************************************************)
(* certReloader of pkg/server/certreload.go: the TLS key pair served from  *)
(* two files that another process rewrites while handshakes, each in its   *)
(* own goroutine, stat and reload them under a lock.                       *)
(*                                                                         *)
(* A file is the stamp stat gives of it (size and modification time, taken *)
(* as different for every write, 0 for a missing file) and the generation  *)
(* of the key pair it belongs to (0 for content that does not parse).      *)
(***************************************************************************)
EXTENDS Integers

CONSTANTS
    Threads,        \* handshakes
    Main,           \* the goroutine of Server.Start, which loads the first pair
    NoThread,       \* an unlocked mutex
    Interval,       \* r.interval, in ticks
    Generations,    \* key pairs the operator installs
    MaxWrites,      \* bound on the writes of the two files
    MaxTime         \* bound on the clock

ASSUME ReloaderAssumption ==
    /\ Interval \in Nat
    /\ Generations \subseteq Nat \ {0}
    /\ MaxWrites \in Nat
    /\ MaxTime \in Nat
    /\ Main \notin Threads
    /\ NoThread \notin Threads \cup {Main}

VARIABLES
    now,                    \* the clock
    crt, key,               \* external: the two files
    writes, changedAt,      \* external: writes so far, when the last one was
    mu,                     \* the holder of r.mu as a writer
    cert, stamp, lastCheck, \* r.cert, r.stamp, r.lastCheck
    pc, since,              \* a goroutine: its pc, when its call began
    seen, half,             \* the lock holder's locals: stamps, certificate read
    readyAt,                \* history: when Start began to serve
    ret                     \* history: what the call that ended last served

files == <<crt, key, writes, changedAt>>
reloader == <<cert, stamp, lastCheck>>
locals == <<seen, half>>
vars == <<now, files, mu, reloader, pc, since, locals, readyAt, ret>>

Procs == Threads \cup {Main}

File == [stamp : Nat, gen : Generations \cup {0}]

Missing == [stamp |-> 0, gen |-> 0]

OnDisk == <<crt.stamp, key.stamp>>

Paired == crt.gen = key.gen /\ crt.gen # 0

PCs == {"idle", "fast", "slow", "failed", "statCert", "statKey",
        "loadStatCert", "loadStatKey", "readCert", "readKey", "install"}

Holding == PCs \ {"idle", "fast", "slow", "failed"}

\* A goroutine is between Lock and Unlock exactly while it holds r.mu.
TypeOK ==
    /\ now \in Nat
    /\ crt \in File /\ key \in File
    /\ writes \in Nat /\ changedAt \in Nat
    /\ mu \in Procs \cup {NoThread}
    /\ cert \in Generations \cup {0}
    /\ stamp \in Nat \X Nat /\ seen \in Nat \X Nat
    /\ lastCheck \in Nat
    /\ pc \in [Procs -> PCs]
    /\ since \in [Procs -> Nat]
    /\ half \in Generations \cup {0}
    /\ readyAt \in Nat
    /\ ret \in [gen : Nat, since : Nat]
    /\ \A p \in Procs : pc[p] \in Holding <=> mu = p

\* Start is in newCertReloader, which shares nothing yet: holding r.mu keeps
\* the handshakes of the future out as the order of the program does.
Init ==
    /\ now = 0
    /\ \E g \in Generations : /\ crt = [stamp |-> 1, gen |-> g]
                              /\ key = [stamp |-> 1, gen |-> g]
    /\ writes = 1 /\ changedAt = 0
    /\ mu = Main
    /\ cert = 0 /\ stamp = <<0, 0>> /\ lastCheck = 0
    /\ pc = [p \in Procs |-> IF p = Main THEN "loadStatCert" ELSE "idle"]
    /\ since = [p \in Procs |-> 0]
    /\ seen = <<0, 0>> /\ half = 0
    /\ readyAt = 0
    /\ ret = [gen |-> 0, since |-> 0]

Goto(p, next) == pc' = [pc EXCEPT ![p] = next]

-----------------------------------------------------------------------------
(* A rotation: the files are replaced one after the other, or both at once *)
(* (the ..data symlink of a Secret), caught half written, or removed.      *)

Content(g) == [stamp |-> writes + 1, gen |-> g]

WriteCert == /\ \E g \in Generations \cup {0} : crt' = Content(g)
             /\ UNCHANGED key

WriteKey == /\ \E g \in Generations \cup {0} : key' = Content(g)
            /\ UNCHANGED crt

SwapPair == \E g \in Generations : /\ crt' = Content(g)
                                   /\ key' = Content(g)

RemoveFile == \/ crt' = Missing /\ UNCHANGED key
              \/ key' = Missing /\ UNCHANGED crt

Rewrite ==
    /\ writes < MaxWrites
    /\ WriteCert \/ WriteKey \/ SwapPair \/ RemoveFile
    /\ writes' = writes + 1
    /\ changedAt' = now
    /\ UNCHANGED <<now, mu, reloader, pc, since, locals, readyAt, ret>>

-----------------------------------------------------------------------------
(* A call that ends releases r.mu if it holds it, and its locals are       *)
(* forgotten.  For Start the end is the return of newCertReloader: it      *)
(* serves, or gives up with the error.                                     *)

Recent == now - lastCheck < Interval

Served(t, g) == ret' = [gen |-> g, since |-> since[t]]

EndHolding(p) == /\ mu' = NoThread
                 /\ IF p = Main THEN Goto(p, IF cert' = 0 THEN "failed" ELSE "idle")
                                ELSE Goto(p, "idle")
                 /\ IF p = Main THEN UNCHANGED ret ELSE Served(p, cert')
                 /\ since' = [since EXCEPT ![p] = 0]
                 /\ seen' = <<0, 0>> /\ half' = 0
                 /\ readyAt' = IF p = Main THEN now ELSE readyAt
                 /\ UNCHANGED <<now, files>>

\* A TLS handshake calls GetCertificate.
Handshake(t) ==
    /\ pc[t] = "idle" /\ pc[Main] = "idle"
    /\ since' = [since EXCEPT ![t] = now]
    /\ Goto(t, "fast")
    /\ UNCHANGED <<now, files, mu, reloader, locals, readyAt, ret>>

\* Under RLock: checked less than an interval ago, or not.
FastHit(t) ==
    /\ pc[t] = "fast" /\ mu = NoThread /\ Recent
    /\ Served(t, cert)
    /\ since' = [since EXCEPT ![t] = 0]
    /\ Goto(t, "idle")
    /\ UNCHANGED <<now, files, mu, reloader, locals, readyAt>>

FastMiss(t) ==
    /\ pc[t] = "fast" /\ mu = NoThread /\ ~Recent
    /\ Goto(t, "slow")
    /\ UNCHANGED <<now, files, mu, reloader, since, locals, readyAt, ret>>

\* refresh, under Lock: another handshake has refreshed meanwhile.
RecheckHit(t) ==
    /\ pc[t] = "slow" /\ mu = NoThread /\ Recent
    /\ Served(t, cert)
    /\ since' = [since EXCEPT ![t] = 0]
    /\ Goto(t, "idle")
    /\ UNCHANGED <<now, files, mu, reloader, locals, readyAt>>

\* Mutant of RefreshStart: no second look at lastCheck under the lock.
RefreshStartNoRecheck(t) ==
    /\ pc[t] = "slow" /\ mu = NoThread
    /\ mu' = t
    /\ lastCheck' = now
    /\ Goto(t, "statCert")
    /\ UNCHANGED <<now, files, cert, stamp, since, locals, readyAt, ret>>

RefreshStart(t) ==
    /\ pc[t] = "slow" /\ mu = NoThread /\ ~Recent
    /\ mu' = t
    /\ lastCheck' = now
    /\ Goto(t, "statCert")
    /\ UNCHANGED <<now, files, cert, stamp, since, locals, readyAt, ret>>

-----------------------------------------------------------------------------
(* fingerprint, first for the comparison and then again inside load.       *)

Abandon(p) == UNCHANGED reloader /\ EndHolding(p)

StatCert(p) ==
    /\ pc[p] \in {"statCert", "loadStatCert"}
    /\ IF crt = Missing
         THEN Abandon(p)
         ELSE /\ seen' = <<crt.stamp, 0>>
              /\ Goto(p, IF pc[p] = "statCert" THEN "statKey" ELSE "loadStatKey")
              /\ UNCHANGED <<now, files, mu, reloader, since, half, readyAt, ret>>

\* stamp == r.stamp: nothing to load.
StatKey(p) ==
    /\ pc[p] = "statKey"
    /\ IF key = Missing \/ <<seen[1], key.stamp>> = stamp
         THEN Abandon(p)
         ELSE /\ Goto(p, "loadStatCert")
              /\ UNCHANGED <<now, files, mu, reloader, since, locals, readyAt, ret>>

LoadStatKey(p) ==
    /\ pc[p] = "loadStatKey"
    /\ IF key = Missing
         THEN Abandon(p)
         ELSE /\ seen' = <<seen[1], key.stamp>>
              /\ Goto(p, "readCert")
              /\ UNCHANGED <<now, files, mu, reloader, since, half, readyAt, ret>>

\* tls.LoadX509KeyPair reads one file, then the other.
ReadCert(p) ==
    /\ pc[p] = "readCert"
    /\ IF crt = Missing
         THEN Abandon(p)
         ELSE /\ half' = crt.gen
              /\ Goto(p, "readKey")
              /\ UNCHANGED <<now, files, mu, reloader, since, seen, readyAt, ret>>

\* A pair that does not match, or does not parse, is not installed.
ReadKey(p) ==
    /\ pc[p] = "readKey"
    /\ IF half = 0 \/ key.gen # half
         THEN Abandon(p)
         ELSE /\ Goto(p, "install")
              /\ UNCHANGED <<now, files, mu, reloader, since, locals, readyAt, ret>>

\* Mutant of Install: the files are fingerprinted after they were read.
InstallStampLate(p) ==
    /\ pc[p] = "install"
    /\ cert' = half
    /\ stamp' = OnDisk
    /\ lastCheck' = IF p = Main THEN now ELSE lastCheck
    /\ EndHolding(p)

\* Mutant of Install: refresh too stamps lastCheck after the load.
InstallStampNow(p) ==
    /\ pc[p] = "install"
    /\ cert' = half
    /\ stamp' = seen
    /\ lastCheck' = now
    /\ EndHolding(p)

\* newCertReloader stamps lastCheck after the load, refresh before it.
Install(p) ==
    /\ pc[p] = "install"
    /\ cert' = half
    /\ stamp' = seen
    /\ lastCheck' = IF p = Main THEN now ELSE lastCheck
    /\ EndHolding(p)

\* Start returned the error and the process ended; its supervisor runs it again.
Restart ==
    /\ pc[Main] = "failed"
    /\ mu' = Main
    /\ Goto(Main, "loadStatCert")
    /\ UNCHANGED <<now, files, reloader, since, locals, readyAt, ret>>

Tick ==
    /\ now < MaxTime
    /\ now' = now + 1
    /\ UNCHANGED <<files, mu, reloader, pc, since, locals, readyAt, ret>>

Load(p) == \/ StatCert(p) \/ StatKey(p) \/ LoadStatKey(p)
           \/ ReadCert(p) \/ ReadKey(p) \/ Install(p)

Call(t) == \/ Handshake(t) \/ FastHit(t) \/ FastMiss(t)
           \/ RecheckHit(t) \/ RefreshStart(t)

Next ==
    \/ Tick \/ Rewrite \/ Restart
    \/ \E t \in Threads : Call(t)
    \/ \E p \in Procs : Load(p)

Spec == Init /\ [][Next]_vars

-----------------------------------------------------------------------------
(* "the normal transient state while something rewrites them": whatever    *)
(* half-written state a reload met, the stamp it leaves never vouches for  *)
(* files whose pair is not the one being served.  Were it to, no later     *)
(* check would load them.                                                  *)
StampHonest ==
    (mu = NoThread /\ cert # 0 /\ stamp = OnDisk) => (Paired /\ cert = crt.gen)

(* "picking up changes without a restart": a handshake that begins an      *)
(* interval or more after the files last changed, and after the server     *)
(* came up, is served the pair in the files if they hold one, however the  *)
(* reloads before it interleaved with the rotation.                        *)
StaleBounded ==
    /\ ret.since >= changedAt + Interval
    /\ ret.since >= readyAt + Interval
    /\ ret.gen # 0 /\ Paired
    => ret.gen = crt.gen

(* "checking at most once a minute ... keeps the TLS handshake path off    *)
(* the filesystem": two checks are an interval apart, although every       *)
(* handshake of an idle minute finds lastCheck too old.                    *)
CheckedOncePerInterval ==
    [][lastCheck' # lastCheck => lastCheck' - lastCheck >= Interval \/ pc[Main] # "idle"]_vars
=============================================================================
