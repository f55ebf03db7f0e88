------------------------- MODULE CertReloaderProofs -------------------------
(***************************************************************************)
(* Theorems about CertReloader, for every value of its constants.          *)
(***************************************************************************)
EXTENDS CertReloader, TLAPS

Resting == PCs \ Holding

Statted == {"statKey", "loadStatKey", "readCert", "readKey", "install"}

Parsing == {"readKey", "install"}

\* No two writes leave the same stamp, and what is remembered of a file is
\* the stamp of a file that was there.
Stamps ==
    /\ crt.stamp <= writes /\ key.stamp <= writes
    /\ crt.stamp = 0 => crt = Missing
    /\ key.stamp = 0 => key = Missing
    /\ seen[1] <= writes /\ seen[2] <= writes
    /\ stamp[1] <= writes /\ stamp[2] <= writes
    /\ cert # 0 => stamp[1] > 0 /\ stamp[2] > 0

\* No handshake begins before Start serves.
Startup == pc[Main] # "idle" => \A t \in Threads : pc[t] = "idle"

\* Nothing is dated in the future, and a refresh starts in its call.
Clock ==
    /\ changedAt <= now /\ lastCheck <= now /\ readyAt <= now /\ ret.since <= now
    /\ \A p \in Procs : since[p] <= now
    /\ mu \in Threads => since[mu] <= lastCheck

\* What the lock holder read, if the stamps it saw are still those on disk.
Seen ==
    mu # NoThread =>
      /\ pc[mu] \in Statted => seen[1] > 0
      /\ pc[mu] \in {"readCert"} \cup Parsing => seen[2] > 0
      /\ pc[mu] \in Parsing /\ seen[1] = crt.stamp => half = crt.gen
      /\ pc[mu] = "install" => half # 0 /\ (seen[2] = key.stamp => half = key.gen)

\* StampHonest, at every moment.
Honest == cert # 0 /\ stamp = OnDisk => Paired /\ cert = crt.gen

\* A refresh that began after the last change saw the files as they are.
Current ==
    lastCheck > changedAt /\ lastCheck > readyAt =>
      /\ mu \in Threads /\ pc[mu] \in Statted => seen[1] = crt.stamp
      /\ mu = NoThread /\ cert # 0 /\ Paired => cert = crt.gen

-----------------------------------------------------------------------------

LEMMA Distinct ==
    /\ Main \in Procs /\ NoThread \notin Procs /\ Main \notin Threads
    /\ Threads \subseteq Procs
    /\ Generations \cup {0} \subseteq Nat
  BY ReloaderAssumption DEF Procs

\* A goroutine that moves on keeps r.mu, takes it, releases it, or never had it.
LEMMA LockKept ==
    ASSUME TypeOK, NEW p \in Procs, NEW next \in PCs, Goto(p, next),
           \/ next \in Holding /\ mu \in {NoThread, p} /\ mu' = p
           \/ next \notin Holding /\ mu = p /\ mu' = NoThread
           \/ next \notin Holding /\ mu # p /\ mu' = mu
    PROVE  /\ pc' \in [Procs -> PCs] /\ pc'[p] = next
           /\ \A q \in Procs \ {p} : pc'[q] = pc[q]
           /\ mu' \in Procs \cup {NoThread}
           /\ \A q \in Procs : pc'[q] \in Holding <=> mu' = q
<1>1. /\ pc' \in [Procs -> PCs] /\ pc'[p] = next
      /\ \A q \in Procs \ {p} : pc'[q] = pc[q]
  BY DEF Goto, TypeOK
<1> QED
  BY <1>1, Distinct DEF TypeOK

\* The end of a call that holds r.mu.
LEMMA Released ==
    ASSUME TypeOK, NEW p \in Procs, mu = p, EndHolding(p), cert' \in Generations \cup {0}
    PROVE  /\ pc' \in [Procs -> PCs] /\ \A q \in Procs \ {p} : pc'[q] = pc[q]
           /\ pc'[p] \in {"idle", "failed"} /\ mu' = NoThread
           /\ \A q \in Procs : pc'[q] \in Holding <=> mu' = q
           /\ since' \in [Procs -> Nat] /\ seen' = <<0, 0>> /\ half' = 0
           /\ \A q \in Procs : since'[q] \in {0, since[q]}
           /\ UNCHANGED <<now, crt, key, writes, changedAt>>
           /\ p = Main => ret' = ret /\ readyAt' = now
           /\ p # Main => ret' = [gen |-> cert', since |-> since[p]] /\ readyAt' = readyAt
<1>1. "idle" \in PCs \ Holding /\ "failed" \in PCs \ Holding
  BY DEF PCs, Holding
<1>2. PICK next \in {"idle", "failed"} : Goto(p, next) /\ mu' = NoThread
  BY DEF EndHolding
<1>3. /\ pc' \in [Procs -> PCs] /\ pc'[p] = next
      /\ \A q \in Procs \ {p} : pc'[q] = pc[q]
      /\ \A q \in Procs : pc'[q] \in Holding <=> mu' = q
  BY <1>1, <1>2, LockKept
<1>4. since' \in [Procs -> Nat] /\ \A q \in Procs : since'[q] \in {0, since[q]}
  BY DEF EndHolding, TypeOK
<1> QED
  BY <1>2, <1>3, <1>4 DEF EndHolding, Served, files

\* What the steps of Load do.
LEMMA LoadSteps ==
    ASSUME TypeOK, NEW p \in Procs, Load(p)
    PROVE  /\ mu = p
           /\ \/ Abandon(p) /\ \/ pc[p] \in {"statCert", "loadStatCert"} /\ crt = Missing
                               \/ /\ pc[p] = "statKey"
                                  /\ key = Missing \/ <<seen[1], key.stamp>> = stamp
                               \/ pc[p] = "loadStatKey" /\ key = Missing
                               \/ pc[p] = "readCert" /\ crt = Missing
                               \/ pc[p] = "readKey" /\ (half = 0 \/ key.gen # half)
              \/ Install(p)
              \/ /\ UNCHANGED <<now, files, mu, reloader, since, readyAt, ret>>
                 /\ \/ /\ pc[p] = "statCert" /\ Goto(p, "statKey")
                       /\ crt # Missing /\ seen' = <<crt.stamp, 0>> /\ half' = half
                    \/ /\ pc[p] = "loadStatCert" /\ Goto(p, "loadStatKey")
                       /\ crt # Missing /\ seen' = <<crt.stamp, 0>> /\ half' = half
                    \/ pc[p] = "statKey" /\ Goto(p, "loadStatCert") /\ UNCHANGED locals
                    \/ /\ pc[p] = "loadStatKey" /\ Goto(p, "readCert")
                       /\ key # Missing /\ seen' = <<seen[1], key.stamp>> /\ half' = half
                    \/ /\ pc[p] = "readCert" /\ Goto(p, "readKey")
                       /\ crt # Missing /\ half' = crt.gen /\ seen' = seen
                    \/ /\ pc[p] = "readKey" /\ Goto(p, "install")
                       /\ half # 0 /\ key.gen = half /\ UNCHANGED locals
<1>1. mu = p
  BY DEF Load, StatCert, StatKey, LoadStatKey, ReadCert, ReadKey, Install, TypeOK, PCs, Holding
<1>2. CASE StatCert(p)
  BY <1>1, <1>2 DEF StatCert
<1> QED
  BY <1>1, <1>2 DEF Load, StatKey, LoadStatKey, ReadCert, ReadKey

\* What a handshake does without files.
LEMMA CallSteps ==
    ASSUME TypeOK, NEW t \in Threads, Call(t)
    PROVE  /\ UNCHANGED <<now, crt, key, writes, changedAt, cert, stamp, seen, half, readyAt>>
           /\ pc' \in [Procs -> PCs] /\ \A q \in Procs \ {t} : pc'[q] = pc[q]
           /\ mu' \in Procs \cup {NoThread}
           /\ \A q \in Procs : pc'[q] \in Holding <=> mu' = q
           /\ mu # t /\ (pc[Main] = "idle" \/ pc[t] # "idle")
           /\ since' \in [Procs -> Nat] /\ \A q \in Procs \ {t} : since'[q] = since[q]
           /\ since'[t] \in {0, now, since[t]}
           /\ \/ /\ mu' = mu /\ lastCheck' = lastCheck
                 /\ \/ ret' = ret
                    \/ /\ mu = NoThread /\ Recent
                       /\ ret' = [gen |-> cert, since |-> since[t]]
              \/ /\ mu = NoThread /\ mu' = t /\ ~Recent
                 /\ lastCheck' = now /\ pc'[t] = "statCert"
                 /\ ret' = ret /\ since' = since
<1>1. t \in Procs /\ t # NoThread
  BY Distinct
<1>2. /\ \A next \in {"idle", "fast", "slow", "failed"} : next \in PCs \ Holding
      /\ "statCert" \in Holding /\ "statCert" \in PCs
  BY DEF PCs, Holding
<1>3. mu # t
  <2>1. pc[t] \in {"idle", "fast", "slow", "failed"}
    BY DEF Call, Handshake, FastHit, FastMiss, RecheckHit, RefreshStart
  <2> QED
    BY <1>1, <1>2, <2>1 DEF TypeOK
<1>4. since \in [Procs -> Nat] /\ now \in Nat
  BY DEF TypeOK
<1>5. CASE Handshake(t)
  <2>1. Goto(t, "fast") /\ mu' = mu
    BY <1>5 DEF Handshake
  <2>2. /\ pc' \in [Procs -> PCs] /\ \A q \in Procs \ {t} : pc'[q] = pc[q]
        /\ mu' \in Procs \cup {NoThread}
        /\ \A q \in Procs : pc'[q] \in Holding <=> mu' = q
    BY <1>1, <1>2, <1>3, <2>1, LockKept
  <2> QED
    BY <1>1, <1>3, <1>4, <1>5, <2>2 DEF Handshake, files, reloader, locals
<1>6. CASE FastHit(t)
  <2>1. Goto(t, "idle") /\ mu' = mu
    BY <1>6 DEF FastHit
  <2>2. /\ pc' \in [Procs -> PCs] /\ \A q \in Procs \ {t} : pc'[q] = pc[q]
        /\ mu' \in Procs \cup {NoThread}
        /\ \A q \in Procs : pc'[q] \in Holding <=> mu' = q
    BY <1>1, <1>2, <1>3, <2>1, LockKept
  <2> QED
    BY <1>1, <1>3, <1>4, <1>6, <2>2 DEF FastHit, Served, files, reloader, locals
<1>7. CASE FastMiss(t)
  <2>1. Goto(t, "slow") /\ mu' = mu
    BY <1>7 DEF FastMiss
  <2>2. /\ pc' \in [Procs -> PCs] /\ \A q \in Procs \ {t} : pc'[q] = pc[q]
        /\ mu' \in Procs \cup {NoThread}
        /\ \A q \in Procs : pc'[q] \in Holding <=> mu' = q
    BY <1>1, <1>2, <1>3, <2>1, LockKept
  <2> QED
    BY <1>1, <1>3, <1>4, <1>7, <2>2 DEF FastMiss, files, reloader, locals
<1>8. CASE RecheckHit(t)
  <2>1. Goto(t, "idle") /\ mu' = mu
    BY <1>8 DEF RecheckHit
  <2>2. /\ pc' \in [Procs -> PCs] /\ \A q \in Procs \ {t} : pc'[q] = pc[q]
        /\ mu' \in Procs \cup {NoThread}
        /\ \A q \in Procs : pc'[q] \in Holding <=> mu' = q
    BY <1>1, <1>2, <1>3, <2>1, LockKept
  <2> QED
    BY <1>1, <1>3, <1>4, <1>8, <2>2 DEF RecheckHit, Served, files, reloader, locals
<1>9. CASE RefreshStart(t)
  <2>1. Goto(t, "statCert") /\ mu' = t /\ mu = NoThread
    BY <1>9 DEF RefreshStart
  <2>2. /\ pc' \in [Procs -> PCs] /\ \A q \in Procs \ {t} : pc'[q] = pc[q]
        /\ pc'[t] = "statCert"
        /\ mu' \in Procs \cup {NoThread}
        /\ \A q \in Procs : pc'[q] \in Holding <=> mu' = q
    BY <1>1, <1>2, <1>3, <2>1, LockKept
  <2> QED
    BY <1>1, <1>3, <1>4, <1>9, <2>2 DEF RefreshStart, files, locals
<1> QED
  BY <1>5, <1>6, <1>7, <1>8, <1>9 DEF Call

-----------------------------------------------------------------------------
(* Each conjunct, kept by every step.                                      *)

LEMMA TypeStep ==
    ASSUME TypeOK, Startup, Next
    PROVE  TypeOK' /\ Startup'
<1>1. CASE Tick
  BY <1>1 DEF Tick, TypeOK, Startup, File, files, reloader, locals
<1>2. CASE Rewrite
  <2>1. Missing \in File /\ \A g \in Generations \cup {0} : Content(g) \in File
    BY DEF Missing, Content, File, TypeOK
  <2>2. crt' \in File /\ key' \in File
    <3>1. CASE WriteCert
      BY <2>1, <3>1 DEF WriteCert, TypeOK
    <3>2. CASE WriteKey
      BY <2>1, <3>2 DEF WriteKey, TypeOK
    <3>3. CASE SwapPair
      BY <2>1, <3>3 DEF SwapPair
    <3>4. CASE RemoveFile
      BY <2>1, <3>4 DEF RemoveFile, TypeOK
    <3> QED
      BY <1>2, <3>1, <3>2, <3>3, <3>4 DEF Rewrite
  <2> QED
    BY <1>2, <2>2 DEF Rewrite, TypeOK, Startup, reloader, locals
<1>3. CASE Restart
  <2>1. mu = NoThread
    <3>1. \A p \in Procs : pc[p] \notin Holding
      BY <1>3 DEF Restart, Startup, Procs, Holding
    <3> QED
      BY <3>1 DEF TypeOK
  <2>2. "loadStatCert" \in PCs /\ "loadStatCert" \in Holding
    BY DEF PCs, Holding
  <2>3. Goto(Main, "loadStatCert") /\ mu' = Main
    BY <1>3 DEF Restart
  <2>4. /\ pc' \in [Procs -> PCs] /\ \A q \in Procs \ {Main} : pc'[q] = pc[q]
        /\ mu' \in Procs \cup {NoThread}
        /\ \A q \in Procs : pc'[q] \in Holding <=> mu' = q
    BY <2>1, <2>2, <2>3, Distinct, LockKept
  <2>5. Startup'
    BY <1>3, <2>4, Distinct DEF Restart, Startup
  <2> QED
    BY <1>3, <2>4, <2>5 DEF Restart, TypeOK, File, files, reloader, locals
<1>4. ASSUME NEW t \in Threads, Call(t) PROVE TypeOK' /\ Startup'
  <2>1. t \in Procs /\ t # Main /\ Main \in Procs /\ pc[Main] = "idle"
    BY <1>4, CallSteps, Distinct DEF Startup
  <2>2. Startup'
    BY <1>4, <2>1, CallSteps DEF Startup
  <2>3. lastCheck' \in Nat /\ since' \in [Procs -> Nat]
    BY <1>4, CallSteps DEF TypeOK
  <2>4. ret' \in [gen : Nat, since : Nat]
    <3>1. cert \in Nat /\ since[t] \in Nat
      BY <2>1, Distinct DEF TypeOK
    <3> QED
      BY <1>4, <3>1, CallSteps DEF TypeOK
  <2> QED
    BY <1>4, <2>2, <2>3, <2>4, CallSteps DEF TypeOK, File
<1>5. ASSUME NEW p \in Procs, Load(p) PROVE TypeOK' /\ Startup'
  <2>1. mu = p /\ pc[p] \in Holding
    BY <1>5, LoadSteps DEF TypeOK
  <2>2. ASSUME EndHolding(p), cert' \in Generations \cup {0},
               stamp' \in Nat \X Nat, lastCheck' \in Nat
        PROVE  TypeOK' /\ Startup'
    <3>1. ret' \in [gen : Nat, since : Nat] /\ readyAt' \in Nat
      BY <2>1, <2>2, Released, Distinct DEF TypeOK
    <3>2. Startup'
      <4>1. p # Main => pc[Main] = "idle"
        BY <2>1 DEF Startup, Procs, Holding
      <4>2. p = Main => pc[Main] # "idle"
        BY <2>1 DEF Holding
      <4>3. \A q \in Procs \ {p} : pc'[q] = pc[q]
        BY <2>1, <2>2, Released
      <4> QED
        BY <4>1, <4>2, <4>3, Distinct DEF Startup
    <3> QED
      BY <2>1, <2>2, <3>1, <3>2, Released DEF TypeOK, File
  <2>3. CASE Abandon(p)
    BY <2>2, <2>3 DEF Abandon, reloader, TypeOK
  <2>4. CASE Install(p)
    <3>1. EndHolding(p) /\ cert' = half /\ stamp' = seen /\ lastCheck' \in {now, lastCheck}
      BY <2>4 DEF Install
    <3> QED
      BY <2>2, <3>1 DEF TypeOK
  <2>5. ASSUME NEW next \in {"statKey", "loadStatKey", "loadStatCert", "readCert", "readKey", "install"},
               Goto(p, next), UNCHANGED <<now, files, mu, reloader, since, readyAt, ret>>,
               seen' \in Nat \X Nat, half' \in Generations \cup {0}
        PROVE  TypeOK' /\ Startup'
    <3>1. next \in PCs /\ next \in Holding
      BY DEF PCs, Holding
    <3>2. /\ pc' \in [Procs -> PCs] /\ \A q \in Procs \ {p} : pc'[q] = pc[q]
          /\ pc'[p] = next
          /\ mu' \in Procs \cup {NoThread}
          /\ \A q \in Procs : pc'[q] \in Holding <=> mu' = q
      BY <2>1, <2>5, <3>1, LockKept
    <3>3. Startup'
      <4>1. p # Main => pc[Main] = "idle"
        BY <2>1 DEF Startup, Procs, Holding
      <4>2. p = Main => pc[Main] # "idle"
        BY <2>1 DEF Holding
      <4> QED
        BY <3>2, <4>1, <4>2, Distinct DEF Startup
    <3> QED
      BY <2>5, <3>2, <3>3 DEF TypeOK, File, files, reloader
  <2>6. crt.stamp \in Nat /\ key.stamp \in Nat /\ crt.gen \in Generations \cup {0}
    BY DEF TypeOK, File
  <2>7. /\ seen \in Nat \X Nat /\ half \in Generations \cup {0}
        /\ <<crt.stamp, 0>> \in Nat \X Nat /\ <<seen[1], key.stamp>> \in Nat \X Nat
    BY <2>6 DEF TypeOK
  <2> QED
    BY <1>5, <2>3, <2>4, <2>5, <2>6, <2>7, LoadSteps DEF locals
<1> QED
  BY <1>1, <1>2, <1>3, <1>4, <1>5 DEF Next

\* A file that was written has a new stamp.
LEMMA Rewritten ==
    ASSUME TypeOK, Rewrite
    PROVE  /\ UNCHANGED <<now, mu, cert, stamp, lastCheck, pc, since, seen, half, readyAt, ret>>
           /\ writes' = writes + 1 /\ changedAt' = now
           /\ crt' = crt \/ crt' = Missing \/ crt'.stamp = writes + 1
           /\ key' = key \/ key' = Missing \/ key'.stamp = writes + 1
<1>1. /\ UNCHANGED <<now, mu, cert, stamp, lastCheck, pc, since, seen, half, readyAt, ret>>
      /\ writes' = writes + 1 /\ changedAt' = now
  BY DEF Rewrite, reloader, locals
<1>2. \A g \in Generations \cup {0} : Content(g).stamp = writes + 1
  BY DEF Content
<1> QED
  BY <1>1, <1>2 DEF Rewrite, WriteCert, WriteKey, SwapPair, RemoveFile

LEMMA StampsStep ==
    ASSUME TypeOK, Startup, Stamps, Seen, Next
    PROVE  Stamps'
<1>1. /\ writes \in Nat /\ crt.stamp \in Nat /\ key.stamp \in Nat
      /\ seen[1] \in Nat /\ seen[2] \in Nat /\ stamp[1] \in Nat /\ stamp[2] \in Nat
  BY DEF TypeOK, File
<1>2. CASE Tick \/ Restart
  BY <1>2 DEF Tick, Restart, Stamps, Missing, files, reloader, locals
<1>3. CASE Rewrite
  BY <1>1, <1>3, Rewritten DEF Stamps, Missing
<1>4. ASSUME NEW t \in Threads, Call(t) PROVE Stamps'
  BY <1>4, CallSteps DEF Stamps, Missing
<1>5. ASSUME NEW p \in Procs, Load(p) PROVE Stamps'
  <2>1. CASE Abandon(p)
    BY <1>1, <2>1 DEF Abandon, EndHolding, Stamps, Missing, files, reloader
  <2>2. CASE Install(p)
    <3>1. mu = p /\ pc[mu] = "install" /\ mu # NoThread
      BY <1>5, <2>2, LoadSteps, Distinct DEF Install
    <3>2. seen[1] > 0 /\ seen[2] > 0
      BY <3>1 DEF Seen, Statted, Parsing
    <3> QED
      BY <1>1, <2>2, <3>2 DEF Install, EndHolding, Stamps, Missing, files
  <2> QED
    BY <1>1, <1>5, <2>1, <2>2, LoadSteps DEF Stamps, Missing, files, reloader, locals
<1> QED
  BY <1>2, <1>3, <1>4, <1>5 DEF Next

LEMMA ClockStep ==
    ASSUME TypeOK, Startup, Clock, Next
    PROVE  Clock'
<1>1. /\ now \in Nat /\ changedAt \in Nat /\ lastCheck \in Nat /\ readyAt \in Nat
      /\ ret.since \in Nat /\ \A p \in Procs : since[p] \in Nat
  BY DEF TypeOK
<1>2. CASE Tick
  <2>1. /\ changedAt <= now + 1 /\ lastCheck <= now + 1 /\ readyAt <= now + 1
        /\ ret.since <= now + 1 /\ \A p \in Procs : since[p] <= now + 1
    BY <1>1 DEF Clock
  <2> QED
    BY <1>2, <2>1 DEF Tick, Clock, files, reloader
<1>3. CASE Rewrite
  BY <1>1, <1>3, Rewritten DEF Clock
<1>4. CASE Restart
  BY <1>4, Distinct DEF Restart, Clock, files, reloader
<1>5. ASSUME NEW t \in Threads, Call(t) PROVE Clock'
  <2>1. t \in Procs /\ \A u \in Threads : u \in Procs
    BY Distinct
  <2>2. lastCheck' <= now' /\ ret'.since <= now'
    BY <1>1, <1>5, <2>1, CallSteps DEF Clock
  <2>3. \A p \in Procs : since'[p] <= now'
    BY <1>1, <1>5, <2>1, CallSteps DEF Clock
  <2>4. mu' \in Threads => since'[mu'] <= lastCheck'
    BY <1>1, <1>5, <2>1, CallSteps DEF Clock
  <2> QED
    BY <1>5, <2>2, <2>3, <2>4, CallSteps DEF Clock
<1>6. ASSUME NEW p \in Procs, Load(p) PROVE Clock'
  <2>1. mu = p
    BY <1>6, LoadSteps
  <2>2. ASSUME EndHolding(p), cert' \in Generations \cup {0}, lastCheck' \in {now, lastCheck}
        PROVE  Clock'
    <3>1. now' = now /\ changedAt' = changedAt /\ mu' = NoThread
      BY <2>1, <2>2, Released
    <3>2. readyAt' <= now /\ ret'.since <= now
      BY <1>1, <2>1, <2>2, Released DEF Clock
    <3>3. \A q \in Procs : since'[q] <= now
      BY <1>1, <2>1, <2>2, Released DEF Clock
    <3> QED
      BY <1>1, <2>2, <3>1, <3>2, <3>3, Distinct DEF Clock
  <2>3. CASE Abandon(p)
    BY <2>2, <2>3 DEF Abandon, reloader, TypeOK
  <2>4. CASE Install(p)
    BY <2>2, <2>4 DEF Install, TypeOK
  <2> QED
    BY <1>6, <2>3, <2>4, LoadSteps DEF Clock, files, reloader
<1> QED
  BY <1>2, <1>3, <1>4, <1>5, <1>6 DEF Next

LEMMA SeenStep ==
    ASSUME TypeOK, Startup, Stamps, Seen, Next
    PROVE  Seen'
<1>1. /\ writes \in Nat /\ crt.stamp \in Nat /\ key.stamp \in Nat
      /\ seen[1] \in Nat /\ seen[2] \in Nat
  BY DEF TypeOK, File
<1>2. CASE Tick
  BY <1>2 DEF Tick, Seen, files, locals
<1>3. CASE Restart
  BY <1>3, LockKept, Distinct DEF Restart, Seen, Goto, TypeOK, Statted, Parsing
<1>4. CASE Rewrite
  <2>1. /\ UNCHANGED <<mu, pc, seen, half>>
        /\ seen[1] > 0 /\ seen[1] = crt'.stamp => crt' = crt
        /\ seen[2] > 0 /\ seen[2] = key'.stamp => key' = key
    BY <1>1, <1>4, Rewritten DEF Stamps, Missing
  <2>2. \A x : /\ x \in Parsing => x \in Statted
               /\ x = "install" => x \in Parsing
    BY DEF Parsing, Statted
  <2> QED
    BY <2>1, <2>2 DEF Seen
<1>5. ASSUME NEW t \in Threads, Call(t) PROVE Seen'
  <2>1. "statCert" \notin Statted /\ Parsing \subseteq Statted
        /\ "statCert" \notin {"readCert"} \cup Parsing /\ "statCert" # "install"
    BY DEF Parsing, Statted
  <2>2. CASE mu' = mu
    <3>1. mu # NoThread => mu \in Procs \ {t}
      BY <1>5, CallSteps DEF TypeOK
    <3>2. mu # NoThread => pc'[mu] = pc[mu]
      BY <1>5, <3>1, CallSteps
    <3> QED
      BY <1>5, <2>2, <3>2, CallSteps DEF Seen
  <2>3. CASE mu' = t /\ pc'[t] = "statCert"
    BY <2>1, <2>3 DEF Seen
  <2> QED
    BY <1>5, <2>2, <2>3, CallSteps
<1>6. ASSUME NEW p \in Procs, Load(p) PROVE Seen'
  <2>1. mu = p /\ mu # NoThread
    BY <1>6, LoadSteps, Distinct
  <2>2. CASE EndHolding(p)
    BY <2>2 DEF EndHolding, Seen
  <2>3. ASSUME NEW next, Goto(p, next), UNCHANGED <<now, files, mu, reloader, since, readyAt, ret>>
        PROVE  pc'[mu'] = next /\ mu' = mu /\ crt' = crt /\ key' = key
    BY <2>1, <2>3 DEF Goto, TypeOK, files
  <2>4. crt # Missing => crt.stamp > 0
    BY <1>1 DEF Stamps
  <2>5. key # Missing => key.stamp > 0
    BY <1>1 DEF Stamps
  <2> QED
    BY <1>6, <2>1, <2>2, <2>3, <2>4, <2>5, LoadSteps
       DEF Seen, Statted, Parsing, Abandon, Install, locals
<1> QED
  BY <1>2, <1>3, <1>4, <1>5, <1>6 DEF Next

LEMMA HonestStep ==
    ASSUME TypeOK, Startup, Stamps, Seen, Honest, Next
    PROVE  Honest'
<1>1. CASE Tick \/ Restart
  BY <1>1 DEF Tick, Restart, Honest, OnDisk, Paired, files, reloader
<1>2. CASE Rewrite
  <2>1. /\ writes \in Nat /\ crt.stamp \in Nat /\ key.stamp \in Nat
        /\ stamp \in Nat \X Nat
    BY DEF TypeOK, File
  <2>2. cert # 0 /\ stamp = <<crt'.stamp, key'.stamp>> => crt' = crt /\ key' = key
    BY <1>2, <2>1, Rewritten DEF Stamps, Missing
  <2> QED
    BY <1>2, <2>2, Rewritten DEF Honest, OnDisk, Paired
<1>3. ASSUME NEW t \in Threads, Call(t) PROVE Honest'
  BY <1>3, CallSteps DEF Honest, OnDisk, Paired
<1>4. ASSUME NEW p \in Procs, Load(p) PROVE Honest'
  <2>1. CASE reloader' = reloader /\ files' = files
    BY <2>1 DEF Honest, OnDisk, Paired, files, reloader
  <2>2. CASE Install(p)
    <3>1. mu = p /\ pc[mu] = "install" /\ mu # NoThread
      BY <1>4, <2>2, LoadSteps, Distinct DEF Install
    <3>2. half # 0 /\ (seen[2] = key.stamp => half = key.gen)
                  /\ (seen[1] = crt.stamp => half = crt.gen)
      BY <3>1 DEF Seen, Parsing
    <3> QED
      BY <2>2, <3>2 DEF Install, EndHolding, Honest, OnDisk, Paired, files
  <2> QED
    BY <1>4, <2>1, <2>2, LoadSteps DEF Abandon, EndHolding, files, reloader
<1> QED
  BY <1>1, <1>2, <1>3, <1>4 DEF Next

LEMMA CurrentStep ==
    ASSUME TypeOK, Startup, Stamps, Clock, Seen, Honest, Current, Next
    PROVE  Current'
<1>1. /\ now \in Nat /\ changedAt \in Nat /\ lastCheck \in Nat /\ readyAt \in Nat
  BY DEF TypeOK
<1>2. CASE Tick
  BY <1>2 DEF Tick, Current, Paired, files, reloader, locals
<1>3. CASE Rewrite
  BY <1>1, <1>3, Rewritten DEF Current, Clock
<1>4. CASE Restart
  BY <1>4, Distinct DEF Restart, Current
<1>5. ASSUME NEW t \in Threads, Call(t) PROVE Current'
  <2>1. CASE mu' = mu /\ lastCheck' = lastCheck
    <3>1. mu \in Threads => pc'[mu] = pc[mu]
      BY <1>5, CallSteps, Distinct
    <3> QED
      BY <1>5, <2>1, <3>1, CallSteps DEF Current, Paired
  <2>2. CASE mu' = t /\ pc'[t] = "statCert"
    BY <2>2, Distinct DEF Current, Statted
  <2> QED
    BY <1>5, <2>1, <2>2, CallSteps
<1>6. ASSUME NEW p \in Procs, Load(p) PROVE Current'
  <2>1. mu = p /\ mu # NoThread
    BY <1>6, LoadSteps, Distinct
  <2>2. CASE EndHolding(p) /\ p = Main /\ lastCheck' \in {now, lastCheck}
    BY <1>1, <2>2 DEF EndHolding, Current, Clock
  <2>3. CASE /\ Abandon(p) /\ p # Main
             /\ \/ crt = Missing \/ key = Missing
                \/ pc[p] = "statKey" /\ <<seen[1], key.stamp>> = stamp
                \/ pc[p] = "readKey" /\ (half = 0 \/ key.gen # half)
    <3>1. p \in Threads /\ crt' = crt /\ key' = key /\ mu' = NoThread
          /\ changedAt' = changedAt /\ readyAt' = readyAt /\ UNCHANGED reloader
      BY <2>3 DEF Abandon, EndHolding, Procs, files
    <3>2. SUFFICES ASSUME lastCheck > changedAt, lastCheck > readyAt, cert # 0, Paired
                   PROVE  cert = crt.gen
      BY <3>1, Distinct DEF Current, Paired, reloader
    <3>3. crt # Missing /\ key # Missing
      BY <3>2 DEF Paired, Missing
    <3>4. pc[p] \in Statted => seen[1] = crt.stamp
      BY <2>1, <3>1, <3>2 DEF Current
    <3>5. CASE pc[p] = "statKey" /\ <<seen[1], key.stamp>> = stamp
      <4>1. stamp = OnDisk
        BY <3>4, <3>5 DEF Statted, OnDisk
      <4> QED
        BY <3>2, <4>1 DEF Honest
    <3>6. CASE pc[p] = "readKey" /\ (half = 0 \/ key.gen # half)
      BY <2>1, <3>2, <3>4, <3>6 DEF Seen, Statted, Parsing, Paired
    <3> QED
      BY <2>3, <3>3, <3>5, <3>6
  <2>4. CASE Install(p) /\ p # Main
    <3>1. p \in Threads /\ crt' = crt /\ key' = key /\ mu' = NoThread /\ cert' = half
          /\ changedAt' = changedAt /\ readyAt' = readyAt /\ lastCheck' = lastCheck
          /\ pc[p] = "install"
      BY <2>4 DEF Install, EndHolding, Procs, files
    <3>2. SUFFICES ASSUME lastCheck > changedAt, lastCheck > readyAt
                   PROVE  half = crt.gen
      BY <3>1, Distinct DEF Current
    <3>3. seen[1] = crt.stamp
      BY <2>1, <3>1, <3>2 DEF Current, Statted
    <3> QED
      BY <2>1, <3>1, <3>3 DEF Seen, Parsing
  <2>5. ASSUME NEW next, Goto(p, next), UNCHANGED <<now, files, mu, reloader, since, readyAt, ret>>,
               next \in Statted => seen'[1] = crt.stamp \/ (pc[p] \in Statted /\ seen'[1] = seen[1])
        PROVE  Current'
    <3>1. pc'[mu'] = next /\ mu' = mu /\ crt' = crt
          /\ lastCheck' = lastCheck /\ changedAt' = changedAt /\ readyAt' = readyAt
      BY <2>1, <2>5 DEF Goto, TypeOK, files, reloader
    <3> QED
      BY <2>1, <2>5, <3>1 DEF Current
  <2> QED
    BY <1>6, <2>2, <2>3, <2>4, <2>5, LoadSteps DEF Statted, Abandon, Install, reloader, locals
<1> QED
  BY <1>2, <1>3, <1>4, <1>5, <1>6 DEF Next

-----------------------------------------------------------------------------

Core == TypeOK /\ Startup /\ Stamps /\ Clock /\ Seen /\ Honest /\ Current

LEMMA CoreInit == ASSUME Init PROVE Core
<1>1. PICK g \in Generations : crt = [stamp |-> 1, gen |-> g] /\ key = [stamp |-> 1, gen |-> g]
  BY DEF Init
<1>2. crt \in File /\ key \in File /\ g # 0
  BY <1>1, ReloaderAssumption DEF File
<1>3. TypeOK
  <2>1. /\ "loadStatCert" \in PCs /\ "loadStatCert" \in Holding
        /\ "idle" \in PCs /\ "idle" \notin Holding
    BY DEF PCs, Holding
  <2> QED
    BY <1>2, <2>1, Distinct DEF Init, TypeOK
<1>4. Startup
  BY Distinct DEF Init, Startup
<1>5. Stamps /\ Honest
  BY <1>1 DEF Init, Stamps, Honest, Missing
<1>6. Clock /\ Current
  BY Distinct DEF Init, Clock, Current
<1>7. Seen
  BY Distinct DEF Init, Seen, Statted, Parsing
<1> QED
  BY <1>3, <1>4, <1>5, <1>6, <1>7 DEF Core

LEMMA CoreStep == ASSUME Core, [Next]_vars PROVE Core'
<1>1. CASE Next
  BY <1>1, TypeStep, StampsStep, ClockStep, SeenStep, HonestStep, CurrentStep DEF Core
<1>2. CASE UNCHANGED vars
  BY <1>2 DEF vars, files, reloader, locals, Core, TypeOK, Startup, Stamps, Clock, Seen,
              Honest, Current, OnDisk, Paired, Missing, File
<1> QED
  BY <1>1, <1>2

LEMMA CoreHolds == Spec => []Core
  BY CoreInit, CoreStep, PTL DEF Spec

\* The state of the reloader keeps its type, and a goroutine is between Lock
\* and Unlock exactly while it holds r.mu.
THEOREM ReloaderTypeCorrect == Spec => []TypeOK
<1>1. Core => TypeOK
  BY DEF Core
<1> QED
  BY <1>1, CoreHolds, PTL

\* refresh and load never leave a stamp that vouches for files whose pair is
\* not the one GetCertificate serves.
THEOREM StampsAreHonest == Spec => []StampHonest
<1>1. Core => StampHonest
  BY DEF Core, Honest, StampHonest
<1> QED
  BY <1>1, CoreHolds, PTL

\* A call that ends within an interval of the last check serves the file's
\* pair if it began an interval after the last change, because that check
\* came after the change.
LEMMA ServedFresh ==
    ASSUME Core, Core', Interval > 0, NEW t \in Threads, NEW g,
           ret' = [gen |-> g, since |-> since[t]], cert' = g, mu' = NoThread,
           changedAt' = changedAt, readyAt' = readyAt, lastCheck' = lastCheck,
           Recent \/ mu = t, now' = now
    PROVE  StaleBounded'
<1>1. /\ now \in Nat /\ changedAt \in Nat /\ lastCheck \in Nat /\ readyAt \in Nat
      /\ since[t] \in Nat /\ Interval \in Nat /\ since[t] <= now
  BY ReloaderAssumption, Distinct DEF Core, TypeOK, Clock
<1>2. SUFFICES ASSUME since[t] >= changedAt + Interval, since[t] >= readyAt + Interval,
                      g # 0, Paired'
               PROVE  g = crt'.gen
  BY DEF StaleBounded
<1>3. lastCheck > changedAt /\ lastCheck > readyAt
  <2>1. CASE Recent
    BY <1>1, <1>2, <2>1 DEF Recent
  <2>2. CASE mu = t
    <3>1. since[t] <= lastCheck
      BY <2>2 DEF Core, Clock
    <3> QED
      BY <1>1, <1>2, <3>1
  <2> QED
    BY <2>1, <2>2
<1> QED
  BY <1>2, <1>3 DEF Core, Current

LEMMA StaleStep ==
    ASSUME Core, Core', Interval > 0, StaleBounded, [Next]_vars
    PROVE  StaleBounded'
<1>1. /\ now \in Nat /\ changedAt \in Nat /\ readyAt \in Nat /\ ret.since \in Nat
      /\ ret.since <= now /\ Interval \in Nat
  BY ReloaderAssumption DEF Core, TypeOK, Clock
<1>2. TypeOK /\ Startup
  BY DEF Core
<1>3. CASE UNCHANGED <<files, readyAt, ret>>
  BY <1>3 DEF StaleBounded, Paired, files
<1>4. CASE Rewrite
  BY <1>1, <1>2, <1>4, Rewritten DEF StaleBounded
<1>5. ASSUME NEW t \in Threads, Call(t) PROVE StaleBounded'
  <2>1. CASE ret' = ret
    BY <1>2, <1>3, <1>5, <2>1, CallSteps DEF files
  <2>2. CASE /\ mu = NoThread /\ Recent /\ mu' = mu /\ lastCheck' = lastCheck
             /\ ret' = [gen |-> cert, since |-> since[t]]
    BY <1>2, <1>5, <2>2, CallSteps, ServedFresh
  <2> QED
    BY <1>2, <1>5, <2>1, <2>2, CallSteps
<1>6. ASSUME NEW p \in Procs, Load(p) PROVE StaleBounded'
  <2>1. mu = p
    BY <1>2, <1>6, LoadSteps
  <2>2. ASSUME EndHolding(p), p # Main => lastCheck' = lastCheck PROVE StaleBounded'
    <3>1. cert' \in Generations \cup {0}
      BY DEF Core, TypeOK
    <3>2. CASE p = Main
      BY <1>1, <1>2, <2>1, <2>2, <3>1, <3>2, Released DEF StaleBounded
    <3>3. CASE p # Main
      <4>1. p \in Threads
        BY <3>3 DEF Procs
      <4> QED
        BY <1>2, <2>1, <2>2, <3>1, <3>3, <4>1, Released, ServedFresh
    <3> QED
      BY <3>2, <3>3
  <2> QED
    BY <1>2, <1>3, <1>6, <2>2, LoadSteps DEF Abandon, Install, reloader
<1> QED
  BY <1>3, <1>4, <1>5, <1>6 DEF Next, Tick, Restart, vars

\* For an interval that is not zero (certReloadInterval is a minute): a
\* handshake that begins an interval or more after the last change of the
\* files, and after Start returned, is served their pair if they hold one.
THEOREM StalenessIsBounded == ASSUME Interval > 0 PROVE Spec => []StaleBounded
<1>1. Init => StaleBounded
  BY ReloaderAssumption DEF Init, StaleBounded
<1>2. Core /\ Core' /\ StaleBounded /\ [Next]_vars => StaleBounded'
  BY StaleStep
<1> QED
  BY <1>1, <1>2, CoreHolds, PTL DEF Spec

\* GetCertificate keeps handshakes off the filesystem: once Start has
\* returned, two checks of the files are an interval apart.
THEOREM ChecksAreApart == Spec => CheckedOncePerInterval
<1>1. ASSUME Core, [Next]_vars
      PROVE  [lastCheck' # lastCheck => lastCheck' - lastCheck >= Interval \/ pc[Main] # "idle"]_vars
  <2>1. TypeOK /\ Startup
    BY <1>1 DEF Core
  <2>2. now \in Nat /\ lastCheck \in Nat /\ Interval \in Nat
    BY <2>1, ReloaderAssumption DEF TypeOK
  <2>3. CASE lastCheck' = lastCheck
    BY <2>3
  <2>4. ASSUME NEW t \in Threads, Call(t)
        PROVE  lastCheck' # lastCheck => lastCheck' - lastCheck >= Interval
    BY <2>1, <2>2, <2>4, CallSteps DEF Recent
  <2>5. ASSUME NEW p \in Procs, Load(p)
        PROVE  lastCheck' # lastCheck => pc[Main] # "idle"
    BY <2>1, <2>5, LoadSteps DEF Abandon, Install, reloader
  <2> QED
    BY <1>1, <2>3, <2>4, <2>5 DEF Next, Tick, Rewrite, Restart, reloader, vars
<1> QED
  BY <1>1, CoreHolds, PTL DEF Spec, CheckedOncePerInterval
=============================================================================
