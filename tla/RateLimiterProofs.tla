------------------------- MODULE RateLimiterProofs -------------------------
(***************************************************************************)
(* Theorems about the sliding-window limiter, for any number of threads,   *)
(* keys, client objects and requests and any window.                       *)
(*                                                                         *)
(* ClientWindow is a fact about the past (the log), the code decides on    *)
(* the present (the slice).  The inductive invariant ties the two: what is *)
(* no longer in the slice is old (Expired), and what is in the log was     *)
(* admitted in order, soon after its stamp (LogOK).  KeyInv then carries   *)
(* the limit from an object to the key, over all the objects the key had.  *)
(***************************************************************************)
EXTENDS RateLimiter, FiniteSetTheorems, WellFoundedInduction, TLAPS

\* A call in progress has a key and read its clock at most MaxDelay ago; past
\* the lookup it holds a client object.
CallOK ==
    \A t \in Threads :
        /\ pc[t] # "idle" => /\ ip[t] \in IPs
                             /\ tnow[t] <= now
                             /\ now - tnow[t] <= MaxDelay
        /\ pc[t] \in {"lock", "decide"} => held[t] \in Clients

\* The slice of an object is part of its log.
LiveOK == \A c \in Clients : live[c] \subseteq 1 .. Len(log[c])

\* Admissions are logged in the order they happen, at most MaxDelay after the
\* stamp they carry.
LogOK ==
    \A c \in Clients : \A k \in 1 .. Len(log[c]) :
        /\ log[c][k].stamp <= log[c][k].at
        /\ log[c][k].at <= log[c][k].stamp + MaxDelay
        /\ log[c][k].at <= now
        /\ \A m \in 1 .. k : log[c][m].at <= log[c][k].at

\* An admission that is no longer in the slice has left the window.
Expired ==
    \A c \in Clients : \A k \in 1 .. Len(log[c]) :
        k \notin live[c] => log[c][k].stamp <= now - Window

\* Cleanup's cutoff is never ahead of the clock's; between the pruning of an
\* object and the look at its length, Cleanup is at a key.
SweepOK ==
    /\ sweep.pc # "idle" => sweep.cutoff <= now - Window
    /\ sweep.pc = "check" => sweep.cur \in IPs

IInv ==
    /\ TypeOK
    /\ CallOK
    /\ LiveOK
    /\ LogOK
    /\ Expired
    /\ SweepOK
    /\ ClientWindow

-----------------------------------------------------------------------------
\* A set of fewer than R positions misses one of the last R positions.
LEMMA MissedPosition ==
    ASSUME NEW n \in Nat, NEW R \in Nat, R <= n,
           NEW S \in SUBSET (1 .. n), Cardinality(S) < R
    PROVE  \E k \in (n - R + 1) .. n : k \notin S
<1>1. IsFiniteSet(S)
  <2>1. IsFiniteSet(1 .. n)
    BY 1 \in Int, n \in Int, FS_Interval
  <2> QED
    BY <2>1, FS_Subset
<1>2. Cardinality((n - R + 1) .. n) = R
  <2>1. n - R + 1 \in Int /\ n \in Int /\ (n - R + 1 > n => R = 0)
    OBVIOUS
  <2>2. Cardinality((n - R + 1) .. n)
           = IF n - R + 1 > n THEN 0 ELSE n - (n - R + 1) + 1
    BY <2>1, FS_Interval
  <2> QED
    BY <2>1, <2>2
<1>3. SUFFICES ASSUME (n - R + 1) .. n \subseteq S
               PROVE  FALSE
  OBVIOUS
<1>4. Cardinality((n - R + 1) .. n) <= Cardinality(S)
  BY <1>1, <1>3, FS_Subset
<1>5. Cardinality(S) \in Nat
  BY <1>1, FS_CardinalityType
<1> QED
  BY <1>2, <1>4, <1>5

-----------------------------------------------------------------------------
(* The initial state and the steps *)

LEMMA InitIInv == Init => IInv
  BY ParamAssumption
     DEF Init, IInv, TypeOK, CallOK, LiveOK, LogOK, Expired, SweepOK,
         ClientWindow, PCs, SweepPCs, Admission

\* Steps that leave the objects, their slices and the clock alone: the start
\* of a call, its lookup, a refusal, and all of Cleanup but the pruning.
LEMMA QuietStep ==
    ASSUME IInv, TypeOK', CallOK', SweepOK', UNCHANGED <<now, log, live>>
    PROVE  IInv'
  BY DEF IInv, LiveOK, LogOK, Expired, ClientWindow

\* Pruning an object's slice with a cutoff that is not ahead of the clock's.
LEMMA PruneStep ==
    ASSUME IInv, TypeOK', CallOK', SweepOK', UNCHANGED <<now, log>>,
           NEW c, NEW cutoff \in Int, cutoff <= now - Window,
           live' = [live EXCEPT ![c] = Valid(c, cutoff)]
    PROVE  IInv'
<1>1. \A d \in Clients : live'[d] \subseteq live[d]
  BY DEF IInv, TypeOK, Valid
<1>2. LiveOK'
  BY <1>1 DEF IInv, LiveOK
<1>3. LogOK' /\ ClientWindow'
  BY DEF IInv, LogOK, ClientWindow
<1>4. Expired'
  <2> SUFFICES ASSUME NEW d \in Clients, NEW k \in 1 .. Len(log[d]),
                      k \notin live'[d]
               PROVE  log[d][k].stamp <= now - Window
    BY DEF Expired
  <2>1. CASE k \notin live[d]
    BY <2>1 DEF IInv, Expired
  <2>2. CASE k \in live[d]
    <3>1. d = c /\ live'[d] = Valid(d, cutoff)
      BY <2>2 DEF IInv, TypeOK
    <3>2. ~(log[d][k].stamp > cutoff)
      BY <2>2, <3>1 DEF Valid
    <3>3. log[d][k] \in Admission
      BY DEF IInv, TypeOK
    <3> QED
      BY <3>2, <3>3, ParamAssumption DEF IInv, TypeOK, Admission
  <2> QED
    BY <2>1, <2>2
<1> QED
  BY <1>2, <1>3, <1>4 DEF IInv

\* Admitting: the slice holds fewer than Requests stamps, so one of the last
\* Requests admissions has left the slice, hence the window.
LEMMA AdmitStep ==
    ASSUME IInv, NEW t \in Threads, AllowAdmit(t)
    PROVE  IInv'
<1> DEFINE c == held[t]
           n == Len(log[c])
           new == [stamp |-> tnow[t], at |-> now]
<1>1. /\ c \in Clients /\ ip[t] \in IPs
      /\ tnow[t] \in Nat /\ now \in Nat
      /\ tnow[t] <= now /\ now <= tnow[t] + MaxDelay
      /\ MaxDelay \in Nat /\ Requests \in Nat \ {0} /\ Window \in Nat \ {0}
  BY ParamAssumption DEF IInv, TypeOK, CallOK, AllowAdmit
<1>2. /\ log[c] \in Seq(Admission) /\ n \in Nat /\ live[c] \in SUBSET (1 .. n)
      /\ \A k \in 1 .. n : log[c][k] \in Admission
  BY <1>1 DEF IInv, TypeOK, LiveOK
<1>3. /\ log' = [log EXCEPT ![c] = Append(log[c], new)]
      /\ live' = [live EXCEPT ![c] = live[c] \cup {n + 1}]
      /\ now' = now
  BY DEF AllowAdmit
<1>4. new \in Admission
  BY <1>1 DEF Admission
<1>5. /\ log'[c] = Append(log[c], new)
      /\ live'[c] = live[c] \cup {n + 1}
      /\ \A d \in Clients \ {c} : log'[d] = log[d] /\ live'[d] = live[d]
  BY <1>1, <1>3 DEF IInv, TypeOK
<1>6. /\ Len(log'[c]) = n + 1
      /\ log'[c][n + 1] = new
      /\ \A k \in 1 .. n : log'[c][k] = log[c][k]
  BY <1>2, <1>4, <1>5
<1>7. TypeOK'
  <2>1. log' \in [Clients -> Seq(Admission)]
    <3>1. Append(log[c], new) \in Seq(Admission)
      BY <1>2, <1>4
    <3> QED
      BY <1>3, <3>1 DEF IInv, TypeOK
  <2>2. live' \in [Clients -> SUBSET Nat]
    <3>1. live[c] \cup {n + 1} \in SUBSET Nat
      BY <1>2
    <3> QED
      BY <1>3, <3>1 DEF IInv, TypeOK
  <2> QED
    BY <2>1, <2>2 DEF IInv, TypeOK, AllowAdmit, AllowReturn, PCs
<1>8. CallOK' /\ SweepOK'
  BY <1>1 DEF IInv, TypeOK, CallOK, SweepOK, AllowAdmit, AllowReturn
<1>9. LiveOK'
  BY <1>2, <1>5, <1>6 DEF IInv, LiveOK
<1>10. LogOK'
  <2>1. \A k \in 1 .. n : log[c][k].at <= now
    BY <1>1 DEF IInv, LogOK
  <2> SUFFICES ASSUME NEW d \in Clients, NEW k \in 1 .. Len(log'[d])
               PROVE  /\ log'[d][k].stamp <= log'[d][k].at
                      /\ log'[d][k].at <= log'[d][k].stamp + MaxDelay
                      /\ log'[d][k].at <= now'
                      /\ \A m \in 1 .. k : log'[d][m].at <= log'[d][k].at
    BY DEF LogOK
  <2>2. CASE d # c
    BY <1>3, <1>5, <2>2 DEF IInv, LogOK
  <2>3. CASE d = c /\ k = n + 1
    BY <1>1, <1>2, <1>3, <1>6, <2>1, <2>3
  <2>4. CASE d = c /\ k # n + 1
    <3>1. k \in 1 .. n /\ \A m \in 1 .. k : m \in 1 .. n
      BY <1>2, <1>6, <2>4
    <3> QED
      BY <1>1, <1>3, <1>6, <2>4, <3>1 DEF IInv, LogOK
  <2> QED
    BY <2>2, <2>3, <2>4
<1>11. Expired'
  BY <1>1, <1>2, <1>3, <1>5, <1>6 DEF IInv, Expired
<1>12. ClientWindow'
  <2>0. SUFFICES ASSUME NEW d \in Clients, NEW k \in Int,
                        k \in 1 .. (Len(log'[d]) - Requests)
                 PROVE  log'[d][k + Requests].at - log'[d][k].at
                          >= Window - MaxDelay
    BY <1>1, <1>2, <1>5, <1>6 DEF IInv, TypeOK, ClientWindow
  <2>1. CASE d # c
    BY <1>5, <2>0, <2>1 DEF IInv, ClientWindow
  <2>2. CASE d = c /\ k # n + 1 - Requests
    <3>1. k \in 1 .. (n - Requests) /\ k \in 1 .. n /\ k + Requests \in 1 .. n
      BY <1>1, <1>2, <1>6, <2>0, <2>2
    <3> QED
      BY <1>1, <1>6, <2>2, <3>1 DEF IInv, ClientWindow
  <2>3. CASE d = c /\ k = n + 1 - Requests
    <3>1. Requests <= n /\ k \in 1 .. n
      BY <1>1, <1>2, <1>6, <2>0, <2>3
    <3>2. Cardinality(live[c]) < Requests
      <4>1. IsFiniteSet(live[c])
        <5>1. IsFiniteSet(1 .. n)
          BY <1>2, 1 \in Int, n \in Int, FS_Interval
        <5> QED
          BY <1>2, <5>1, FS_Subset
      <4>2. Cardinality(live[c]) \in Nat
        BY <4>1, FS_CardinalityType
      <4>3. ~(Cardinality(live[c]) >= Requests)
        BY DEF AllowAdmit, OverLimit
      <4> QED
        BY <1>1, <4>2, <4>3
    <3>3. PICK j \in Int : j \in (n - Requests + 1) .. n /\ j \notin live[c]
      <4>1. \E j \in (n - Requests + 1) .. n : j \notin live[c]
        BY <1>1, <1>2, <3>1, <3>2, MissedPosition
      <4> QED
        BY <1>1, <1>2, <4>1
    <3>4. j \in 1 .. n /\ k \in 1 .. j
      BY <1>1, <1>2, <2>3, <3>1, <3>3
    <3>5. log[c][j].stamp <= now - Window
      BY <1>1, <3>3, <3>4 DEF IInv, Expired
    <3>6. /\ log[c][j].at <= log[c][j].stamp + MaxDelay
          /\ log[c][k].at <= log[c][j].at
      BY <1>1, <3>4 DEF IInv, LogOK
    <3>7. /\ log[c][j].stamp \in Nat /\ log[c][j].at \in Nat
          /\ log[c][k].at \in Nat
      BY <1>2, <3>1, <3>4 DEF Admission
    <3>8. k + Requests = n + 1
      BY <1>1, <1>2, <2>3
    <3>9. log'[d][k + Requests].at = now /\ log'[d][k].at = log[c][k].at
      BY <1>6, <2>3, <3>1, <3>8
    <3>10. log[c][k].at <= now - Window + MaxDelay
      <4>1. now \in Nat /\ Window \in Nat /\ MaxDelay \in Nat
        BY <1>1
      <4>2. log[c][k].at <= log[c][j].stamp + MaxDelay
        BY <3>6, <3>7, <4>1
      <4> QED
        BY <3>5, <3>7, <4>1, <4>2
    <3> QED
      BY <1>1, <3>7, <3>9, <3>10
  <2> QED
    BY <2>1, <2>2, <2>3
<1> QED
  BY <1>7, <1>8, <1>9, <1>10, <1>11, <1>12 DEF IInv

LEMMA TickStep == IInv /\ Tick => IInv'
<1> SUFFICES ASSUME IInv, Tick
             PROVE  IInv'
  OBVIOUS
<1>1. now \in Nat /\ now' = now + 1 /\ UNCHANGED <<log, live>>
  BY DEF IInv, TypeOK, Tick
<1>2. TypeOK' /\ CallOK' /\ SweepOK'
  BY ParamAssumption
     DEF IInv, TypeOK, CallOK, SweepOK, Tick, threadVars
<1>3. LiveOK' /\ ClientWindow'
  BY <1>1 DEF IInv, LiveOK, ClientWindow
<1>4. \A c \in Clients : \A k \in 1 .. Len(log[c]) : log[c][k] \in Admission
  BY DEF IInv, TypeOK
<1>5. ASSUME NEW c \in Clients, NEW k \in 1 .. Len(log[c])
      PROVE  /\ log[c][k].at <= now'
             /\ log[c][k].stamp <= now - Window => log[c][k].stamp <= now' - Window
  <2>1. log[c][k].at \in Nat /\ log[c][k].stamp \in Nat
    BY <1>4 DEF Admission
  <2>2. log[c][k].at <= now
    BY DEF IInv, LogOK
  <2> QED
    BY <1>1, <2>1, <2>2, ParamAssumption
<1>6. LogOK'
  BY <1>1, <1>5 DEF IInv, LogOK
<1>7. Expired'
  BY <1>1, <1>5 DEF IInv, Expired
<1> QED
  BY <1>2, <1>3, <1>6, <1>7 DEF IInv

\* The invariant is inductive.
LEMMA NextIInv == IInv /\ [Next]_vars => IInv'
<1> SUFFICES ASSUME IInv, [Next]_vars
             PROVE  IInv'
  OBVIOUS
<1> USE ParamAssumption, NullAssumption
<1>1. ASSUME NEW t \in Threads, NEW i \in IPs, AllowStart(t, i)
      PROVE  IInv'
  <2>1. TypeOK' /\ CallOK' /\ SweepOK'
    BY <1>1 DEF IInv, TypeOK, CallOK, SweepOK, PCs, AllowStart
  <2> QED
    BY <1>1, <2>1, QuietStep DEF AllowStart
<1>2. ASSUME NEW t \in Threads, AllowFound(t)
      PROVE  IInv'
  <2>1. clients[ip[t]] \in Clients
    BY <1>2 DEF IInv, TypeOK, CallOK, AllowFound
  <2>2. TypeOK' /\ CallOK' /\ SweepOK'
    BY <1>2, <2>1 DEF IInv, TypeOK, CallOK, SweepOK, PCs, AllowFound
  <2> QED
    BY <1>2, <2>2, QuietStep DEF AllowFound
<1>3. ASSUME NEW t \in Threads, AllowInsert(t)
      PROVE  IInv'
  <2>1. ip[t] \in IPs
    BY <1>3 DEF IInv, CallOK, AllowInsert
  <2>2. TypeOK' /\ CallOK' /\ SweepOK'
    BY <1>3, <2>1 DEF IInv, TypeOK, CallOK, SweepOK, PCs, AllowInsert
  <2> QED
    BY <1>3, <2>2, QuietStep DEF AllowInsert
<1>4. ASSUME NEW t \in Threads, AllowPrune(t)
      PROVE  IInv'
  <2>1. /\ held[t] \in Clients /\ tnow[t] - Window \in Int
        /\ tnow[t] - Window <= now - Window
    <3>1. now \in Nat /\ tnow[t] \in Nat
      BY DEF IInv, TypeOK
    <3>2. held[t] \in Clients /\ tnow[t] <= now
      BY <1>4 DEF IInv, CallOK, AllowPrune
    <3> QED
      BY <3>1, <3>2
  <2>2. Valid(held[t], tnow[t] - Window) \in SUBSET Nat
    BY <2>1 DEF IInv, TypeOK, Valid
  <2>3. TypeOK' /\ CallOK' /\ SweepOK'
    BY <1>4, <2>1, <2>2 DEF IInv, TypeOK, CallOK, SweepOK, PCs, AllowPrune
  <2> QED
    BY <1>4, <2>1, <2>3, PruneStep DEF AllowPrune
<1>5. ASSUME NEW t \in Threads, AllowDeny(t)
      PROVE  IInv'
  <2>1. TypeOK' /\ CallOK' /\ SweepOK'
    BY <1>5 DEF IInv, TypeOK, CallOK, SweepOK, PCs, AllowDeny, AllowReturn
  <2> QED
    BY <1>5, <2>1, QuietStep DEF AllowDeny
<1>6. ASSUME NEW t \in Threads, AllowAdmit(t)
      PROVE  IInv'
  BY <1>6, AdmitStep
<1>7. CASE CleanupStart
  <2>1. sweep' = [pc |-> "lock", cutoff |-> now - Window,
                  todo |-> sweep.todo, cur |-> sweep.cur]
    BY <1>7 DEF IInv, TypeOK, CleanupStart
  <2>2. now - Window \in Int /\ SweepOK'
    BY <1>7, <2>1 DEF IInv, TypeOK, SweepOK, CleanupStart
  <2>3. TypeOK' /\ CallOK'
    BY <1>7, <2>1, <2>2 DEF IInv, TypeOK, CallOK, SweepPCs, CleanupStart, threadVars
  <2> QED
    BY <1>7, <2>2, <2>3, QuietStep DEF CleanupStart
<1>8. CASE CleanupLock
  <2>1. TypeOK' /\ CallOK' /\ SweepOK'
    BY <1>8 DEF IInv, TypeOK, CallOK, SweepOK, SweepPCs, CleanupLock,
                threadVars
  <2> QED
    BY <1>8, <2>1, QuietStep DEF CleanupLock
<1>9. ASSUME NEW i \in IPs, CleanupPrune(i)
      PROVE  IInv'
  <2>1. sweep.cutoff \in Int /\ sweep.cutoff <= now - Window
    BY <1>9 DEF IInv, TypeOK, SweepOK, CleanupPrune
  <2>2. clients[i] \in Clients => Valid(clients[i], sweep.cutoff) \in SUBSET Nat
    BY DEF IInv, TypeOK, Valid
  <2>3. live' \in [Clients -> SUBSET Nat]
    BY <1>9, <2>2 DEF IInv, TypeOK, CleanupPrune
  <2>4. TypeOK' /\ CallOK' /\ SweepOK'
    BY <1>9, <2>1, <2>3 DEF IInv, TypeOK, CallOK, SweepOK, SweepPCs,
                            CleanupPrune, threadVars
  <2> QED
    BY <1>9, <2>1, <2>4, PruneStep DEF CleanupPrune
<1>10. CASE CleanupCheck
  <2>1. UNCHANGED <<now, calls, owner, log, live, cmu, threadVars>>
    BY <1>10 DEF CleanupCheck
  <2>2. sweep.cur \in IPs
    BY <1>10 DEF IInv, SweepOK, CleanupCheck
  <2>3. sweep' = [pc |-> "range", cutoff |-> sweep.cutoff,
                  todo |-> sweep.todo, cur |-> NoIP]
    BY <1>10 DEF IInv, TypeOK, CleanupCheck
  <2>4. clients' \in [IPs -> Clients \cup {NoClient}]
    BY <1>10 DEF IInv, TypeOK, CleanupCheck
  <2>5. raced' \in SUBSET IPs
    BY <1>10, <2>2 DEF IInv, TypeOK, CleanupCheck
  <2>6. sweep' \in [pc : SweepPCs, cutoff : Int, todo : SUBSET IPs,
                    cur : IPs \cup {NoIP}]
    BY <2>3 DEF IInv, TypeOK, SweepPCs
  <2>7. TypeOK'
    BY <2>1, <2>4, <2>5, <2>6 DEF IInv, TypeOK, threadVars
  <2>8. CallOK'
    BY <2>1 DEF IInv, CallOK, threadVars
  <2>9. SweepOK'
    BY <1>10, <2>1, <2>3 DEF IInv, SweepOK, CleanupCheck
  <2> QED
    BY <2>1, <2>7, <2>8, <2>9, QuietStep
<1>11. CASE CleanupDone
  <2>1. sweep' = [pc |-> "idle", cutoff |-> 0,
                  todo |-> sweep.todo, cur |-> sweep.cur]
    BY <1>11 DEF IInv, TypeOK, CleanupDone
  <2>2. 0 \in Int /\ SweepOK'
    BY <1>11, <2>1 DEF IInv, TypeOK, SweepOK, CleanupDone
  <2>3. TypeOK' /\ CallOK'
    BY <1>11, <2>1, <2>2 DEF IInv, TypeOK, CallOK, SweepPCs, CleanupDone, threadVars
  <2> QED
    BY <1>11, <2>2, <2>3, QuietStep DEF CleanupDone
<1>12. CASE Tick
  BY <1>12, TickStep
<1>13. CASE UNCHANGED vars
  BY <1>13 DEF IInv, TypeOK, CallOK, LiveOK, LogOK, Expired, SweepOK,
               ClientWindow, vars, threadVars
<1> QED
  BY <1>1, <1>2, <1>3, <1>4, <1>5, <1>6, <1>7, <1>8, <1>9, <1>10, <1>11,
     <1>12, <1>13
     DEF Next, AllowStep, Cleanup

-----------------------------------------------------------------------------
(* The theorems *)

THEOREM Inductive == Spec => []IInv
<1>1. Init => IInv
  BY InitIInv
<1>2. IInv /\ [Next]_vars => IInv'
  BY NextIInv
<1> QED
  BY <1>1, <1>2, PTL DEF Spec

\* Limiter.Allow and Limiter.Cleanup keep their data well formed.
THEOREM TypeCorrect == Spec => []TypeOK
<1>1. IInv => TypeOK
  BY DEF IInv
<1> QED
  BY <1>1, Inductive, PTL

\* One client object never admits more than Requests requests in Window -
\* MaxDelay ticks, however many handlers and sweeps work on it.
THEOREM WindowHolds == Spec => []ClientWindow
<1>1. IInv => ClientWindow
  BY DEF IInv
<1> QED
  BY <1>1, Inductive, PTL

-----------------------------------------------------------------------------
(* Refusals: the holder of an object's lock has just pruned the slice, and  *)
(* nobody appends to it or prunes it until the verdict.                     *)

RegistryOK ==
    \A i \in IPs : clients[i] # NoClient => owner[clients[i]] = i

HeldOK ==
    \A t \in Threads : pc[t] \in {"lock", "decide"} => owner[held[t]] = ip[t]

PrunedOK ==
    \A t \in Threads : pc[t] = "decide" =>
        /\ cmu[held[t]] = t
        /\ \A k \in live[held[t]] : log[held[t]][k].stamp > tnow[t] - Window

DenyInv == IInv /\ RegistryOK /\ HeldOK /\ PrunedOK

LEMMA DenyInvInit == Init => DenyInv
  BY InitIInv DEF Init, DenyInv, RegistryOK, HeldOK, PrunedOK

\* The registry changes at an insertion and when Cleanup deletes an entry.
LEMMA DenyInvRegistry == DenyInv /\ [Next]_vars => RegistryOK' /\ HeldOK'
<1> SUFFICES ASSUME DenyInv, [Next]_vars
             PROVE  RegistryOK' /\ HeldOK'
  OBVIOUS
<1> USE ParamAssumption, NullAssumption
<1>1. ASSUME NEW t \in Threads, NEW i \in IPs, AllowStart(t, i)
      PROVE  RegistryOK' /\ HeldOK'
  BY <1>1 DEF DenyInv, IInv, TypeOK, RegistryOK, HeldOK, AllowStart
<1>2. ASSUME NEW t \in Threads, AllowFound(t)
      PROVE  RegistryOK' /\ HeldOK'
  BY <1>2 DEF DenyInv, IInv, TypeOK, CallOK, RegistryOK, HeldOK, AllowFound
<1>3. ASSUME NEW t \in Threads, AllowInsert(t)
      PROVE  RegistryOK' /\ HeldOK'
  <2>1. ip[t] \in IPs
    BY <1>3 DEF DenyInv, IInv, CallOK, AllowInsert
  <2>2. PICK c \in Clients :
          /\ owner[c] = NoIP
          /\ owner' = [owner EXCEPT ![c] = ip[t]]
          /\ clients' = [clients EXCEPT ![ip[t]] = c]
          /\ held' = [held EXCEPT ![t] = c]
    BY <1>3 DEF AllowInsert
  <2>3. /\ pc' = [pc EXCEPT ![t] = "lock"] /\ ip' = ip
        /\ TypeOK /\ CallOK /\ RegistryOK /\ HeldOK
    BY <1>3 DEF AllowInsert, DenyInv, IInv
  <2>4. RegistryOK'
    BY <2>1, <2>2, <2>3 DEF TypeOK, RegistryOK
  <2>5. HeldOK'
    BY <2>1, <2>2, <2>3 DEF TypeOK, CallOK, HeldOK
  <2> QED
    BY <2>4, <2>5
<1>4. ASSUME NEW t \in Threads, AllowPrune(t)
      PROVE  RegistryOK' /\ HeldOK'
  BY <1>4 DEF DenyInv, IInv, TypeOK, RegistryOK, HeldOK, AllowPrune
<1>5. ASSUME NEW t \in Threads, AllowDeny(t) \/ AllowAdmit(t)
      PROVE  RegistryOK' /\ HeldOK'
  <2>1. AllowReturn(t) /\ UNCHANGED <<clients, owner>>
    BY <1>5 DEF AllowDeny, AllowAdmit
  <2>2. /\ pc \in [Threads -> PCs] /\ ip \in [Threads -> IPs \cup {NoIP}]
        /\ held \in [Threads -> Clients \cup {NoClient}]
    BY DEF DenyInv, IInv, TypeOK
  <2>3. \A u \in Threads : u # t => pc'[u] = pc[u] /\ ip'[u] = ip[u] /\ held'[u] = held[u]
    BY <2>1, <2>2 DEF AllowReturn
  <2>4. pc'[t] = "idle"
    BY <2>1, <2>2 DEF AllowReturn
  <2>5. RegistryOK'
    BY <2>1 DEF DenyInv, RegistryOK
  <2>6. HeldOK'
    BY <2>1, <2>3, <2>4 DEF DenyInv, HeldOK
  <2> QED
    BY <2>5, <2>6
<1>6. CASE CleanupCheck
  BY <1>6 DEF DenyInv, IInv, TypeOK, RegistryOK, HeldOK, CleanupCheck,
              threadVars
<1>7. CASE \/ CleanupStart \/ CleanupLock \/ CleanupDone
           \/ \E i \in IPs : CleanupPrune(i)
  BY <1>7 DEF DenyInv, RegistryOK, HeldOK, CleanupStart, CleanupLock,
              CleanupDone, CleanupPrune, threadVars
<1>8. CASE Tick
  BY <1>8 DEF DenyInv, RegistryOK, HeldOK, Tick, threadVars
<1>9. CASE UNCHANGED vars
  BY <1>9 DEF DenyInv, RegistryOK, HeldOK, vars, threadVars
<1> QED
  BY <1>1, <1>2, <1>3, <1>4, <1>5, <1>6, <1>7, <1>8, <1>9
     DEF Next, AllowStep, Cleanup

\* Between a prune and the verdict only the holder of the lock touches the
\* object.
LEMMA DenyInvPruned == DenyInv /\ [Next]_vars => PrunedOK'
<1> SUFFICES ASSUME DenyInv, [Next]_vars
             PROVE  PrunedOK'
  OBVIOUS
<1> USE ParamAssumption, NullAssumption
<1>1. ASSUME NEW t \in Threads, NEW i \in IPs, AllowStart(t, i)
      PROVE  PrunedOK'
  <2>1. ASSUME NEW s \in Threads, pc'[s] = "decide"
        PROVE  s # t /\ pc[s] = "decide" /\ tnow'[s] = tnow[s]
    BY <1>1, <2>1 DEF DenyInv, IInv, TypeOK, AllowStart
  <2>2. UNCHANGED <<log, live, cmu, held>>
    BY <1>1 DEF AllowStart
  <2> QED
    BY <2>1, <2>2 DEF DenyInv, PrunedOK
<1>2. ASSUME NEW t \in Threads, AllowFound(t) \/ AllowInsert(t)
      PROVE  PrunedOK'
  <2>1. ASSUME NEW s \in Threads, pc'[s] = "decide"
        PROVE  s # t /\ pc[s] = "decide" /\ held'[s] = held[s]
    BY <1>2, <2>1 DEF DenyInv, IInv, TypeOK, AllowFound, AllowInsert
  <2>2. UNCHANGED <<log, live, cmu, tnow>>
    BY <1>2 DEF AllowFound, AllowInsert
  <2> QED
    BY <2>1, <2>2 DEF DenyInv, PrunedOK
<1>3. ASSUME NEW t \in Threads, AllowPrune(t)
      PROVE  PrunedOK'
  <2>1. held[t] \in Clients
    BY <1>3 DEF DenyInv, IInv, CallOK, AllowPrune
  <2>2. /\ live'[held[t]] = Valid(held[t], tnow[t] - Window)
        /\ cmu'[held[t]] = t
        /\ \A c \in Clients \ {held[t]} : live'[c] = live[c] /\ cmu'[c] = cmu[c]
    BY <1>3, <2>1 DEF DenyInv, IInv, TypeOK, AllowPrune
  <2> SUFFICES ASSUME NEW s \in Threads, pc'[s] = "decide"
               PROVE  /\ cmu'[held'[s]] = s
                      /\ \A k \in live'[held'[s]] :
                           log'[held'[s]][k].stamp > tnow'[s] - Window
    BY DEF PrunedOK
  <2>3. log' = log /\ tnow' = tnow /\ held' = held
    BY <1>3 DEF AllowPrune
  <2>4. CASE s = t
    BY <2>2, <2>3, <2>4 DEF Valid
  <2>5. CASE s # t
    <3>1. pc[s] = "decide" /\ held[s] \in Clients /\ cmu[held[s]] = s
      BY <1>3, <2>5 DEF DenyInv, IInv, TypeOK, CallOK, PrunedOK, AllowPrune
    <3>2. held[s] # held[t]
      BY <1>3, <3>1 DEF AllowPrune
    <3> QED
      BY <2>2, <2>3, <3>1, <3>2 DEF DenyInv, PrunedOK
  <2> QED
    BY <2>4, <2>5
<1>4. ASSUME NEW t \in Threads, AllowDeny(t) \/ AllowAdmit(t)
      PROVE  PrunedOK'
  <2>1. held[t] \in Clients /\ pc[t] = "decide" /\ cmu[held[t]] = t
    BY <1>4 DEF DenyInv, IInv, CallOK, PrunedOK, AllowDeny, AllowAdmit
  <2> SUFFICES ASSUME NEW s \in Threads, pc'[s] = "decide"
               PROVE  /\ cmu'[held'[s]] = s
                      /\ \A k \in live'[held'[s]] :
                           log'[held'[s]][k].stamp > tnow'[s] - Window
    BY DEF PrunedOK
  <2>2. /\ s # t /\ pc[s] = "decide"
        /\ held'[s] = held[s] /\ tnow'[s] = tnow[s]
    BY <1>4 DEF DenyInv, IInv, TypeOK, AllowDeny, AllowAdmit, AllowReturn
  <2>3. held[s] \in Clients /\ cmu[held[s]] = s /\ held[s] # held[t]
    BY <2>1, <2>2 DEF DenyInv, IInv, CallOK, PrunedOK
  <2>4. /\ cmu'[held[s]] = cmu[held[s]]
        /\ live'[held[s]] = live[held[s]]
        /\ log'[held[s]] = log[held[s]]
    BY <1>4, <2>3 DEF DenyInv, IInv, TypeOK, AllowDeny, AllowAdmit,
                      AllowReturn
  <2> QED
    BY <2>2, <2>3, <2>4 DEF DenyInv, PrunedOK
<1>5. ASSUME NEW i \in IPs, CleanupPrune(i)
      PROVE  PrunedOK'
  <2>1. /\ cmu[clients[i]] = NoThread
        /\ live' = [live EXCEPT ![clients[i]] = Valid(clients[i], sweep.cutoff)]
        /\ UNCHANGED <<log, cmu, pc, tnow, held>>
    BY <1>5 DEF CleanupPrune, threadVars
  <2>2. ASSUME NEW t \in Threads, pc[t] = "decide"
        PROVE  /\ held[t] \in Clients /\ cmu[held[t]] = t
               /\ held[t] # clients[i]
    BY <2>1, <2>2 DEF DenyInv, IInv, CallOK, PrunedOK
  <2>3. \A c \in Clients : c # clients[i] => live'[c] = live[c]
    BY <2>1 DEF DenyInv, IInv, TypeOK
  <2> QED
    BY <2>1, <2>2, <2>3 DEF DenyInv, PrunedOK
<1>6. CASE CleanupStart \/ CleanupLock \/ CleanupCheck \/ CleanupDone
  BY <1>6 DEF DenyInv, PrunedOK, CleanupStart, CleanupLock, CleanupCheck,
              CleanupDone, threadVars
<1>7. CASE Tick
  BY <1>7 DEF DenyInv, PrunedOK, Tick, threadVars
<1>8. CASE UNCHANGED vars
  BY <1>8 DEF DenyInv, PrunedOK, vars, threadVars
<1> QED
  BY <1>1, <1>2, <1>3, <1>4, <1>5, <1>6, <1>7, <1>8
     DEF Next, AllowStep, Cleanup

\* The admissions of a key are finitely many.
LEMMA FiniteAdmissions ==
    ASSUME IInv, NEW i, NEW cutoff
    PROVE  IsFiniteSet(AdmissionsAfter(i, cutoff))
<1> DEFINE C == {d \in Clients : owner[d] = i}
           K(c) == {j \in DOMAIN log[c] : log[c][j].stamp > cutoff}
           P(c) == {<<c, k>> : k \in K(c)}
           A == {P(c) : c \in C}
<1>1. IsFiniteSet(A)
  <2>1. IsFiniteSet(C)
    BY NullAssumption, FS_Subset
  <2>2. [c \in C |-> P(c)] \in Surjection(C, A)
    BY DEF Surjection
  <2> QED
    BY <2>1, <2>2, FS_Surjection
<1>2. \A T \in A : IsFiniteSet(T)
  <2> SUFFICES ASSUME NEW c \in C
               PROVE  IsFiniteSet(P(c))
    OBVIOUS
  <2>1. IsFiniteSet(K(c))
    <3>1. Len(log[c]) \in Nat /\ DOMAIN log[c] = 1 .. Len(log[c])
      BY DEF IInv, TypeOK
    <3>2. IsFiniteSet(1 .. Len(log[c]))
      BY <3>1, 1 \in Int, Len(log[c]) \in Int, FS_Interval
    <3> QED
      BY <3>1, <3>2, FS_Subset
  <2>2. [k \in K(c) |-> <<c, k>>] \in Surjection(K(c), P(c))
    BY DEF Surjection
  <2> QED
    BY <2>1, <2>2, FS_Surjection
<1>3. IsFiniteSet(UNION A)
  BY <1>1, <1>2, FS_UNION
<1>4. AdmissionsAfter(i, cutoff) = UNION A
  BY DEF AdmissionsAfter
<1> QED
  BY <1>3, <1>4

\* A refusal finds Requests stamps of its own key in the slice.
LEMMA DenyStep ==
    ASSUME DenyInv, NEW t \in Threads, AllowDeny(t)
    PROVE  Cardinality(AdmissionsAfter(ip[t], tnow[t] - Window)) >= Requests
<1> DEFINE c == held[t]
           A == AdmissionsAfter(ip[t], tnow[t] - Window)
<1>1. /\ c \in Clients /\ owner[c] = ip[t]
      /\ \A k \in live[c] : log[c][k].stamp > tnow[t] - Window
  BY DEF DenyInv, IInv, CallOK, HeldOK, PrunedOK, AllowDeny
<1>2. live[c] \subseteq DOMAIN log[c]
  BY <1>1 DEF DenyInv, IInv, TypeOK, LiveOK
<1>3. \A k \in live[c] : <<c, k>> \in A
  BY <1>1, <1>2 DEF AdmissionsAfter
<1>4. [k \in live[c] |-> <<c, k>>] \in Injection(live[c], A)
  BY <1>3 DEF Injection, IsInjective
<1>5. IsFiniteSet(A)
  BY FiniteAdmissions DEF DenyInv
<1>6. IsFiniteSet(live[c]) /\ Cardinality(live[c]) <= Cardinality(A)
  BY <1>4, <1>5, FS_Injection
<1>7. Cardinality(live[c]) \in Nat /\ Cardinality(A) \in Nat
  BY <1>5, <1>6, FS_CardinalityType
<1>8. Cardinality(live[c]) >= Requests
  BY DEF AllowDeny, OverLimit
<1> QED
  BY <1>6, <1>7, <1>8, ParamAssumption

\* Allow refuses only a request whose key used up its limit within the window
\* of the call.
THEOREM DenialsJustified == Spec => DenialJustified
<1>1. Init => DenyInv
  BY DenyInvInit
<1>2. DenyInv /\ [Next]_vars => DenyInv'
  BY NextIInv, DenyInvRegistry, DenyInvPruned DEF DenyInv
<1>3. DenyInv /\ [Next]_vars =>
        [\A t \in Threads :
           AllowDeny(t) =>
              Cardinality(AdmissionsAfter(ip[t], tnow[t] - Window))
                >= Requests]_vars
  BY DenyStep
<1> QED
  BY <1>1, <1>2, <1>3, PTL DEF Spec, DenialJustified

-----------------------------------------------------------------------------
(* The refinement of SlidingWindow                                         *)

LEMMA SameCardinality == \A S : SW!Cardinality(S) = Cardinality(S)
  BY DEF SW!Cardinality, Cardinality

\* An admission: what still carries a stamp of the window is in the slice,
\* which holds fewer than Requests.
LEMMA AdmitRefines ==
    ASSUME IInv, NEW t \in Threads, AllowAdmit(t)
    PROVE  SW!Admit(held[t])
<1>1. /\ held[t] \in Clients /\ live[held[t]] \subseteq 1 .. Len(log[held[t]])
      /\ log[held[t]] \in Seq(Admission) /\ now \in Nat /\ tnow[t] \in Nat
      /\ tnow[t] <= now /\ now - tnow[t] <= MaxDelay
  BY DEF IInv, TypeOK, CallOK, LiveOK, AllowAdmit
<1>2. SW!Recent(held[t]) \subseteq live[held[t]]
  <2> SUFFICES ASSUME NEW k \in 1 .. Len(log[held[t]]),
                      log[held[t]][k].stamp > now - Window
               PROVE  k \in live[held[t]]
    BY <1>1 DEF SW!Recent
  <2>1. log[held[t]][k] \in Admission
    BY <1>1
  <2>2. log[held[t]][k].stamp \in Nat
    BY <2>1 DEF Admission
  <2> QED
    BY <1>1, <2>2, ParamAssumption DEF IInv, Expired
<1>3. IsFiniteSet(live[held[t]])
  <2>1. Len(log[held[t]]) \in Int
    BY <1>1
  <2>2. IsFiniteSet(1 .. Len(log[held[t]]))
    BY <2>1, FS_Interval
  <2> QED
    BY <1>1, <2>2, FS_Subset
<1>4. Cardinality(SW!Recent(held[t])) < Requests
  <2>1. /\ Cardinality(SW!Recent(held[t])) <= Cardinality(live[held[t]])
        /\ IsFiniteSet(SW!Recent(held[t]))
    BY <1>2, <1>3, FS_Subset
  <2>2. /\ Cardinality(SW!Recent(held[t])) \in Nat
        /\ Cardinality(live[held[t]]) \in Nat
    BY <1>3, <2>1, FS_CardinalityType
  <2>3. ~(Cardinality(live[held[t]]) >= Requests)
    BY DEF AllowAdmit, OverLimit
  <2> QED
    BY <2>1, <2>2, <2>3, ParamAssumption
<1>5. /\ log' = [log EXCEPT ![held[t]] =
                   Append(@, [stamp |-> tnow[t], at |-> now])]
      /\ now' = now
  BY DEF AllowAdmit
<1>6. \E s \in now - MaxDelay .. now :
        log' = [log EXCEPT ![held[t]] = Append(@, [stamp |-> s, at |-> now])]
  <2>1. tnow[t] \in now - MaxDelay .. now
    BY <1>1, ParamAssumption
  <2> WITNESS tnow[t] \in now - MaxDelay .. now
  <2> QED
    BY <1>5
<1> QED
  BY <1>4, <1>5, <1>6, SameCardinality DEF SW!Admit

\* For each object, Allow and Cleanup together behave as one atomic decision
\* about the window.
THEOREM LimiterImplementsSlidingWindow == Spec => ImplementsSlidingWindow
<1>1. Init => SW!Init
  BY DEF Init, SW!Init
<1>2. IInv /\ [Next]_vars => [SW!Next]_(SW!vars)
  <2> SUFFICES ASSUME IInv, [Next]_vars PROVE [SW!Next]_(SW!vars)
    OBVIOUS
  <2>1. ASSUME NEW t \in Threads, AllowAdmit(t) PROVE SW!Next
    <3>1. held[t] \in Clients
      BY <2>1 DEF IInv, CallOK, AllowAdmit
    <3> QED
      BY <2>1, <3>1, AdmitRefines DEF SW!Next
  <2>2. CASE Tick
    BY <2>2 DEF Tick, SW!Next, SW!Tick
  <2>3. CASE UNCHANGED <<now, log>>
    BY <2>3 DEF SW!vars
  <2>4. ASSUME NEW t \in Threads,
               \/ AllowFound(t) \/ AllowInsert(t)
               \/ AllowPrune(t) \/ AllowDeny(t)
        PROVE  UNCHANGED <<now, log>>
    BY <2>4 DEF AllowFound, AllowInsert, AllowPrune, AllowDeny
  <2>5. CASE \/ UNCHANGED vars \/ Cleanup
             \/ \E t \in Threads, i \in IPs : AllowStart(t, i)
    <3>1. UNCHANGED <<now, log>>
      BY <2>5 DEF vars, Cleanup, AllowStart, CleanupStart, CleanupLock,
                  CleanupPrune,
                  CleanupCheck, CleanupDone
    <3> QED
      BY <2>3, <3>1
  <2> QED
    BY <2>1, <2>2, <2>3, <2>4, <2>5 DEF Next, AllowStep
<1> QED
  BY <1>1, <1>2, Inductive, PTL DEF Spec, ImplementsSlidingWindow, SW!Spec

-----------------------------------------------------------------------------
(* Keys: an object that is no longer the one of its key is dead (its slice *)
(* is empty and no call holds it) unless Cleanup raced a call for the key; *)
(* the objects of a key then admit one after another, a window apart.      *)

\* An object that was never handed out has admitted nothing.
FreshOK == \A c \in Clients : owner[c] = NoIP => log[c] = <<>>

\* A replaced object is dead.
DeadOK ==
    \A i \in IPs \ raced, c \in Clients :
        owner[c] = i /\ c # clients[i] => live[c] = {} /\ Holding(c) = {}

\* What two objects of a key admitted is a window apart.
ApartOK ==
    \A i \in IPs \ raced, c \in Clients, d \in Clients :
        owner[c] = i /\ owner[d] = i /\ c # d =>
            \A j \in 1 .. Len(log[c]), k \in 1 .. Len(log[d]) :
                \/ log[c][j].at - log[d][k].at >= Window - MaxDelay
                \/ log[d][k].at - log[c][j].at >= Window - MaxDelay

KeyInv == DenyInv /\ FreshOK /\ DeadOK /\ ApartOK

LEMMA KeyInvInit == Init => KeyInv
  BY DenyInvInit, NullAssumption DEF Init, KeyInv, FreshOK, DeadOK, ApartOK

\* Steps that admit nothing and hand out no object.
LEMMA ApartStep ==
    ASSUME KeyInv, UNCHANGED <<log, owner>>, raced \subseteq raced'
    PROVE  FreshOK' /\ ApartOK'
  BY DEF KeyInv, FreshOK, ApartOK

\* Steps that look nothing up and delete no entry: the slices of dead objects
\* stay empty, and nobody finds them.
LEMMA DeadStep ==
    ASSUME KeyInv, UNCHANGED <<owner, clients, raced>>,
           \A c \in Clients : live[c] = {} => live'[c] = {},
           \A t \in Threads : held'[t] \in {held[t], NoClient}
    PROVE  DeadOK'
<1> SUFFICES ASSUME NEW i \in IPs \ raced, NEW c \in Clients,
                    owner[c] = i, c # clients[i]
             PROVE  live'[c] = {} /\ \A t \in Threads : held'[t] # c
  BY DEF DeadOK, Holding
<1>1. live[c] = {} /\ \A t \in Threads : held[t] # c
  BY DEF KeyInv, DeadOK, Holding
<1> QED
  BY <1>1, NullAssumption

\* A call finds the current object of its key.
LEMMA FoundKeepsDead ==
    ASSUME KeyInv, NEW t \in Threads, AllowFound(t)
    PROVE  DeadOK'
<1>1. /\ ip[t] \in IPs /\ clients[ip[t]] \in Clients
      /\ owner[clients[ip[t]]] = ip[t]
      /\ held' = [held EXCEPT ![t] = clients[ip[t]]]
      /\ UNCHANGED <<owner, clients, raced, live>>
  BY DEF KeyInv, DenyInv, IInv, TypeOK, CallOK, RegistryOK, AllowFound
<1>2. ASSUME NEW i \in IPs \ raced, NEW c \in Clients,
             owner[c] = i, c # clients[i]
      PROVE  live[c] = {} /\ Holding(c)' = {}
  <2>1. live[c] = {} /\ \A s \in Threads : held[s] # c
    BY <1>2 DEF KeyInv, DeadOK, Holding
  <2>2. c # clients[ip[t]]
    BY <1>1, <1>2
  <2>3. \A s \in Threads : held'[s] # c
    BY <1>1, <2>1, <2>2 DEF KeyInv, DenyInv, IInv, TypeOK
  <2> QED
    BY <2>1, <2>3 DEF Holding
<1> QED
  BY <1>1, <1>2 DEF DeadOK

\* A call registers a fresh object when its key has none: every other object
\* of the key is dead already.
LEMMA InsertKeepsKeys ==
    ASSUME KeyInv, NEW t \in Threads, AllowInsert(t)
    PROVE  FreshOK' /\ DeadOK' /\ ApartOK'
<1>1. PICK c \in Clients :
        /\ owner[c] = NoIP
        /\ owner' = [owner EXCEPT ![c] = ip[t]]
        /\ clients' = [clients EXCEPT ![ip[t]] = c]
        /\ held' = [held EXCEPT ![t] = c]
  BY DEF AllowInsert
<1>2. /\ ip[t] \in IPs /\ clients[ip[t]] = NoClient /\ log[c] = <<>>
      /\ UNCHANGED <<log, live, raced>>
  BY <1>1 DEF KeyInv, DenyInv, IInv, CallOK, FreshOK, AllowInsert
<1>3. /\ owner'[c] = ip[t] /\ clients'[ip[t]] = c
      /\ \A d \in Clients \ {c} : owner'[d] = owner[d]
      /\ \A i \in IPs \ {ip[t]} : clients'[i] = clients[i]
      /\ \A s \in Threads : held'[s] \in {held[s], c}
  BY <1>1, <1>2 DEF KeyInv, DenyInv, IInv, TypeOK
<1>4. FreshOK'
  BY <1>1, <1>2, <1>3 DEF KeyInv, FreshOK
<1>5. DeadOK'
  <2> SUFFICES ASSUME NEW i \in IPs \ raced, NEW d \in Clients,
                      owner'[d] = i, d # clients'[i]
               PROVE  live[d] = {} /\ \A s \in Threads : held'[s] # d
    BY <1>2 DEF DeadOK, Holding
  <2>1. d # c
    BY <1>3
  <2>2. owner[d] = i /\ d # clients[i]
    BY <1>2, <1>3, <2>1, NullAssumption
  <2> QED
    BY <1>3, <2>1, <2>2 DEF KeyInv, DeadOK, Holding
<1>6. ApartOK'
  <2> SUFFICES ASSUME NEW i \in IPs \ raced,
                      NEW d \in Clients, NEW e \in Clients,
                      owner'[d] = i, owner'[e] = i, d # e,
                      NEW j \in 1 .. Len(log[d]), NEW k \in 1 .. Len(log[e])
               PROVE  \/ log[d][j].at - log[e][k].at >= Window - MaxDelay
                      \/ log[e][k].at - log[d][j].at >= Window - MaxDelay
    BY <1>2 DEF ApartOK
  <2>1. d # c /\ e # c
    BY <1>2
  <2> QED
    BY <1>3, <2>1 DEF KeyInv, ApartOK
<1> QED
  BY <1>4, <1>5, <1>6

\* An admission goes to the current object of its key; what the dead ones
\* admitted has left the window.
LEMMA AdmitKeepsKeys ==
    ASSUME KeyInv, NEW t \in Threads, AllowAdmit(t)
    PROVE  FreshOK' /\ DeadOK' /\ ApartOK'
<1> DEFINE c == held[t]
           n == Len(log[c])
           new == [stamp |-> tnow[t], at |-> now]
<1>1. /\ c \in Clients /\ ip[t] \in IPs /\ owner[c] = ip[t] /\ c # NoClient
      /\ log[c] \in Seq(Admission) /\ n \in Nat /\ now \in Nat
      /\ Window \in Nat /\ MaxDelay \in Nat
  <2>1. c \in Clients /\ ip[t] \in IPs /\ owner[c] = ip[t]
    BY DEF KeyInv, DenyInv, IInv, CallOK, HeldOK, AllowAdmit
  <2>2. c # NoClient
    BY <2>1, NullAssumption
  <2>3. log[c] \in Seq(Admission) /\ now \in Nat
    BY <2>1 DEF KeyInv, DenyInv, IInv, TypeOK
  <2> QED
    BY <2>1, <2>2, <2>3, ParamAssumption
<1>2. /\ log' = [log EXCEPT ![c] = Append(log[c], new)]
      /\ live' = [live EXCEPT ![c] = live[c] \cup {n + 1}]
      /\ held' = [held EXCEPT ![t] = NoClient]
      /\ UNCHANGED <<owner, clients, raced>>
  BY DEF AllowAdmit, AllowReturn
<1>3. /\ log'[c] = Append(log[c], new)
      /\ \A d \in Clients \ {c} : log'[d] = log[d] /\ live'[d] = live[d]
      /\ \A s \in Threads : held'[s] = held[s] \/ held'[s] = NoClient
  <2>1. /\ log = [d \in Clients |-> log[d]] /\ live = [d \in Clients |-> live[d]]
        /\ held = [s \in Threads |-> held[s]]
    BY DEF KeyInv, DenyInv, IInv, TypeOK
  <2> HIDE DEF c, n, new
  <2>2. log'[c] = Append(log[c], new)
    BY <1>1, <1>2, <2>1
  <2>3. \A d \in Clients \ {c} : log'[d] = log[d]
    BY <1>2, <2>1
  <2>4. \A d \in Clients \ {c} : live'[d] = live[d]
    BY <1>2, <2>1
  <2>5. \A s \in Threads : held'[s] = held[s] \/ held'[s] = NoClient
    <3>1. held' = [held EXCEPT ![t] = NoClient]
      BY <1>2
    <3> QED
      BY <2>1, <3>1
  <2> QED
    BY <2>2, <2>3, <2>4, <2>5
<1>4. FreshOK'
  BY <1>1, <1>2, <1>3, NullAssumption DEF KeyInv, FreshOK
<1>5. ASSUME NEW i \in IPs \ raced, owner[c] = i PROVE c = clients[i]
  BY <1>1, <1>5 DEF KeyInv, DeadOK, Holding
<1>6. DeadOK'
  <2> SUFFICES ASSUME NEW i \in IPs \ raced, NEW d \in Clients,
                      owner[d] = i, d # clients[i]
               PROVE  live'[d] = {} /\ \A s \in Threads : held'[s] # d
    BY <1>2 DEF DeadOK, Holding
  <2>1. d # c
    BY <1>5
  <2> QED
    BY <1>3, <2>1, NullAssumption DEF KeyInv, DeadOK, Holding
<1>7. ApartOK'
  <2>1. ASSUME NEW i \in IPs \ raced, NEW d \in Clients,
               owner[c] = i, owner[d] = i, d # c,
               NEW j \in 1 .. Len(log[d])
        PROVE  now - log[d][j].at >= Window - MaxDelay
    <3>1. live[d] = {}
      BY <1>5, <2>1 DEF KeyInv, DeadOK
    <3>2. log[d][j].stamp <= now - Window
      BY <3>1 DEF KeyInv, DenyInv, IInv, Expired
    <3>3. log[d][j] \in Admission /\ log[d][j].at <= log[d][j].stamp + MaxDelay
      BY DEF KeyInv, DenyInv, IInv, TypeOK, LogOK
    <3>4. log[d][j].at \in Nat /\ log[d][j].stamp \in Nat
      BY <3>3 DEF Admission
    <3> DEFINE at == log[d][j].at
               stamp == log[d][j].stamp
    <3>5. at \in Nat /\ stamp \in Nat /\ stamp <= now - Window /\ at <= stamp + MaxDelay
      BY <3>2, <3>3, <3>4
    <3> SUFFICES now - at >= Window - MaxDelay
      OBVIOUS
    <3> HIDE DEF at, stamp
    <3> QED
      BY <1>1, <3>5
  <2>2. \A j \in 1 .. Len(log'[c]) :
          \/ j \in 1 .. n /\ log'[c][j] = log[c][j]
          \/ log'[c][j].at = now
    BY <1>1, <1>3
  <2> SUFFICES ASSUME NEW i \in IPs \ raced,
                      NEW d \in Clients, NEW e \in Clients,
                      owner[d] = i, owner[e] = i, d # e,
                      NEW j \in 1 .. Len(log'[d]), NEW k \in 1 .. Len(log'[e])
               PROVE  \/ log'[d][j].at - log'[e][k].at >= Window - MaxDelay
                      \/ log'[e][k].at - log'[d][j].at >= Window - MaxDelay
    BY <1>2 DEF ApartOK
  <2>3. CASE d # c /\ e # c
    BY <1>3, <2>3 DEF KeyInv, ApartOK
  <2>4. CASE d = c
    <3>1. e # c /\ log'[e] = log[e]
      BY <1>3, <2>4
    <3>2. CASE j \in 1 .. n /\ log'[c][j] = log[c][j]
      BY <2>4, <3>1, <3>2 DEF KeyInv, ApartOK
    <3>3. CASE log'[c][j].at = now
      BY <2>1, <2>4, <3>1, <3>3
    <3> QED
      BY <2>2, <2>4, <3>2, <3>3
  <2>5. CASE e = c
    <3>1. d # c /\ log'[d] = log[d]
      BY <1>3, <2>5
    <3>2. CASE k \in 1 .. n /\ log'[c][k] = log[c][k]
      BY <2>5, <3>1, <3>2 DEF KeyInv, ApartOK
    <3>3. CASE log'[c][k].at = now
      BY <2>1, <2>5, <3>1, <3>3
    <3> QED
      BY <2>2, <2>5, <3>2, <3>3
  <2> QED
    BY <2>3, <2>4, <2>5
<1> QED
  BY <1>4, <1>6, <1>7

\* Cleanup deletes the entry of an empty slice: its object is dead, or the
\* key is raced.
LEMMA CheckKeepsDead ==
    ASSUME KeyInv, CleanupCheck
    PROVE  DeadOK' /\ raced \subseteq raced'
<1> DEFINE i == sweep.cur
           c == clients[i]
<1>1. /\ i \in IPs /\ UNCHANGED <<owner, live, held>>
      /\ clients \in [IPs -> Clients \cup {NoClient}]
  BY DEF KeyInv, DenyInv, IInv, TypeOK, SweepOK, CleanupCheck, threadVars
<1>2. CASE ~Removable(c)
  <2>1. UNCHANGED <<clients, raced>>
    BY <1>2 DEF CleanupCheck
  <2> QED
    BY <1>1, <2>1, DeadStep
<1>3. CASE Removable(c)
  <2>1. /\ clients' = [clients EXCEPT ![i] = NoClient]
        /\ raced' = IF Holding(c) = {} THEN raced ELSE raced \cup {i}
    BY <1>3 DEF CleanupCheck
  <2>2. clients'[i] = NoClient /\ \A k \in IPs \ {i} : clients'[k] = clients[k]
    BY <1>1, <2>1
  <2> SUFFICES ASSUME NEW k \in IPs \ raced', NEW d \in Clients,
                      owner[d] = k, d # clients'[k]
               PROVE  live[d] = {} /\ Holding(d) = {}
    BY <1>1, <2>1 DEF DeadOK, Holding
  <2>3. k \in IPs \ raced /\ (k = i => Holding(c) = {})
    BY <2>1
  <2>4. CASE d # clients[k]
    BY <2>3, <2>4 DEF KeyInv, DeadOK
  <2>5. CASE d = clients[k]
    <3>1. k = i
      BY <2>2, <2>3, <2>5
    <3> QED
      BY <1>3, <2>3, <2>5, <3>1 DEF Removable
  <2> QED
    BY <2>4, <2>5
<1> QED
  BY <1>2, <1>3

LEMMA KeyInvNext == KeyInv /\ [Next]_vars => FreshOK' /\ DeadOK' /\ ApartOK'
<1> SUFFICES ASSUME KeyInv, [Next]_vars
             PROVE  FreshOK' /\ DeadOK' /\ ApartOK'
  OBVIOUS
<1>1. ASSUME NEW t \in Threads, NEW i \in IPs, AllowStart(t, i)
      PROVE  FreshOK' /\ DeadOK' /\ ApartOK'
  BY <1>1, ApartStep, DeadStep DEF AllowStart
<1>2. ASSUME NEW t \in Threads, AllowFound(t)
      PROVE  FreshOK' /\ DeadOK' /\ ApartOK'
  BY <1>2, ApartStep, FoundKeepsDead DEF AllowFound
<1>3. ASSUME NEW t \in Threads, AllowInsert(t)
      PROVE  FreshOK' /\ DeadOK' /\ ApartOK'
  BY <1>3, InsertKeepsKeys
<1>4. ASSUME NEW t \in Threads, AllowPrune(t)
      PROVE  FreshOK' /\ DeadOK' /\ ApartOK'
  <2>1. \A c \in Clients : live[c] = {} => live'[c] = {}
    BY <1>4 DEF KeyInv, DenyInv, IInv, TypeOK, AllowPrune, Valid
  <2>2. UNCHANGED <<log, owner, clients, raced, held>>
    BY <1>4 DEF AllowPrune
  <2> QED
    BY <2>1, <2>2, ApartStep, DeadStep
<1>5. ASSUME NEW t \in Threads, AllowDeny(t)
      PROVE  FreshOK' /\ DeadOK' /\ ApartOK'
  <2>1. \A s \in Threads : held'[s] \in {held[s], NoClient}
    BY <1>5 DEF KeyInv, DenyInv, IInv, TypeOK, AllowDeny, AllowReturn
  <2>2. UNCHANGED <<log, owner, clients, raced, live>>
    BY <1>5 DEF AllowDeny
  <2> QED
    BY <2>1, <2>2, ApartStep, DeadStep
<1>6. ASSUME NEW t \in Threads, AllowAdmit(t)
      PROVE  FreshOK' /\ DeadOK' /\ ApartOK'
  BY <1>6, AdmitKeepsKeys
<1>7. ASSUME NEW i \in IPs, CleanupPrune(i)
      PROVE  FreshOK' /\ DeadOK' /\ ApartOK'
  <2>1. \A c \in Clients : live[c] = {} => live'[c] = {}
    BY <1>7 DEF KeyInv, DenyInv, IInv, TypeOK, CleanupPrune, Valid
  <2>2. UNCHANGED <<log, owner, clients, raced, held>>
    BY <1>7 DEF CleanupPrune, threadVars
  <2> QED
    BY <2>1, <2>2, ApartStep, DeadStep
<1>8. CASE CleanupCheck
  <2>1. UNCHANGED <<log, owner>>
    BY <1>8 DEF CleanupCheck
  <2> QED
    BY <1>8, <2>1, ApartStep, CheckKeepsDead
<1>9. CASE \/ CleanupStart \/ CleanupLock \/ CleanupDone \/ Tick
           \/ UNCHANGED vars
  <2>1. UNCHANGED <<log, owner, clients, raced, live, held>>
    BY <1>9 DEF CleanupStart, CleanupLock, CleanupDone, Tick, vars, threadVars
  <2> QED
    BY <2>1, ApartStep, DeadStep
<1> QED
  BY <1>1, <1>2, <1>3, <1>4, <1>5, <1>6, <1>7, <1>8, <1>9
     DEF Next, AllowStep, Cleanup

LEMMA LeastPosition ==
    ASSUME NEW S \in SUBSET Nat, S # {}
    PROVE  \E m \in S : \A k \in S : m <= k
<1> DEFINE R == {ss \in Nat \X Nat : ss[1] < ss[2]}
<1>1. IsWellFoundedOn(R, Nat)
  BY NatLessThanWellFounded DEF OpToRel
<1>2. PICK m \in S : \A k \in S : <<k, m>> \notin R
  BY <1>1, WFMin
<1>3. \A k \in S : <<k, m>> \in Nat \X Nat
  OBVIOUS
<1>4. \A k \in S : m \in Nat /\ k \in Nat /\ ~(k < m)
  BY <1>2, <1>3
<1> QED
  BY <1>4

LEMMA TimesAreNat ==
    ASSUME IInv, NEW c \in Clients, NEW k \in 1 .. Len(log[c])
    PROVE  log[c][k].at \in Nat
<1>1. log[c][k] \in Admission
  BY DEF IInv, TypeOK
<1> QED
  BY <1>1 DEF Admission

\* An interval of a window holds Requests admissions of one object at most:
\* the next one is a window after the first.
LEMMA ObjectInterval ==
    ASSUME IInv, NEW c \in Clients, NEW from \in Nat,
           NEW K \in SUBSET (1 .. Len(log[c])),
           \A k \in K : /\ log[c][k].at >= from
                        /\ log[c][k].at < from + Window - MaxDelay
    PROVE  IsFiniteSet(K) /\ Cardinality(K) <= Requests
<1>1. /\ Len(log[c]) \in Nat /\ Requests \in Nat /\ Window \in Nat
      /\ MaxDelay \in Nat
      /\ \A k \in 1 .. Len(log[c]) : log[c][k].at \in Nat
  BY ParamAssumption, TimesAreNat DEF IInv, TypeOK
<1>2. IsFiniteSet(K)
  <2>1. IsFiniteSet(1 .. Len(log[c]))
    BY <1>1, 1 \in Int, Len(log[c]) \in Int, FS_Interval
  <2> QED
    BY <2>1, FS_Subset
<1>3. CASE K = {}
  BY <1>1, <1>3, FS_EmptySet
<1>4. CASE K # {}
  <2>1. PICK m \in K : \A k \in K : m <= k
    BY <1>4, LeastPosition
  <2>2. m \in Nat /\ K \subseteq Nat
    OBVIOUS
  <2>3. K \subseteq m .. (m + Requests - 1)
    <3> SUFFICES ASSUME NEW k \in K, ~(k <= m + Requests - 1)
                 PROVE  FALSE
      BY <1>1, <2>1, <2>2
    <3>1. m + Requests \in 1 .. k /\ m \in 1 .. (Len(log[c]) - Requests)
      BY <1>1, <2>2
    <3>2. log[c][m + Requests].at - log[c][m].at >= Window - MaxDelay
      BY <3>1 DEF IInv, ClientWindow
    <3>3. log[c][m + Requests].at <= log[c][k].at
      BY <3>1 DEF IInv, LogOK
    <3>4. /\ log[c][m].at \in Nat /\ log[c][k].at \in Nat
          /\ log[c][m + Requests].at \in Nat
      BY <1>1, <2>2, <3>1
    <3>5. log[c][m].at >= from /\ log[c][k].at < from + Window - MaxDelay
      BY <2>1
    <3> DEFINE first == log[c][m].at
               next == log[c][m + Requests].at
               last == log[c][k].at
    <3>6. /\ first \in Nat /\ next \in Nat /\ last \in Nat
          /\ next - first >= Window - MaxDelay /\ next <= last
          /\ first >= from /\ last < from + Window - MaxDelay
      BY <3>2, <3>3, <3>4, <3>5
    <3> HIDE DEF first, next, last
    <3> QED
      BY <1>1, <3>6
  <2>4. /\ IsFiniteSet(m .. (m + Requests - 1))
        /\ Cardinality(m .. (m + Requests - 1)) = Requests
    <3>1. m \in Int /\ m + Requests - 1 \in Int
      BY <1>1, <2>2
    <3>2. /\ IsFiniteSet(m .. (m + Requests - 1))
          /\ Cardinality(m .. (m + Requests - 1))
               = IF m > m + Requests - 1 THEN 0
                 ELSE (m + Requests - 1) - m + 1
      BY <3>1, FS_Interval
    <3> DEFINE size == Cardinality(m .. (m + Requests - 1))
    <3>3. /\ m > m + Requests - 1 => size = 0
          /\ ~(m > m + Requests - 1) => size = (m + Requests - 1) - m + 1
      BY <3>2
    <3> HIDE DEF size
    <3>4. size = Requests
      BY <1>1, <2>2, <3>3
    <3> QED
      BY <3>2, <3>4 DEF size
  <2>5. Cardinality(K) <= Cardinality(m .. (m + Requests - 1))
    BY <2>3, <2>4, FS_Subset
  <2> QED
    BY <1>2, <2>4, <2>5
<1> QED
  BY <1>2, <1>3, <1>4

\* The admissions of a key inside a window went through one object.
LEMMA KeyInvWindow == KeyInv => KeyWindow
<1> SUFFICES ASSUME KeyInv, NEW i \in IPs \ raced, NEW from \in 0 .. now
             PROVE  Cardinality(
                      AdmissionsIn(i, from, from + Window - MaxDelay))
                        <= Requests
  BY DEF KeyWindow
<1> DEFINE S == AdmissionsIn(i, from, from + Window - MaxDelay)
           In(c, k) == /\ log[c][k].at >= from
                       /\ log[c][k].at < from + Window - MaxDelay
<1> SUFFICES Cardinality(S) <= Requests
  OBVIOUS
<1>1. /\ IInv /\ from \in Nat /\ Window \in Nat /\ MaxDelay \in Nat
      /\ Requests \in Nat
      /\ \A c \in Clients : \A k \in 1 .. Len(log[c]) : log[c][k].at \in Nat
  <2>1. now \in Nat /\ IInv
    BY DEF KeyInv, DenyInv, IInv, TypeOK
  <2> QED
    BY <2>1, ParamAssumption, TimesAreNat
<1>2. \A p \in S : \E c \in Clients : \E k \in 1 .. Len(log[c]) :
        p = <<c, k>> /\ owner[c] = i /\ In(c, k)
  <2>1. \A c \in Clients : DOMAIN log[c] = 1 .. Len(log[c])
    BY <1>1 DEF IInv, TypeOK
  <2> SUFFICES ASSUME NEW p \in S
               PROVE  \E c \in Clients : \E k \in 1 .. Len(log[c]) :
                        p = <<c, k>> /\ owner[c] = i /\ In(c, k)
    OBVIOUS
  <2>2. PICK c \in Clients : /\ owner[c] = i
                             /\ p \in {<<c, k>> :
                                  k \in {j \in DOMAIN log[c] : In(c, j)}}
    BY DEF AdmissionsIn
  <2>3. PICK k \in DOMAIN log[c] : In(c, k) /\ p = <<c, k>>
    BY <2>2
  <2>4. k \in 1 .. Len(log[c])
    BY <2>1
  <2>5. owner[c] = i /\ In(c, k) /\ p = <<c, k>>
    BY <2>2, <2>3
  <2>6. c \in Clients
    BY <2>2
  <2> QED
    BY <2>4, <2>5, <2>6
<1>3. CASE S = {}
  <2>1. Cardinality(S) = 0
    BY <1>3, FS_EmptySet
  <2>2. Requests \in Nat
    BY <1>1
  <2> HIDE DEF S
  <2> QED
    BY <2>1, <2>2
<1>4. CASE S # {}
  <2>1. PICK c \in Clients : \E k \in 1 .. Len(log[c]) :
               owner[c] = i /\ In(c, k)
    BY <1>2, <1>4
  <2>2. PICK k \in 1 .. Len(log[c]) : owner[c] = i /\ In(c, k)
    BY <2>1
  <2> DEFINE K == {m \in 1 .. Len(log[c]) : In(c, m)}
  <2>3. ASSUME NEW d \in Clients, owner[d] = i, NEW m \in 1 .. Len(log[d]),
               In(d, m)
        PROVE  d = c
    <3> SUFFICES ASSUME d # c PROVE FALSE
      OBVIOUS
    <3>1. \/ log[c][k].at - log[d][m].at >= Window - MaxDelay
          \/ log[d][m].at - log[c][k].at >= Window - MaxDelay
      BY <2>2, <2>3 DEF KeyInv, ApartOK
    <3>2. log[c][k].at \in Nat /\ log[d][m].at \in Nat
      BY <1>1
    <3>3. In(c, k) /\ In(d, m)
      BY <2>2, <2>3
    <3> DEFINE a == log[c][k].at
               b == log[d][m].at
    <3>4. /\ a \in Nat /\ b \in Nat
          /\ a >= from /\ a < from + Window - MaxDelay
          /\ b >= from /\ b < from + Window - MaxDelay
          /\ a - b >= Window - MaxDelay \/ b - a >= Window - MaxDelay
      BY <3>1, <3>2, <3>3
    <3>5. from \in Nat /\ Window \in Nat /\ MaxDelay \in Nat
      BY <1>1
    <3> HIDE DEF a, b, In, S
    <3> QED
      BY <3>4, <3>5
  <2>4. \A p \in S : \E m \in K : p = <<c, m>>
    BY <1>2, <2>3
  <2>5. IsFiniteSet(K) /\ Cardinality(K) <= Requests
    BY <1>1, ObjectInterval
  <2> DEFINE P == {<<c, m>> : m \in K}
  <2>6. [m \in K |-> <<c, m>>] \in Surjection(K, P)
    BY DEF Surjection
  <2>7. IsFiniteSet(P) /\ Cardinality(P) <= Cardinality(K)
    BY <2>5, <2>6, FS_Surjection
  <2>8. IsFiniteSet(S) /\ Cardinality(S) <= Cardinality(P)
    <3>1. S \subseteq P
      BY <2>4
    <3> QED
      BY <2>7, <3>1, FS_Subset
  <2>9. /\ Cardinality(S) \in Nat /\ Cardinality(P) \in Nat
        /\ Cardinality(K) \in Nat
    BY <2>5, <2>7, <2>8, FS_CardinalityType
  <2> QED
    BY <1>1, <2>5, <2>7, <2>8, <2>9
<1> QED
  BY <1>3, <1>4

\* Whatever objects a key's requests go through, the key stays within its
\* limit unless Cleanup deleted its entry while a call held it.
THEOREM KeyWindowHolds == Spec => []KeyWindow
<1>1. Init => KeyInv
  BY KeyInvInit
<1>2. KeyInv /\ [Next]_vars => KeyInv'
  BY NextIInv, DenyInvRegistry, DenyInvPruned, KeyInvNext DEF KeyInv, DenyInv
<1>3. KeyInv => KeyWindow
  BY KeyInvWindow
<1> QED
  BY <1>1, <1>2, <1>3, PTL DEF Spec
=============================================================================
