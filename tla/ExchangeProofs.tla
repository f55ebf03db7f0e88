--------------------------- MODULE ExchangeProofs ---------------------------
(***************************************************************************)
(* Theorems about the /exchange endpoint, for any number of requests of    *)
(* any kinds, any rules and any TTL.                                       *)
(*                                                                         *)
(* The properties speak of what was logged, minted and counted; the        *)
(* handler only knows where it is.  Each part of the invariant says what a *)
(* request's program counter tells about one of them.                      *)
(***************************************************************************)
EXTENDS Exchange, FiniteSetTheorems, TLAPS

Unauthenticated == {"new", "limit", "authFailed", "authOK"}
Authenticated == {"roles", "issue", "respond", "issueFailed", "issued"}
Ended == {"gone", "killed"}

\* The requests the listeners heard of with an event of this type.
HeardOf(type) == {r \in Reqs : Heard(type, r)}

\* Before validation nothing was heard of a request, then only its
\* authentication, at its end at most one outcome, and after the end of the
\* process nothing again.
HeardOK ==
    \A r \in Reqs :
        /\ pc[r] \in Unauthenticated \cup Ended =>
             \A type \in EventTypes : ~Heard(type, r)
        /\ pc[r] \in Authenticated => Heard("auth_success", r)
        /\ Heard("cert_issued", r) \/ Heard("cert_error", r) =>
             pc[r] = "done" /\ Heard("auth_success", r)
        /\ ~(Heard("cert_issued", r) /\ Heard("cert_error", r))

\* The counters count the requests heard of.
CountOK ==
    /\ tracker.authOK = Cardinality(HeardOf("auth_success"))
    /\ tracker.issued = Cardinality(HeardOf("cert_issued"))
    /\ tracker.errors = Cardinality(HeardOf("cert_error"))

\* A handler is past a check only if the request passed it.
PassedOK ==
    \A r \in Reqs :
        /\ pc[r] \in {"authOK"} \cup Authenticated =>
             AddressAllowed(r) /\ kind[r].genuine
        /\ pc[r] \in {"issue", "respond", "issueFailed", "issued"} =>
             RolesOf(r) # {}

\* A certificate is minted during the call only, and expires no later than
\* the expiry the handler computes.
CertOK ==
    /\ cert = [r \in Reqs |-> cert[r]]
    /\ \A r \in Reqs :
        /\ pc[r] \in Unauthenticated \cup {"roles"} => cert[r] = NoCert
        /\ cert[r] # NoCert => cert[r].notAfter <= now + TTL
        /\ pc[r] \in {"respond", "issued"} => cert[r] # NoCert
        /\ pc[r] = "issued" => cert[r].notAfter <= expiry[r]

\* The record of a live certificate expires no earlier than the certificate.
ListedOK ==
    \A r \in Reqs :
        Heard("cert_issued", r) =>
            /\ cert[r] # NoCert
            /\ cert[r].notAfter > now =>
                 \E c \in tracker.certs :
                    c.req = r /\ cert[r].notAfter <= c.expiresAt

\* What the audit file can say of a request, by its program counter.
AuditOK ==
    \A i \in DOMAIN auditFile :
        LET r == auditFile[i].req
        IN  IF auditFile[i].type = "auth_success"
              THEN pc[r] \in Authenticated \cup {"done"} \cup Ended
              ELSE pc[r] \in {"done"} \cup Ended

\* 200 is written once, by Respond, and the request's event follows it.
StatusOK ==
    \A r \in Reqs :
        /\ pc[r] \in Unauthenticated \cup (Authenticated \ {"issued"}) =>
             status[r] = 0
        /\ pc[r] = "done" /\ status[r] = 200 => Heard("cert_issued", r)

EInv ==
    /\ TypeOK
    /\ HeardOK
    /\ CountOK
    /\ PassedOK
    /\ CertOK
    /\ MintedOnlyForAuthorized
    /\ ListedOK
    /\ AuditOK
    /\ AuditTrailOrdered
    /\ StatusOK

-----------------------------------------------------------------------------
(* What the operators of the specification do *)

LEMMA LogHeard ==
    ASSUME NEW r \in Reqs, NEW type, Log(type, r)
    PROVE  \A s \in Reqs, u \in EventTypes :
             Heard(u, s)' <=> (Heard(u, s) \/ (u = type /\ s = r))
  BY DEF Log, Heard

\* A handler's step without an event.
HandlerMove(r) ==
    \/ \E k \in Kinds : Arrive(r, k)
    \/ RateLimited(r) \/ NotAllowed(r) \/ BadRequest(r)
    \/ ValidateFail(r) \/ ValidateOK(r) \/ NoRoles(r) \/ IssueCall(r)
    \/ TalosMint(r) \/ IssueOK(r) \/ IssueFail(r) \/ Respond(r)

\* A handler's step that logs one.
HandlerLog(r) ==
    \/ LogAuthFailure(r) \/ LogAuthSuccess(r)
    \/ LogCertError(r) \/ LogCertIssued(r)

LEMMA LogsOne ==
    ASSUME NEW r, HandlerLog(r)
    PROVE  \E type \in EventTypes : Log(type, r)
  BY DEF EventTypes, HandlerLog, LogAuthFailure, LogAuthSuccess, LogCertError,
         LogCertIssued

ExitStep == ShutdownDone \/ ShutdownTimeout \/ Crash

OtherStep == pruneExpired \/ SigTerm \/ Restart \/ Tick \/ UNCHANGED vars

LEMMA StepKinds ==
    ASSUME [Next]_vars
    PROVE  \/ \E r \in Reqs : HandlerMove(r)
           \/ \E r \in Reqs : HandlerLog(r)
           \/ ExitStep
           \/ OtherStep
  BY DEF Next, HandlerStep, IssueStep, Process, HandlerMove, HandlerLog,
         ExitStep, OtherStep

LEMMA MoveKeepsLogs ==
    ASSUME NEW r, HandlerMove(r)
    PROVE  UNCHANGED <<now, server, boots, logVars>>
  BY DEF HandlerMove, Arrive, RateLimited, NotAllowed, BadRequest, ValidateFail,
         ValidateOK, NoRoles, IssueCall, TalosMint, IssueOK, IssueFail, Respond,
         reqVars

\* Each step of a handler moves its own program counter and writes its own
\* status.
LEMMA HandlerEffect ==
    ASSUME NEW r, HandlerMove(r) \/ HandlerLog(r)
    PROVE  /\ UNCHANGED pc \/ \E l \in PCs : pc' = [pc EXCEPT ![r] = l]
           /\ \/ UNCHANGED status
              \/ \E code \in {200, 400, 401, 403, 429, 500} :
                   status' = [status EXCEPT ![r] = code]
<1>1. CASE \/ RateLimited(r) \/ NotAllowed(r) \/ BadRequest(r)
           \/ LogAuthFailure(r) \/ NoRoles(r) \/ LogCertError(r)
  BY <1>1 DEF RateLimited, NotAllowed, BadRequest, LogAuthFailure, NoRoles,
              LogCertError, Reply, Goto, PCs
<1>2. CASE \/ \E k \in Kinds : Arrive(r, k)
           \/ ValidateFail(r) \/ ValidateOK(r) \/ IssueCall(r)
           \/ IssueOK(r) \/ IssueFail(r)
           \/ LogAuthSuccess(r) \/ LogCertIssued(r)
  BY <1>2 DEF Arrive, ValidateFail, ValidateOK, IssueCall, IssueOK, IssueFail,
              LogAuthSuccess, LogCertIssued, Goto, PCs
<1>3. CASE Respond(r)
  BY <1>3 DEF Respond, Goto, PCs
<1>4. CASE TalosMint(r)
  BY <1>4 DEF TalosMint
<1> QED
  BY <1>1, <1>2, <1>3, <1>4 DEF HandlerMove, HandlerLog

LEMMA EffectTypes ==
    ASSUME TypeOK, NEW r, HandlerMove(r) \/ HandlerLog(r)
    PROVE  /\ pc' \in [Reqs -> PCs]
           /\ status' \in [Reqs -> {0, 200, 400, 401, 403, 429, 500}]
<1>1. pc \in [Reqs -> PCs]
      /\ status \in [Reqs -> {0, 200, 400, 401, 403, 429, 500}]
  BY DEF TypeOK
<1>2. pc' \in [Reqs -> PCs]
  <2>1. CASE UNCHANGED pc
    BY <1>1, <2>1
  <2>2. ASSUME NEW l \in PCs, pc' = [pc EXCEPT ![r] = l]
        PROVE  pc' \in [Reqs -> PCs]
    BY <1>1, <2>2
  <2> QED
    BY <2>1, <2>2, HandlerEffect
<1>3. status' \in [Reqs -> {0, 200, 400, 401, 403, 429, 500}]
  <2>1. CASE UNCHANGED status
    BY <1>1, <2>1
  <2>2. ASSUME NEW code \in {200, 400, 401, 403, 429, 500},
               status' = [status EXCEPT ![r] = code]
        PROVE  status' \in [Reqs -> {0, 200, 400, 401, 403, 429, 500}]
    <3> DEFINE Codes == {0, 200, 400, 401, 403, 429, 500}
    <3>1. code \in Codes /\ status \in [Reqs -> Codes]
      BY <1>1
    <3> SUFFICES status' \in [Reqs -> Codes]
      OBVIOUS
    <3> HIDE DEF Codes
    <3> QED
      BY <2>2, <3>1
  <2> QED
    BY <2>1, <2>2, HandlerEffect
<1> QED
  BY <1>2, <1>3

LEMMA ExitFacts ==
    ASSUME TypeOK, ExitStep
    PROVE  /\ pc' = [r \in Reqs |-> IF Active(r) THEN "killed"
                                    ELSE IF pc[r] = "done" THEN "gone" ELSE pc[r]]
           /\ \A r \in Reqs : pc'[r] \in {"new"} \cup Ended
           /\ \A r \in Reqs : pc'[r] = "new" => pc[r] = "new"
           /\ heard' = {} /\ tracker' = EmptyTracker
           /\ server' = "down"
           /\ UNCHANGED <<now, boots, kind, cert, expiry, status, auditFile, certLog>>
<1>1. Exit
  BY DEF ExitStep, ShutdownDone, ShutdownTimeout, Crash
<1> QED
  BY <1>1 DEF Exit, TypeOK, PCs, Active, Ended

LEMMA OtherFacts ==
    ASSUME OtherStep
    PROVE  /\ UNCHANGED <<reqVars, auditFile, certLog, heard>>
           /\ now' = now \/ now' = now + 1
  BY DEF OtherStep, pruneExpired, SigTerm, Restart, Tick, vars, reqVars, logVars

-----------------------------------------------------------------------------
(* The initial state *)

LEMMA EInvInit == Init => EInv
<1> SUFFICES ASSUME Init
             PROVE  EInv
  OBVIOUS
<1>1. TypeOK
  BY DEF Init, TypeOK, PCs, EmptyTracker
<1>2. HeardOK /\ PassedOK /\ StatusOK
  BY DEF Init, HeardOK, PassedOK, StatusOK, Heard, Unauthenticated,
         Authenticated, Ended
<1>3. CountOK
  <2>1. \A type : HeardOf(type) = {}
    BY DEF Init, HeardOf, Heard
  <2> QED
    BY <2>1, FS_EmptySet DEF Init, CountOK, EmptyTracker
<1>4. CertOK /\ MintedOnlyForAuthorized
  BY DEF Init, CertOK, MintedOnlyForAuthorized
<1>5. ListedOK /\ AuditOK /\ AuditTrailOrdered
  BY DEF Init, ListedOK, AuditOK, AuditTrailOrdered, Heard
<1> QED
  BY <1>1, <1>2, <1>3, <1>4, <1>5 DEF EInv

-----------------------------------------------------------------------------
(* The steps, one part of the invariant at a time *)

LEMMA LogType ==
    ASSUME TypeOK, NEW r \in Reqs, NEW type \in EventTypes, Log(type, r)
    PROVE  /\ auditFile' \in Seq(Event)
           /\ certLog' \subseteq Reqs
           /\ heard' \subseteq Event
           /\ tracker' \in [certs : SUBSET [req : Reqs, expiresAt : Nat],
                            issued : Nat, authOK : Nat, authFailed : Nat,
                            errors : Nat]
<1> DEFINE event == [type |-> type, req |-> r]
<1>1. event \in Event
  BY DEF Event
<1>2. Append(auditFile, event) \in Seq(Event)
  BY <1>1 DEF TypeOK
<1>3. auditFile' \in Seq(Event)
  BY <1>2 DEF Log, TypeOK
<1>4. heard' \subseteq Event /\ certLog' \subseteq Reqs
  BY <1>1 DEF Log, TypeOK, persist
<1>5. [req |-> r, expiresAt |-> expiry[r]] \in [req : Reqs, expiresAt : Nat]
  BY DEF TypeOK
<1>6. tracker' = handleEvent(type, r)
  BY DEF Log
<1> DEFINE T == [certs : SUBSET [req : Reqs, expiresAt : Nat],
                 issued : Nat, authOK : Nat, authFailed : Nat, errors : Nat]
<1>7. /\ tracker \in T
      /\ tracker.certs \in SUBSET [req : Reqs, expiresAt : Nat]
      /\ tracker.issued \in Nat /\ tracker.authOK \in Nat
      /\ tracker.authFailed \in Nat /\ tracker.errors \in Nat
  BY DEF TypeOK
<1>8. handleEvent(type, r) \in T
  <2>1. CASE type = "cert_issued"
    <3>1. handleEvent(type, r) =
            [certs |-> tracker.certs
                         \cup {[req |-> r, expiresAt |-> expiry[r]]},
             issued |-> tracker.issued + 1, authOK |-> tracker.authOK,
             authFailed |-> tracker.authFailed, errors |-> tracker.errors]
      BY <1>7, <2>1 DEF handleEvent
    <3> QED
      BY <1>5, <1>7, <3>1
  <2>2. CASE type = "auth_success"
    BY <1>7, <2>2 DEF handleEvent
  <2>3. CASE type = "auth_failure"
    BY <1>7, <2>3 DEF handleEvent
  <2>4. CASE type = "cert_error"
    BY <1>7, <2>4 DEF handleEvent
  <2> QED
    BY <2>1, <2>2, <2>3, <2>4 DEF EventTypes
<1> QED
  BY <1>3, <1>4, <1>6, <1>8

LEMMA TypeNext == EInv /\ [Next]_vars => TypeOK'
<1> SUFFICES ASSUME TypeOK, CertOK, [Next]_vars
             PROVE  TypeOK'
  BY DEF EInv
<1> USE ExchangeAssumption
<1>1. ASSUME NEW r \in Reqs, HandlerMove(r)
      PROVE  TypeOK'
  <2>1. UNCHANGED <<now, server, boots, logVars>>
    BY <1>1, MoveKeepsLogs
  <2>2. /\ pc' \in [Reqs -> PCs]
        /\ status' \in [Reqs -> {0, 200, 400, 401, 403, 429, 500}]
    BY <1>1, EffectTypes
  <2>5. kind' \in [Reqs -> Kinds \cup {NoKind}]
    <3>1. CASE \E k \in Kinds : Arrive(r, k)
      BY <3>1 DEF TypeOK, Arrive
    <3>2. CASE ~(\E k \in Kinds : Arrive(r, k))
      BY <1>1, <3>2
         DEF TypeOK, HandlerMove, RateLimited, NotAllowed, BadRequest,
             ValidateFail, ValidateOK, NoRoles, IssueCall, TalosMint, IssueOK,
             IssueFail, Respond
    <3> QED
      BY <3>1, <3>2
  <2>3. \A s \in Reqs : cert'[s] = NoCert \/ cert'[s].notAfter \in Nat
    <3>1. CASE TalosMint(r)
      <4>1. cert' = [cert EXCEPT ![r] = [roles |-> RolesOf(r),
                                         notAfter |-> now + TTL]]
        BY <3>1 DEF TalosMint
      <4>2. now + TTL \in Nat
        BY DEF TypeOK
      <4>3. \A s \in Reqs : cert'[s] = IF s = r THEN [roles |-> RolesOf(r),
                                                      notAfter |-> now + TTL]
                                                ELSE cert[s]
        BY <4>1 DEF CertOK
      <4>4. cert'[r].notAfter \in Nat
        BY <4>2, <4>3
      <4> QED
        BY <4>3, <4>4 DEF TypeOK
    <3>2. CASE ~TalosMint(r)
      BY <1>1, <3>2 DEF TypeOK, HandlerMove, Arrive, RateLimited, NotAllowed,
                BadRequest, ValidateFail, ValidateOK, NoRoles, IssueCall,
                IssueOK, IssueFail, Respond
    <3> QED
      BY <3>1, <3>2
  <2>4. expiry' \in [Reqs -> Nat]
    <3>1. CASE Respond(r)
      <4>1. now + TTL \in Nat /\ expiry' = [expiry EXCEPT ![r] = now + TTL]
        BY <3>1 DEF TypeOK, Respond
      <4> QED
        BY <4>1 DEF TypeOK
    <3>2. CASE ~Respond(r)
      <4>1. expiry' = expiry
        BY <1>1, <3>2
           DEF HandlerMove, Arrive, RateLimited, NotAllowed, BadRequest,
               ValidateFail, ValidateOK, NoRoles, IssueCall, TalosMint,
               IssueOK, IssueFail
      <4> QED
        BY <4>1 DEF TypeOK
    <3> QED
      BY <3>1, <3>2
  <2> QED
    BY <2>1, <2>2, <2>3, <2>4, <2>5 DEF TypeOK, logVars
<1>2. ASSUME NEW r \in Reqs, HandlerLog(r)
      PROVE  TypeOK'
  <2>1. PICK type \in EventTypes : Log(type, r)
    BY <1>2, LogsOne
  <2>2. /\ UNCHANGED <<now, server, boots, kind, cert, expiry>>
    BY <1>2 DEF HandlerLog, LogAuthFailure, LogAuthSuccess, LogCertError,
                LogCertIssued
  <2>3. /\ pc' \in [Reqs -> PCs]
        /\ status' \in [Reqs -> {0, 200, 400, 401, 403, 429, 500}]
    BY <1>2, EffectTypes
  <2>4. /\ auditFile' \in Seq(Event)
        /\ certLog' \subseteq Reqs
        /\ heard' \subseteq Event
        /\ tracker' \in [certs : SUBSET [req : Reqs, expiresAt : Nat],
                         issued : Nat, authOK : Nat, authFailed : Nat,
                         errors : Nat]
    BY <2>1, LogType
  <2>5. /\ now' \in Nat /\ boots' \in Nat /\ server' \in {"up", "draining", "down"}
        /\ kind' \in [Reqs -> Kinds \cup {NoKind}] /\ expiry' \in [Reqs -> Nat]
        /\ \A s \in Reqs : cert'[s] = NoCert \/ cert'[s].notAfter \in Nat
    BY <2>2 DEF TypeOK
  <2> QED
    BY <2>3, <2>4, <2>5, ZenonT(60) DEF TypeOK
<1>3. CASE ExitStep
  <2>1. pc' \in [Reqs -> PCs]
    <3>1. pc' = [r \in Reqs |-> IF Active(r) THEN "killed"
                                ELSE IF pc[r] = "done" THEN "gone" ELSE pc[r]]
      BY <1>3, ExitFacts
    <3>2. pc \in [Reqs -> PCs] /\ {"killed", "gone"} \subseteq PCs
      BY DEF TypeOK, PCs
    <3> QED
      BY <3>1, <3>2
  <2>2. EmptyTracker \in [certs : SUBSET [req : Reqs, expiresAt : Nat],
                          issued : Nat, authOK : Nat, authFailed : Nat,
                          errors : Nat]
    BY DEF EmptyTracker
  <2>3. /\ server' = "down" /\ heard' = {} /\ tracker' = EmptyTracker
        /\ UNCHANGED <<now, boots, kind, cert, expiry, status, auditFile, certLog>>
    BY <1>3, ExitFacts
  <2>4. /\ auditFile' \in Seq(Event) /\ certLog' \subseteq Reqs
        /\ kind' \in [Reqs -> Kinds \cup {NoKind}] /\ expiry' \in [Reqs -> Nat]
        /\ status' \in [Reqs -> {0, 200, 400, 401, 403, 429, 500}]
        /\ now' \in Nat /\ boots' \in Nat
    BY <2>3 DEF TypeOK
  <2>5. \A r \in Reqs : cert'[r] = NoCert \/ cert'[r].notAfter \in Nat
    BY <2>3 DEF TypeOK
  <2> QED
    BY <2>1, <2>2, <2>3, <2>4, <2>5, Zenon DEF TypeOK
<1>4. CASE OtherStep
  <2>1. UNCHANGED <<reqVars, auditFile, certLog, heard>> /\ now' \in Nat
    BY <1>4, OtherFacts DEF TypeOK
  <2>2. tracker' = tracker \/ tracker' = [tracker EXCEPT !.certs = {c \in @ : c.expiresAt > now}]
    BY <1>4 DEF OtherStep, pruneExpired, SigTerm, Restart, Tick, vars, logVars
  <2>3. tracker' \in [certs : SUBSET [req : Reqs, expiresAt : Nat], issued : Nat,
                      authOK : Nat, authFailed : Nat, errors : Nat]
    BY <2>2 DEF TypeOK
  <2>4. boots' \in Nat /\ server' \in {"up", "draining", "down"}
    BY <1>4 DEF TypeOK, OtherStep, pruneExpired, SigTerm, Restart, Tick, vars
  <2>5. /\ kind' \in [Reqs -> Kinds \cup {NoKind}] /\ pc' \in [Reqs -> PCs]
        /\ expiry' \in [Reqs -> Nat]
        /\ status' \in [Reqs -> {0, 200, 400, 401, 403, 429, 500}]
        /\ auditFile' \in Seq(Event) /\ certLog' \subseteq Reqs
        /\ heard' \subseteq Event
    BY <2>1 DEF TypeOK, reqVars
  <2>6. \A r \in Reqs : cert'[r] = NoCert \/ cert'[r].notAfter \in Nat
    BY <2>1 DEF TypeOK, reqVars
  <2> QED
    BY <2>1, <2>3, <2>4, <2>5, <2>6, ZenonT(60) DEF TypeOK
<1> QED
  BY <1>1, <1>2, <1>3, <1>4, StepKinds

-----------------------------------------------------------------------------
\* Where a step without an event can lead: never out of an end, into the
\* authenticated part only from inside it.
LEMMA MovePhase ==
    ASSUME TypeOK, NEW r \in Reqs, HandlerMove(r)
    PROVE  /\ \A s \in Reqs : s # r => pc'[s] = pc[s]
           /\ pc[r] \in Unauthenticated \cup Authenticated
           /\ pc'[r] \in Unauthenticated => pc[r] \in Unauthenticated
           /\ pc'[r] \in Authenticated => pc[r] \in Authenticated
           /\ pc'[r] \notin Ended
<1>1. pc \in [Reqs -> PCs]
  BY DEF TypeOK
<1>2. CASE RateLimited(r) \/ NotAllowed(r) \/ BadRequest(r) \/ NoRoles(r)
  BY <1>1, <1>2 DEF RateLimited, NotAllowed, BadRequest, NoRoles, Reply, Goto,
                    Unauthenticated, Authenticated, Ended
<1>3. CASE \/ \E k \in Kinds : Arrive(r, k)
           \/ ValidateFail(r) \/ ValidateOK(r)
  BY <1>1, <1>3 DEF Arrive, ValidateFail, ValidateOK, Goto, Unauthenticated,
                    Authenticated, Ended
<1>4. CASE IssueCall(r) \/ IssueOK(r) \/ IssueFail(r) \/ Respond(r)
  BY <1>1, <1>4 DEF IssueCall, IssueOK, IssueFail, Respond, Goto,
                    Unauthenticated, Authenticated, Ended
<1>5. CASE TalosMint(r)
  BY <1>1, <1>5 DEF TalosMint, Unauthenticated, Authenticated, Ended
<1> QED
  BY <1>2, <1>3, <1>4, <1>5 DEF HandlerMove

\* The four events, each with where it is logged.
LEMMA LogPhase ==
    ASSUME TypeOK, NEW r \in Reqs, HandlerLog(r)
    PROVE  /\ \A s \in Reqs : s # r => pc'[s] = pc[s]
           /\ UNCHANGED <<now, server, boots, kind, cert, expiry>>
           /\ \/ /\ pc[r] = "authFailed" /\ pc'[r] = "done"
                 /\ Log("auth_failure", r)
                 /\ status' = [status EXCEPT ![r] = 401]
              \/ /\ pc[r] = "authOK" /\ pc'[r] = "roles"
                 /\ Log("auth_success", r)
                 /\ status' = status
              \/ /\ pc[r] = "issueFailed" /\ pc'[r] = "done"
                 /\ Log("cert_error", r)
                 /\ status' = [status EXCEPT ![r] = 500]
              \/ /\ pc[r] = "issued" /\ pc'[r] = "done"
                 /\ Log("cert_issued", r)
                 /\ status' = status
<1>1. pc \in [Reqs -> PCs]
  BY DEF TypeOK
<1> QED
  BY <1>1 DEF HandlerLog, LogAuthFailure, LogAuthSuccess, LogCertError,
              LogCertIssued, Reply, Goto

LEMMA HeardNext == EInv /\ [Next]_vars => HeardOK'
<1> SUFFICES ASSUME TypeOK, HeardOK, [Next]_vars
             PROVE  HeardOK'
  BY DEF EInv
<1>1. ASSUME NEW r \in Reqs, HandlerMove(r)
      PROVE  HeardOK'
  <2>1. heard' = heard
    BY <1>1, MoveKeepsLogs DEF logVars
  <2>2. \A s \in Reqs : s # r => pc'[s] = pc[s]
    BY <1>1, MovePhase
  <2>3. /\ pc[r] \in Unauthenticated \cup Authenticated
        /\ pc'[r] \in Unauthenticated => pc[r] \in Unauthenticated
        /\ pc'[r] \in Authenticated => pc[r] \in Authenticated
        /\ pc'[r] \notin Ended
    BY <1>1, MovePhase
  <2>4. pc[r] # "done"
    BY <2>3 DEF Unauthenticated, Authenticated
  <2> QED
    BY <2>1, <2>2, <2>3, <2>4 DEF HeardOK, Heard
<1>2. ASSUME NEW r \in Reqs, HandlerLog(r)
      PROVE  HeardOK'
  <2>1. \A s \in Reqs : s # r => pc'[s] = pc[s]
    BY <1>2, LogPhase
  <2>2. CASE /\ pc[r] = "authFailed" /\ pc'[r] = "done"
             /\ Log("auth_failure", r)
    BY <2>1, <2>2, LogHeard
       DEF HeardOK, EventTypes, Unauthenticated, Authenticated, Ended
  <2>3. CASE /\ pc[r] = "authOK" /\ pc'[r] = "roles"
             /\ Log("auth_success", r)
    BY <2>1, <2>3, LogHeard
       DEF HeardOK, EventTypes, Unauthenticated, Authenticated, Ended
  <2>4. CASE /\ pc[r] = "issueFailed" /\ pc'[r] = "done"
             /\ Log("cert_error", r)
    BY <2>1, <2>4, LogHeard
       DEF HeardOK, EventTypes, Unauthenticated, Authenticated, Ended
  <2>5. CASE /\ pc[r] = "issued" /\ pc'[r] = "done"
             /\ Log("cert_issued", r)
    BY <2>1, <2>5, LogHeard
       DEF HeardOK, EventTypes, Unauthenticated, Authenticated, Ended
  <2> QED
    BY <1>2, <2>2, <2>3, <2>4, <2>5, LogPhase
<1>3. CASE ExitStep
  <2>1. heard' = {} /\ \A r \in Reqs : pc'[r] \in {"new"} \cup Ended
    BY <1>3, ExitFacts
  <2> QED
    BY <2>1 DEF HeardOK, Heard, Authenticated, Ended
<1>4. CASE OtherStep
  <2>1. heard' = heard /\ pc' = pc
    BY <1>4, OtherFacts DEF reqVars
  <2> QED
    BY <2>1 DEF HeardOK, Heard
<1> QED
  BY <1>1, <1>2, <1>3, <1>4, StepKinds

\* One more request heard of is one more in the counter of its event.
LEMMA HeardOfGrows ==
    ASSUME NEW r \in Reqs, NEW type \in EventTypes, Log(type, r),
           ~Heard(type, r), NEW u \in EventTypes
    PROVE  /\ IsFiniteSet(HeardOf(u))
           /\ Cardinality(HeardOf(u)') =
                IF u = type THEN Cardinality(HeardOf(u)) + 1
                            ELSE Cardinality(HeardOf(u))
<1>1. IsFiniteSet(HeardOf(u))
  BY ExchangeAssumption, FS_Subset DEF HeardOf
<1>2. CASE u = type
  <2>1. HeardOf(u)' = HeardOf(u) \cup {r} /\ r \notin HeardOf(u)
    BY <1>2, LogHeard DEF HeardOf
  <2> QED
    BY <1>1, <1>2, <2>1, FS_AddElement
<1>3. CASE u # type
  <2>1. HeardOf(u)' = HeardOf(u)
    BY <1>3, LogHeard DEF HeardOf
  <2> QED
    BY <1>1, <1>3, <2>1
<1> QED
  BY <1>2, <1>3, <1>1

LEMMA CountNext == EInv /\ [Next]_vars => CountOK'
<1> SUFFICES ASSUME TypeOK, HeardOK, CountOK, [Next]_vars
             PROVE  CountOK'
  BY DEF EInv
<1>1. ASSUME NEW r \in Reqs, HandlerMove(r)
      PROVE  CountOK'
  BY <1>1, MoveKeepsLogs DEF logVars, CountOK, HeardOf, Heard
<1>2. ASSUME NEW r \in Reqs, HandlerLog(r)
      PROVE  CountOK'
  <2>1. PICK type \in EventTypes : Log(type, r) /\ ~Heard(type, r)
    BY <1>2, LogPhase
       DEF HeardOK, EventTypes, Unauthenticated, Authenticated
  <2>2. /\ tracker'.authOK = IF type = "auth_success" THEN tracker.authOK + 1
                                                      ELSE tracker.authOK
        /\ tracker'.issued = IF type = "cert_issued" THEN tracker.issued + 1
                                                     ELSE tracker.issued
        /\ tracker'.errors = IF type = "cert_error" THEN tracker.errors + 1
                                                    ELSE tracker.errors
    <3>1. tracker' = handleEvent(type, r)
      BY <2>1 DEF Log
    <3> QED
      BY <3>1 DEF handleEvent, TypeOK, EventTypes
  <2>3. {"auth_success", "cert_issued", "cert_error"} \subseteq EventTypes
    BY DEF EventTypes
  <2>4. Cardinality(HeardOf("auth_success")') =
          IF "auth_success" = type THEN Cardinality(HeardOf("auth_success")) + 1
                                   ELSE Cardinality(HeardOf("auth_success"))
    BY <2>1, <2>3, HeardOfGrows
  <2>5. Cardinality(HeardOf("cert_issued")') =
          IF "cert_issued" = type THEN Cardinality(HeardOf("cert_issued")) + 1
                                  ELSE Cardinality(HeardOf("cert_issued"))
    BY <2>1, <2>3, HeardOfGrows
  <2>6. Cardinality(HeardOf("cert_error")') =
          IF "cert_error" = type THEN Cardinality(HeardOf("cert_error")) + 1
                                 ELSE Cardinality(HeardOf("cert_error"))
    BY <2>1, <2>3, HeardOfGrows
  <2> QED
    BY <2>2, <2>4, <2>5, <2>6 DEF CountOK
<1>3. CASE ExitStep
  <2>1. \A type : HeardOf(type)' = {}
    BY <1>3, ExitFacts DEF HeardOf, Heard
  <2> QED
    BY <1>3, <2>1, ExitFacts, FS_EmptySet DEF CountOK, EmptyTracker
<1>4. CASE OtherStep
  <2>1. heard' = heard
    BY <1>4, OtherFacts
  <2>2. /\ tracker'.authOK = tracker.authOK
        /\ tracker'.issued = tracker.issued
        /\ tracker'.errors = tracker.errors
    BY <1>4 DEF OtherStep, pruneExpired, SigTerm, Restart, Tick, vars, logVars,
                TypeOK
  <2> QED
    BY <2>1, <2>2 DEF CountOK, HeardOf, Heard
<1> QED
  BY <1>1, <1>2, <1>3, <1>4, StepKinds

\* A request keeps its kind once it has arrived.
LEMMA KindKept ==
    ASSUME TypeOK, NEW r \in Reqs, HandlerMove(r)
    PROVE  \A s \in Reqs : pc[s] # "new" => kind'[s] = kind[s]
<1>1. CASE \E k \in Kinds : Arrive(r, k)
  BY <1>1 DEF Arrive, TypeOK
<1>2. CASE ~(\E k \in Kinds : Arrive(r, k))
  BY <1>2 DEF HandlerMove, RateLimited, NotAllowed, BadRequest, ValidateFail,
              ValidateOK, NoRoles, IssueCall, TalosMint, IssueOK, IssueFail,
              Respond
<1> QED
  BY <1>1, <1>2

Passed(r) == AddressAllowed(r) /\ kind[r].genuine

LEMMA PassedNext == EInv /\ [Next]_vars => PassedOK'
<1> SUFFICES ASSUME TypeOK, PassedOK, [Next]_vars
             PROVE  PassedOK'
  BY DEF EInv
<1>1. ASSUME NEW r \in Reqs, HandlerMove(r)
      PROVE  PassedOK'
  <2>1. ASSUME NEW s \in Reqs, pc[s] # "new"
        PROVE  /\ AddressAllowed(s)' <=> AddressAllowed(s)
               /\ kind'[s].genuine <=> kind[s].genuine
               /\ RolesOf(s)' = RolesOf(s)
    BY <1>1, <2>1, KindKept DEF AddressAllowed, RolesOf
  <2>2. ASSUME NEW s \in Reqs, s # r
        PROVE  pc'[s] = pc[s]
    BY <1>1, <2>2, MovePhase
  <2>3. pc \in [Reqs -> PCs]
    BY DEF TypeOK
  <2>4. pc'[r] \in {"authOK"} \cup Authenticated =>
          /\ pc[r] # "new"
          /\ pc[r] \in {"authOK"} \cup Authenticated \/ Passed(r)
    BY <1>1, <2>3
       DEF HandlerMove, Arrive, RateLimited, NotAllowed, BadRequest,
           ValidateFail, ValidateOK, NoRoles, IssueCall, TalosMint, IssueOK,
           IssueFail, Respond, Reply, Goto, Authenticated, Passed
  <2>5. pc'[r] \in {"issue", "respond", "issueFailed", "issued"} =>
          \/ pc[r] \in {"issue", "respond", "issueFailed", "issued"}
          \/ pc[r] = "roles" /\ RolesOf(r) # {}
    BY <1>1, <2>3
       DEF HandlerMove, Arrive, RateLimited, NotAllowed, BadRequest,
           ValidateFail, ValidateOK, NoRoles, IssueCall, TalosMint, IssueOK,
           IssueFail, Respond, Reply, Goto
  <2> SUFFICES ASSUME NEW s \in Reqs
               PROVE  /\ pc'[s] \in {"authOK"} \cup Authenticated =>
                           AddressAllowed(s)' /\ kind'[s].genuine
                      /\ pc'[s] \in {"issue", "respond", "issueFailed", "issued"} =>
                           RolesOf(s)' # {}
    BY DEF PassedOK
  <2>6. CASE s = r
    BY <2>1, <2>4, <2>5, <2>6 DEF PassedOK, Passed
  <2>7. CASE s # r
    BY <2>1, <2>2, <2>7 DEF PassedOK, Authenticated
  <2> QED
    BY <2>6, <2>7
<1>2. ASSUME NEW r \in Reqs, HandlerLog(r)
      PROVE  PassedOK'
  <2>1. /\ kind' = kind
        /\ \A s \in Reqs : s # r => pc'[s] = pc[s]
        /\ pc'[r] = "done" \/ (pc[r] = "authOK" /\ pc'[r] = "roles")
    BY <1>2, LogPhase
  <2> QED
    BY <2>1 DEF PassedOK, Authenticated, AddressAllowed, RolesOf
<1>3. CASE ExitStep
  <2>1. \A r \in Reqs : pc'[r] \in {"new"} \cup Ended
    BY <1>3, ExitFacts
  <2> QED
    BY <2>1 DEF PassedOK, Authenticated, Ended
<1>4. CASE OtherStep
  <2>1. kind' = kind /\ pc' = pc
    BY <1>4, OtherFacts DEF reqVars
  <2> QED
    BY <2>1 DEF PassedOK, AddressAllowed, RolesOf
<1> QED
  BY <1>1, <1>2, <1>3, <1>4, StepKinds

\* What one step does to a certificate: minted during the call, else kept.
LEMMA MintOrKeep ==
    ASSUME CertOK, NEW r \in Reqs, HandlerMove(r)
    PROVE  \/ cert' = cert
           \/ /\ TalosMint(r)
              /\ \A s \in Reqs : s # r => cert'[s] = cert[s]
              /\ cert'[r] = [roles |-> RolesOf(r), notAfter |-> now + TTL]
              /\ cert' = [s \in Reqs |-> cert'[s]]
<1>1. CASE TalosMint(r)
  <2>1. cert' = [cert EXCEPT ![r] = [roles |-> RolesOf(r),
                                     notAfter |-> now + TTL]]
    BY <1>1 DEF TalosMint
  <2> QED
    BY <1>1, <2>1 DEF CertOK
<1>2. CASE ~TalosMint(r)
  BY <1>2 DEF HandlerMove, Arrive, RateLimited, NotAllowed, BadRequest,
              ValidateFail, ValidateOK, NoRoles, IssueCall, IssueOK, IssueFail,
              Respond
<1> QED
  BY <1>1, <1>2

LEMMA CertNext == EInv /\ [Next]_vars => CertOK'
<1> SUFFICES ASSUME TypeOK, CertOK, [Next]_vars
             PROVE  CertOK'
  BY DEF EInv
<1>1. TTL \in Nat /\ now \in Nat /\ pc \in [Reqs -> PCs]
  BY ExchangeAssumption DEF TypeOK
<1>2. ASSUME NEW r \in Reqs, TalosMint(r)
      PROVE  CertOK'
  <2>1. /\ \A s \in Reqs : s # r => cert'[s] = cert[s]
        /\ cert'[r] = [roles |-> RolesOf(r), notAfter |-> now + TTL]
        /\ cert' = [s \in Reqs |-> cert'[s]]
    BY <1>2 DEF CertOK, TalosMint
  <2>2. UNCHANGED <<now, pc, expiry>> /\ pc[r] = "issue"
    BY <1>2 DEF TalosMint
  <2>3. cert'[r].notAfter = now + TTL
    BY <2>1
  <2> QED
    BY <1>1, <2>1, <2>2, <2>3 DEF CertOK, Unauthenticated
<1>3. ASSUME NEW r \in Reqs, Respond(r)
      PROVE  CertOK'
  <2>1. /\ UNCHANGED <<now, cert>>
        /\ pc[r] = "respond"
        /\ expiry' = [expiry EXCEPT ![r] = now + TTL]
        /\ pc' = [pc EXCEPT ![r] = "issued"]
    BY <1>3 DEF Respond, Goto
  <2>2. /\ expiry'[r] = now + TTL /\ pc'[r] = "issued"
        /\ \A s \in Reqs : s # r => expiry'[s] = expiry[s] /\ pc'[s] = pc[s]
    BY <1>1, <2>1 DEF TypeOK
  <2> QED
    BY <1>1, <2>1, <2>2 DEF CertOK, Unauthenticated
<1>4. ASSUME NEW r \in Reqs, HandlerMove(r), ~TalosMint(r), ~Respond(r)
      PROVE  CertOK'
  <2>1. /\ UNCHANGED <<now, cert, expiry>>
        /\ \A s \in Reqs : s # r => pc'[s] = pc[s]
    BY <1>4, MovePhase
       DEF HandlerMove, Arrive, RateLimited, NotAllowed, BadRequest,
           ValidateFail, ValidateOK, NoRoles, IssueCall, IssueOK, IssueFail
  <2>2. /\ pc'[r] \in Unauthenticated \cup {"roles"} => pc[r] \in Unauthenticated
        /\ pc'[r] = "respond" => cert[r] # NoCert
        /\ pc'[r] # "issued"
    BY <1>1, <1>4
       DEF HandlerMove, Arrive, RateLimited, NotAllowed, BadRequest,
           ValidateFail, ValidateOK, NoRoles, IssueCall, IssueOK, IssueFail,
           Reply, Goto, Unauthenticated
  <2> QED
    BY <2>1, <2>2 DEF CertOK
<1>5. ASSUME NEW r \in Reqs, HandlerLog(r)
      PROVE  CertOK'
  <2>1. /\ UNCHANGED <<now, cert, expiry>>
        /\ \A s \in Reqs : s # r => pc'[s] = pc[s]
        /\ pc'[r] = "done" \/ (pc[r] = "authOK" /\ pc'[r] = "roles")
    BY <1>5, LogPhase
  <2> QED
    BY <2>1 DEF CertOK, Unauthenticated
<1>6. CASE ExitStep
  <2>1. /\ UNCHANGED <<now, cert, expiry>>
        /\ \A r \in Reqs : pc'[r] \in {"new"} \cup Ended
        /\ \A r \in Reqs : pc'[r] = "new" => pc[r] = "new"
    BY <1>6, ExitFacts
  <2> QED
    BY <2>1 DEF CertOK, Unauthenticated, Ended
<1>7. CASE OtherStep
  <2>1. UNCHANGED <<pc, cert, expiry>> /\ (now' = now \/ now' = now + 1)
    BY <1>7, OtherFacts DEF reqVars
  <2> QED
    BY <1>1, <2>1 DEF CertOK, TypeOK
<1> QED
  BY <1>2, <1>3, <1>4, <1>5, <1>6, <1>7, StepKinds

LEMMA MintedNext == EInv /\ [Next]_vars => MintedOnlyForAuthorized'
<1> SUFFICES ASSUME EInv, [Next]_vars
             PROVE  MintedOnlyForAuthorized'
  OBVIOUS
<1>1. /\ TypeOK /\ HeardOK /\ PassedOK /\ CertOK /\ MintedOnlyForAuthorized
      /\ HeardOK'
  BY HeardNext DEF EInv
<1>2. ASSUME NEW r \in Reqs, HandlerMove(r)
      PROVE  MintedOnlyForAuthorized'
  <2>1. heard' = heard
    BY <1>2, MoveKeepsLogs DEF logVars
  <2>2. ASSUME NEW s \in Reqs, pc[s] # "new"
        PROVE  /\ AddressAllowed(s)' <=> AddressAllowed(s)
               /\ kind'[s].genuine <=> kind[s].genuine
               /\ RolesOf(s)' = RolesOf(s)
    BY <1>1, <1>2, <2>2, KindKept DEF AddressAllowed, RolesOf
  <2>3. ASSUME NEW s \in Reqs, pc[s] \in Ended
        PROVE  pc'[s] = pc[s]
    BY <1>1, <1>2, <2>3, MovePhase DEF Ended, Unauthenticated, Authenticated
  <2>4. CASE cert' = cert
    <3> SUFFICES ASSUME NEW s \in Reqs, cert[s] # NoCert
                 PROVE  /\ AddressAllowed(s)'
                        /\ kind'[s].genuine
                        /\ cert[s].roles = RolesOf(s)' /\ cert[s].roles # {}
                        /\ Heard("auth_success", s)' \/ pc'[s] \in Ended
      BY <2>4 DEF MintedOnlyForAuthorized, Ended
    <3>1. pc[s] # "new"
      BY <1>1 DEF CertOK, Unauthenticated
    <3> QED
      BY <1>1, <2>1, <2>2, <2>3, <3>1 DEF MintedOnlyForAuthorized, Heard, Ended
  <2>5. CASE /\ TalosMint(r)
             /\ \A s \in Reqs : s # r => cert'[s] = cert[s]
             /\ cert'[r] = [roles |-> RolesOf(r), notAfter |-> now + TTL]
    <3>1. UNCHANGED <<kind, pc, heard>> /\ pc[r] = "issue"
      BY <2>5 DEF TalosMint, logVars
    <3>2. /\ AddressAllowed(r) /\ kind[r].genuine /\ RolesOf(r) # {}
          /\ Heard("auth_success", r)
      BY <1>1, <3>1 DEF PassedOK, HeardOK, Authenticated
    <3>3. cert'[r].roles = RolesOf(r)
      BY <2>5
    <3> QED
      BY <1>1, <2>5, <3>1, <3>2, <3>3
         DEF MintedOnlyForAuthorized, AddressAllowed, RolesOf, Heard
  <2> QED
    BY <1>1, <1>2, <2>4, <2>5, MintOrKeep
<1>3. ASSUME NEW r \in Reqs, HandlerLog(r)
      PROVE  MintedOnlyForAuthorized'
  <2>1. /\ UNCHANGED <<kind, cert>>
        /\ \A s \in Reqs : s # r => pc'[s] = pc[s]
        /\ pc[r] \notin Ended
    BY <1>1, <1>3, LogPhase DEF Ended
  <2>2. \A s \in Reqs : Heard("auth_success", s) => Heard("auth_success", s)'
    <3>1. PICK type \in EventTypes : Log(type, r)
      BY <1>3, LogsOne
    <3> QED
      BY <3>1 DEF Log, Heard
  <2> QED
    BY <1>1, <2>1, <2>2 DEF MintedOnlyForAuthorized, AddressAllowed, RolesOf,
                            Ended
<1>4. CASE ExitStep
  <2>1. UNCHANGED <<kind, cert>>
    BY <1>1, <1>4, ExitFacts
  <2>2. \A r \in Reqs : pc'[r] \in Ended \/ pc[r] = "new"
    BY <1>1, <1>4, ExitFacts
  <2>3. \A r \in Reqs : cert[r] # NoCert => pc[r] # "new"
    BY <1>1 DEF CertOK, Unauthenticated
  <2> QED
    BY <1>1, <2>1, <2>2, <2>3
       DEF MintedOnlyForAuthorized, AddressAllowed, RolesOf, Ended
<1>5. CASE OtherStep
  <2>1. UNCHANGED <<kind, cert, pc, heard>>
    BY <1>5, OtherFacts DEF reqVars
  <2> QED
    BY <1>1, <2>1 DEF MintedOnlyForAuthorized, AddressAllowed, RolesOf, Heard
<1> QED
  BY <1>2, <1>3, <1>4, <1>5, StepKinds

LEMMA ListedNext == EInv /\ [Next]_vars => ListedOK'
<1> SUFFICES ASSUME EInv, [Next]_vars
             PROVE  ListedOK'
  OBVIOUS
<1>1. TypeOK /\ HeardOK /\ CertOK /\ ListedOK /\ TypeOK'
  BY TypeNext DEF EInv
<1>2. ASSUME NEW r \in Reqs, HandlerMove(r)
      PROVE  ListedOK'
  <2>1. UNCHANGED <<now, heard, tracker>>
    BY <1>2, MoveKeepsLogs DEF logVars
  <2>2. \A s \in Reqs : Heard("cert_issued", s) => cert'[s] = cert[s]
    <3>1. \A s \in Reqs : Heard("cert_issued", s) => pc[s] = "done"
      BY <1>1 DEF HeardOK
    <3>2. CASE TalosMint(r)
      <4>1. pc[r] # "done" /\ \A s \in Reqs : s # r => cert'[s] = cert[s]
        BY <1>1, <3>2 DEF TalosMint, CertOK
      <4> QED
        BY <3>1, <4>1
    <3>3. CASE ~TalosMint(r)
      BY <1>1, <1>2, <3>3, MintOrKeep
    <3> QED
      BY <3>2, <3>3
  <2> QED
    BY <1>1, <2>1, <2>2 DEF ListedOK, Heard
<1>3. ASSUME NEW r \in Reqs, HandlerLog(r)
      PROVE  ListedOK'
  <2>1. UNCHANGED <<now, cert>>
    BY <1>1, <1>3, LogPhase
  <2>2. PICK type \in EventTypes :
          Log(type, r) /\ (type = "cert_issued" => pc[r] = "issued")
    BY <1>1, <1>3, LogPhase DEF EventTypes
  <2>3. /\ tracker.certs \subseteq tracker'.certs
        /\ type = "cert_issued" =>
             [req |-> r, expiresAt |-> expiry[r]] \in tracker'.certs
    <3>1. tracker' = handleEvent(type, r)
      BY <2>2 DEF Log
    <3>2. tracker \in [certs : SUBSET [req : Reqs, expiresAt : Nat], issued : Nat,
                       authOK : Nat, authFailed : Nat, errors : Nat]
      BY <1>1 DEF TypeOK
    <3>3. CASE type = "cert_issued"
      BY <3>1, <3>2, <3>3 DEF handleEvent
    <3>4. CASE type \in {"auth_success", "auth_failure", "cert_error"}
      <4>1. tracker'.certs = tracker.certs
        BY <3>1, <3>2, <3>4 DEF handleEvent
      <4> QED
        BY <3>4, <4>1
    <3> QED
      BY <3>3, <3>4 DEF EventTypes
  <2>4. "cert_issued" \in EventTypes
    BY DEF EventTypes
  <2> SUFFICES ASSUME NEW s \in Reqs, Heard("cert_issued", s)'
               PROVE  /\ cert[s] # NoCert
                      /\ cert[s].notAfter > now =>
                           \E c \in tracker'.certs :
                              c.req = s /\ cert[s].notAfter <= c.expiresAt
    BY <2>1 DEF ListedOK
  <2>5. CASE Heard("cert_issued", s)
    BY <1>1, <2>3, <2>5 DEF ListedOK
  <2>6. CASE ~Heard("cert_issued", s)
    <3>1. type = "cert_issued" /\ s = r
      BY <2>2, <2>4, <2>6, LogHeard
    <3>2. cert[r] # NoCert /\ cert[r].notAfter <= expiry[r]
      BY <1>1, <2>2, <3>1 DEF CertOK
    <3>3. [req |-> r, expiresAt |-> expiry[r]] \in tracker'.certs
      BY <2>3, <3>1
    <3> QED
      BY <3>1, <3>2, <3>3
  <2> QED
    BY <2>5, <2>6
<1>4. CASE ExitStep
  <2>1. heard' = {}
    BY <1>1, <1>4, ExitFacts
  <2> QED
    BY <2>1 DEF ListedOK, Heard
<1>5. CASE pruneExpired
  <2>1. /\ UNCHANGED <<now, heard, cert>>
        /\ tracker'.certs = {c \in tracker.certs : c.expiresAt > now}
    BY <1>1, <1>5 DEF pruneExpired, reqVars, TypeOK
  <2>5. ASSUME NEW s \in Reqs, Heard("cert_issued", s)
        PROVE  cert[s] # NoCert
    BY <1>1, <2>5 DEF ListedOK
  <2> SUFFICES ASSUME NEW s \in Reqs, Heard("cert_issued", s),
                      cert[s].notAfter > now
               PROVE  \E c \in tracker'.certs :
                         c.req = s /\ cert[s].notAfter <= c.expiresAt
    BY <2>1, <2>5 DEF ListedOK, Heard
  <2>2. PICK c \in tracker.certs : c.req = s /\ cert[s].notAfter <= c.expiresAt
    BY <1>1 DEF ListedOK
  <2>3. /\ now \in Nat /\ c.expiresAt \in Nat /\ cert[s].notAfter \in Nat
    BY <1>1, <2>5 DEF TypeOK
  <2> QED
    BY <2>1, <2>2, <2>3
<1>6. CASE OtherStep /\ ~pruneExpired
  <2>1. UNCHANGED <<heard, tracker, cert>> /\ (now' = now \/ now' = now + 1)
    BY <1>6 DEF OtherStep, SigTerm, Restart, Tick, vars, reqVars, logVars
  <2> QED
    BY <1>1, <2>1 DEF ListedOK, Heard, TypeOK
<1> QED
  BY <1>2, <1>3, <1>4, <1>5, <1>6, StepKinds

\* The file only grows, and only by the event of the handler's own request.
LEMMA AuditGrows ==
    ASSUME TypeOK, NEW r \in Reqs, NEW type \in EventTypes, Log(type, r),
           NEW i \in DOMAIN auditFile'
    PROVE  \/ i \in DOMAIN auditFile /\ auditFile'[i] = auditFile[i]
           \/ /\ i = Len(auditFile) + 1
              /\ auditFile'[i] = [type |-> type, req |-> r]
<1> DEFINE event == [type |-> type, req |-> r]
<1>1. auditFile \in Seq(Event) /\ event \in Event
  BY DEF TypeOK, Event
<1>2. auditFile' = auditFile \/ auditFile' = Append(auditFile, event)
  BY DEF Log
<1>3. CASE auditFile' = auditFile
  BY <1>3
<1>4. CASE auditFile' = Append(auditFile, event)
  <2>1. /\ DOMAIN auditFile = 1 .. Len(auditFile)
        /\ DOMAIN auditFile' = 1 .. Len(auditFile) + 1
        /\ Len(auditFile) \in Nat
    BY <1>1, <1>4
  <2>2. CASE i = Len(auditFile) + 1
    BY <1>1, <1>4, <2>2
  <2>3. CASE i # Len(auditFile) + 1
    <3>1. i \in 1 .. Len(auditFile)
      BY <2>1, <2>3
    <3> QED
      BY <1>1, <1>4, <2>1, <3>1
  <2> QED
    BY <2>2, <2>3
<1> QED
  BY <1>2, <1>3, <1>4

LEMMA AuditNext == EInv /\ [Next]_vars => AuditOK' /\ AuditTrailOrdered'
<1> SUFFICES ASSUME TypeOK, AuditOK, AuditTrailOrdered, [Next]_vars
             PROVE  AuditOK' /\ AuditTrailOrdered'
  BY DEF EInv
<1>1. \A i \in DOMAIN auditFile : auditFile[i] \in Event /\ i \in 1 .. Len(auditFile)
  BY DEF TypeOK
<1>2. Len(auditFile) \in Nat
  BY DEF TypeOK
<1>3. ASSUME NEW r \in Reqs, HandlerMove(r)
      PROVE  AuditOK' /\ AuditTrailOrdered'
  <2>1. auditFile' = auditFile
    BY <1>3, MoveKeepsLogs DEF logVars
  <2>2. /\ \A s \in Reqs : s # r => pc'[s] = pc[s]
        /\ pc[r] \in Unauthenticated \cup Authenticated
        /\ pc[r] \in Authenticated => pc'[r] \in Authenticated \cup {"done"}
    <3>1. pc'[r] \in PCs
      BY <1>3, EffectTypes
    <3> QED
      BY <1>3, <3>1, MovePhase
         DEF PCs, Unauthenticated, Authenticated, Ended
  <2>3. AuditOK'
    <3> SUFFICES ASSUME NEW i \in DOMAIN auditFile
                 PROVE  LET s == auditFile[i].req
                        IN  IF auditFile[i].type = "auth_success"
                              THEN pc'[s] \in Authenticated \cup {"done"} \cup Ended
                              ELSE pc'[s] \in {"done"} \cup Ended
      BY <2>1 DEF AuditOK
    <3>1. auditFile[i].req \in Reqs
      BY <1>1 DEF Event
    <3> QED
      BY <2>2, <3>1 DEF AuditOK, Unauthenticated, Authenticated, Ended
  <2> QED
    BY <2>1, <2>3 DEF AuditTrailOrdered
<1>4. ASSUME NEW r \in Reqs, HandlerLog(r)
      PROVE  AuditOK' /\ AuditTrailOrdered'
  <2>1. PICK type \in EventTypes :
          /\ Log(type, r)
          /\ \/ type = "auth_failure" /\ pc[r] = "authFailed" /\ pc'[r] = "done"
             \/ type = "auth_success" /\ pc[r] = "authOK" /\ pc'[r] = "roles"
             \/ type = "cert_error" /\ pc[r] = "issueFailed" /\ pc'[r] = "done"
             \/ type = "cert_issued" /\ pc[r] = "issued" /\ pc'[r] = "done"
    BY <1>4, LogPhase DEF EventTypes
  <2>2. \A s \in Reqs : s # r => pc'[s] = pc[s]
    BY <1>4, LogPhase
  <2>3. ASSUME NEW i \in DOMAIN auditFile
        PROVE  /\ auditFile[i].req \in Reqs
               /\ auditFile[i].req = r =>
                    /\ auditFile[i].type = "auth_success"
                    /\ type \in {"cert_issued", "cert_error"}
    <3>1. auditFile[i].req \in Reqs
      BY <1>1 DEF Event
    <3> QED
      BY <2>1, <3>1 DEF AuditOK, Authenticated, Ended
  <2>4. AuditOK'
    <3> SUFFICES ASSUME NEW i \in DOMAIN auditFile'
                 PROVE  LET s == auditFile'[i].req
                        IN  IF auditFile'[i].type = "auth_success"
                              THEN pc'[s] \in Authenticated \cup {"done"} \cup Ended
                              ELSE pc'[s] \in {"done"} \cup Ended
      BY DEF AuditOK
    <3>1. CASE i \in DOMAIN auditFile /\ auditFile'[i] = auditFile[i]
      BY <2>1, <2>2, <2>3, <3>1 DEF AuditOK, Authenticated, Ended
    <3>2. CASE auditFile'[i] = [type |-> type, req |-> r]
      BY <2>1, <3>2 DEF Authenticated, Ended
    <3> QED
      BY <2>1, <3>1, <3>2, AuditGrows
  <2>5. AuditTrailOrdered'
    <3> SUFFICES ASSUME NEW i \in DOMAIN auditFile', NEW j \in DOMAIN auditFile',
                        i < j, auditFile'[i].req = auditFile'[j].req
                 PROVE  /\ auditFile'[i].type = "auth_success"
                        /\ auditFile'[j].type \in {"cert_issued", "cert_error"}
      BY DEF AuditTrailOrdered
    <3>1. CASE /\ i \in DOMAIN auditFile /\ auditFile'[i] = auditFile[i]
               /\ j \in DOMAIN auditFile /\ auditFile'[j] = auditFile[j]
      BY <3>1 DEF AuditTrailOrdered
    <3>2. CASE /\ i \in DOMAIN auditFile /\ auditFile'[i] = auditFile[i]
               /\ j = Len(auditFile) + 1
               /\ auditFile'[j] = [type |-> type, req |-> r]
      BY <2>3, <3>2
    <3>3. CASE i = Len(auditFile) + 1
      <4>1. j <= Len(auditFile) + 1 /\ j \in Nat
        <5>1. j \in 1 .. Len(auditFile) \/ j = Len(auditFile) + 1
          BY <1>1, <2>1, AuditGrows
        <5> QED
          BY <1>2, <5>1
      <4> QED
        BY <1>2, <3>3, <4>1
    <3> QED
      BY <2>1, <3>1, <3>2, <3>3, AuditGrows
  <2> QED
    BY <2>4, <2>5
<1>5. CASE ExitStep
  <2>1. /\ auditFile' = auditFile
        /\ \A r \in Reqs : pc'[r] = IF Active(r) THEN "killed"
                                    ELSE IF pc[r] = "done" THEN "gone" ELSE pc[r]
    BY <1>5, ExitFacts
  <2>2. \A i \in DOMAIN auditFile : auditFile[i].req \in Reqs
    BY <1>1 DEF Event
  <2> QED
    BY <2>1, <2>2 DEF AuditOK, AuditTrailOrdered, Active, Authenticated, Ended
<1>6. CASE OtherStep
  <2>1. auditFile' = auditFile /\ pc' = pc
    BY <1>6, OtherFacts DEF reqVars
  <2> QED
    BY <2>1 DEF AuditOK, AuditTrailOrdered
<1> QED
  BY <1>3, <1>4, <1>5, <1>6, StepKinds

LEMMA StatusNext == EInv /\ [Next]_vars => StatusOK'
<1> SUFFICES ASSUME TypeOK, HeardOK, StatusOK, [Next]_vars
             PROVE  StatusOK'
  BY DEF EInv
<1>1. pc \in [Reqs -> PCs]
      /\ status \in [Reqs -> {0, 200, 400, 401, 403, 429, 500}]
  BY DEF TypeOK
<1>2. ASSUME NEW r \in Reqs, HandlerMove(r)
      PROVE  StatusOK'
  <2>1. heard' = heard
    BY <1>2, MoveKeepsLogs DEF logVars
  <2>2. \A s \in Reqs : s # r => pc'[s] = pc[s]
    BY <1>2, MovePhase
  <2>3. /\ \A s \in Reqs : s # r => status'[s] = status[s]
        /\ status[r] = 0
        /\ \/ status'[r] = 0 /\ pc'[r] # "done"
           \/ status'[r] \in {400, 403, 429} /\ pc'[r] = "done"
           \/ status'[r] = 200 /\ pc'[r] = "issued"
    <3>1. CASE RateLimited(r) \/ NotAllowed(r) \/ BadRequest(r) \/ NoRoles(r)
      BY <1>1, <3>1
         DEF RateLimited, NotAllowed, BadRequest, NoRoles, Reply, Goto,
             StatusOK, Unauthenticated, Authenticated
    <3>2. CASE Respond(r)
      BY <1>1, <3>2 DEF Respond, Goto, StatusOK, Authenticated
    <3>3. CASE \/ \E k \in Kinds : Arrive(r, k)
               \/ ValidateFail(r) \/ ValidateOK(r) \/ IssueCall(r)
               \/ TalosMint(r) \/ IssueOK(r) \/ IssueFail(r)
      BY <1>1, <3>3
         DEF Arrive, ValidateFail, ValidateOK, IssueCall, TalosMint, IssueOK,
             IssueFail, Goto, StatusOK, Unauthenticated, Authenticated
    <3> QED
      BY <1>2, <3>1, <3>2, <3>3 DEF HandlerMove
  <2>4. /\ pc'[r] \in Unauthenticated \cup (Authenticated \ {"issued"}) =>
             status'[r] = 0
        /\ ~(pc'[r] = "done" /\ status'[r] = 200)
    BY <2>3 DEF Unauthenticated, Authenticated
  <2>5. ASSUME NEW s \in Reqs, s # r
        PROVE  /\ pc'[s] \in Unauthenticated \cup (Authenticated \ {"issued"}) =>
                    status'[s] = 0
               /\ pc'[s] = "done" /\ status'[s] = 200 => Heard("cert_issued", s)
    <3>1. pc'[s] = pc[s] /\ status'[s] = status[s]
      BY <2>2, <2>3, <2>5
    <3> QED
      BY <3>1 DEF StatusOK
  <2>6. \A s \in Reqs : Heard("cert_issued", s)' <=> Heard("cert_issued", s)
    BY <2>1 DEF Heard
  <2>7. ASSUME NEW s \in Reqs
        PROVE  /\ pc'[s] \in Unauthenticated \cup (Authenticated \ {"issued"}) =>
                    status'[s] = 0
               /\ pc'[s] = "done" /\ status'[s] = 200 => Heard("cert_issued", s)'
    BY <2>4, <2>5, <2>6
  <2> QED
    BY <2>7 DEF StatusOK
<1>3. ASSUME NEW r \in Reqs, HandlerLog(r)
      PROVE  StatusOK'
  <2>1. \A s \in Reqs : s # r => pc'[s] = pc[s]
    BY <1>3, LogPhase
  <2>2. /\ \A s \in Reqs : s # r => status'[s] = status[s]
        /\ \/ pc'[r] = "done" /\ status'[r] # 200
           \/ pc'[r] = "done" /\ Heard("cert_issued", r)'
           \/ pc'[r] = "roles" /\ status'[r] = 0
    <3>1. pc[r] = "authOK" => status[r] = 0
      BY DEF StatusOK, Unauthenticated
    <3>2. Log("cert_issued", r) => Heard("cert_issued", r)'
      BY LogHeard DEF EventTypes
    <3> QED
      BY <1>1, <1>3, <3>1, <3>2, LogPhase
  <2>3. \A s \in Reqs : Heard("cert_issued", s) => Heard("cert_issued", s)'
    <3>1. PICK type \in EventTypes : Log(type, r)
      BY <1>3, LogsOne
    <3> QED
      BY <3>1 DEF Log, Heard
  <2> QED
    BY <2>1, <2>2, <2>3 DEF StatusOK, Unauthenticated, Authenticated
<1>4. CASE ExitStep
  <2>1. /\ status' = status
        /\ \A r \in Reqs : pc'[r] \in {"new"} \cup Ended
        /\ \A r \in Reqs : pc'[r] = "new" => pc[r] = "new"
    BY <1>4, ExitFacts
  <2> QED
    BY <2>1 DEF StatusOK, Unauthenticated, Authenticated, Ended
<1>5. CASE OtherStep
  <2>1. UNCHANGED <<pc, status, heard>>
    BY <1>5, OtherFacts DEF reqVars
  <2> QED
    BY <2>1 DEF StatusOK, Heard
<1> QED
  BY <1>2, <1>3, <1>4, <1>5, StepKinds

-----------------------------------------------------------------------------
(* The theorems *)

THEOREM ExchangeInductive == Spec => []EInv
<1>1. Init => EInv
  BY EInvInit
<1>2. EInv /\ [Next]_vars => EInv'
  BY TypeNext, HeardNext, CountNext, PassedNext, CertNext, MintedNext,
     ListedNext, AuditNext, StatusNext
     DEF EInv
<1> QED
  BY <1>1, <1>2, PTL DEF Spec

\* The endpoint, its logs and the tracker keep their data well formed.
THEOREM ExchangeTypeCorrect == Spec => []TypeOK
<1>1. EInv => TypeOK
  BY DEF EInv
<1> QED
  BY <1>1, ExchangeInductive, PTL

\* The admin statistics never show more outcomes than authentications.
THEOREM StatsAreConsistent == Spec => []StatsConsistent
<1>1. EInv => StatsConsistent
  <2> SUFFICES ASSUME TypeOK, HeardOK, CountOK
               PROVE  StatsConsistent
    BY DEF EInv
  <2> DEFINE I == HeardOf("cert_issued")
             E == HeardOf("cert_error")
             A == HeardOf("auth_success")
  <2>1. I \cap E = {} /\ I \cup E \subseteq A
    BY DEF HeardOK, HeardOf
  <2>2. IsFiniteSet(A) /\ IsFiniteSet(I) /\ IsFiniteSet(E)
    BY ExchangeAssumption, FS_Subset DEF HeardOf
  <2>3. Cardinality(I \cup E) = Cardinality(I) + Cardinality(E)
    <3>1. Cardinality(I \cup E)
            = Cardinality(I) + Cardinality(E) - Cardinality(I \cap E)
      BY <2>2, FS_Union
    <3>2. Cardinality(I) \in Nat /\ Cardinality(E) \in Nat
      BY <2>2, FS_CardinalityType
    <3>3. Cardinality(I \cap E) = 0
      BY <2>1, FS_EmptySet
    <3> QED
      BY <3>1, <3>2, <3>3
  <2>4. Cardinality(I \cup E) <= Cardinality(A)
    BY <2>1, <2>2, FS_Subset
  <2> QED
    BY <2>3, <2>4 DEF CountOK, StatsConsistent
<1> QED
  BY <1>1, ExchangeInductive, PTL

\* No certificate without an allowed address, a genuine token and a role.
THEOREM MintsOnlyForAuthorized == Spec => []MintedOnlyForAuthorized
<1>1. EInv => MintedOnlyForAuthorized
  BY DEF EInv
<1> QED
  BY <1>1, ExchangeInductive, PTL

\* A live certificate the tracker heard of is in its list.
THEOREM LiveCertsListed == Spec => []LiveCertListed
<1>1. EInv => LiveCertListed
  BY DEF EInv, ListedOK, LiveCertListed
<1> QED
  BY <1>1, ExchangeInductive, PTL

\* The audit file tells one consistent story per request.
THEOREM AuditTrailIsOrdered == Spec => []AuditTrailOrdered
<1>1. EInv => AuditTrailOrdered
  BY DEF EInv
<1> QED
  BY <1>1, ExchangeInductive, PTL

\* A shutdown that waits for its handlers loses no event of a certificate.
THEOREM CleanShutdownIsComplete == Spec => CleanShutdownComplete
<1> DEFINE Complete ==
      ShutdownDone =>
         \A r \in Reqs : /\ pc'[r] # pc[r] => pc'[r] = "gone"
                         /\ (pc[r] = "done" /\ status[r] = 200)
                              => Heard("cert_issued", r)
<1>1. EInv => [Complete]_vars
  <2> SUFFICES ASSUME EInv, ShutdownDone, NEW r \in Reqs
               PROVE  /\ pc'[r] # pc[r] => pc'[r] = "gone"
                      /\ (pc[r] = "done" /\ status[r] = 200)
                           => Heard("cert_issued", r)
    OBVIOUS
  <2>1. pc'[r] # pc[r] => pc'[r] = "gone"
    BY DEF ShutdownDone, Exit
  <2>2. (pc[r] = "done" /\ status[r] = 200) => Heard("cert_issued", r)
    BY DEF EInv, StatusOK
  <2> QED
    BY <2>1, <2>2
<1> QED
  BY <1>1, ExchangeInductive, PTL DEF CleanShutdownComplete

-----------------------------------------------------------------------------
(* The refinement of CertService                                           *)

\* What the abstract request needs beside EInv: it is sent when its handler
\* starts, was well formed if its token was accepted, and is answered when
\* its certificate is about to be announced.
SentOK ==
    \A r \in Reqs :
        /\ pc[r] = "new" <=> kind[r] = NoKind
        /\ pc[r] \in {"authOK"} \cup Authenticated => kind[r].wellFormed
        /\ pc[r] = "issued" => status[r] = 200

LEMMA SentNext == EInv /\ SentOK /\ [Next]_vars => SentOK'
<1> SUFFICES ASSUME TypeOK, SentOK, [Next]_vars
             PROVE  SentOK'
  BY DEF EInv
<1>1. /\ pc \in [Reqs -> PCs] /\ kind \in [Reqs -> Kinds \cup {NoKind}]
      /\ status \in [Reqs -> {0, 200, 400, 401, 403, 429, 500}]
      /\ NoKind \notin Kinds
  BY ExchangeAssumption DEF TypeOK
<1>2. ASSUME NEW r \in Reqs, HandlerMove(r)
      PROVE  SentOK'
  <2>1. \A s \in Reqs : s # r => pc'[s] = pc[s] /\ kind'[s] = kind[s] /\ status'[s] = status[s]
    <3>1. CASE TalosMint(r)
      BY <3>1 DEF TalosMint
    <3>2. CASE \E k \in Kinds : Arrive(r, k)
      BY <1>1, <3>2 DEF Arrive, Goto
    <3>3. CASE RateLimited(r) \/ NotAllowed(r) \/ BadRequest(r) \/ NoRoles(r)
      BY <1>1, <3>3 DEF RateLimited, NotAllowed, BadRequest, NoRoles, Reply, Goto
    <3>4. CASE \/ ValidateFail(r) \/ ValidateOK(r) \/ IssueCall(r)
               \/ IssueOK(r) \/ IssueFail(r) \/ Respond(r)
      BY <1>1, <3>4 DEF ValidateFail, ValidateOK, IssueCall, IssueOK, IssueFail,
                        Respond, Goto
    <3> QED
      BY <1>2, <3>1, <3>2, <3>3, <3>4 DEF HandlerMove
  <2>2. /\ pc'[r] = "new" <=> kind'[r] = NoKind
        /\ pc'[r] \in {"authOK"} \cup Authenticated => kind'[r].wellFormed
        /\ pc'[r] = "issued" => status'[r] = 200
    <3>1. CASE TalosMint(r)
      BY <3>1 DEF TalosMint, SentOK
    <3>2. CASE \E k \in Kinds : Arrive(r, k)
      BY <1>1, <3>2 DEF Arrive, Goto, Authenticated
    <3>3. CASE RateLimited(r) \/ NotAllowed(r) \/ BadRequest(r) \/ NoRoles(r)
      <4>1. pc[r] \in {"limit", "roles"} /\ pc'[r] = "done" /\ kind' = kind
        BY <1>1, <3>3 DEF RateLimited, NotAllowed, BadRequest, NoRoles, Reply, Goto
      <4> QED
        BY <4>1 DEF SentOK, Authenticated
    <3>4. CASE ValidateFail(r) \/ ValidateOK(r)
      <4>1. /\ pc[r] = "limit" /\ pc'[r] \in {"authFailed", "authOK"} /\ kind' = kind
            /\ kind[r].wellFormed
        BY <1>1, <3>4 DEF ValidateFail, ValidateOK, Goto
      <4> QED
        BY <4>1 DEF SentOK
    <3>5. CASE IssueCall(r) \/ IssueOK(r) \/ IssueFail(r)
      <4>1. /\ pc[r] \in {"roles", "issue"} /\ kind' = kind
            /\ pc'[r] \in {"issue", "respond", "issueFailed"}
        BY <1>1, <3>5 DEF IssueCall, IssueOK, IssueFail, Goto
      <4> QED
        BY <4>1 DEF SentOK, Authenticated
    <3>6. CASE Respond(r)
      <4>1. /\ pc[r] = "respond" /\ pc'[r] = "issued" /\ kind' = kind
            /\ status'[r] = 200
        BY <1>1, <3>6 DEF Respond, Goto
      <4> QED
        BY <4>1 DEF SentOK, Authenticated
    <3> QED
      BY <1>2, <3>1, <3>2, <3>3, <3>4, <3>5, <3>6 DEF HandlerMove
  <2> QED
    BY <2>1, <2>2 DEF SentOK
<1>3. ASSUME NEW r \in Reqs, HandlerLog(r)
      PROVE  SentOK'
  <2>1. /\ kind' = kind /\ \A s \in Reqs : s # r => pc'[s] = pc[s]
        /\ pc[r] \in {"authFailed", "authOK", "issueFailed", "issued"}
        /\ pc'[r] = "done" \/ (pc[r] = "authOK" /\ pc'[r] = "roles")
    BY <1>3, LogPhase
  <2>2. \A s \in Reqs : s # r => status'[s] = status[s]
    BY <1>1, <1>3, LogPhase
  <2> QED
    BY <2>1, <2>2 DEF SentOK, Authenticated
<1>4. CASE ExitStep
  <2>1. /\ UNCHANGED <<kind, status>>
        /\ \A r \in Reqs : pc'[r] \in {"new"} \cup Ended
        /\ \A r \in Reqs : pc'[r] = "new" <=> pc[r] = "new"
    <3>1. pc' = [r \in Reqs |-> IF Active(r) THEN "killed"
                                ELSE IF pc[r] = "done" THEN "gone" ELSE pc[r]]
      BY <1>4, ExitFacts
    <3>2. \A r \in Reqs : pc[r] = "new" => pc'[r] = "new"
      BY <3>1 DEF Active
    <3> QED
      BY <1>4, <3>2, ExitFacts
  <2> QED
    BY <2>1 DEF SentOK, Authenticated, Ended
<1>5. CASE OtherStep
  <2>1. UNCHANGED <<kind, pc, status>>
    BY <1>5, OtherFacts DEF reqVars
  <2> QED
    BY <2>1 DEF SentOK
<1> QED
  BY <1>2, <1>3, <1>4, <1>5, StepKinds

\* The invariant the refinement rests on.
LEMMA SentInductive == Spec => [](EInv /\ SentOK)
<1>1. Init => SentOK
  BY DEF Init, SentOK, Authenticated
<1>2. EInv /\ SentOK /\ [Next]_vars => SentOK'
  BY SentNext
<1> QED
  BY <1>1, <1>2, ExchangeInductive, PTL DEF Spec

\* The model's checks and roles are the abstract ones.
LEMMA AuthenticKinds ==
    ASSUME NEW r \in Reqs, kind[r] \in Kinds
    PROVE  /\ Service!Authorized =
                {k \in {q \in Kinds : PassesChecks(q)} :
                    RolesFor(Roles, Rules, k.claims) # {}}
           /\ PassesChecks(kind[r]) <=>
                AddressAllowed(r) /\ kind[r].wellFormed /\ kind[r].genuine
           /\ [k \in Kinds |-> RolesFor(Roles, Rules, k.claims)][kind[r]] = RolesOf(r)
           /\ kind[r] \in Service!Authorized <=>
                PassesChecks(kind[r]) /\ RolesOf(r) # {}
  BY DEF Service!Authorized, PassesChecks, AddressAllowed, RolesOf

\* A request whose handler is running is open in the abstract sense until it
\* has been answered.
LEMMA OpenRequest ==
    ASSUME EInv, SentOK, NEW r \in Reqs,
           pc[r] \in (Unauthenticated \ {"new"}) \cup (Authenticated \ {"issued"})
    PROVE  Service!Open(r) /\ kind[r] \in Kinds
<1>1. kind[r] \in Kinds
  BY DEF EInv, TypeOK, SentOK, Unauthenticated, Authenticated
<1>2. status[r] = 0
  BY DEF EInv, StatusOK
<1> QED
  BY <1>1, <1>2 DEF Service!Open

\* A step that writes an answer without an event.
LEMMA RefusalRefines ==
    ASSUME EInv, SentOK, NEW r \in Reqs,
           RateLimited(r) \/ NotAllowed(r) \/ BadRequest(r) \/ NoRoles(r)
    PROVE  Service!Refuse(r)
<1>1. /\ pc[r] \in {"limit", "roles"}
      /\ UNCHANGED <<kind, cert, auditFile, certLog, now>>
  BY DEF RateLimited, NotAllowed, BadRequest, NoRoles, logVars
<1>2. Service!Open(r) /\ kind[r] \in Kinds
  BY <1>1, OpenRequest DEF Unauthenticated, Authenticated
<1>3. cert[r] = NoCert
  BY <1>1 DEF EInv, CertOK, Unauthenticated
<1>4. \E code \in {400, 403, 429} :
         /\ code # 429 => kind[r] \notin Service!Authorized
         /\ status' = [status EXCEPT ![r] = code]
  <2>1. CASE RateLimited(r)
    BY <2>1 DEF RateLimited, Reply
  <2>2. CASE NotAllowed(r)
    <3>1. kind[r] \notin Service!Authorized
      BY <1>2, <2>2, AuthenticKinds DEF NotAllowed
    <3> QED
      BY <2>2, <3>1 DEF NotAllowed, Reply
  <2>3. CASE BadRequest(r)
    <3>1. kind[r] \notin Service!Authorized
      BY <1>2, <2>3, AuthenticKinds DEF BadRequest
    <3> QED
      BY <2>3, <3>1 DEF BadRequest, Reply
  <2>4. CASE NoRoles(r)
    <3>1. kind[r] \notin Service!Authorized
      BY <1>2, <2>4, AuthenticKinds DEF NoRoles
    <3> QED
      BY <2>4, <3>1 DEF NoRoles, Reply
  <2> QED
    BY <2>1, <2>2, <2>3, <2>4
<1> QED
  BY <1>1, <1>2, <1>3, <1>4 DEF Service!Refuse

LEMMA MoveRefines ==
    ASSUME EInv, SentOK, NEW r \in Reqs, HandlerMove(r)
    PROVE  Service!Next \/ UNCHANGED Service!vars
<1>1. UNCHANGED <<now, auditFile, certLog>>
  BY MoveKeepsLogs DEF logVars
<1>2. ASSUME NEW k \in Kinds, Arrive(r, k)
      PROVE  Service!Send(r)
  <2>1. kind[r] = NoKind
    BY <1>2 DEF Arrive, SentOK
  <2> QED
    BY <1>1, <1>2, <2>1 DEF Arrive, Service!Send
<1>3. CASE RateLimited(r) \/ NotAllowed(r) \/ BadRequest(r) \/ NoRoles(r)
  BY <1>3, RefusalRefines DEF Service!Next
<1>4. CASE \/ ValidateFail(r) \/ ValidateOK(r) \/ IssueCall(r)
           \/ IssueOK(r) \/ IssueFail(r)
  BY <1>1, <1>4 DEF ValidateFail, ValidateOK, IssueCall, IssueOK, IssueFail,
                    Service!vars
<1>5. CASE TalosMint(r)
  <2>1. pc[r] = "issue" /\ cert[r] = NoCert /\ UNCHANGED <<kind, status>>
        /\ cert' = [cert EXCEPT ![r] = [roles |-> RolesOf(r), notAfter |-> now + TTL]]
    BY <1>5 DEF TalosMint
  <2>2. Service!Open(r) /\ kind[r] \in Kinds
    BY <2>1, OpenRequest DEF Authenticated
  <2>3. kind[r] \in Service!Authorized
    <3>1. AddressAllowed(r) /\ kind[r].genuine /\ RolesOf(r) # {} /\ kind[r].wellFormed
      BY <2>1 DEF EInv, PassedOK, SentOK, Authenticated
    <3> QED
      BY <2>2, <3>1, AuthenticKinds
  <2>4. [k \in Kinds |-> RolesFor(Roles, Rules, k.claims)][kind[r]] = RolesOf(r)
    BY <2>2, AuthenticKinds
  <2>5. Service!Mint(r)
    BY <1>1, <2>1, <2>2, <2>3, <2>4 DEF Service!Mint
  <2> QED
    BY <2>5 DEF Service!Next
<1>6. CASE Respond(r)
  <2>1. /\ pc[r] = "respond" /\ UNCHANGED <<kind, cert>>
        /\ status' = [status EXCEPT ![r] = 200]
    BY <1>6 DEF Respond
  <2>2. Service!Open(r)
    BY <2>1, OpenRequest DEF Authenticated
  <2>3. cert[r] # NoCert
    BY <2>1 DEF EInv, CertOK
  <2>4. Service!Deliver(r)
    BY <1>1, <2>1, <2>2, <2>3 DEF Service!Deliver
  <2> QED
    BY <2>4 DEF Service!Next
<1> QED
  BY <1>2, <1>3, <1>4, <1>5, <1>6 DEF HandlerMove, Service!Next

\* What the file says of a request when its handler logs, from AuditOK.
LEMMA RecordRefines ==
    ASSUME EInv, NEW r \in Reqs, NEW type \in EventTypes, Log(type, r),
           \/ type \in {"auth_failure", "auth_success"} /\ pc[r] \in {"authFailed", "authOK"}
           \/ type \in {"cert_issued", "cert_error"} /\ pc[r] \in {"issueFailed", "issued"}
    PROVE  Service!Record(type, r)
<1>1. ASSUME NEW i \in DOMAIN auditFile, auditFile[i].req = r
      PROVE  auditFile[i].type \in Service!Before(type)
  <2>1. pc[r] \notin {"done"} \cup Ended
    BY DEF Ended
  <2>2. auditFile[i].type = "auth_success" /\ pc[r] \in Authenticated
    BY <1>1, <2>1 DEF EInv, AuditOK
  <2>3. type \in {"cert_issued", "cert_error"}
    BY <2>2 DEF Authenticated
  <2> QED
    BY <2>2, <2>3 DEF Service!Before
<1>2. auditFile' \in {auditFile, Append(auditFile, [type |-> type, req |-> r])}
  BY DEF Log
<1> QED
  BY <1>1, <1>2 DEF Service!Record

LEMMA LogRefines ==
    ASSUME EInv, SentOK, NEW r \in Reqs, HandlerLog(r)
    PROVE  Service!Next
<1>1. /\ TypeOK /\ UNCHANGED <<now, kind, cert>>
      /\ {"auth_success", "auth_failure", "cert_issued", "cert_error"} \subseteq EventTypes
  BY LogPhase DEF EInv, EventTypes
<1>2. CASE LogAuthFailure(r)
  <2>1. /\ pc[r] = "authFailed" /\ Log("auth_failure", r)
        /\ status' = [status EXCEPT ![r] = 401]
    BY <1>2 DEF LogAuthFailure, Reply
  <2>2. Service!Open(r) /\ cert[r] = NoCert /\ certLog' = certLog
    BY <2>1, OpenRequest DEF Unauthenticated, EInv, CertOK, Log, persist
  <2>3. Service!Record("auth_failure", r)
    BY <1>1, <2>1, RecordRefines
  <2>4. Service!Reject(r)
    BY <1>1, <2>1, <2>2, <2>3 DEF Service!Reject
  <2> QED
    BY <2>4 DEF Service!Next
<1>3. CASE LogAuthSuccess(r)
  <2>1. pc[r] = "authOK" /\ Log("auth_success", r) /\ status' = status
    BY <1>3 DEF LogAuthSuccess
  <2>2. /\ Service!Open(r) /\ kind[r] \in Kinds
        /\ cert[r] = NoCert /\ certLog' = certLog
    BY <2>1, OpenRequest DEF Unauthenticated, EInv, CertOK, Log, persist
  <2>3. Service!Record("auth_success", r)
    BY <1>1, <2>1, RecordRefines
  <2>4. PassesChecks(kind[r])
    BY <2>1, <2>2, AuthenticKinds DEF EInv, PassedOK, SentOK
  <2>5. Service!Authenticate(r)
    BY <1>1, <2>1, <2>2, <2>3, <2>4 DEF Service!Authenticate
  <2> QED
    BY <2>5 DEF Service!Next
<1>4. CASE LogCertError(r)
  <2>1. /\ pc[r] = "issueFailed" /\ Log("cert_error", r)
        /\ status' = [status EXCEPT ![r] = 500]
    BY <1>4 DEF LogCertError, Reply
  <2>2. Service!Open(r) /\ kind[r] \in Kinds /\ certLog' = certLog
    BY <2>1, OpenRequest DEF Authenticated, Log, persist
  <2>3. kind[r] \in Service!Authorized
    <3>1. AddressAllowed(r) /\ kind[r].genuine /\ RolesOf(r) # {} /\ kind[r].wellFormed
      BY <2>1 DEF EInv, PassedOK, SentOK, Authenticated
    <3> QED
      BY <2>2, <3>1, AuthenticKinds
  <2>4. Service!Record("cert_error", r)
    BY <1>1, <2>1, RecordRefines
  <2>5. Service!Fail(r)
    BY <1>1, <2>1, <2>2, <2>3, <2>4 DEF Service!Fail
  <2> QED
    BY <2>5 DEF Service!Next
<1>5. CASE LogCertIssued(r)
  <2>1. pc[r] = "issued" /\ Log("cert_issued", r) /\ status' = status
    BY <1>5 DEF LogCertIssued
  <2>2. status[r] = 200
    BY <2>1 DEF SentOK
  <2>3. Service!Record("cert_issued", r) /\ certLog' \in {certLog, certLog \cup {r}}
    BY <1>1, <2>1, RecordRefines DEF Log, persist
  <2>4. Service!Account(r)
    BY <1>1, <2>1, <2>2, <2>3 DEF Service!Account
  <2> QED
    BY <2>4 DEF Service!Next
<1> QED
  BY <1>2, <1>3, <1>4, <1>5 DEF HandlerLog

ServiceStep == Service!Next \/ UNCHANGED Service!vars

\* Each step of the endpoint is a step of the service or none.
LEMMA StepRefines ==
    ASSUME EInv, SentOK, [Next]_vars
    PROVE  ServiceStep
<1>1. CASE ExitStep
  BY <1>1, ExitFacts DEF EInv, ServiceStep, Service!vars
<1>2. CASE OtherStep
  <2>1. UNCHANGED <<kind, cert, status, auditFile, certLog>>
    BY <1>2, OtherFacts DEF reqVars
  <2>2. now' = now \/ now' = now + 1
    BY <1>2, OtherFacts
  <2> QED
    BY <2>1, <2>2 DEF ServiceStep, Service!vars, Service!Tick, Service!Next
<1> QED
  BY <1>1, <1>2, MoveRefines, LogRefines, StepKinds DEF ServiceStep

\* The endpoint implements the certificate service: one answer and at most
\* one certificate per request, and logs that only say what happened,
\* through lost answers, shutdowns, crashes and restarts.
THEOREM ExchangeImplementsCertService == Spec => ImplementsCertService
<1>1. Init => Service!Init
  BY DEF Init, Service!Init
<1>2. EInv /\ SentOK /\ [Next]_vars => [Service!Next]_(Service!vars)
  BY StepRefines DEF ServiceStep
<1> QED
  BY <1>1, <1>2, SentInductive, PTL DEF ImplementsCertService, Service!Spec, Spec

-----------------------------------------------------------------------------
(* What follows from the refinement                                        *)

\* The lines a step of the service leaves in the file: those that were there,
\* and perhaps one that is true of the state after the step.
LineTrue(e) ==
    CASE e.type = "auth_success" -> kind[e.req] \in {k \in Kinds : PassesChecks(k)}
      [] e.type = "auth_failure" -> status[e.req] = 401 /\ cert[e.req] = NoCert
      [] e.type = "cert_error" -> status[e.req] = 500 /\ kind[e.req] \in Service!Authorized
      [] e.type = "cert_issued" -> status[e.req] = 200

LEMMA TruthfulLines ==
    Service!Truthful <=>
      /\ \A i \in DOMAIN auditFile : LineTrue(auditFile[i])
      /\ \A r \in certLog : status[r] = 200
      /\ \A r \in Reqs : status[r] = 200 => cert[r] # NoCert
      /\ \A r \in Reqs : cert[r] # NoCert =>
           /\ kind[r] \in Service!Authorized
           /\ cert[r].roles = [k \in Kinds |-> RolesFor(Roles, Rules, k.claims)][kind[r]]
  BY Zenon DEF Service!Truthful, LineTrue

\* What one step may do to one request.
LEMMA ServiceKeeps ==
    ASSUME TypeOK, CertOK, ServiceStep, NEW r \in Reqs
    PROVE  /\ kind[r] \in Kinds => kind'[r] = kind[r]
           /\ status[r] # 0 => status'[r] = status[r] /\ cert'[r] = cert[r]
           /\ cert[r] # NoCert => cert'[r] = cert[r]
           /\ cert'[r] = cert[r] \/ Service!Mint(r)
           /\ status'[r] = 200 => status[r] = 200 \/ Service!Deliver(r)
<1>1. /\ kind = [s \in Reqs |-> kind[s]] /\ status = [s \in Reqs |-> status[s]]
      /\ cert = [s \in Reqs |-> cert[s]] /\ NoKind \notin Kinds
  BY ExchangeAssumption DEF TypeOK, CertOK
<1>2. ASSUME NEW s \in Reqs, Service!Send(s)
      PROVE  UNCHANGED <<status, cert>> /\ (kind[r] \in Kinds => kind'[r] = kind[r])
  BY <1>1, <1>2 DEF Service!Send
<1>3. ASSUME NEW s \in Reqs, Service!Refuse(s) \/ Service!Reject(s) \/ Service!Fail(s)
      PROVE  /\ UNCHANGED <<kind, cert>> /\ (status[r] # 0 => status'[r] = status[r])
             /\ status'[r] = 200 => status[r] = 200
  BY <1>1, <1>3 DEF Service!Refuse, Service!Reject, Service!Fail, Service!Open
<1>4. ASSUME NEW s \in Reqs, Service!Mint(s)
      PROVE  /\ UNCHANGED <<kind, status>>
             /\ status[r] # 0 \/ cert[r] # NoCert => cert'[r] = cert[r]
             /\ cert'[r] = cert[r] \/ r = s
  BY <1>1, <1>4 DEF Service!Mint, Service!Open
<1>5. ASSUME NEW s \in Reqs, Service!Deliver(s)
      PROVE  /\ UNCHANGED <<kind, cert>> /\ (status[r] # 0 => status'[r] = status[r])
             /\ status'[r] = status[r] \/ r = s
  BY <1>1, <1>5 DEF Service!Deliver, Service!Open
<1>6. ASSUME NEW s \in Reqs, Service!Authenticate(s) \/ Service!Account(s)
      PROVE  UNCHANGED <<kind, cert, status>>
  BY <1>6 DEF Service!Authenticate, Service!Account
<1>7. CASE Service!Tick \/ UNCHANGED Service!vars
  BY <1>7 DEF Service!Tick, Service!vars
<1> QED
  BY <1>2, <1>3, <1>4, <1>5, <1>6, <1>7 DEF ServiceStep, Service!Next

LEMMA ServiceRecords ==
    ASSUME TypeOK, CertOK, ServiceStep
    PROVE  \/ auditFile' = auditFile
           \/ \E e \in Event : auditFile' = Append(auditFile, e) /\ LineTrue(e)'
<1>1. status = [s \in Reqs |-> status[s]]
  BY DEF TypeOK
<1>2. ASSUME NEW s \in Reqs, NEW type \in EventTypes, Service!Record(type, s),
             LineTrue([type |-> type, req |-> s])'
      PROVE  \/ auditFile' = auditFile
             \/ \E e \in Event : auditFile' = Append(auditFile, e) /\ LineTrue(e)'
  <2>1. [type |-> type, req |-> s] \in Event
    BY DEF Event
  <2> QED
    BY <1>2, <2>1 DEF Service!Record
<1>3. {"auth_success", "auth_failure", "cert_issued", "cert_error"} \subseteq EventTypes
  BY DEF EventTypes
<1>4. ASSUME NEW s \in Reqs, Service!Reject(s)
      PROVE  /\ Service!Record("auth_failure", s)
             /\ LineTrue([type |-> "auth_failure", req |-> s])'
  BY <1>1, <1>4 DEF Service!Reject, LineTrue
<1>5. ASSUME NEW s \in Reqs, Service!Authenticate(s)
      PROVE  /\ Service!Record("auth_success", s)
             /\ LineTrue([type |-> "auth_success", req |-> s])'
  BY <1>5 DEF Service!Authenticate, LineTrue
<1>6. ASSUME NEW s \in Reqs, Service!Fail(s)
      PROVE  /\ Service!Record("cert_error", s)
             /\ LineTrue([type |-> "cert_error", req |-> s])'
  BY <1>1, <1>6 DEF Service!Fail, LineTrue, Service!Authorized
<1>7. ASSUME NEW s \in Reqs, Service!Account(s)
      PROVE  /\ Service!Record("cert_issued", s)
             /\ LineTrue([type |-> "cert_issued", req |-> s])'
  BY <1>7 DEF Service!Account, LineTrue
<1>8. ASSUME NEW s \in Reqs,
             \/ Service!Send(s) \/ Service!Refuse(s) \/ Service!Mint(s)
             \/ Service!Deliver(s)
      PROVE  auditFile' = auditFile
  BY <1>8 DEF Service!Send, Service!Refuse, Service!Mint, Service!Deliver
<1>9. CASE Service!Tick \/ UNCHANGED Service!vars
  BY <1>9 DEF Service!Tick, Service!vars
<1> QED
  BY <1>2, <1>3, <1>4, <1>5, <1>6, <1>7, <1>8, <1>9 DEF ServiceStep, Service!Next

LEMMA ServiceAccounts ==
    ASSUME TypeOK, CertOK, ServiceStep
    PROVE  /\ certLog \subseteq certLog'
           /\ \A r \in certLog' \ certLog : r \in Reqs /\ status[r] = 200
<1>1. ASSUME NEW s \in Reqs, Service!Account(s)
      PROVE  /\ certLog \subseteq certLog'
             /\ \A r \in certLog' \ certLog : r \in Reqs /\ status[r] = 200
  BY <1>1 DEF Service!Account
<1>2. ASSUME NEW s \in Reqs,
             \/ Service!Send(s) \/ Service!Refuse(s) \/ Service!Mint(s)
             \/ Service!Deliver(s) \/ Service!Reject(s) \/ Service!Authenticate(s)
             \/ Service!Fail(s)
      PROVE  certLog' = certLog
  BY <1>2 DEF Service!Send, Service!Refuse, Service!Mint, Service!Deliver,
              Service!Reject, Service!Authenticate, Service!Fail
<1>3. CASE Service!Tick \/ UNCHANGED Service!vars
  BY <1>3 DEF Service!Tick, Service!vars
<1> QED
  BY <1>1, <1>2, <1>3 DEF ServiceStep, Service!Next

LEMMA TruthKept ==
    ASSUME TypeOK, CertOK, Service!Truthful, ServiceStep
    PROVE  Service!Truthful'
<1>1. \A i \in DOMAIN auditFile : auditFile[i] \in Event
  BY DEF TypeOK
<1>2. ASSUME NEW e \in Event, LineTrue(e) PROVE LineTrue(e)'
  <2>1. e.req \in Reqs /\ e.type \in EventTypes
    BY DEF Event
  <2>2. Service!Authorized' = Service!Authorized /\ Service!Authorized \subseteq Kinds
    BY DEF Service!Authorized
  <2>3. CASE e.type = "auth_success"
    BY <1>2, <2>1, <2>3, ServiceKeeps DEF LineTrue
  <2>4. CASE e.type = "auth_failure"
    BY <1>2, <2>1, <2>4, ServiceKeeps DEF LineTrue
  <2>5. CASE e.type = "cert_error"
    BY <1>2, <2>1, <2>2, <2>5, ServiceKeeps DEF LineTrue
  <2>6. CASE e.type = "cert_issued"
    BY <1>2, <2>1, <2>6, ServiceKeeps DEF LineTrue
  <2> QED
    BY <2>1, <2>3, <2>4, <2>5, <2>6 DEF EventTypes
<1>3. ASSUME NEW i \in DOMAIN auditFile' PROVE LineTrue(auditFile[i])'
  <2>1. ASSUME i \in DOMAIN auditFile, auditFile'[i] = auditFile[i]
        PROVE  LineTrue(auditFile[i])'
    <3>1. auditFile[i] \in Event /\ LineTrue(auditFile[i])
      BY <1>1, <2>1, TruthfulLines
    <3> QED
      BY <1>2, <2>1, <3>1
  <2>2. CASE auditFile' = auditFile
    BY <2>1, <2>2
  <2>3. ASSUME NEW e \in Event, auditFile' = Append(auditFile, e), LineTrue(e)'
        PROVE  LineTrue(auditFile[i])'
    <3>1. auditFile \in Seq(Event)
      BY DEF TypeOK
    <3>2. \/ i \in DOMAIN auditFile /\ auditFile'[i] = auditFile[i]
          \/ auditFile'[i] = e
      BY <2>3, <3>1
    <3> QED
      BY <2>1, <2>3, <3>2
  <2> QED
    BY <2>2, <2>3, ServiceRecords
<1>4. ASSUME NEW r \in certLog' PROVE status'[r] = 200
  <2>1. status[r] = 200
    BY ServiceAccounts, TruthfulLines
  <2>2. r \in Reqs
    BY ServiceAccounts DEF TypeOK
  <2> QED
    BY <2>1, <2>2, ServiceKeeps
<1>5. ASSUME NEW r \in Reqs, status'[r] = 200 PROVE cert'[r] # NoCert
  <2>1. CASE status[r] = 200
    BY <2>1, ServiceKeeps, TruthfulLines
  <2>2. CASE Service!Deliver(r)
    BY <2>2 DEF Service!Deliver
  <2> QED
    BY <1>5, <2>1, <2>2, ServiceKeeps
<1>6. ASSUME NEW r \in Reqs, cert'[r] # NoCert
      PROVE  /\ kind'[r] \in Service!Authorized
             /\ cert'[r].roles = [k \in Kinds |-> RolesFor(Roles, Rules, k.claims)][kind'[r]]
  <2>1. Service!Authorized \subseteq Kinds
    BY DEF Service!Authorized
  <2>2. CASE cert'[r] = cert[r]
    BY <1>6, <2>1, <2>2, ServiceKeeps, TruthfulLines
  <2>3. CASE Service!Mint(r)
    <3>1. cert'[r].roles = [k \in Kinds |-> RolesFor(Roles, Rules, k.claims)][kind[r]]
      BY <2>3 DEF Service!Mint, CertOK
    <3> QED
      BY <2>3, <3>1 DEF Service!Mint
  <2> QED
    BY <2>2, <2>3, ServiceKeeps
<1>7. \A i \in DOMAIN auditFile' : LineTrue(auditFile[i])'
  BY <1>3
<1>8. \A r \in certLog' : status'[r] = 200
  BY <1>4
<1> QED
  BY <1>5, <1>6, <1>7, <1>8, Zenon DEF Service!Truthful, LineTrue, Service!Authorized

LEMMA ServiceFinal ==
    ASSUME TypeOK, CertOK, ServiceStep
    PROVE  Service!Final
<1>1. ASSUME NEW i \in DOMAIN auditFile
      PROVE  i \in DOMAIN auditFile' /\ auditFile'[i] = auditFile[i]
  <2>1. auditFile \in Seq(Event)
    BY DEF TypeOK
  <2>2. ASSUME NEW e \in Event, auditFile' = Append(auditFile, e)
        PROVE  i \in DOMAIN auditFile' /\ auditFile'[i] = auditFile[i]
    BY <2>1, <2>2
  <2> QED
    BY <2>2, ServiceRecords
<1>2. \A r \in Reqs : /\ status[r] # 0 => status'[r] = status[r]
                      /\ cert[r] # NoCert => cert'[r] = cert[r]
  BY ServiceKeeps
<1> QED
  BY <1>1, <1>2, ServiceAccounts DEF Service!Final

\* Whenever the two logs on disk are read, what they say is true of the
\* answers and the certificates.
THEOREM LogsAreTruthful == Spec => []LogsTruthful
<1>1. Init => LogsTruthful
  BY DEF Init, LogsTruthful, Service!Truthful
<1>2. EInv /\ SentOK /\ LogsTruthful /\ [Next]_vars => LogsTruthful'
  <2> SUFFICES ASSUME EInv, SentOK, Service!Truthful, [Next]_vars
               PROVE  Service!Truthful'
    BY DEF LogsTruthful
  <2> QED
    BY StepRefines, TruthKept DEF EInv
<1> QED
  BY <1>1, <1>2, SentInductive, PTL DEF Spec

\* Answers, certificates and the lines on disk are final, through every
\* interleaving, crash and restart.
THEOREM AnswersAreFinal == Spec => AnswersFinal
<1>1. EInv /\ SentOK /\ [Next]_vars => [Service!Final]_vars
  BY StepRefines, ServiceFinal DEF EInv
<1> QED
  BY <1>1, SentInductive, PTL DEF Spec, AnswersFinal
=============================================================================
