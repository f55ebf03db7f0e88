------------------------------ MODULE Exchange ------------------------------
(***************************************************************************)
(* The /exchange endpoint of the certificate server: concurrent handlers   *)
(* (pkg/server, Server.handleExchange behind its two middlewares), the     *)
(* audit logger and its two listeners, the in-memory tracker and the       *)
(* certificate log (pkg/audit, pkg/admin), the Talos API that mints        *)
(* certificates, and the life of the process: SIGTERM, graceful shutdown,  *)
(* crash and restart (cmd/serve.go).                                       *)
(*                                                                         *)
(* A request is served once, by one handler.  What a handler decides from  *)
(* the request alone is one step; what can interleave with other handlers, *)
(* with the Talos API or with the end of the process is a step of its own. *)
(* The limiter's verdict and the verdict on the token are chosen freely    *)
(* where RateLimiter, JWKSCache and TokenValidation say how they come      *)
(* about.                                                                  *)
(***************************************************************************)
EXTENDS ClientAddress, RoleMapping

CONSTANTS
    Reqs,       \* identities of requests
    Kinds,      \* what a request can be, see Kind
    Roles,      \* cfg.Roles as configured
    Rules,      \* the RBAC rules
    TTL,        \* cfg.CertTTL, in ticks
    MaxTime,    \* bound on the clock
    MaxBoots,   \* bound on the number of starts of the server
    NoKind,     \* a request that has not arrived
    NoCert      \* the Talos API has minted nothing

ASSUME ExchangeAssumption ==
    /\ IsFiniteSet(Reqs)
    /\ TTL \in Nat
    /\ MaxTime \in Nat
    /\ MaxBoots \in Nat
    /\ NoKind \notin Kinds

\* A kind of request: the peer and its header, whether method, size, JSON and
\* id_token pass the first checks, whether the token is the provider's own
\* and valid, and its claims.
\*     [peer, xff, wellFormed, genuine, claims]

VARIABLES
    now,        \* the clock
    server,     \* "up", "draining" (Shutdown is waiting) or "down"
    boots,      \* starts of the server so far
    kind, pc,   \* per request: what it is, where its handler is
    cert,       \* external: the certificate the Talos API minted for it
    expiry,     \* handleExchange's certExpiry
    status,     \* the HTTP status written, 0 if none
    auditFile,  \* the audit log on disk
    certLog,    \* the certificate log on disk: requests recorded in it
    heard,      \* history: events the listeners got since the server started
    tracker     \* admin.Tracker: records and counters

reqVars == <<kind, pc, cert, expiry, status>>
logVars == <<auditFile, certLog, heard, tracker>>
vars == <<now, server, boots, reqVars, logVars>>

EventTypes == {"auth_success", "auth_failure", "cert_issued", "cert_error"}
Event == [type : EventTypes, req : Reqs]

PCs == {"new", "limit", "authFailed", "authOK", "roles", "issue", "respond",
        "issueFailed", "issued", "done", "gone", "killed"}

\* The handler is running.  "gone": it was done when the process ended;
\* "killed": it was not.
Active(r) == pc[r] \notin {"new", "done", "gone", "killed"}

EmptyTracker == [certs |-> {}, issued |-> 0, authOK |-> 0, authFailed |-> 0,
                 errors |-> 0]

RolesOf(r) == RolesFor(Roles, Rules, kind[r].claims)

TypeOK ==
    /\ now \in Nat
    /\ server \in {"up", "draining", "down"}
    /\ boots \in Nat
    /\ kind \in [Reqs -> Kinds \cup {NoKind}]
    /\ pc \in [Reqs -> PCs]
    /\ \A r \in Reqs : cert[r] = NoCert \/ cert[r].notAfter \in Nat
    /\ expiry \in [Reqs -> Nat]
    /\ status \in [Reqs -> {0, 200, 400, 401, 403, 429, 500}]
    /\ auditFile \in Seq(Event)
    /\ certLog \subseteq Reqs
    /\ heard \subseteq Event
    /\ tracker \in [certs : SUBSET [req : Reqs, expiresAt : Nat], issued : Nat,
                    authOK : Nat, authFailed : Nat, errors : Nat]

Init ==
    /\ now = 0
    /\ server = "up"
    /\ boots = 1
    /\ kind = [r \in Reqs |-> NoKind]
    /\ pc = [r \in Reqs |-> "new"]
    /\ cert = [r \in Reqs |-> NoCert]
    /\ expiry = [r \in Reqs |-> 0]
    /\ status = [r \in Reqs |-> 0]
    /\ auditFile = <<>>
    /\ certLog = {}
    /\ heard = {}
    /\ tracker = EmptyTracker

-----------------------------------------------------------------------------
(* Logger.Log: under its mutex, one line to the file and a synchronous call *)
(* of both listeners.  Neither file write is checked: each may fail alone.  *)

\* Mutant of handleEvent: the event carries no CertExpiry, derefTime gives 0.
handleEventNoExpiry(type, r) ==
    CASE type = "cert_issued" ->
           [tracker EXCEPT !.issued = @ + 1,
                           !.certs = @ \cup {[req |-> r, expiresAt |-> 0]}]
      [] type = "auth_success" -> [tracker EXCEPT !.authOK = @ + 1]
      [] type = "auth_failure" -> [tracker EXCEPT !.authFailed = @ + 1]
      [] type = "cert_error" -> [tracker EXCEPT !.errors = @ + 1]

handleEvent(type, r) ==
    CASE type = "cert_issued" ->
           [tracker EXCEPT !.issued = @ + 1,
                           !.certs = @ \cup {[req |-> r, expiresAt |-> expiry[r]]}]
      [] type = "auth_success" -> [tracker EXCEPT !.authOK = @ + 1]
      [] type = "auth_failure" -> [tracker EXCEPT !.authFailed = @ + 1]
      [] type = "cert_error" -> [tracker EXCEPT !.errors = @ + 1]

\* CertLog.handleEvent: the error of append is dropped.
persist(type, r) ==
    certLog' \in IF type = "cert_issued" THEN {certLog, certLog \cup {r}}
                                         ELSE {certLog}

Log(type, r) ==
    LET event == [type |-> type, req |-> r]
    IN  /\ auditFile' \in {auditFile, Append(auditFile, event)}
        /\ heard' = heard \cup {event}
        /\ tracker' = handleEvent(type, r)
        /\ persist(type, r)

-----------------------------------------------------------------------------
(* The handler *)

Goto(r, label) == pc' = [pc EXCEPT ![r] = label]

\* writeError and return.
Reply(r, code) ==
    /\ status' = [status EXCEPT ![r] = code]
    /\ Goto(r, "done")

Arrive(r, k) ==
    /\ server = "up"
    /\ pc[r] = "new"
    /\ kind' = [kind EXCEPT ![r] = k]
    /\ Goto(r, "limit")
    /\ UNCHANGED <<now, server, boots, cert, expiry, status, logVars>>

\* The limiter is the outer middleware: 429 before anything else is looked at.
RateLimited(r) ==
    /\ pc[r] = "limit"
    /\ Reply(r, 429)
    /\ UNCHANGED <<now, server, boots, kind, cert, expiry, logVars>>

AddressAllowed(r) == Allowed(extractIP(kind[r].peer, kind[r].xff))

NotAllowed(r) ==
    /\ pc[r] = "limit"
    /\ ~AddressAllowed(r)
    /\ Reply(r, 403)
    /\ UNCHANGED <<now, server, boots, kind, cert, expiry, logVars>>

\* Wrong method, body too large, bad JSON or no id_token (405, 413 or 400).
BadRequest(r) ==
    /\ pc[r] = "limit"
    /\ AddressAllowed(r)
    /\ ~kind[r].wellFormed
    /\ Reply(r, 400)
    /\ UNCHANGED <<now, server, boots, kind, cert, expiry, logVars>>

\* validateToken: the token is refused, or no keys could be fetched ...
ValidateFail(r) ==
    /\ pc[r] = "limit"
    /\ AddressAllowed(r)
    /\ kind[r].wellFormed
    /\ Goto(r, "authFailed")
    /\ UNCHANGED <<now, server, boots, kind, cert, expiry, status, logVars>>

\* ... or accepted.
ValidateOK(r) ==
    /\ pc[r] = "limit"
    /\ AddressAllowed(r)
    /\ kind[r].wellFormed
    /\ kind[r].genuine
    /\ Goto(r, "authOK")
    /\ UNCHANGED <<now, server, boots, kind, cert, expiry, status, logVars>>

\* Mutant of LogAuthFailure: the return after writeError is missing.
LogAuthFailureNoReturn(r) ==
    /\ pc[r] = "authFailed"
    /\ Log("auth_failure", r)
    /\ status' = [status EXCEPT ![r] = 401]
    /\ Goto(r, "authOK")
    /\ UNCHANGED <<now, server, boots, kind, cert, expiry>>

LogAuthFailure(r) ==
    /\ pc[r] = "authFailed"
    /\ Log("auth_failure", r)
    /\ Reply(r, 401)
    /\ UNCHANGED <<now, server, boots, kind, cert, expiry>>

LogAuthSuccess(r) ==
    /\ pc[r] = "authOK"
    /\ Log("auth_success", r)
    /\ Goto(r, "roles")
    /\ UNCHANGED <<now, server, boots, kind, cert, expiry, status>>

\* No role: 403, without an event of its own.
NoRoles(r) ==
    /\ pc[r] = "roles"
    /\ RolesOf(r) = {}
    /\ Reply(r, 403)
    /\ UNCHANGED <<now, server, boots, kind, cert, expiry, logVars>>

\* Mutant of IssueCall: no test for an empty role list.
IssueCallAnyRoles(r) ==
    /\ pc[r] = "roles"
    /\ Goto(r, "issue")
    /\ UNCHANGED <<now, server, boots, kind, cert, expiry, status, logVars>>

\* Issuer.Issue: the call to the Talos API is on its way.
IssueCall(r) ==
    /\ pc[r] = "roles"
    /\ RolesOf(r) # {}
    /\ Goto(r, "issue")
    /\ UNCHANGED <<now, server, boots, kind, cert, expiry, status, logVars>>

\* External: the Talos API signs a certificate with the roles asked for, valid
\* for TTL from its own clock, which is the server's.
TalosMint(r) ==
    /\ pc[r] = "issue"
    /\ cert[r] = NoCert
    /\ cert' = [cert EXCEPT ![r] = [roles |-> RolesOf(r), notAfter |-> now + TTL]]
    /\ UNCHANGED <<now, server, boots, kind, pc, expiry, status, logVars>>

IssueOK(r) ==
    /\ pc[r] = "issue"
    /\ cert[r] # NoCert
    /\ Goto(r, "respond")
    /\ UNCHANGED <<now, server, boots, kind, cert, expiry, status, logVars>>

\* The API refuses, the connection breaks or the client goes away: maybe after
\* the certificate was minted.
IssueFail(r) ==
    /\ pc[r] = "issue"
    /\ Goto(r, "issueFailed")
    /\ UNCHANGED <<now, server, boots, kind, cert, expiry, status, logVars>>

\* Mutant of LogCertError: the return after writeError is missing.
LogCertErrorNoReturn(r) ==
    /\ pc[r] = "issueFailed"
    /\ Log("cert_error", r)
    /\ Goto(r, "respond")
    /\ UNCHANGED <<now, server, boots, kind, cert, expiry, status>>

LogCertError(r) ==
    /\ pc[r] = "issueFailed"
    /\ Log("cert_error", r)
    /\ Reply(r, 500)
    /\ UNCHANGED <<now, server, boots, kind, cert, expiry>>

\* certExpiry, then writeJSON: the client may have its certificate now.
Respond(r) ==
    /\ pc[r] = "respond"
    /\ expiry' = [expiry EXCEPT ![r] = now + TTL]
    /\ status' = [status EXCEPT ![r] = 200]
    /\ Goto(r, "issued")
    /\ UNCHANGED <<now, server, boots, kind, cert, logVars>>

\* Mutant of LogCertIssued: the event is not emitted.
LogCertIssuedSilent(r) ==
    /\ pc[r] = "issued"
    /\ Goto(r, "done")
    /\ UNCHANGED <<now, server, boots, kind, cert, expiry, status, logVars>>

LogCertIssued(r) ==
    /\ pc[r] = "issued"
    /\ Log("cert_issued", r)
    /\ Goto(r, "done")
    /\ UNCHANGED <<now, server, boots, kind, cert, expiry, status>>

-----------------------------------------------------------------------------
(* The tracker's readers: ActiveCerts and GetStats drop expired records.    *)

pruneExpired ==
    /\ server # "down"
    /\ tracker' = [tracker EXCEPT !.certs = {c \in @ : c.expiresAt > now}]
    /\ UNCHANGED <<now, server, boots, reqVars, auditFile, certLog, heard>>

-----------------------------------------------------------------------------
(* The process *)

\* SIGTERM: Shutdown closes the listener and waits for the handlers.
SigTerm ==
    /\ server = "up"
    /\ server' = "draining"
    /\ UNCHANGED <<now, boots, reqVars, logVars>>

\* The memory of the process is gone, its files stay.
Exit ==
    /\ server' = "down"
    /\ pc' = [r \in Reqs |-> IF Active(r) THEN "killed"
                             ELSE IF pc[r] = "done" THEN "gone" ELSE pc[r]]
    /\ heard' = {}
    /\ tracker' = EmptyTracker
    /\ UNCHANGED <<now, boots, kind, cert, expiry, status, auditFile, certLog>>

\* Mutant of ShutdownDone: Close instead of Shutdown.
ShutdownDoneAtOnce ==
    /\ server = "draining"
    /\ Exit

\* Shutdown returns when no handler is running ...
ShutdownDone ==
    /\ server = "draining"
    /\ \A r \in Reqs : ~Active(r)
    /\ Exit

\* Mutant of ShutdownTimeout: no deadline on Shutdown.
ShutdownTimeoutNever ==
    /\ server = "draining"
    /\ \A r \in Reqs : ~Active(r)
    /\ Exit

\* ... or after 10 seconds, and runServe returns an error.
ShutdownTimeout ==
    /\ server = "draining"
    /\ Exit

\* The process is killed; the machine runs on and the files stay.
Crash ==
    /\ server # "down"
    /\ Exit

Restart ==
    /\ server = "down"
    /\ boots < MaxBoots
    /\ server' = "up"
    /\ boots' = boots + 1
    /\ UNCHANGED <<now, reqVars, logVars>>

Tick ==
    /\ now < MaxTime
    /\ now' = now + 1
    /\ UNCHANGED <<server, boots, reqVars, logVars>>

-----------------------------------------------------------------------------
\* What a handler does by itself.
HandlerStep(r) ==
    \/ RateLimited(r) \/ NotAllowed(r) \/ BadRequest(r)
    \/ ValidateFail(r) \/ ValidateOK(r)
    \/ LogAuthFailure(r) \/ LogAuthSuccess(r)
    \/ NoRoles(r) \/ IssueCall(r)
    \/ LogCertError(r) \/ Respond(r) \/ LogCertIssued(r)

\* What the Talos API makes of its call.
IssueStep(r) == TalosMint(r) \/ IssueOK(r) \/ IssueFail(r)

Process ==
    \/ SigTerm \/ ShutdownDone \/ ShutdownTimeout \/ Crash \/ Restart

Next ==
    \/ \E r \in Reqs, k \in Kinds : Arrive(r, k)
    \/ \E r \in Reqs : HandlerStep(r)
    \/ \E r \in Reqs : IssueStep(r)
    \/ pruneExpired
    \/ Process
    \/ Tick

Spec == Init /\ [][Next]_vars

\* A handler that is not waiting for the Talos API runs on, and Shutdown ends
\* by its timeout.  Nothing bounds the time the Talos API takes.
Fairness ==
    /\ \A r \in Reqs : WF_vars(HandlerStep(r))
    /\ WF_vars(ShutdownDone \/ ShutdownTimeout)

FairSpec == Spec /\ Fairness

-----------------------------------------------------------------------------
(* Properties *)

Heard(type, r) == [type |-> type, req |-> r] \in heard

\* The statistics of the admin API never show more outcomes than successful
\* authentications, whatever handlers are between two events: every
\* certificate and every certificate error is counted after its own
\* authentication, and none twice.
StatsConsistent == tracker.issued + tracker.errors <= tracker.authOK

\* The Talos API mints a certificate only for a request from an allowed
\* address with a genuine token, with exactly the roles of that token's own
\* claims and never without a role, and only after the listeners heard of the
\* authentication.
MintedOnlyForAuthorized ==
    \A r \in Reqs : cert[r] # NoCert =>
        /\ AddressAllowed(r)
        /\ kind[r].genuine
        /\ cert[r].roles = RolesOf(r) /\ cert[r].roles # {}
        /\ Heard("auth_success", r) \/ pc[r] \in {"gone", "killed"}

\* A certificate the tracker heard of stays in the list of active
\* certificates until it really expires, although readers prune the list and
\* the record's expiry is computed by another clock reading than the
\* certificate's.
LiveCertListed ==
    \A r \in Reqs :
        (Heard("cert_issued", r) /\ cert[r].notAfter > now) =>
            \E c \in tracker.certs : c.req = r

\* The events of one request in the audit file: nothing twice, an outcome only
\* behind the authentication, and never both outcomes, however handlers,
\* failed writes and restarts interleave.
AuditTrailOrdered ==
    \A i, j \in DOMAIN auditFile :
        (i < j /\ auditFile[i].req = auditFile[j].req) =>
            /\ auditFile[i].type = "auth_success"
            /\ auditFile[j].type \in {"cert_issued", "cert_error"}

\* When Shutdown returns without error, the listeners have heard of every
\* certificate that was answered with 200: a rolling update loses none.
CleanShutdownComplete ==
    [][ShutdownDone =>
         \A r \in Reqs : /\ pc'[r] # pc[r] => pc'[r] = "gone"
                         /\ (pc[r] = "done" /\ status[r] = 200)
                              => Heard("cert_issued", r)]_vars

\* A certificate that went out is announced to the tracker and the
\* certificate log, unless the process is killed first.
DeliveredIsHeard ==
    \A r \in Reqs :
        pc[r] = "issued" ~> (Heard("cert_issued", r) \/ pc[r] = "killed")

\* SIGTERM ends the process even if a Talos API call hangs.
ShutdownTerminates == server = "draining" ~> server = "down"

-----------------------------------------------------------------------------
(* The abstract specification *)

PassesChecks(k) ==
    /\ Allowed(extractIP(k.peer, k.xff))
    /\ k.wellFormed
    /\ k.genuine

Service == INSTANCE CertService
             WITH Authentic <- {k \in Kinds : PassesChecks(k)},
                  Granted <- [k \in Kinds |-> RolesFor(Roles, Rules, k.claims)]

\* Seen from the client and from the logs on disk, a request is answered once,
\* with the one certificate its kind is entitled to or a refusal, and the
\* audit file says nothing else of it, although the answer, the mint and the
\* two writes are separate steps with other handlers, lost answers of the
\* Talos API, shutdowns and crashes between them.
ImplementsCertService == Service!Spec

\* What the logs on disk say is true of the answers and the certificates,
\* although each handler writes them after it answered or before it knew how
\* the request would end, and the process may be killed in between.
LogsTruthful == Service!Truthful

\* No step of any handler, and no restart, changes an answer that was written,
\* a certificate that was minted or a line that is on disk.
AnswersFinal == [][Service!Final]_vars
=============================================================================
