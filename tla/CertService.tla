---------------------------- MODULE CertService ----------------------------
(***************************************************************************)
(* What the /exchange endpoint promises to the client and to the reader of *)
(* its two logs on disk: per request one certificate at most, one answer   *)
(* at most, and an audit trail that tells them truthfully as far as it was *)
(* written.  Middlewares, handlers, listeners, shutdown and restarts are   *)
(* not seen from outside: the end of the process is a request without an   *)
(* answer.  Exchange implements this specification                         *)
(* (Exchange!ImplementsCertService).                                       *)
(***************************************************************************)
EXTENDS Integers, Sequences

CONSTANTS
    Reqs, Kinds, NoKind, NoCert, TTL,   \* as in Exchange
    Authentic,  \* the kinds from an allowed address with a genuine token
    Granted     \* the roles of each kind, {} if it has none

VARIABLES
    kind,       \* the requests that were sent
    cert,       \* the certificates that exist
    status,     \* the answers
    auditFile, certLog, now

vars == <<kind, cert, status, auditFile, certLog, now>>

Authorized == {k \in Authentic : Granted[k] # {}}

Init ==
    /\ kind = [r \in Reqs |-> NoKind]
    /\ cert = [r \in Reqs |-> NoCert]
    /\ status = [r \in Reqs |-> 0]
    /\ auditFile = <<>>
    /\ certLog = {}
    /\ now = 0

Open(r) == kind[r] \in Kinds /\ status[r] = 0

\* The trail of a request starts with its authentication; an outcome has at
\* most the success before it.
Before(type) == IF type \in {"cert_issued", "cert_error"} THEN {"auth_success"}
                                                         ELSE {}

\* One line, which may be lost.
Record(type, r) ==
    /\ \A i \in DOMAIN auditFile :
          auditFile[i].req = r => auditFile[i].type \in Before(type)
    /\ auditFile' \in {auditFile,
                       Append(auditFile, [type |-> type, req |-> r])}

Send(r) ==
    /\ kind[r] = NoKind
    /\ \E k \in Kinds : kind' = [kind EXCEPT ![r] = k]
    /\ UNCHANGED <<cert, status, auditFile, certLog, now>>

\* An answer without an event: overload, or a request that may not have a
\* certificate.
Refuse(r) ==
    /\ Open(r)
    /\ cert[r] = NoCert
    /\ \E code \in {400, 403, 429} :
          /\ code # 429 => kind[r] \notin Authorized
          /\ status' = [status EXCEPT ![r] = code]
    /\ UNCHANGED <<kind, cert, auditFile, certLog, now>>

Reject(r) ==
    /\ Open(r)
    /\ cert[r] = NoCert
    /\ Record("auth_failure", r)
    /\ status' = [status EXCEPT ![r] = 401]
    /\ UNCHANGED <<kind, cert, certLog, now>>

Authenticate(r) ==
    /\ Open(r)
    /\ kind[r] \in Authentic
    /\ cert[r] = NoCert
    /\ Record("auth_success", r)
    /\ UNCHANGED <<kind, cert, status, certLog, now>>

\* The only certificate of the request.
Mint(r) ==
    /\ Open(r)
    /\ kind[r] \in Authorized
    /\ cert[r] = NoCert
    /\ cert' = [cert EXCEPT ![r] = [roles |-> Granted[kind[r]],
                                    notAfter |-> now + TTL]]
    /\ UNCHANGED <<kind, status, auditFile, certLog, now>>

\* The certificate may exist all the same.
Fail(r) ==
    /\ Open(r)
    /\ kind[r] \in Authorized
    /\ Record("cert_error", r)
    /\ status' = [status EXCEPT ![r] = 500]
    /\ UNCHANGED <<kind, cert, certLog, now>>

Deliver(r) ==
    /\ Open(r)
    /\ cert[r] # NoCert
    /\ status' = [status EXCEPT ![r] = 200]
    /\ UNCHANGED <<kind, cert, auditFile, certLog, now>>

\* What was delivered is recorded, in both logs, in one of them or in none.
Account(r) ==
    /\ status[r] = 200
    /\ Record("cert_issued", r)
    /\ certLog' \in {certLog, certLog \cup {r}}
    /\ UNCHANGED <<kind, cert, status, now>>

Tick ==
    /\ now' = now + 1
    /\ UNCHANGED <<kind, cert, status, auditFile, certLog>>

Next ==
    \/ \E r \in Reqs : \/ Send(r) \/ Refuse(r) \/ Reject(r) \/ Authenticate(r)
                       \/ Mint(r) \/ Fail(r) \/ Deliver(r) \/ Account(r)
    \/ Tick

Spec == Init /\ [][Next]_vars

-----------------------------------------------------------------------------
(* What follows for the reader of the logs *)

\* Every line of the audit file and every request in the certificate log is
\* true of the answer and of the certificate, whenever it is read: a success
\* was a genuine token's, a failure got 401 and no certificate, an error 500,
\* an issue 200, and what was delivered is what the token is entitled to.
Truthful ==
    /\ \A i \in DOMAIN auditFile :
         LET r == auditFile[i].req
         IN  CASE auditFile[i].type = "auth_success" -> kind[r] \in Authentic
               [] auditFile[i].type = "auth_failure" ->
                    status[r] = 401 /\ cert[r] = NoCert
               [] auditFile[i].type = "cert_error" ->
                    status[r] = 500 /\ kind[r] \in Authorized
               [] auditFile[i].type = "cert_issued" -> status[r] = 200
    /\ \A r \in certLog : status[r] = 200
    /\ \A r \in Reqs : status[r] = 200 => cert[r] # NoCert
    /\ \A r \in Reqs : cert[r] # NoCert =>
         kind[r] \in Authorized /\ cert[r].roles = Granted[kind[r]]

\* An answer and a certificate are final, and the audit file only grows.
Final ==
    /\ \A r \in Reqs : /\ status[r] # 0 => status'[r] = status[r]
                       /\ cert[r] # NoCert => cert'[r] = cert[r]
    /\ certLog \subseteq certLog'
    /\ \A i \in DOMAIN auditFile : /\ i \in DOMAIN auditFile'
                                   /\ auditFile'[i] = auditFile[i]
=============================================================================
