------------------------------- MODULE Login -------------------------------
(***************************************************************************)
(* The login, login --watch and logout commands of cmd/login.go and        *)
(* cmd/logout.go on one machine, one after the other: a command looks at   *)
(* the certificate in the talosconfig, gets an ID token (from the cache,   *)
(* by a refresh, or from the user by browser or device code), exchanges it *)
(* for a certificate and saves that.  Any step may be the last one of the  *)
(* process; the files stay, the next command starts from them.             *)
(*                                                                         *)
(* What a command reads and writes is in TokenCache, TalosConfig,          *)
(* CallbackServer and DevicePolling.  All times are what is left of them,  *)
(* in ticks.  A step without network or user takes no time: the clock      *)
(* stands while a command is between two of those.                         *)
(***************************************************************************)
EXTENDS TokenCache, TalosConfig, CallbackServer, DevicePolling

CONSTANTS
    Self,               \* the command that runs
    CertTTL,            \* the server's cert_ttl
    Threshold,          \* renew a certificate with less than this left
    LoginTimeout,       \* the deadline of one round
    AuthGrants,         \* what the provider may grant after an authentication,
    RefreshGrants       \* and for a refresh token

ASSUME LoginAssumption ==
    /\ Procs = {Self}
    /\ CertTTL \in Nat \ {0}
    /\ Threshold \in Nat \ {0}
    /\ LoginTimeout \in Nat \ {0}
    /\ AuthGrants \cup RefreshGrants \subseteq [id : NoID .. IDTTL, rt : BOOLEAN]

VARIABLES
    run,            \* the command: its pc and its locals
    certLeft,       \* what is left of the certificate in the talosconfig
    revoked,        \* external: ticks since the user's access was revoked, or -1
    remembered      \* history: the user gave a login that can be renewed, and
                    \* no fault happened since

vars == <<run, certLeft, revoked, remembered, cacheVars, configVars,
          callbackVars, deviceVars>>

Window == IDTTL + CertTTL

LocalPCs == {"check", "cache", "store", "write", "listen", "shutdown",
             "config", "save", "delete", "deleteFile", "deleteWrite"}
RequestPCs == {"refreshDiscover", "refresh", "discover", "request", "code",
               "exchange"}
AuthPCs == {"discover", "listen", "wait", "code", "shutdown", "request",
            "poll", "pause"}
PCs == {"off", "sleep"} \cup LocalPCs \cup RequestPCs \cup AuthPCs

\* kind: the command line.  via: where tok comes from.  ctx: the
\* deadline of the round.  late: its requests took it into the next tick.
\* nap: what is left of time.Sleep.  new: the certificate received.
Run == [pc : PCs, kind : {"none", "login", "watch", "logout"},
        via : {"refresh", "auth"},
        ctx : 0 .. LoginTimeout, late : BOOLEAN, nap : 0 .. 1,
        new : 0 .. CertTTL,
        tok : Token \cup {NoToken}]

TypeOK ==
    /\ run \in Run
    /\ certLeft \in 0 .. CertTTL
    /\ revoked \in -1 .. Window
    /\ remembered \in BOOLEAN
    /\ CacheTypeOK
    /\ ConfigTypeOK
    /\ CallbackTypeOK
    /\ DeviceTypeOK

Off == [pc |-> "off", kind |-> "none", via |-> "auth",
        ctx |-> 0, late |-> FALSE, nap |-> 0, new |-> 0, tok |-> NoToken]

Init ==
    /\ run = Off
    /\ certLeft = 0
    /\ revoked = -1
    /\ remembered = FALSE
    /\ CacheInit
    /\ ConfigInit
    /\ CallbackInit
    /\ DeviceInit

-----------------------------------------------------------------------------
(* The course of a command *)

At(pc) == run.pc = pc
Go(pc) == run' = [run EXCEPT !.pc = pc]
Exit == run' = Off

Sleep(n) == run' = [Off EXCEPT !.pc = "sleep", !.kind = run.kind, !.nap = n]

\* A round that failed: a watch tries again after a minute.
Failed == IF run.kind = "watch" THEN Sleep(1) ELSE Exit

\* Mutant of NewRound: the deadline is set once, before the loop.
NewRoundOldDeadline(kind) ==
    run' = [Off EXCEPT !.pc = "check", !.kind = kind,
                       !.ctx = IF At("off") THEN LoginTimeout ELSE run.ctx]

\* The head of the loop: a new deadline.
NewRound(kind) ==
    run' = [Off EXCEPT !.pc = "check", !.kind = kind,
                       !.ctx = LoginTimeout]

StartLogin(kind) ==
    /\ At("off")
    /\ NewRound(kind)
    /\ UNCHANGED <<certLeft, revoked, remembered, cacheVars, configVars,
                   callbackVars, deviceVars>>

WakeUp ==
    /\ At("sleep")
    /\ run.nap = 0
    /\ NewRound(run.kind)
    /\ UNCHANGED <<certLeft, revoked, remembered, cacheVars, configVars,
                   callbackVars, deviceVars>>

-----------------------------------------------------------------------------
(* Is there a certificate? *)

CertValid == conf # Garbled /\ Own[Self] \in Parsed(conf).contexts /\ certLeft >= Threshold

\* A watch sleeps for a minute at most, and until the certificate has less
\* than Threshold left, which at Threshold takes another tick.
StillValid ==
    /\ At("check")
    /\ CertValid
    /\ IF run.kind = "watch" THEN Sleep(1) ELSE Exit
    /\ UNCHANGED <<certLeft, revoked, remembered, cacheVars, configVars,
                   callbackVars, deviceVars>>

\* No certificate, or little left of it, or a file that does not parse.
NeedsRenewal ==
    /\ At("check")
    /\ ~CertValid
    /\ Go("cache")
    /\ UNCHANGED <<certLeft, revoked, remembered, cacheVars, configVars,
                   callbackVars, deviceVars>>

\* The file cannot be read now: whatever is in it is renewed.
CheckFails ==
    /\ At("check")
    /\ Go("cache")
    /\ UNCHANGED <<certLeft, revoked, remembered, cacheVars, configVars,
                   callbackVars, deviceVars>>

\* An http:// server without --insecure ends a watch as well.
PlainHTTP ==
    /\ At("check")
    /\ Exit
    /\ UNCHANGED <<certLeft, revoked, remembered, cacheVars, configVars,
                   callbackVars, deviceVars>>

-----------------------------------------------------------------------------
(* obtainIDToken: the cache, the refresh token, the user *)

\* The user is asked, in the same round.
Authenticate == run' = [run EXCEPT !.pc = "discover", !.via = "auth",
                                   !.tok = NoToken]

\* keychain.Retrieve returned t.
Cached(t) ==
    IF IsToken(t) /\ ~IsExpired(t) /\ t.id # NoID
    THEN run' = [run EXCEPT !.pc = "exchange", !.tok = t]
    ELSE IF IsToken(t) /\ HasRefreshToken(t)
    THEN run' = [run EXCEPT !.pc = "refreshDiscover", !.via = "refresh",
                            !.tok = t]
    ELSE Authenticate

LookUp ==
    /\ At("cache")
    /\ \E t \in Retrieved :
         /\ Cached(t)
         /\ remembered' = (remembered /\ t = BestToken(keychain, FileEntry))
    /\ UNCHANGED <<certLeft, revoked, cacheVars, configVars, callbackVars,
                   deviceVars>>

RefreshDiscoverOK ==
    /\ At("refreshDiscover")
    /\ run.ctx > 0
    /\ Go("refresh")
    /\ UNCHANGED <<certLeft, revoked, remembered, cacheVars, configVars,
                   callbackVars, deviceVars>>

\* Discovery or the refresh request fails, or its answer is no good.
RefreshFails ==
    /\ run.pc \in {"refreshDiscover", "refresh"}
    /\ Authenticate
    /\ remembered' = FALSE
    /\ UNCHANGED <<certLeft, revoked, cacheVars, configVars, callbackVars,
                   deviceVars>>

RefreshGranted == At("refresh") /\ run.tok.rt = "current" /\ revoked = -1

\* The provider refuses the refresh token.
RefreshRefused ==
    /\ At("refresh")
    /\ ~RefreshGranted
    /\ Authenticate
    /\ UNCHANGED <<certLeft, revoked, remembered, cacheVars, configVars,
                   callbackVars, deviceVars>>

\* The provider replaced the refresh token, and its answer is lost.
RefreshLost ==
    /\ RefreshGranted
    /\ \E g \in RefreshGrants : g.rt
    /\ SpendRefreshToken
    /\ Authenticate
    /\ remembered' = FALSE
    /\ UNCHANGED <<certLeft, revoked, configVars, callbackVars, deviceVars>>

\* Mutant of RefreshedToken: an answer without a refresh token means none.
RefreshedWithout(g) ==
    [left |-> TokenTTL, id |-> g.id, rt |-> IF g.rt THEN "current" ELSE "none"]

\* Without a new refresh token in the answer the old one stays.
RefreshedToken(g) == [left |-> TokenTTL, id |-> g.id, rt |-> "current"]

RefreshOK(g) ==
    /\ RefreshGranted
    /\ run.ctx > 0
    /\ IF g.rt THEN SpendRefreshToken ELSE UNCHANGED cacheVars
    /\ run' = [run EXCEPT !.pc = "store", !.tok = RefreshedToken(g)]
    /\ remembered' = (remembered /\ g.id # NoID)
    /\ UNCHANGED <<certLeft, revoked, configVars, callbackVars, deviceVars>>

\* The token was cached, or a warning was printed that it was not.
Stored ==
    IF run.tok.id # NoID THEN Go("exchange")
    ELSE IF run.via = "refresh" THEN Authenticate
    ELSE Failed

\* A login that can be renewed from now on.
Renewable ==
    /\ run.via = "auth"
    /\ run.tok.id # NoID
    /\ HasRefreshToken(run.tok)
    /\ revoked = -1

StoreInKeychain ==
    /\ At("store")
    /\ KeychainSet(run.tok)
    /\ Stored
    /\ remembered' = (remembered \/ Renewable)
    /\ UNCHANGED <<certLeft, revoked, configVars, callbackVars, deviceVars>>

\* The keychain refuses; the file is opened for writing.
StoreInFile ==
    /\ At("store")
    /\ FileTruncate
    /\ Go("write")
    /\ UNCHANGED <<certLeft, revoked, remembered, configVars, callbackVars,
                   deviceVars>>

StoreWritten ==
    /\ At("write")
    /\ FileWrite(run.tok)
    /\ Stored
    /\ remembered' = (remembered \/ Renewable)
    /\ UNCHANGED <<certLeft, revoked, configVars, callbackVars, deviceVars>>

\* The file cannot be read, parsed, opened or written: a warning.
StoreFails ==
    /\ run.pc \in {"store", "write"}
    /\ Stored
    /\ remembered' = FALSE
    /\ UNCHANGED <<certLeft, revoked, cacheVars, configVars, callbackVars,
                   deviceVars>>

-----------------------------------------------------------------------------
(* Authenticate and AuthenticateDevice *)

\* --device-code decides which flow it is; the flag is chosen here, where it
\* is looked at.
DiscoverOK ==
    /\ At("discover")
    /\ run.ctx > 0
    /\ Go("listen") \/ Go("request")
    /\ UNCHANGED <<certLeft, revoked, remembered, cacheVars, configVars,
                   callbackVars, deviceVars>>

\* Discovery fails, a listen address is taken, or no device code is given.
AuthRefused ==
    /\ run.pc \in {"discover", "listen", "request"}
    /\ Failed
    /\ UNCHANGED <<certLeft, revoked, remembered, cacheVars, configVars,
                   callbackVars, deviceVars>>

OpenBrowser ==
    /\ At("listen")
    /\ Listen
    /\ Go("wait")
    /\ UNCHANGED <<certLeft, revoked, remembered, cacheVars, configVars,
                   deviceVars>>

\* A request to the callback server, for as long as it is up.  What it
\* carries matters until one result was received.
Callback ==
    /\ \/ ErrorCallback
       \/ At("wait") /\ CodeCallback("own")
       \/ CodeCallback("foreign")
    /\ UNCHANGED <<run, certLeft, revoked, remembered, cacheVars, configVars,
                   deviceVars>>

\* The state of the result is compared with this attempt's.
GotResult ==
    /\ At("wait")
    /\ ReceiveResult
    /\ Go(IF Head(results) = "own" THEN "code" ELSE "shutdown")
    /\ UNCHANGED <<certLeft, revoked, remembered, cacheVars, configVars,
                   deviceVars>>

GotError ==
    /\ At("wait")
    /\ ReceiveError
    /\ Go("shutdown")
    /\ UNCHANGED <<certLeft, revoked, remembered, cacheVars, configVars,
                   deviceVars>>

WaitTimeout ==
    /\ At("wait")
    /\ run.ctx = 0
    /\ Go("shutdown")
    /\ UNCHANGED <<certLeft, revoked, remembered, cacheVars, configVars,
                   callbackVars, deviceVars>>

\* newStoredToken.
NewToken(g) == [left |-> TokenTTL, id |-> g.id,
                rt |-> IF g.rt THEN "current" ELSE "none"]

CodeOK(g) ==
    /\ At("code")
    /\ run.ctx > 0
    /\ revoked = -1
    /\ run' = [run EXCEPT !.pc = "shutdown", !.tok = NewToken(g)]
    /\ UNCHANGED <<certLeft, revoked, remembered, cacheVars, configVars,
                   callbackVars, deviceVars>>

CodeFails ==
    /\ At("code")
    /\ Go("shutdown")
    /\ UNCHANGED <<certLeft, revoked, remembered, cacheVars, configVars,
                   callbackVars, deviceVars>>

\* The deferred Shutdown, after an attempt of any outcome.
AuthReturns ==
    /\ At("shutdown")
    /\ Shutdown
    /\ IF run.tok = NoToken THEN Failed ELSE Go("store")
    /\ UNCHANGED <<certLeft, revoked, remembered, cacheVars, configVars,
                   deviceVars>>

RequestOK ==
    /\ At("request")
    /\ run.ctx > 0
    /\ DeviceCode
    /\ Go("poll")
    /\ UNCHANGED <<certLeft, revoked, remembered, cacheVars, configVars,
                   callbackVars>>

PollOK(g) ==
    /\ At("poll")
    /\ ~CodeExpired
    /\ run.ctx > 0
    /\ revoked = -1
    /\ DeviceDone
    /\ run' = [run EXCEPT !.pc = "store", !.tok = NewToken(g)]
    /\ UNCHANGED <<certLeft, revoked, remembered, cacheVars, configVars,
                   callbackVars>>

PollAgain ==
    /\ At("poll")
    /\ ~CodeExpired
    /\ run.ctx > 0
    /\ Pending \/ SlowDown
    /\ Go("pause")
    /\ UNCHANGED <<certLeft, revoked, remembered, cacheVars, configVars,
                   callbackVars>>

\* The code expired, the request failed, or the provider denies.
PollFails ==
    /\ At("poll")
    /\ DeviceDone
    /\ Failed
    /\ UNCHANGED <<certLeft, revoked, remembered, cacheVars, configVars,
                   callbackVars>>

PauseOver ==
    /\ At("pause")
    /\ pause = 0
    /\ Go("poll")
    /\ UNCHANGED <<certLeft, revoked, remembered, cacheVars, configVars,
                   callbackVars, deviceVars>>

PauseTimeout ==
    /\ At("pause")
    /\ run.ctx = 0
    /\ DeviceDone
    /\ Failed
    /\ UNCHANGED <<certLeft, revoked, remembered, cacheVars, configVars,
                   callbackVars>>

-----------------------------------------------------------------------------
(* The exchange and the talosconfig *)

\* Mutant of ServerAccepts: it goes by the client's idea of the expiry.
ServerAcceptsExpired(t) == t.id # NoID

\* The server checks exp of the ID token.
ServerAccepts(t) == t.id > 0

ExchangeOK ==
    /\ At("exchange")
    /\ run.ctx > 0
    /\ ServerAccepts(run.tok)
    /\ run' = [run EXCEPT !.pc = "config", !.tok = NoToken, !.via = "auth",
                          !.new = CertTTL]
    /\ UNCHANGED <<certLeft, revoked, remembered, cacheVars, configVars,
                   callbackVars, deviceVars>>

\* The server refuses or cannot be reached.
ExchangeFails ==
    /\ At("exchange")
    /\ Failed
    /\ UNCHANGED <<certLeft, revoked, remembered, cacheVars, configVars,
                   callbackVars, deviceVars>>

\* The file of --server-ca cannot be read: this ends a watch as well.
NoServerCA ==
    /\ At("exchange")
    /\ Exit
    /\ UNCHANGED <<certLeft, revoked, remembered, cacheVars, configVars,
                   callbackVars, deviceVars>>

Load ==
    /\ At("config")
    /\ IF run.kind = "logout" THEN LoadAndRemove(Self) ELSE LoadAndSet(Self)
    /\ Go("save")
    /\ UNCHANGED <<certLeft, revoked, remembered, cacheVars, callbackVars,
                   deviceVars>>

\* Loading fails or the answer lacks a part (this ends a watch as well), or
\* there is nothing to remove.
LoadEnds ==
    /\ At("config")
    /\ Exit
    /\ UNCHANGED <<certLeft, revoked, remembered, cacheVars, configVars,
                   callbackVars, deviceVars>>

SaveStep ==
    /\ At("save")
    /\ OpenTmp(Self) \/ WriteTmp(Self)
    /\ UNCHANGED <<run, certLeft, revoked, remembered, cacheVars,
                   callbackVars, deviceVars>>

\* A watch pauses for ten seconds, less than a tick.
Saved ==
    /\ At("save")
    /\ Rename(Self)
    /\ certLeft' = IF Own[Self] \in tmp.contexts THEN run.new ELSE 0
    /\ IF run.kind = "watch" THEN Sleep(0) ELSE Exit
    /\ UNCHANGED <<revoked, remembered, cacheVars, callbackVars, deviceVars>>

\* This ends a watch as well.
SaveFails ==
    /\ At("save")
    /\ OpenFails(Self) \/ WriteFails(Self) \/ RenameFails(Self)
    /\ Exit
    /\ UNCHANGED <<certLeft, revoked, remembered, cacheVars, callbackVars,
                   deviceVars>>

-----------------------------------------------------------------------------
(* logout *)

StartLogout ==
    /\ At("off")
    /\ run' = [Off EXCEPT !.pc = "delete", !.kind = "logout"]
    /\ UNCHANGED <<certLeft, revoked, remembered, cacheVars, configVars,
                   callbackVars, deviceVars>>

DeleteFromKeychain ==
    /\ At("delete")
    /\ KeychainDelete
    /\ Go("deleteFile")
    /\ remembered' = FALSE
    /\ UNCHANGED <<certLeft, revoked, configVars, callbackVars, deviceVars>>

DeleteFromFile ==
    /\ At("deleteFile")
    /\ FileRemove
    /\ Go("config")
    /\ UNCHANGED <<certLeft, revoked, remembered, configVars, callbackVars,
                   deviceVars>>

DeleteTruncates ==
    /\ At("deleteFile")
    /\ file # NoToken
    /\ FileTruncate
    /\ Go("deleteWrite")
    /\ UNCHANGED <<certLeft, revoked, remembered, configVars, callbackVars,
                   deviceVars>>

\* An error of the write, like every error of Delete, is only logged.
DeleteRewrites ==
    /\ At("deleteWrite")
    /\ FileRewrite \/ UNCHANGED cacheVars
    /\ Go("config")
    /\ UNCHANGED <<certLeft, revoked, remembered, configVars, callbackVars,
                   deviceVars>>

-----------------------------------------------------------------------------
(* The environment *)

\* The process is killed.
Crash ==
    /\ ~At("off")
    /\ Exit
    /\ remembered' = (remembered /\ run.pc \notin {"store", "write"})
    /\ Die(Self)
    /\ Closed
    /\ DeviceDone
    /\ UNCHANGED <<certLeft, revoked, cacheVars>>

\* External: the user's sessions and refresh tokens are revoked, and no new
\* login is granted.
Revoke ==
    /\ revoked = -1
    /\ revoked' = 0
    /\ remembered' = FALSE
    /\ UNCHANGED <<run, certLeft, cacheVars, configVars, callbackVars,
                   deviceVars>>

\* A request ends after 15 or 30 seconds; those of a round together take less
\* than a tick.
Tick ==
    /\ run.pc \notin LocalPCs
    /\ run.pc \in RequestPCs => ~run.late
    /\ run' = [run EXCEPT !.ctx = Down(@), !.nap = Down(@), !.new = Down(@),
                          !.tok = Aged(@), !.late = run.pc \in RequestPCs]
    /\ AgeCache
    /\ certLeft' = Down(certLeft)
    /\ revoked' = IF revoked \in {-1, Window} THEN revoked ELSE revoked + 1
    /\ pause' = Down(pause)
    /\ codeLeft' = Down(codeLeft)
    /\ UNCHANGED <<interval, remembered, configVars, callbackVars>>

\* Steps of the command itself; at every pc but "off" one of them will be
\* possible, at the latest when a timeout has passed.
Command ==
    \/ WakeUp \/ StillValid \/ NeedsRenewal \/ CheckFails \/ PlainHTTP \/ LookUp
    \/ RefreshDiscoverOK \/ RefreshFails \/ RefreshRefused \/ RefreshLost
    \/ \E g \in RefreshGrants : RefreshOK(g)
    \/ StoreInKeychain \/ StoreInFile \/ StoreWritten \/ StoreFails
    \/ DiscoverOK \/ AuthRefused \/ OpenBrowser \/ GotResult \/ GotError
    \/ WaitTimeout \/ CodeFails \/ AuthReturns
    \/ RequestOK \/ PollAgain \/ PollFails \/ PauseOver \/ PauseTimeout
    \/ \E g \in AuthGrants : CodeOK(g) \/ PollOK(g)
    \/ ExchangeOK \/ ExchangeFails \/ NoServerCA
    \/ Load \/ LoadEnds \/ SaveStep \/ Saved \/ SaveFails
    \/ DeleteFromKeychain \/ DeleteFromFile \/ DeleteTruncates
    \/ DeleteRewrites

Next ==
    \/ \E kind \in {"login", "watch"} : StartLogin(kind)
    \/ StartLogout
    \/ Command
    \/ Callback
    \/ Crash
    \/ Revoke
    \/ Tick

Spec == Init /\ [][Next]_vars

\* A process that can run does, and time passes.
Fairness == WF_vars(Command) /\ WF_vars(Tick)

FairSpec == Spec /\ Fairness

-----------------------------------------------------------------------------
(* Properties *)

\* A login without --watch ends: the deadline of the round reaches the wait
\* for the browser and the pauses between polls, however often the provider
\* says slow_down, and Shutdown does not wait for callback handlers that
\* block on a channel nobody reads any more.
LoginReturns ==
    run.kind \in {"login", "logout"} ~> run.kind \notin {"login", "logout"}

\* The provider, the server or the user fail a command that is in time, are
\* slow to answer a request or let the deadline of its round pass.
InTime == run.ctx > 0
Fault ==
    \/ InTime /\ (RefreshFails \/ RefreshLost \/ AuthRefused \/ CodeFails)
    \/ InTime /\ ~CodeExpired /\ PollFails
    \/ InTime /\ At("exchange") /\ ServerAccepts(run.tok) /\ ExchangeFails
    \/ \E g \in AuthGrants : g.id = NoID /\ (CodeOK(g) \/ PollOK(g))
    \/ Callback /\ (errs' > 0 \/ "foreign" \in Range(results'))
    \/ Tick /\ (run.pc \in RequestPCs \/ run.ctx = 1)

\* Once such faults end, a watch comes to a valid certificate and does so
\* again and again: tokens the server refuses, spent refresh tokens, grants
\* that lack a part and everything left over from failed rounds do not keep
\* it from renewing, unless access was revoked.
WatchRenews ==
    <>[][~Fault]_vars =>
      (run.kind = "watch" ~> (certLeft > 0 \/ run.kind # "watch" \/ revoked # -1))

\* After access was revoked at the provider, a certificate is valid for no
\* longer than an ID token and a certificate live: cached tokens are used for
\* exchanges until they expire, by this command or a later one, and no
\* refresh or login makes new ones.  The README promises less than that:
\* AccessEndsWithCertificate.
RevocationWindow ==
    revoked = Window => certLeft = 0

\* What src/README.md says of revocation (Certificate Revocation Strategy): it
\* stops the watch loop and any later login from renewing the certificate, so
\* access ends with the certificate, cert_ttl later at most.  It does not:
\* obtainIDToken takes a cached ID token that has not expired, without asking
\* the provider, and the server accepts it.
AccessEndsWithCertificate ==
    revoked >= CertTTL => certLeft = 0

\* The user is not asked to log in again while the refresh token works: once
\* a login gave one, only a fault or a revocation leads back to the browser.
AskedOnlyAfterFault ==
    run.pc \in AuthPCs => ~remembered

\* Commands that fail or are killed at any step leave a talosconfig that
\* parses and has the contexts of other clusters.
ConfigIntact == ConfigWhole

\* A command changes the talosconfig and the certificate in it in one step or
\* not at all, and in the way ClientAccess says: its own context, the selected
\* one and the fields the program does not know, whatever fails, times out or
\* is killed on the way and whatever earlier commands left in caches and files.
Access == INSTANCE ClientAccess WITH Mine <- Own[Self], config <- conf

ImplementsClientAccess == Access!Spec
=============================================================================
