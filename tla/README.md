# talosctl-oidc in TLA+

`talosctl-oidc` lets people log in to a Talos cluster with an OpenID Connect
provider. A login command obtains an ID token, posts it to `/exchange` of a
server, and receives a short-lived client certificate that carries Talos roles,
which it saves in the user's talosconfig; with `--watch` it keeps that renewed.
The server holds the one credential that can mint certificates, so its endpoint
decides who becomes what in the cluster, for how long, and what is written down
about it.

This directory holds TLA+ modules of both sides, the TLC configurations that
model-check them on small instances, and TLAPS proofs of the main theorems.
`PROJECT.json` maps every definition to the source lines it models and lists
runs, hazards, findings and theorems.

    tlc -workers 2 -config MCRateLimiter.cfg MCRateLimiter      # a run
    tlapm RateLimiterProofs.tla                                 # a proof

## 1. Inventory

| Component | Source | State | Operations |
|---|---|---|---|
| Rate limiter | `pkg/ratelimit` | map key -> client object, a stamp list per object, two locks | `Allow`, `Cleanup`, `Middleware`, `extractIP` |
| Address allowlist | `pkg/allowlist` | none (parsed networks) | `Allowed`, `Middleware`, `extractIP` |
| JWKS cache, discovery | `pkg/oidc/jwks_cache.go`, `provider.go`, `server.go:711-739` | key set, fetch time, lock; the lazily discovered cache, its lock | `Get`, `jwksCacheForIssuer`, `Discover` |
| ID token validation | `pkg/oidc/jwt.go` | none | `ValidateIDToken` |
| RBAC, default roles | `pkg/rbac`, `config.go:265-269` | none | `MapRoles`, `ApplyDefaults` |
| Exchange endpoint | `server.go:584-700` | local to each request | `handleExchange` |
| Talos API client | `pkg/talosapi` | the certificates that exist | `GenerateClientConfiguration` |
| Audit logger, tracker, certificate log | `pkg/audit`, `pkg/admin` | files, counters, live certificates, recent events | `Log`, listeners, `Stats`, `ActiveCertificates` |
| Server life cycle | `server.go`, `cmd/serve.go` | up, draining, down | `Start`, signal, `Shutdown` |
| Certificate reloader | `server/certreload.go` | pair in memory, file stamps, `lastCheck`, lock | `GetCertificate`, `refresh`, `load` |
| Self-signed store | `server.go:255-470` | four PEM files, CA handed out, pair served | load or generate at `Start` |
| Admin dashboard, admin API | `server/admin_dashboard.go`, `server.go` | sessions, failed attempts, lockouts | login, dashboard, logout, bearer check |
| Browser login, callback server | `oidc/auth.go` | listeners, two result channels, blocked handlers | `Authenticate`, `handleCallback`, `WaitForCallback`, `Shutdown` |
| Device flow | `oidc/provider.go:262-366` | interval, pause, deadline | `RequestDeviceCode`, `PollDeviceToken` |
| Login and logout commands | `cmd/login.go`, `cmd/logout.go` | the round and its deadline, the token and certificate in hand | `runLogin`, `obtainIDToken`, `exchangeTokenForCert`, `runLogout` |
| Token cache | `pkg/keychain` | keychain entry, `tokens.json` | `Store`, `Retrieve`, `Delete` |
| talosconfig | `pkg/talosconfig` | the file, its temporary file | `Load`, `Save`, set, remove, expiry |
| Anomaly detector | `pkg/anomaly` | per-user history | not constructed by the server |
| Configuration, CLI output, mock API, chart, CI | rest | none | |

### How they interact

A request to `/exchange` passes the rate limiter, then the allowlist, then
`handleExchange` (163-169: the limiter is the outermost layer), all in the goroutine of
its connection. The handler obtains
the key cache (discovering the provider if no request before it succeeded),
validates the token against the cached keys, maps its claims to roles, calls the
Talos API, writes the response and logs. `audit.Log` calls its listeners
synchronously: the certificate log (a file) and the admin tracker (memory). The
dashboard and the admin API read the tracker. `Cleanup` of the limiter runs on a
ticker in a goroutine of its own. TLS handshakes call the certificate reloader
concurrently with everything else, and another process (cert-manager, an
operator) rewrites the files it reads. On the user's machine `login` is a process of
its own: it meets other logins in two files only, the talosconfig and the token
cache, the provider and the server by requests, and the browser in the callback
server it runs while it waits. SIGTERM starts a graceful shutdown with a
deadline, after which the logs are closed whatever still runs.

### What is hard, and what makes each component correct

- **Limiter.** `Allow` reads the clock before it waits for two locks; it drops
  the map's lock before it takes the object's; `Cleanup` reads a slice's length
  after it unlocked the object. Correct: no window holds more admissions than the
  limit, nobody is refused who had not used it up, the map does not grow forever.
- **JWKS cache.** A read lock, then a write lock with a second look, held across
  a network call that may fail. Correct: a withdrawn key dies within a bound, key
  sets never go back in time, one fetch per TTL, an outage after the first fetch is
  invisible, no caller waits forever.
- **Token validation, RBAC, addresses.** Sequential decisions over data an
  outsider controls: algorithm and key choice, claims at their boundary, header
  parts written by the client, rules in any order. Correct: accepted means
  genuine; roles are exactly those of the matching rules; the address used is one
  that a trusted hop saw, where the trusted hops write into the header line that is read.
- **Exchange, logs, life cycle.** Many returns, each with its event; a failed
  write nobody hears of; a Talos API that may mint and lose the answer; shutdown
  and crash between two steps. Correct: no certificate without an authorised
  request behind it, one outcome per request in the audit file and in order,
  consistent statistics, the certificates shown are the ones that live.
- **Reloader.** Two files replaced one after the other while they are stat'ed
  and read. Correct: a stale pair is served for a bounded time, and the files are
  looked at once per interval however many handshakes arrive.
- **Self-signed store.** Four writes that may fail or be cut short, and none is synced.
  Correct: the CA handed to clients issued the certificate served, and stays the same
  between renewals, as long as no power loss changes a file.
- **Dashboard.** A check, a comparison and a record in three critical sections,
  and stores created by whoever comes first. Correct: guesses per address are
  bounded, only holders of the token see the page, an address is refused only for
  failures recorded under it. (Addresses are claimed: `getClientIP` believes
  `X-Forwarded-For` from anyone, so who claims another's address can lock it out.)
- **Login side.** Callbacks, an error and a deadline race for one receive; polls
  go on under two deadlines; tokens are in two stores and may lack a part, be
  spent, or be believed valid by the client and refused by the server; a command
  may end at any step and leave truncated files. Correct: a login returns, a watch
  comes back to a valid certificate once faults end, nobody is asked to log in
  while the refresh token works, access ends a bounded time after it was revoked, the
  talosconfig keeps the contexts of other clusters with their endpoints, certificates and
  nodes.

`PROJECT.json` "hazards" lists these one by one at their lines, with the
property that would catch each.

## 2. Modules

| Module | Models | Extends or uses |
|---|---|---|
| `RateLimiter` | `Allow`, `Cleanup` and their locks | `SlidingWindow` |
| `SlidingWindow` | abstract: what a client object of the limiter promises | |
| `JWKSCache` | `jwksCacheForIssuer`, `Get`, the provider | `KeyService` |
| `KeyService` | abstract: what the cache promises its callers | |
| `ClientAddress` | `extractIP`, both copies | |
| `RoleMapping` | `matchesValue`, `MapRoles`, the default role | |
| `AccessPolicy` | hops and rules one at a time, over the two above | `ClientAddress`, `RoleMapping` |
| `TokenValidation` | `ValidateIDToken` as a predicate | |
| `TokenLife` | one token against rotating keys and time | `TokenValidation` |
| `Exchange` | the endpoint, its logs and the life of the process | `ClientAddress`, `RoleMapping`, `CertService` |
| `CertService` | abstract: what the endpoint promises the client and the reader of its logs | |
| `CertReloader` | `newCertReloader`, `GetCertificate`, `refresh`, `load` | |
| `SelfSigned` | load or generate at start, file by file | |
| `AdminDashboard` | login, dashboard, logout, API | |
| `CallbackServer` | the callback server and its channels | |
| `DevicePolling` | `PollDeviceToken` | |
| `TokenCache` | `keychain` and `tokens.json` | |
| `TalosConfig` | the file and the processes that save it | |
| `Login` | login, watch, logout: control and environment | the four above, `ClientAccess` |
| `ClientAccess` | abstract: what the commands promise the user | |
| `RateLimiterProofs`, `JWKSCacheProofs`, `ExchangeProofs`, `LoginProofs`, `CertReloaderProofs`, `SelfSignedProofs`, `AdminDashboardProofs` | theorems | the module named, TLAPS |
| `AccessProofs` | theorems | `TokenLife`, `AccessPolicy`, TLAPS |
| `MC...` | constants, symmetry | the module named |

### RateLimiter

`clients` is the map; `log[c]` is the history of an object's admissions and
`live[c]` the positions of it that are still in `c.timestamps`; `cmu` holds the
objects' mutexes. A handler follows `Allow`: it reads `now` (line 85), looks its
key up or allocates (87-94), drops the map's lock, waits for the object (96), prunes
(99-106), then refuses or appends (108-118). The map's lock is held
within single steps of `Allow`, and by `Cleanup`, whose local state is `sweep`, over
its whole loop: it takes each object in turn and tests `len(c.timestamps)` after it
unlocked (207). The Retry-After value is not modelled. Time is a count of ticks;
`MaxDelay` bounds how long a call may take between line 85 and its verdict, because
stamps are only as good as the clock read before the wait. Two history variables name
what the properties are about: `owner[c]` is the key an object was allocated for, and
`raced` the keys whose entry `Cleanup` deleted while a call held the object (208).

### SlidingWindow

The promise of one client object: a request is admitted, in one step, only while fewer
than `Requests` admissions carry a stamp of the last `Window` ticks; the stamp it gets is
at most `MaxDelay` old. `RateLimiter` implements it for all objects at once
(`ImplementsSlidingWindow`); the locks, the map and the slice are hidden.

### JWKSCache

`keys` is the version of the key set the provider serves, and grows with each
rotation. `discovered` and `discMu` are the server's lazily created cache and its
mutex; `jwks`, `fetchedAt` and `mu` are the cache and its lock. Discovery and fetch
are steps that start, and end in success or failure; the provider picks the
version it answers with somewhere in between (`ProviderAnswer`, `resp`), so an
answer may be outdated when it arrives. A fetch lasts `FetchTimeout` ticks at
most. A failed fetch returns the old set if there is one (52-56).

### KeyService

The promise of the cache in four variables, without discovery, locks or requests: the
key sets the provider had, the set that is served, and what each call gets. In one
step a served set is replaced by one that is not older and was current at most
`TTL + FetchTimeout` ago (`Give`), or is handed out again; without a served set a
call may fail, with one it may not. `JWKSCache` implements it
(`ImplementsKeyService`) under the refinement mapping that takes `served` to `jwks`
and `answer` to `ret`.

### ClientAddress, RoleMapping, AccessPolicy

`extractIP` walks `X-Forwarded-For` from the right while the hop is trusted, but only
its first line: `Header.Get` returns no other (`Get`). A header is therefore its parts,
how many of them are in the first line, and the number of lines.
`AccessPolicy` lets a request travel over up to `MaxHops` hops, where the client
writes any header it likes, in up to two lines, and each proxy adds the peer it saw: the
proxies in `Merging` to the one line they send on (nginx), the others as a line of
their own (HAProxy's `option forwardfor`). It also grows a rule list one rule at a time. CIDR arithmetic is set membership; role names,
claims and patterns are model values. The two parts share nothing, so a behaviour
explores one of them; `MCAccessPolicy` adds `TokenLife` as a third.

### TokenValidation, TokenLife

`TokenValidation` is the conjunction of every check in `ValidateIDToken`, in
terms of a token record (algorithm, kid, signer, claims that may be absent or of the wrong
type). Signature verification is modelled by what it decides: the token was
signed with the private half of the key tried. `findKey` picks a key the way the
code does, one only. `TokenLife` moves time and rotates the keys under a token.

### Exchange

`pc[r]` is where the handler of request `r` is; every early return is a step that
writes `status[r]` and logs its event. `cert[r]` is the certificate the Talos API
really minted for it, which the handler may never hear of (`TalosMint`, `IssueOK`,
`IssueFail`). `auditFile` and `certLog` are the files, whose writes may fail
unnoticed; `heard` is what the listeners got since the start; `tracker` is the
record list with its counters, pruned by readers. Whether a token is valid and
whether the limiter admits is chosen freely: `TokenLife`, `JWKSCache` and
`RateLimiter` say how that comes about. `SigTerm`, `ShutdownDone`,
`ShutdownTimeout`, `Crash` and `Restart` are the process. Memory dies with it, files
stay.

`CertService` is what remains of this from outside: the requests sent, the certificates
that exist, the answers and the two files. A request is refused, rejected, failed or
delivered once; it gets at most one certificate, and only if its kind is entitled to one;
a line is appended when it is true or is lost. `Exchange` implements it
(`ImplementsCertService`) with the same variables, where the entitled kinds are those that
pass the checks of `handleExchange` and the roles those of `RolesFor`. Program counters,
listeners, tracker, pruning, shutdown, crash and restart are stutters.

### CertReloader

The two files carry a generation and a stat stamp each; another process writes,
swaps or removes them at any moment, between any two reads of `load`. The lock
is held across stat, read and install, as in the code. Two writes always have
different stamps (size and modification time): a filesystem with a coarse clock
could break that, and then the code would miss the change.

### SelfSigned

`disk` maps the four files to a generation, `Missing` or `Torn`: what programs read, from
the page cache. `medium` is what each file may contain after a power loss. A start loads
them (`LoadOK`, `LoadError`, `LoadNone`), generates when they are missing or near
expiry, and writes file by file, each truncated before it is written; when the
directory or a write fails the server serves the new generation from memory. Without
`DataDir` everything is in memory. The process may die between any two steps (`Crash`):
the machine runs on and every completed write stays. It is different when the machine
loses power (`PowerLoss`): `os.WriteFile` does not sync (317), so each file keeps any of
the contents it had since it last reached the medium, in no order: an older generation,
nothing, or an empty file. `integrity` is "damaged" from a power loss that changed a file
to the next time all four are written or removed; `CAVouches` and `CAStable` promise
nothing in between. The system writes its cache back within a tick, and a start takes
no time compared with a certificate's life. Operators may clear the whole directory; a single file
removed by hand is not modelled (removing `ca.crt` alone and crashing during the
rewrite can leave a mismatched set).

### AdminDashboard

Each handler is a program counter through login (lockout check, comparison,
record, session creation), the page, logout or the API. Both tables are created
by the first handler that finds them nil, without a lock (255, 283): two first
handlers may each install one, and the loser's sessions and failures vanish. The
guesses are counted per table in use, and `SessionsKept` holds once no handler is
about to install a table: the code gives no more, and no property would notice what the
race loses. An address is what `getClientIP` makes of the headers, whoever wrote them:
`GuessesBounded` bounds the guesses under one claimed address (a client that changes it
starts anew), and `LockoutJustified` speaks of failures recorded under that address, whoever
made them.

### TalosConfig

`conf` and `tmp` are the files `<path>` and `<path>.tmp`; a content is the selected
context, the contexts, and which of them have `nodes` or fields that the structs of
`talosconfig.go:17-29` lack (`extra`); or it is `Garbled`. A process loads the file into
`mem`, where the unknown fields of every context are gone (`Loaded`), and there sets its own
context, which drops that context's nodes and selects it (`SetContextFromPEM`), or removes it,
which selects none if it was the selected one (`RemoveContext`). `Save` truncates the temporary file (`OpenTmp`), writes it
(`WriteTmp`) and renames it. `handle` is the file a process has open: a rename moves
it along, as POSIX does, so a late write may land in the talosconfig itself.
Each step may fail, and a process may die between any two. What remains in the
temporary file is forgotten once nobody can rename it any more: the next `OpenTmp`
truncates it. Fields the program does not know at the top of the file are lost in the
same way and are not modelled apart.

### TokenCache

One context's token in the two stores. A token is what the code tells apart: whether the
client believes it valid (`left`), how long its ID token is (`id`, or none), and
whether it has a refresh token that the provider still takes (`rt`). `fileLater`
stands for the comparison of the two `ExpiresAt`. A write of `tokens.json`
truncates first; what a killed process leaves does not parse (`Torn`), fails every
later `fileStore` and `fileDelete`, and is skipped by `Retrieve`. Either store may be
unreadable at any time: then `Retrieve` sees the other one only.

### CallbackServer and DevicePolling

`results` and `errs` hold what was sent, or waits to be sent, on the two channels;
beyond the buffers (1, and one more than there are listeners) the handlers block.
`WaitForCallback` receives once. A callback is this attempt's own or a foreign one,
whose state differs. `Shutdown` waits five seconds and leaves blocked handlers behind.
`interval`, `pause` and `codeLeft` are `PollDeviceToken`'s interval, `time.After` and
deadline; a poll is one step, at the time of its answer.

### Login

`run` is the running command: its program counter and the locals that survive a step
(`ctx`, what is left of the five minutes; `tok`; `new`, the certificate received). One
action per call that can fail or be interrupted, in the order of `runLogin`: the check
of the talosconfig (116-154), the cache (298-308), discovery and refresh (317-355), the
flow chosen by `--device-code` (360-402), the exchange (166-194), load, set and save
(198-219), then the sleep of a watch or the end. `logout` deletes from keychain and file
and removes the context. A failed round ends a login and makes a watch sleep for a
minute; a plain-HTTP URL, an unreadable server CA and talosconfig errors end both. `Crash`
ends any command at any step and the files stay.

The environment: the provider grants any of `AuthGrants` or `RefreshGrants` (with or
without ID token and refresh token), rotates refresh tokens, loses answers
(`RefreshLost`) and may revoke access for good (`Revoke`); the server refuses ID
tokens past `exp` and may fail; the user may send callbacks of any kind or none.
Commands run one after the other; two at once share only files, which is
what `TalosConfig` is for. All tokens of one kind live equally long, so "the newer token
wins" is a comparison of `left`; calls to the keychain are instantaneous. What a command
has written survives it, as files do when a process dies; a power loss, which could undo an
unsynced write, is not modelled here. Steps without a request or a user take no time, and the
requests of a round together less than one, so they see the clock move once at most
(`late`).

### ClientAccess

What the user and the cluster see of the commands: the talosconfig, how long the
certificate in it is valid, and how long ago access was revoked. A login or a
round of a watch sets the context, a whole certificate and the selection in one step, a
logout removes the context and, if it was selected, the selection. Every other context
stays, with its endpoints, certificate and nodes; the fields the program does not know are
dropped from all of them in that step. Nothing is renewed an ID token's life after
the revocation. `Login` implements it (`ImplementsClientAccess`): token stores, flows,
deadlines, temporary files, failures and kills are all stutters or one of these steps.

## 3. Runs

Every passing run checks deadlock except `access` (each of its three parts is a finite
enumeration that ends) and `exchange` (a server that stays down is a legal end).

| Run | Shows | Bounds |
|---|---|---|
| `limiter` | window per key but for the race of finding 1, refinement of `SlidingWindow` per object, justified refusals, idle entries reclaimed | 2 threads, 2 keys, 3 objects, limit 1, window 2, delay 1, 4 instants, 3 calls |
| `limiter_orphan` | finding 1 | the same, 1 key, no delay |
| `jwks` | bounded revocation, no regression, one refresh per TTL, outages, every `Get` returns, refinement of `KeyService` | 2 threads, TTL 2, timeout 1, 2 key sets, 5 instants |
| `access` | accounted address; granted roles; tokens genuine, no lockout, no resurrection | 4 hops, every header of up to 2 parts in up to 2 lines, a merging and an adding trusted proxy; 3 rules in every order; every algorithm, kid, signer and claim shape against every key set, 5 instants |
| `token_hmac` | finding 2 | the tokens of `access` |
| `exchange` | the whole endpoint (next table), refinement of `CertService` | 2 requests, lifetime 1, 3 instants, 2 boots |
| `reloader` | bounded staleness, one check per interval | 2 handshakes, interval 2, 3 writes, 5 instants |
| `admin` | bounded guesses, page for admins only, justified lockouts, sessions kept | 2 handlers, 2 addresses, 2 attempts, 2 sessions, 5 instants |
| `selfsigned` | CA vouches, stable, fresh at start | life 2, renewal 1, 3 generations, 5 instants |
| `login` | a login returns, a watch renews, asked only when needed, bounded access after revocation, talosconfig intact, refinement of `ClientAccess` | one process, token 2, ID token 1, certificate 2, threshold 2, round 2, device code 2 ticks, 2 callbacks per attempt; at first another context, with nodes and unknown fields, is selected |
| `login_revocation` | finding 3 | the same, ID token 2, like the certificate |
| `talosconfig_tmp` | finding 4 | two processes, a context each, a third context |

| Property | Says |
|---|---|
| `KeyWindow` | a key gets at most `Requests` admissions in any `Window - MaxDelay` ticks, over all the objects it ever had, unless `Cleanup` deleted its entry under a call |
| `ImplementsSlidingWindow` | whatever the interleaving, an object decides atomically about the window at the time of its verdict |
| `DenialJustified` | a refusal happens only when `Requests` admissions of the same key lie in the call's window |
| `IdleEntryReclaimed` | the entry of a key that stays idle goes away |
| `RevocationBounded` | without a failed fetch, no `Get` returns a set that was withdrawn `TTL + FetchTimeout` ago or longer |
| `NoKeyRegression` | no handler gets an older set than one already handed out |
| `RefreshOncePerTTL` | successful fetches are at least a TTL apart |
| `OutageTolerated` | after a first success `Get` does not fail |
| `ImplementsKeyService` | whatever the interleaving, callers see one atomic key service |
| `SpoofResistant` | a request is accounted to the last hop that is not a trusted proxy, whatever the client wrote, provided that hop's address is in the first header line: one of the trusted proxies behind it merges the lines, or the client sent no header to them, or it is the peer itself |
| `LeastPrivilege`, `RulesAccumulate` | os:admin comes only from configuration that names it or from having configured nothing; without a match and a default there are no roles; a rule added behind one that matches never takes a role away |
| `Authentic`, `NoLockout`, `NoResurrection` | accepted implies signed by a key of the set, for this client, in its time; a good token whose key can be told apart is accepted; an expired one stays refused |
| `MintedOnlyForAuthorized` | a certificate exists only for an allowed address with a genuine token, with its roles and not none |
| `StatsConsistent`, `LiveCertListed` | never more outcomes than authentications; a live certificate it heard of is listed |
| `AuditTrailOrdered` | no event twice, no outcome before the authentication, never two outcomes, across restarts |
| `ImplementsCertService` | seen from the client and the files, each request is one entitled certificate at most and one answer, told truthfully, whatever is killed or lost in between |
| `CleanShutdownComplete` | a shutdown that waited for its handlers lost no event of a delivered certificate |
| `DeliveredIsHeard` | a delivery is announced to the listeners unless the process is killed |
| `ShutdownTerminates` | SIGTERM ends the process even if a Talos API call hangs |
| `StampHonest`, `StaleBounded`, `CheckedOncePerInterval` | stamps in memory never vouch for a pair that is not served; a handshake that begins an interval after the last change is served the pair in the files; two checks are an interval apart |
| `GuessesBounded`, `LockoutJustified` | per window a claimed address gets `MaxAttempts` wrong tokens compared in the table in use, and one for each other handler in flight; a lockout was earned by failures under that claimed address and ends |
| `OnlyAdminsSee`, `SessionsKept` | what a handler shows, it shows for a session that was live when its request began; once the stores are settled a session ends only by its own logout or its age |
| `CAVouches`, `CAStable`, `FreshAtStart` | while no power loss has changed a file, the CA handed out issued the certificate served, and once all four files were written every start serves that generation until its renewal date; in any case a start never serves a certificate near its expiry |
| `LoginReturns` | a login or logout ends, whatever the browser and the provider do: no blocked handler, no `slow_down` and no lost answer keeps it |
| `WatchRenews` | once faults end, a watch gets a valid certificate again and again, whatever the faults left in the caches, unless access was revoked; eventually, not before each expiry: an ID token that ends before `ExpiresAt` is sent again, and refused, until then |
| `AskedOnlyAfterFault` | after a login that gave a refresh token, the user is asked again only after a fault, a revocation or a logout |
| `RevocationWindow` | an ID token's and a certificate's life after the provider revoked access, no certificate is valid |
| `AccessEndsWithCertificate` | the same for a certificate's life alone, as `README.md` of the program says: false |
| `ConfigIntact`, `ConfigWhole` | the talosconfig parses and has the contexts nobody changes: true for commands one after the other, false for two at once |
| `ImplementsClientAccess` | seen from outside a command changes its own context, its certificate and the selection in one step, or not at all; other contexts keep all that the program knows of them |

**Why the bounds are enough.** Each hazard is a race of two actors, so two threads
show it; a third object lets an orphan, its replacement and another key's object
coexist. A limit of 1 with a window of 2 makes every boundary (stamp exactly at
the cutoff, quota exactly used) happen in four instants. Two key sets give the
answer of a slow fetch that is outdated when a faster one has the newer set. A life of two
ticks and three generations give a store a pair to keep, one to replace and the mixture
of two that an interrupted replacement leaves behind. Two requests and two boots give every overlap of
two handlers with a crash between them. In `login` a token that the client believes
valid for 2 ticks has an ID token valid for 1, so that cached tokens are refused; a
threshold equal to the certificate's life is the default (five minutes and five
minutes) and makes every round of a watch renew; two callbacks fill one channel and block a
handler. (A safety-only exploration with ID tokens of 2 ticks and 3 callbacks, 14
million states, found nothing more.) Each property's mutant in `PROJECT.json`
is a plausible bug that TLC finds within the same bounds, which is the evidence
that they are not too small.

**Time.** Clocks are the process's monotonic clock counted in ticks; several steps
may happen in a tick.

**Fairness.** Only four modules assume any.
`RateLimiter`: a handler that has pruned decides (weak: it holds its lock and
waits for nothing), and `Cleanup` is not starved (strong: the ticker fires again and
again, and Go mutexes hand over to a waiter of 1 ms).
`JWKSCache`: a network call ends, by the HTTP client's timeout (weak), and a
waiter gets its lock in the end (strong, for the same reason). `Exchange`: a handler
that can step does (weak), and `Shutdown` returns when its handlers are done or
its deadline passed (weak); nothing is assumed of the Talos API, whose calls
nothing but the shutdown deadline bounds, and nothing forces a signal or a crash.
`Login`: a command that can step does (weak), and time passes (weak). Nothing is
assumed of the user, the provider or the server: the deadlines end every wait. That a
watch renews needs them to work in the end; `WatchRenews` says so in its
premise (`<>[][~Fault]_vars`) instead of in a strong fairness of their answers.

## 4. Findings

1. **One key can exceed its limit** (`limiter_orphan`, `IPWindow`;
   `pkg/ratelimit/ratelimit.go:94`). `README.md:1096` promises a sliding window
   of N requests per address. `Allow` drops the map's lock before it takes the
   object's; `Cleanup` may delete the entry in between. The handler then
   admits through an object the map no longer holds, and the next handler through
   a fresh one.
   This race is the only way past the limit: `KeyWindow`, checked in the `limiter` run
   and proved, is the promise for every key that has not met it (up to `MaxDelay`, since
   `Allow` waits after it read the clock), and every single object keeps it always
   (`WindowHolds`).
2. **HMAC-signed tokens are never accepted** (`token_hmac`, `HMACTokenAccepted`;
   `pkg/server/server.go:760`). The client secret is documented as used to verify
   HMAC-signed tokens (`server.go:65`, `README.md:418`), but the server passes no
   algorithm allowlist and the default contains no HS algorithm.
3. **A revocation does not stop renewals at once** (`login_revocation`,
   `AccessEndsWithCertificate`; `cmd/login.go:305`). `README.md:1315` says that revoking the
   refresh token or session stops the watch loop and any later login from renewing,
   `README.md:1316` that the existing certificate is usable for at most `cert_ttl`, and
   `README.md:1325` that the window is bounded by the certificate TTL. A cached ID token
   that has not expired is taken without asking the provider, and the server validates it
   offline. In the run a login exchanges such a token after the revocation and has a
   certificate when `cert_ttl` has passed. What does hold is `RevocationWindow`: access
   ends an ID token's plus a certificate's life after the revocation.
4. **Two saves at once lose the talosconfig** (`talosconfig_tmp`, `ConfigWhole`;
   `pkg/talosconfig/talosconfig.go:78`). The comment at line 77 and `README.md:15`
   promise atomic updates. The temporary name is fixed, so two logins (two watches
   for two clusters renew every few minutes) share it: the first renames the file that
   the second has just truncated. Until the second write the talosconfig is empty,
   and a third command that loads it then saves a file without the other contexts; two
   writes that overlap leave a mixture. Every command on its own is atomic, as
   `ConfigIntact` says of the `login` run.

Observations without a run of their own. The response of an exchange is written before
`cert_issued` is logged (`server.go:681-683`), so a kill in between leaves a certificate
without an event; what holds is `DeliveredIsHeard` and `CleanShutdownComplete`. `keychain.Delete` returns no error, so `logout` reports the cached token
as cleared when it was not. A `tokens.json` that does not parse is never repaired.
The comment of `extractIP` (`ratelimit.go:119-127`) promises "the real client as seen by our
proxy chain", which "cannot be spoofed". Only the first header line is read, so behind
trusted proxies that each add a line of their own the client's line is the one in charge,
and the address it names is the rate-limit key and the one the allowlist tests.
`SpoofResistant` therefore asks that the last untrusted hop be in the first line
(`InFirstLine`). A command that saves the talosconfig drops the fields it does not know from
every context and selects its own; after a power loss `ca.crt` may be empty beside a whole
server pair, which the next start serves.

## 5. Proofs

Every theorem holds for all values of the constants under the named assumptions of
its module. No obligation is left open.

**`RateLimiterProofs`** (`ParamAssumption`, `NullAssumption`: numbers are
naturals, the limit and the window positive as `IsEnabled` and `New` ensure,
objects finitely many, the null values no members) proves
`TypeCorrect`, `WindowHolds`, `DenialsJustified`, `KeyWindowHolds` and the refinement
`LimiterImplementsSlidingWindow`. `ClientWindow` (of one object's admissions, the one
`Requests` places after another is `Window - MaxDelay` later) alone is not
inductive: an admission counts the stamps in the slice, so the step needs to know
what pruning may have dropped. `IInv` adds what a call in progress knows
(`CallOK`: it holds an object, and its clock is at most `MaxDelay` old), that the
slice is part of the log (`LiveOK`), that the log is in order and late by at most
`MaxDelay` (`LogOK`), that what left the slice has left the window (`Expired`),
that `Cleanup`'s cutoff is never ahead of the clock's and that it is at a key when it
looks at a length (`SweepOK`). The step
itself is a pigeonhole argument (`MissedPosition`): fewer than `Requests` live stamps
miss one of the last `Requests` admissions, which has therefore expired.
`DenialJustified` needs in addition that an object belongs to the key it was
allocated for (`RegistryOK`, `HeldOK`), and that the slice of an object whose
lock the deciding handler holds has just been pruned (`PrunedOK`).
`KeyInv` carries the limit from objects to keys: an object that is no longer its key's is
dead, with an empty slice that no call holds, unless the key was raced (`DeadOK`); an
object never handed out has an empty log (`FreshOK`); hence two objects of a key admitted
a window apart (`ApartOK`), and an interval shorter than that lies in one object, where
the least position in it bounds the others (`ObjectInterval`). The refinement needs
`Expired` alone: whatever still carries a stamp of the window is in the slice that
`Allow` counts.

**`JWKSCacheProofs`** (`CacheAssumption`: positive TTL, natural bounds, the null
thread is no thread) proves the type invariant, `RevocationIsBounded`,
`RefreshesOncePerTTL`, `KeysNeverRegress` and `OutagesTolerated`. The
strengthening `CInv` says that fetching and discovering are the same as holding the
lock in question (`WriterOK`), that without a cache nobody uses it
(`DiscoveryOK`), that nothing is dated in the future and a fetch runs into its
timeout (`ClockOK`), that a provider's answer is no older than the cached set and was
current when the fetch began or later (`AnswerOK`), and that the cached set was
current `FetchTimeout` before its stamp or later (`CacheOK`).
`CacheImplementsKeyService` is the refinement: under `CInv` every step maps to a step of
`KeyService` or leaves its variables alone (`StepRefines`, by action; `HitAnswers`
for the two ways a call is answered from the cache).

**`ExchangeProofs`** (`ExchangeAssumption`) proves the type invariant, five
properties and the refinement of `CertService` with two consequences. `EInv` ties each
request's program counter to what was logged and minted for it: what was heard of a request (`HeardOK`) and that the counters are
the cardinalities of that (`CountOK`), which checks it has passed (`PassedOK`),
that its certificate expires no later than the expiry the handler computes
(`CertOK`) and the record in the tracker no earlier than the certificate
(`ListedOK`), what the file can say of it (`AuditOK`) and its status (`StatusOK`).
The refinement (`ExchangeImplementsCertService`) needs three facts more (`SentOK`): a
request is sent when its handler starts, an accepted one was well formed, and 200 is
written when its certificate is about to be announced. The steps that matter are those where
the abstract guard is not the handler's own: `Mint` asks that the request is entitled and
unanswered, which the handler established several steps before (`PassedOK`, `StatusOK`);
`Record` asks for the right lines before the new one, which no handler reads (`AuditOK`,
`RecordRefines`). With `StepRefines` one may reason about the service alone:
`LogsAreTruthful` (whatever a line says is true of the answer and the certificate,
whenever it is read) and `AnswersAreFinal` follow from its nine actions, by `TruthKept` and
`ServiceFinal`.

**`LoginProofs`** (`LoginAssumption` and the assumptions of the four modules `Login`
extends: positive times, one process, grants that are grants, contexts that differ)
proves the type invariant, three properties and the refinement of `ClientAccess`.
Lemmas first reduce a step of the whole to what it may do to each part (`CacheSteps`,
`ConfigSteps`, `CallbackSteps`, `DeviceSteps`, `RunSteps`). `LoginInv` joins the
types with three invariants. `ConfigInv`: what `Save` has in memory keeps the other
contexts, and only the temporary file is ever half written; `ConfigIntact` follows.
`TokenInHand`: a token is stored or exchanged only where there is one, and is new when
it is stored. `Young`: after a revocation every ID token in a store or in
hand and every certificate, added to the age of the revocation, stays below what a
grant just before it would give; `RevocationWindow` is the case where that age is the
whole window. `AskedOnlyAfterFault` needs two more, on top of `LoginInv`. `Fresh`: a
token about to be stored is not spent. `Renew`: while the login is
remembered, the token in hand (until it is stored) or the one `bestToken`
prefers has the refresh token the provider takes. The two ways to store are the
heart of it: a new token wins over the old one in the other store, which may still
hold a spent refresh token, because it expires no earlier. `LoginImplementsClientAccess`
adds `Saving`: while a save is under way, what is in memory is the talosconfig as `Load` reads
it with the one context set, or removed by a logout, and a certificate in hand is new and
was issued in time. `ChangedInMemory` says what that is for the whole content: the selection,
the contexts, their nodes, and no unknown fields. So the rename is the one step that shows; `SavingSteps` sorts all others into
those that touch none of the three abstract variables.

**`CertReloaderProofs`** (`ReloaderAssumption`: natural bounds, the null thread no thread,
`Start`'s goroutine no handshake) proves the type invariant, `StampHonest`,
`StaleBounded` and `CheckedOncePerInterval`. `StaleBounded` is proved for a positive
interval: `certReloadInterval` is a minute, and only tests set it to 0. `Core` joins what
holds before `Start` serves (`Startup`), that no two writes leave the same stamp
(`Stamps`), that nothing is dated in the future (`Clock`), what the lock holder read if the
stamps it saw are still those on disk (`Seen`), `StampHonest` at every moment (`Honest`),
and that a refresh which began after the last change saw the files as they are
(`Current`). The step that matters is a write between two reads of `load`: it takes a
stamp nobody has, so what was read before it vouches for nothing.

**`SelfSignedProofs`** (`StoreAssumption`) proves the type invariant, `CAVouches`,
`CAStable` and `FreshAtStart`. `Core`: files are made in the order of the code and
removed together (`InOrder`); a complete server pair lies beside its own CA or is about to
expire (`Vouched`); new material is only made when what is there is no good
(`Replacing`); while files are written those before the current one are of the newest
generation and the others are not (`Written`); what was once written completely
stays until it is about to expire (`Persisted`). `InOrder`, `Vouched` and the use of it in
`Replacing` hold while `integrity` is "intact"; the step of `PowerLoss` either changes no
file or ends that. `FreshAtStart` needs none of it, since the certificate that is loaded is
the one whose age is tested. The order of the writes, the CA first and the server key last,
is what makes a process that dies between two of them harmless.

**`AdminDashboardProofs`** (`AdminAssumption`: finitely many handlers, at least one attempt,
and a lockout no shorter than the window, as both are fifteen minutes) proves the type
invariant, `GuessesBounded`, `LockoutJustified`, `OnlyAdminsSee` and `SessionsKept`. A
guess is counted after it is compared, so the bound is carried by the handlers in between:
while an address is locked out, its count plus the handlers about to compare stays
below `MaxAttempts` plus the number of the others (`Fenced`); every recent
guess is in the count, and the count is earned (`Counted`). `Dead` says that a
cookie which was dead when its request began stays dead until it is checked, `LoggedOut`
that a session once closed is not in the store, `Placed` where a handler has an address and a
store.

**`AccessProofs`** proves the two sequential decisions. Tokens (`TokenAssumption`:
times are whole seconds, a key set is a list): `TokensAreAuthentic`,
`NothingIsResurrected` and `NobodyIsLockedOut`. The last has two hypotheses that no
assumption of the module states: a key that names an algorithm has its type (`KeysFit`, RFC 7518), and the
configured issuer ends in one slash at most, since `TrimSuffix` takes one away.
Addresses: `AddressesAreGenuine` from the invariant `Routed`: the header's last parts are the
hops the request took, behind whatever the client wrote (`Listing`), the first line holds
all that came before a proxy that merges (`FirstLine`), and one of the untrusted hops is the
last (`LastUntrusted`). The walk from the right of the first line then starts at a trusted
hop or at the last untrusted one, meets the hops in order and stops at the latter. Roles: `PrivilegeIsLeast` and `RulesOnlyAdd`.

The proofs are laid out one step per action and, below it, one per conjunct the
action can disturb.

**Only model-checked**: liveness (`IdleEntryReclaimed`, `GetReturns`,
`DeliveredIsHeard`, `ShutdownTerminates`, `LoginReturns`, `WatchRenews`), which is
beyond the prover, as is `ENABLED`. Every invariant, action property and refinement of the
passing runs has a theorem. `TypeOK` of the limiter, of the exchange and of the
login side is in no run: `TypeCorrect`, `ExchangeTypeCorrect` and `LoginTypeCorrect` prove
it. `LogsTruthful` and `AnswersFinal` are in no run either: they follow from the refinement
that `exchange` checks. That the violations of section 4
happen is TLC's counterexample.

## 6. Not modelled, and why

- Token files of several contexts that two processes write at once: the later write
  drops the other's token, which costs that user one login. `TokenCache` has one context.
- Power loss for the talosconfig, `tokens.json` and the logs: their modules have processes
  that die, not machines. None of these files is synced either, so what the properties say
  of them after a kill is not promised after a power loss. `SelfSigned` has both.
- A reverse proxy that replaces the `X-Forwarded-For` header instead of adding to it, and
  one that lets the client choose what it adds.
- Flags, URLs, PKCE, the browser command, the success page of the login side.
- Anomaly detector: `runServe` never constructs it.
- Configuration parsing, CLI output, chart, CI, mock API: no state or no logic.
- Cryptography, TLS, YAML, HTTP framing: by their outcome.
- `Retry-After`, the pages' contents, metrics, log wording.
- A torn self-signed pair: after a kill or a power loss between the two writes of the server
  pair every later start fails until the operator clears the directory. The code
  does this on purpose (an unexpected error is surfaced) and no document says
  otherwise, so it is a hazard with a note and not a finding.
- A process that outlives its self-signed certificate: age is only looked at
  when it starts. The certificate lives ten years.

## 7. Plan

Done, in this order: limiter, key cache, address and roles, token, exchange with its logs
and life cycle, reloader, dashboard, self-signed store; the abstract key service and the
refinement; the login side; proofs of the limiter, the key cache, the exchange and the
login side; proofs of the store, the reloader, the dashboard, tokens, addresses and roles; the
abstract sliding window, client access and certificate service with their refinements, and
the limit per key; header lines, power loss for the self-signed store, and the talosconfig's
whole content.

Next:

1. **Token cache** with two contexts and two processes.
2. **Power loss** for the talosconfig, where a rename may reach the disk before the data.
3. **Composition**: what `RateLimiter`, `JWKSCache` and `TokenLife` promise, taken as the
   environment of `Exchange` in place of free choices.
