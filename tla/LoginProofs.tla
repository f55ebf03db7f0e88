---------------------------- MODULE LoginProofs ----------------------------
(***************************************************************************)
(* Theorems about Login, for every value of its constants.                 *)
(*                                                                         *)
(* LoginInv joins the types, the invariant of the save (ConfigInv), what a *)
(* command holds at which step (TokenInHand) and the age of everything     *)
(* granted before a revocation (Young).  Fresh and Renew, on top of it,    *)
(* follow the refresh token from the login that gave it to the cache and   *)
(* through every refresh; Saving says what a command is about to save,     *)
(* which is what the refinement of ClientAccess needs.                     *)
(***************************************************************************)
EXTENDS Login, TLAPS

\* When there is a token in hand, and a new one is fresh until it is stored.
TokenInHand ==
    /\ run.pc \in {"store", "write", "exchange"} => run.tok \in Token
    /\ run.pc \in {"store", "write"} => run.tok.left = TokenTTL
    /\ run.pc = "shutdown" => run.tok = NoToken \/ run.tok.left = TokenTTL
    /\ run.pc \in AuthPCs \ {"shutdown"} => run.tok = NoToken

-----------------------------------------------------------------------------
(* What a step may do to each component *)

\* What a step may do to the cache.
LEMMA CacheSteps ==
    ASSUME Next
    PROVE  \/ UNCHANGED cacheVars
           \/ SpendRefreshToken
           \/ run.pc = "store" /\ KeychainSet(run.tok)
           \/ FileTruncate
           \/ run.pc = "write" /\ FileWrite(run.tok)
           \/ KeychainDelete
           \/ FileRemove
           \/ FileRewrite
           \/ AgeCache
  BY DEF Next, Command, StartLogin, WakeUp, StillValid, NeedsRenewal,
     CheckFails, PlainHTTP, LookUp, RefreshDiscoverOK, RefreshFails, RefreshRefused, RefreshLost,
     RefreshOK, StoreInKeychain, StoreInFile, StoreWritten, StoreFails,
     DiscoverOK, AuthRefused, OpenBrowser, Callback, GotResult, GotError,
     WaitTimeout, CodeOK, CodeFails, AuthReturns, RequestOK, PollOK,
     PollAgain, PollFails, PauseOver, PauseTimeout, ExchangeOK,
     ExchangeFails, NoServerCA, Load, LoadEnds, SaveStep, Saved, SaveFails,
     StartLogout, DeleteFromKeychain, DeleteFromFile, DeleteTruncates,
     DeleteRewrites, Crash, Revoke, Tick, At

\* What a step may do to the talosconfig: a step of one Save, or nothing.
LEMMA ConfigSteps ==
    ASSUME Next
    PROVE  \/ UNCHANGED configVars
           \/ LoadAndSet(Self)
           \/ LoadAndRemove(Self)
           \/ OpenTmp(Self)
           \/ OpenFails(Self)
           \/ WriteTmp(Self)
           \/ WriteFails(Self)
           \/ Rename(Self)
           \/ RenameFails(Self)
           \/ Die(Self)
  BY DEF Next, Command, StartLogin, WakeUp, StillValid, NeedsRenewal,
     CheckFails, PlainHTTP, LookUp, RefreshDiscoverOK, RefreshFails, RefreshRefused, RefreshLost,
     RefreshOK, StoreInKeychain, StoreInFile, StoreWritten, StoreFails,
     DiscoverOK, AuthRefused, OpenBrowser, Callback, GotResult, GotError,
     WaitTimeout, CodeOK, CodeFails, AuthReturns, RequestOK, PollOK,
     PollAgain, PollFails, PauseOver, PauseTimeout, ExchangeOK,
     ExchangeFails, NoServerCA, Load, LoadEnds, SaveStep, Saved, SaveFails,
     StartLogout, DeleteFromKeychain, DeleteFromFile, DeleteTruncates,
     DeleteRewrites, Crash, Revoke, Tick, At

\* What a step may do to the channels of the callback server.
LEMMA CallbackSteps ==
    ASSUME Next
    PROVE  \/ UNCHANGED callbackVars
           \/ Listen
           \/ ErrorCallback
           \/ CodeCallback("own")
           \/ CodeCallback("foreign")
           \/ ReceiveResult
           \/ ReceiveError
           \/ Shutdown
           \/ Closed
  BY DEF Next, Command, StartLogin, WakeUp, StillValid, NeedsRenewal,
     CheckFails, PlainHTTP, LookUp, RefreshDiscoverOK, RefreshFails, RefreshRefused, RefreshLost,
     RefreshOK, StoreInKeychain, StoreInFile, StoreWritten, StoreFails,
     DiscoverOK, AuthRefused, OpenBrowser, Callback, GotResult, GotError,
     WaitTimeout, CodeOK, CodeFails, AuthReturns, RequestOK, PollOK,
     PollAgain, PollFails, PauseOver, PauseTimeout, ExchangeOK,
     ExchangeFails, NoServerCA, Load, LoadEnds, SaveStep, Saved, SaveFails,
     StartLogout, DeleteFromKeychain, DeleteFromFile, DeleteTruncates,
     DeleteRewrites, Crash, Revoke, Tick, At

\* What a step may do to the polling state.
LEMMA DeviceSteps ==
    ASSUME Next
    PROVE  \/ UNCHANGED deviceVars
           \/ DeviceCode
           \/ Pending
           \/ SlowDown
           \/ DeviceDone
           \/ pause' = Down(pause) /\ codeLeft' = Down(codeLeft) /\ UNCHANGED interval
  BY DEF Next, Command, StartLogin, WakeUp, StillValid, NeedsRenewal,
     CheckFails, PlainHTTP, LookUp, RefreshDiscoverOK, RefreshFails, RefreshRefused, RefreshLost,
     RefreshOK, StoreInKeychain, StoreInFile, StoreWritten, StoreFails,
     DiscoverOK, AuthRefused, OpenBrowser, Callback, GotResult, GotError,
     WaitTimeout, CodeOK, CodeFails, AuthReturns, RequestOK, PollOK,
     PollAgain, PollFails, PauseOver, PauseTimeout, ExchangeOK,
     ExchangeFails, NoServerCA, Load, LoadEnds, SaveStep, Saved, SaveFails,
     StartLogout, DeleteFromKeychain, DeleteFromFile, DeleteTruncates,
     DeleteRewrites, Crash, Revoke, Tick, At

-----------------------------------------------------------------------------
(* The talosconfig *)

\* What Save has in memory keeps the contexts of other clusters, and only the
\* temporary file is ever half written.
ConfigInv ==
    /\ ConfigTypeOK
    /\ conf \in Content /\ OtherContexts \subseteq conf.contexts
    /\ stage[Self] # "idle" => OtherContexts \subseteq mem[Self].contexts
    /\ stage[Self] = "open" => handle[Self] = "tmp" /\ tmp = Empty
    /\ stage[Self] # "open" => handle[Self] = "none"
    /\ stage[Self] = "written" => tmp = mem[Self]

\* The assumptions on contexts, as the proofs use them.
LEMMA ContextsDistinct ==
    /\ Absent # Garbled
    /\ \A c \in Content : c # Absent /\ c # Garbled
    /\ Empty \in Content
    /\ \A c \in Initial : c \in Content /\ OtherContexts \subseteq c.contexts
    /\ Own[Self] \in Contexts /\ Own[Self] \notin OtherContexts
    /\ OtherContexts \subseteq Contexts
    /\ Procs = {Self}
<1>1. Empty \in Content
  BY DEF Empty, Content
<1> QED
  BY <1>1, ConfigAssumption, LoginAssumption DEF Contexts

\* What a command has in memory after it loaded the file and changed its own
\* context: of the others it lacks the fields that Load drops, and no more.
LEMMA ChangedInMemory ==
    ASSUME conf \in Content
    PROVE  /\ Parsed(conf) = conf
           /\ SetContextFromPEM(Loaded, Own[Self]) =
                [current |-> Own[Self], contexts |-> conf.contexts \cup {Own[Self]},
                 nodes |-> conf.nodes \ {Own[Self]}, extra |-> {}]
           /\ RemoveContext(Loaded, Own[Self]) =
                [current |-> IF conf.current = Own[Self] THEN NoContext ELSE conf.current,
                 contexts |-> conf.contexts \ {Own[Self]},
                 nodes |-> conf.nodes \ {Own[Self]}, extra |-> {}]
           /\ SetContextFromPEM(Loaded, Own[Self]) \in Content
           /\ RemoveContext(Loaded, Own[Self]) \in Content
<1>1. Parsed(conf) = conf
  BY ContextsDistinct DEF Parsed
<1>2. Loaded = [current |-> conf.current, contexts |-> conf.contexts,
                nodes |-> conf.nodes, extra |-> {}]
  BY <1>1 DEF Loaded, Content
<1>3. SetContextFromPEM(Loaded, Own[Self]) =
        [current |-> Own[Self], contexts |-> conf.contexts \cup {Own[Self]},
         nodes |-> conf.nodes \ {Own[Self]}, extra |-> {}]
  BY <1>2 DEF SetContextFromPEM
<1>4. RemoveContext(Loaded, Own[Self]) =
        [current |-> IF conf.current = Own[Self] THEN NoContext ELSE conf.current,
         contexts |-> conf.contexts \ {Own[Self]},
         nodes |-> conf.nodes \ {Own[Self]}, extra |-> {}]
  BY <1>2 DEF RemoveContext
<1>5. /\ conf.current \in Contexts \cup {NoContext}
      /\ conf.contexts \subseteq Contexts /\ conf.nodes \subseteq Contexts
  BY DEF Content
<1>6. SetContextFromPEM(Loaded, Own[Self]) \in Content
  BY <1>3, <1>5, ContextsDistinct DEF Content
<1>7. RemoveContext(Loaded, Own[Self]) \in Content
  BY <1>4, <1>5 DEF Content
<1> QED
  BY <1>1, <1>3, <1>4, <1>6, <1>7

LEMMA ConfigInit_Inv == ConfigInit => ConfigInv
  BY ContextsDistinct DEF ConfigInit, ConfigInv, ConfigTypeOK, IsContent

\* Every step of Save, and every way it fails, keeps ConfigInv.
LEMMA ConfigStep_Inv ==
    ASSUME ConfigInv, Next
    PROVE  ConfigInv'
<1> USE ContextsDistinct DEF ConfigInv, ConfigTypeOK, IsContent, Leave
<1>1. CASE UNCHANGED configVars
  BY <1>1 DEF configVars
<1>2. CASE LoadAndSet(Self)
  <2>1. /\ SetContextFromPEM(Loaded, Own[Self]) \in Content
        /\ SetContextFromPEM(Loaded, Own[Self]).contexts = conf.contexts \cup {Own[Self]}
    BY ChangedInMemory
  <2> QED
    BY <1>2, <2>1 DEF LoadAndSet, LoadInto
<1>3. CASE LoadAndRemove(Self)
  <2>1. /\ RemoveContext(Loaded, Own[Self]) \in Content
        /\ RemoveContext(Loaded, Own[Self]).contexts = conf.contexts \ {Own[Self]}
    BY ChangedInMemory
  <2> QED
    BY <1>3, <2>1 DEF LoadAndRemove, LoadInto
<1>4. CASE OpenTmp(Self)
  BY <1>4 DEF OpenTmp
<1>5. CASE OpenFails(Self)
  BY <1>5 DEF OpenFails
<1>6. CASE WriteTmp(Self)
  <2>1. Opened(Self) = Empty
    BY <1>6 DEF WriteTmp, Opened
  <2>2. conf' = conf /\ tmp' = mem[Self]
    BY <1>6, <2>1 DEF WriteTmp, ConfWith, TmpWith
  <2> QED
    BY <1>6, <2>2 DEF WriteTmp
<1>7. CASE WriteFails(Self)
  BY <1>7 DEF WriteFails, ConfWith, TmpWith, Abandoned
<1>8. CASE Rename(Self)
  BY <1>8 DEF Rename, Unlink
<1>9. CASE RenameFails(Self)
  BY <1>9 DEF RenameFails, Unlink
<1>10. CASE Die(Self)
  BY <1>10 DEF Die, Abandoned
<1> QED
  BY <1>1, <1>2, <1>3, <1>4, <1>5, <1>6, <1>7, <1>8, <1>9, <1>10, ConfigSteps

\* A command that runs alone never damages the talosconfig, at whatever step
\* of Save it fails or is killed.
THEOREM ConfigStaysIntact == Spec => []ConfigIntact
<1>1. Init => ConfigInv
  BY ConfigInit_Inv DEF Init
<1>2. ConfigInv /\ [Next]_vars => ConfigInv'
  <2>1. ConfigInv /\ UNCHANGED vars => ConfigInv'
    BY DEF ConfigInv, ConfigTypeOK, IsContent, vars, configVars
  <2> QED
    BY <2>1, ConfigStep_Inv
<1>3. ConfigInv => ConfigIntact
  BY ContextsDistinct DEF ConfigInv, ConfigIntact, ConfigWhole, Parsed
<1> QED
  BY <1>1, <1>2, <1>3, PTL DEF Spec

-----------------------------------------------------------------------------
(* Types *)

\* The numeric constants.
LEMMA Numbers ==
    /\ TokenTTL \in Nat \ {0} /\ IDTTL \in Nat \ {0} /\ CertTTL \in Nat \ {0}
    /\ LoginTimeout \in Nat \ {0} /\ Interval \in Nat \ {0} /\ CodeTTL \in Nat \ {0}
    /\ MaxCallbacks \in Nat
    /\ NoID = -1
  BY CacheAssumption, LoginAssumption, DeviceAssumption, CallbackAssumption DEF NoID

\* A grant of the provider makes a token.
LEMMA GrantedTokens ==
    /\ \A g \in AuthGrants : NewToken(g) \in Token
    /\ \A g \in RefreshGrants : RefreshedToken(g) \in Token
  BY Numbers, LoginAssumption DEF NewToken, RefreshedToken, Token

\* The clock and the provider leave a token a token.
LEMMA AgedTokens ==
    /\ \A t \in Token : Aged(t) \in Token /\ Spent(t) \in Token
    /\ Aged(NoToken) = NoToken /\ Aged(Torn) = Torn
    /\ Spent(NoToken) = NoToken /\ Spent(Torn) = Torn
<1>1. \A t \in Token : IsToken(t)
  BY CacheAssumption DEF IsToken
<1>2. ASSUME NEW t \in Token
      PROVE  Aged(t) \in Token /\ Spent(t) \in Token
  <2>1. Down(t.left) \in 0 .. TokenTTL /\ Down(t.id) \in NoID .. IDTTL
    BY Numbers DEF Token, Down
  <2> QED
    BY <1>1, <2>1 DEF Aged, Spent, Token
<1> QED
  BY <1>2 DEF Aged, Spent, IsToken

\* Only tokens are stored.
LEMMA CacheTyped ==
    ASSUME CacheTypeOK, TokenInHand, Next
    PROVE  CacheTypeOK'
<1> USE DEF CacheTypeOK
<1>1. CASE UNCHANGED cacheVars
  BY <1>1 DEF cacheVars
<1>2. CASE SpendRefreshToken
  BY <1>2, AgedTokens DEF SpendRefreshToken
<1>3. CASE run.pc = "store" /\ KeychainSet(run.tok)
  BY <1>3 DEF KeychainSet, TokenInHand
<1>4. CASE FileTruncate
  BY <1>4 DEF FileTruncate
<1>5. CASE run.pc = "write" /\ FileWrite(run.tok)
  BY <1>5 DEF FileWrite, TokenInHand
<1>6. CASE KeychainDelete
  BY <1>6 DEF KeychainDelete
<1>7. CASE FileRemove
  BY <1>7 DEF FileRemove
<1>8. CASE FileRewrite
  BY <1>8 DEF FileRewrite
<1>9. CASE AgeCache
  BY <1>9, AgedTokens DEF AgeCache
<1> QED
  BY <1>1, <1>2, <1>3, <1>4, <1>5, <1>6, <1>7, <1>8, <1>9, CacheSteps

\* The channels hold at most MaxCallbacks answers.
LEMMA CallbackTyped ==
    ASSUME CallbackTypeOK, Next
    PROVE  CallbackTypeOK'
<1> USE Numbers DEF CallbackTypeOK
<1>1. CASE UNCHANGED callbackVars
  BY <1>1 DEF callbackVars
<1>2. CASE Listen
  BY <1>2 DEF Listen
<1>3. CASE ErrorCallback
  BY <1>3 DEF ErrorCallback
<1>4. ASSUME NEW kind \in ResultKinds, CodeCallback(kind)
      PROVE  CallbackTypeOK'
  BY <1>4 DEF CodeCallback
<1>5. CASE ReceiveResult
  BY <1>5 DEF ReceiveResult
<1>6. CASE ReceiveError
  <2>1. results' = results /\ up' = up /\ errs' = errs - 1 /\ errs > 0
    BY <1>6 DEF ReceiveError
  <2>2. Len(results) \in Nat
    OBVIOUS
  <2>3. errs' \in Nat /\ Len(results) + errs' <= MaxCallbacks
    BY <2>1, <2>2
  <2> QED
    BY <2>1, <2>3
<1>7. CASE Shutdown \/ Closed
  <2>1. Closed
    BY <1>7 DEF Shutdown
  <2>2. up' \in BOOLEAN
    BY <2>1, Zenon DEF Closed
  <2>3. results' = <<>> /\ errs' = 0
    BY <2>1 DEF Closed
  <2> QED
    BY <2>2, <2>3
<1> QED
  BY <1>1, <1>2, <1>3, <1>4, <1>5, <1>6, <1>7, CallbackSteps DEF ResultKinds

\* The polling state stays numeric.
LEMMA DeviceTyped ==
    ASSUME DeviceTypeOK, Next
    PROVE  DeviceTypeOK'
  BY Numbers, DeviceSteps
  DEF DeviceTypeOK, deviceVars, DeviceCode, Pending, SlowDown, DeviceDone, Down

Kinds == {"none", "login", "watch", "logout"}

\* What the actions do with run.
LEMMA RunMoves ==
    ASSUME run \in Run
    PROVE  /\ \A pc \in PCs : Go(pc) => run' \in Run
           /\ Exit => run' \in Run
           /\ \A n \in 0 .. 1 : Sleep(n) => run' \in Run
           /\ \A kind \in Kinds : NewRound(kind) => run' \in Run
           /\ Failed => run' \in Run
           /\ Authenticate => run' \in Run
           /\ Stored => run' \in Run
<1> USE Numbers DEF Run, Kinds
<1>1. Off \in Run
  BY DEF Off, PCs
<1>2. \A pc \in PCs : Go(pc) => run' \in Run
  BY DEF Go
<1>3. Exit => run' \in Run
  BY <1>1 DEF Exit
<1>4. ASSUME NEW n \in 0 .. 1, Sleep(n)
      PROVE  run' \in Run
  BY <1>1, <1>4 DEF Sleep, PCs
<1>5. ASSUME NEW kind \in Kinds, NewRound(kind)
      PROVE  run' \in Run
  <2>1. LoginTimeout \in 0 .. LoginTimeout /\ "check" \in PCs
    BY DEF PCs, LocalPCs
  <2> QED
    BY <1>1, <1>5, <2>1 DEF NewRound
<1>6. Failed => run' \in Run
  BY <1>3, <1>4 DEF Failed
<1>7. Authenticate => run' \in Run
  <2> DEFINE toks == Token \cup {NoToken}
             vias == {"refresh", "auth"}
  <2>1. "discover" \in PCs /\ "auth" \in vias /\ NoToken \in toks
    BY DEF PCs, RequestPCs
  <2>2. run \in [pc : PCs, kind : {"none", "login", "watch", "logout"}, via : vias,
                 ctx : 0 .. LoginTimeout, late : BOOLEAN, nap : 0 .. 1,
                 new : 0 .. CertTTL, tok : toks]
    OBVIOUS
  <2>3. SUFFICES ASSUME Authenticate
                 PROVE  run' \in [pc : PCs, kind : {"none", "login", "watch", "logout"},
                                 via : vias, ctx : 0 .. LoginTimeout, late : BOOLEAN,
                                 nap : 0 .. 1, new : 0 .. CertTTL, tok : toks]
    OBVIOUS
  <2> HIDE DEF toks, vias, Run
  <2> QED
    BY <2>1, <2>2, <2>3 DEF Authenticate
<1>8. Stored => run' \in Run
  BY <1>2, <1>6, <1>7 DEF Stored, PCs, RequestPCs
<1> QED
  BY <1>2, <1>3, <1>4, <1>5, <1>6, <1>7, <1>8

\* The moves after which nothing is in hand, and those that only go on.
RoundEnds ==
    \/ Exit
    \/ Failed
    \/ \E n \in 0 .. 1 : Sleep(n)
    \/ \E kind \in Kinds : NewRound(kind)

QuietPCs == PCs \ (AuthPCs \cup {"store", "write", "exchange"})

\* What a step may do to the locals of the command.
LEMMA RunSteps ==
    ASSUME run \in Run, Next
    PROVE  \/ UNCHANGED run
           \/ RoundEnds
           \/ run.pc \in {"refreshDiscover", "refresh"} /\ Authenticate
           \/ \E pc \in QuietPCs : Go(pc)
           \/ run.pc \in AuthPCs \ {"shutdown"} /\ \E pc \in AuthPCs : Go(pc)
           \/ run.pc \in {"store", "write"} /\ Stored
           \/ LookUp \/ StoreInFile \/ AuthReturns \/ ExchangeOK
           \/ StartLogout \/ Tick
           \/ \E g \in RefreshGrants : RefreshOK(g)
           \/ \E g \in AuthGrants : CodeOK(g) \/ PollOK(g)
<1>1. run.kind \in Kinds /\ "login" \in Kinds /\ "watch" \in Kinds
  BY DEF Run, Kinds
<1>2. {"cache", "refresh", "save", "deleteFile", "config", "deleteWrite"} \subseteq QuietPCs
  BY DEF QuietPCs, PCs, LocalPCs, RequestPCs, AuthPCs
<1>3. {"listen", "request", "wait", "code", "shutdown", "poll", "pause", "discover"}
        \subseteq AuthPCs
  BY DEF AuthPCs
<1> QED
  BY <1>1, <1>2, <1>3
  DEF RoundEnds, Next, Command, StartLogin, WakeUp, StillValid, NeedsRenewal, CheckFails,
     PlainHTTP, RefreshDiscoverOK, RefreshFails, RefreshRefused, RefreshLost,
     StoreInKeychain, StoreWritten, StoreFails, DiscoverOK, AuthRefused,
     OpenBrowser, Callback, GotResult, GotError, WaitTimeout, CodeFails,
     RequestOK, PollAgain, PollFails, PauseOver, PauseTimeout, ExchangeFails,
     NoServerCA, Load, LoadEnds, SaveStep, Saved, SaveFails,
     DeleteFromKeychain, DeleteFromFile, DeleteTruncates, DeleteRewrites,
     Crash, Revoke, RefreshGranted, At

\* A round that is over leaves nothing in hand.
LEMMA RoundOver ==
    ASSUME RoundEnds
    PROVE  run'.pc \in {"off", "sleep", "check"} /\ run'.tok = NoToken /\ run'.new = 0
<1> USE DEF Off
<1>1. CASE Exit
  BY <1>1 DEF Exit
<1>2. ASSUME NEW n \in 0 .. 1, Sleep(n)
      PROVE  run'.pc = "sleep" /\ run'.tok = NoToken /\ run'.new = 0
  BY <1>2 DEF Sleep
<1>3. ASSUME NEW kind \in Kinds, NewRound(kind)
      PROVE  run'.pc = "check" /\ run'.tok = NoToken /\ run'.new = 0
  BY <1>3 DEF NewRound
<1>4. CASE Failed
  BY <1>1, <1>2, <1>4 DEF Failed
<1> QED
  BY <1>1, <1>2, <1>3, <1>4 DEF RoundEnds

\* Retrieve returns a token or nothing.
LEMMA CachedTyped ==
    ASSUME CacheTypeOK, NEW t \in Retrieved
    PROVE  t \in Token \cup {NoToken} /\ (IsToken(t) => t \in Token)
  BY DEF CacheTypeOK, Retrieved, BestToken, FileEntry, IsToken

\* The locals stay typed, and a token is in hand where one is used.
LEMMA RunTyped ==
    ASSUME TypeOK, TokenInHand, Next
    PROVE  run' \in Run /\ TokenInHand'
<1> USE DEF TypeOK
<1>1. CASE UNCHANGED run
  BY <1>1 DEF TokenInHand
<1>2. ASSUME RoundEnds PROVE run' \in Run /\ TokenInHand'
  <2>1. run' \in Run
    BY <1>2, RunMoves DEF RoundEnds
  <2> QED
    BY <1>2, <2>1, RoundOver DEF TokenInHand, AuthPCs
<1>3. ASSUME Authenticate PROVE run' \in Run /\ TokenInHand'
  <2>1. run' \in Run
    BY <1>3, RunMoves
  <2>2. run'.pc = "discover" /\ run'.tok = NoToken
    BY <1>3 DEF Authenticate, Run
  <2> QED
    BY <2>1, <2>2 DEF TokenInHand
<1>4. ASSUME NEW pc \in QuietPCs, Go(pc)
      PROVE  run' \in Run /\ TokenInHand'
  <2>1. run' \in Run
    BY <1>4, RunMoves DEF QuietPCs
  <2>2. run'.pc = pc
    BY <1>4 DEF Go, Run
  <2> QED
    BY <2>1, <2>2 DEF TokenInHand, AuthPCs, QuietPCs
<1>5. ASSUME NEW pc \in AuthPCs, Go(pc), run.pc \in AuthPCs \ {"shutdown"}
      PROVE  run' \in Run /\ TokenInHand'
  <2>1. run' \in Run
    BY <1>5, RunMoves DEF PCs
  <2>2. run'.pc = pc /\ run'.tok = run.tok
    BY <1>5 DEF Go, Run
  <2> QED
    BY <1>5, <2>1, <2>2 DEF TokenInHand, AuthPCs
<1>6. ASSUME run.pc \in {"store", "write"}, Stored
      PROVE  run' \in Run /\ TokenInHand'
  <2>1. run' \in Run
    BY <1>6, RunMoves
  <2>2. CASE Go("exchange")
    BY <1>6, <2>1, <2>2 DEF Go, Run, TokenInHand, AuthPCs
  <2> QED
    BY <1>2, <1>3, <1>6, <2>2 DEF Stored, RoundEnds
<1>7. CASE LookUp
  <2>1. PICK t \in Retrieved : Cached(t)
    BY <1>7 DEF LookUp
  <2>2. t \in Token \cup {NoToken} /\ (IsToken(t) => t \in Token)
    BY CachedTyped
  <2>3. CASE IsToken(t) /\ run' = [run EXCEPT !.pc = "exchange", !.tok = t]
    BY <2>2, <2>3 DEF Run, PCs, RequestPCs, TokenInHand, AuthPCs
  <2>4. CASE run' = [run EXCEPT !.pc = "refreshDiscover", !.via = "refresh", !.tok = t]
    BY <2>2, <2>4 DEF Run, PCs, RequestPCs, TokenInHand, AuthPCs
  <2> QED
    BY <1>3, <2>1, <2>3, <2>4 DEF Cached
<1>8. ASSUME NEW g \in RefreshGrants, RefreshOK(g)
      PROVE  run' \in Run /\ TokenInHand'
  <2>1. RefreshedToken(g) \in Token /\ RefreshedToken(g).left = TokenTTL
    BY GrantedTokens DEF RefreshedToken
  <2>2. run' = [run EXCEPT !.pc = "store", !.tok = RefreshedToken(g)]
    BY <1>8 DEF RefreshOK
  <2> QED
    BY <2>1, <2>2 DEF Run, PCs, LocalPCs, TokenInHand, AuthPCs
<1>9. ASSUME NEW g \in AuthGrants, CodeOK(g) \/ PollOK(g)
      PROVE  run' \in Run /\ TokenInHand'
  <2>1. NewToken(g) \in Token /\ NewToken(g).left = TokenTTL
    BY GrantedTokens DEF NewToken
  <2>2. \/ run' = [run EXCEPT !.pc = "shutdown", !.tok = NewToken(g)]
        \/ run' = [run EXCEPT !.pc = "store", !.tok = NewToken(g)]
    BY <1>9 DEF CodeOK, PollOK
  <2> QED
    BY <2>1, <2>2 DEF Run, PCs, LocalPCs, TokenInHand, AuthPCs
<1>10. CASE StoreInFile
  <2>1. run' = [run EXCEPT !.pc = "write"] /\ run.pc = "store"
    BY <1>10 DEF StoreInFile, Go, At
  <2> QED
    BY <2>1 DEF Run, PCs, LocalPCs, TokenInHand, AuthPCs
<1>11. CASE AuthReturns
  <2>1. CASE run.tok # NoToken /\ Go("store")
    BY <1>11, <2>1 DEF AuthReturns, At, Go, Run, PCs, LocalPCs, TokenInHand, AuthPCs
  <2> QED
    BY <1>2, <1>11, <2>1 DEF AuthReturns, RoundEnds
<1>12. CASE ExchangeOK
  <2>1. run' = [run EXCEPT !.pc = "config", !.tok = NoToken, !.via = "auth",
                           !.new = CertTTL]
    BY <1>12 DEF ExchangeOK
  <2>2. CertTTL \in 0 .. CertTTL /\ "config" \in PCs
    BY Numbers DEF PCs, LocalPCs
  <2>3. run' \in Run
    BY <2>1, <2>2 DEF Run
  <2>4. run'.pc = "config"
    BY <2>1 DEF Run
  <2> QED
    BY <2>3, <2>4 DEF TokenInHand, AuthPCs
<1>13. CASE StartLogout
  <2>1. run' = [Off EXCEPT !.pc = "delete", !.kind = "logout"]
    BY <1>13 DEF StartLogout
  <2>2. Off \in Run /\ "delete" \in PCs
    BY Numbers DEF Off, Run, PCs, LocalPCs
  <2>3. run' \in Run
    BY <2>1, <2>2 DEF Run
  <2>4. run'.pc = "delete"
    BY <2>1, <2>2 DEF Run
  <2> QED
    BY <2>3, <2>4 DEF TokenInHand, AuthPCs
<1>14. CASE Tick
  <2>1. run' = [run EXCEPT !.ctx = Down(@), !.nap = Down(@), !.new = Down(@),
                           !.tok = Aged(@), !.late = run.pc \in RequestPCs]
    BY <1>14 DEF Tick
  <2>2. /\ Down(run.ctx) \in 0 .. LoginTimeout
        /\ Down(run.nap) \in 0 .. 1
        /\ Down(run.new) \in 0 .. CertTTL
    BY Numbers DEF Run, Down
  <2>3. /\ Aged(run.tok) \in Token \cup {NoToken}
        /\ run.tok \in Token => Aged(run.tok) \in Token
    BY AgedTokens DEF Run
  <2>4. (run.pc \in RequestPCs) \in BOOLEAN
    OBVIOUS
  <2>5. run' \in Run
    BY <2>1, <2>2, <2>3, <2>4 DEF Run
  <2>6. /\ run'.pc = run.pc /\ run'.tok = Aged(run.tok)
        /\ run.pc \notin {"store", "write", "shutdown"}
    BY <1>14, <2>1 DEF Tick, LocalPCs, Run
  <2> QED
    BY <2>3, <2>5, <2>6, AgedTokens DEF TokenInHand, AuthPCs
<1> QED
  BY <1>1, <1>2, <1>3, <1>4, <1>5, <1>6, <1>7, <1>8, <1>9, <1>10, <1>11, <1>12, <1>13,
     <1>14, RunSteps

-----------------------------------------------------------------------------
(* The inductive invariant *)

\* After a revocation no ID token and no certificate lives longer than what
\* was granted just before it.
Young ==
    revoked # -1 =>
      /\ \A t \in {keychain, file, run.tok} :
           t \in Token /\ t.id > 0 => t.id + revoked <= IDTTL
      /\ certLeft > 0 => certLeft + revoked <= Window
      /\ run.new > 0 => run.new + revoked <= Window

LoginInv ==
    /\ TypeOK
    /\ ConfigInv
    /\ TokenInHand
    /\ Young

\* LoginInv without Young is inductive by itself.
LEMMA Typed ==
    ASSUME TypeOK, ConfigInv, TokenInHand, Next
    PROVE  TypeOK' /\ ConfigInv' /\ TokenInHand'
<1>1. ConfigInv' /\ ConfigTypeOK'
  BY ConfigStep_Inv DEF ConfigInv
<1>2. certLeft' \in 0 .. CertTTL /\ revoked' \in -1 .. Window
  <2>1. certLeft \in 0 .. CertTTL /\ revoked \in -1 .. Window /\ run.new \in 0 .. CertTTL
    BY DEF TypeOK, Run
  <2>2. CASE UNCHANGED <<certLeft, revoked>>
    BY <2>1, <2>2
  <2>3. CASE Saved
    BY <2>1, <2>3, Numbers DEF Saved
  <2>4. CASE Revoke
    BY <2>1, <2>4, Numbers DEF Revoke, Window
  <2>5. CASE Tick
    BY <2>1, <2>5, Numbers DEF Tick, Window, Down
  <2> QED
    BY <2>2, <2>3, <2>4, <2>5
    DEF Next, Command, StartLogin, StartLogout, WakeUp, StillValid,
     NeedsRenewal, CheckFails, PlainHTTP, LookUp, RefreshDiscoverOK,
     RefreshFails, RefreshRefused, RefreshLost, RefreshOK, StoreInKeychain,
     StoreInFile, StoreWritten, StoreFails, DiscoverOK, AuthRefused,
     OpenBrowser, Callback, GotResult, GotError, WaitTimeout, CodeOK,
     CodeFails, AuthReturns, RequestOK, PollOK, PollAgain, PollFails,
     PauseOver, PauseTimeout, ExchangeOK, ExchangeFails, NoServerCA, Load,
     LoadEnds, SaveStep, SaveFails, DeleteFromKeychain, DeleteFromFile,
     DeleteTruncates, DeleteRewrites, Crash
<1>3. remembered' \in BOOLEAN
  <2>1. CASE LookUp
    BY <2>1 DEF LookUp
  <2>2. CASE \E g \in RefreshGrants : RefreshOK(g)
    BY <2>2 DEF RefreshOK
  <2>3. CASE StoreInKeychain \/ StoreWritten
    BY <2>3 DEF StoreInKeychain, StoreWritten
  <2>4. CASE Crash
    BY <2>4 DEF Crash
  <2>5. CASE remembered' = FALSE \/ UNCHANGED remembered
    BY <2>5 DEF TypeOK
  <2> QED
    BY <2>1, <2>2, <2>3, <2>4, <2>5
    DEF Next, Command, StartLogin, StartLogout, WakeUp, StillValid,
     NeedsRenewal, CheckFails, PlainHTTP, RefreshDiscoverOK, RefreshFails,
     RefreshRefused, RefreshLost, StoreInFile, StoreFails, DiscoverOK,
     AuthRefused, OpenBrowser, Callback, GotResult, GotError, WaitTimeout,
     CodeOK, CodeFails, AuthReturns, RequestOK, PollOK, PollAgain,
     PollFails, PauseOver, PauseTimeout, ExchangeOK, ExchangeFails,
     NoServerCA, Load, LoadEnds, SaveStep, Saved, SaveFails,
     DeleteFromKeychain, DeleteFromFile, DeleteTruncates, DeleteRewrites,
     Revoke, Tick
<1> QED
  BY <1>1, <1>2, <1>3, RunTyped, CacheTyped, CallbackTyped, DeviceTyped DEF TypeOK

\* An ID token still valid at age r would have been granted before.
Small(t, r) == t \in Token /\ t.id > 0 => t.id + r <= IDTTL

\* What the clock and the provider do to a token does not make it younger.
LEMMA SmallTokens ==
    ASSUME NEW r \in Nat, NEW t, t \in Token \/ t = NoToken \/ t = Torn, Small(t, r)
    PROVE  /\ Small(Aged(t), r) /\ Small(Spent(t), r)
           /\ r < IDTTL + CertTTL => Small(Aged(t), r + 1)
<1> USE Numbers
<1>1. CASE t \notin Token
  BY <1>1, CacheAssumption, AgedTokens DEF Small
<1>2. CASE t \in Token
  <2>1. IsToken(t) /\ t.id \in NoID .. IDTTL
    BY <1>2, CacheAssumption DEF IsToken, Token
  <2>2. Aged(t).id = Down(t.id)
    BY <1>2, <2>1 DEF Aged, Token
  <2>3. Spent(t).id = t.id
    BY <1>2, <2>1 DEF Spent, Token
  <2> QED
    BY <1>2, <2>1, <2>2, <2>3 DEF Small, Down
<1> QED
  BY <1>1, <1>2

\* A step that leaves the revocation's age alone.
LEMMA YoungNow ==
    ASSUME LoginInv, Next, UNCHANGED revoked, revoked # -1
    PROVE  Young'
<1> DEFINE Ok(t) == Small(t, revoked)
<1>1. /\ revoked \in Nat /\ run \in Run /\ CacheTypeOK
      /\ certLeft \in 0 .. CertTTL /\ run.new \in 0 .. CertTTL
      /\ run.tok \in Token \cup {NoToken}
  BY Numbers DEF LoginInv, TypeOK, Window, Run
<1>2. /\ Ok(keychain) /\ Ok(file) /\ Ok(run.tok)
      /\ certLeft > 0 => certLeft + revoked <= Window
      /\ run.new > 0 => run.new + revoked <= Window
  BY DEF LoginInv, Young, Small
<1>3. Ok(NoToken) /\ Ok(Torn)
  BY CacheAssumption DEF Small
<1>4. /\ Ok(Aged(keychain)) /\ Ok(Spent(keychain))
      /\ Ok(Aged(file)) /\ Ok(Spent(file)) /\ Ok(Aged(run.tok))
  BY <1>1, <1>2, SmallTokens DEF CacheTypeOK
<1> HIDE DEF Ok
<1>5. Ok(keychain') /\ Ok(file')
  BY <1>2, <1>3, <1>4, CacheSteps
  DEF cacheVars, SpendRefreshToken, KeychainSet, FileTruncate, FileWrite, KeychainDelete,
      FileRemove, FileRewrite, AgeCache
<1>6. Ok(run'.tok) /\ (run'.new > 0 => run'.new + revoked <= Window)
  <2> DEFINE Goal == Ok(run'.tok) /\ (run'.new > 0 => run'.new + revoked <= Window)
  <2> DEFINE Kept == run'.tok \in {run.tok, NoToken} /\ run'.new \in {run.new, 0}
  <2>1. Kept => Goal
    BY <1>2, <1>3
  <2> SUFFICES Goal
    OBVIOUS
  <2> HIDE DEF Goal
  <2>2. RoundEnds => Goal
    <3>1. RoundEnds => Kept
      BY RoundOver
    <3> QED
      BY <2>1, <3>1
  <2>3. Authenticate => Goal
    <3>1. Authenticate => Kept
      BY <1>1 DEF Authenticate, Run
    <3> QED
      BY <2>1, <3>1
  <2>4. (\E pc \in PCs : Go(pc)) => Goal
    <3>1. (\E pc \in PCs : Go(pc)) => Kept
      BY <1>1 DEF Go, Run
    <3> QED
      BY <2>1, <3>1
  <2>5. CASE Stored
    BY <2>2, <2>3, <2>4, <2>5 DEF Stored, RoundEnds, PCs, RequestPCs
  <2>6. CASE LookUp
    <3>1. PICK t \in Retrieved : Cached(t)
      BY <2>6 DEF LookUp
    <3>2. Ok(t)
      BY <1>2, <1>3 DEF Retrieved, BestToken, FileEntry
    <3>3. CASE run'.tok = t /\ run'.new = run.new
      BY <1>2, <3>2, <3>3 DEF Goal
    <3> QED
      BY <1>1, <2>3, <3>1, <3>3 DEF Cached, Run
  <2>7. CASE StoreInFile \/ AuthReturns
    BY <2>2, <2>4, <2>7 DEF StoreInFile, AuthReturns, RoundEnds, PCs, LocalPCs
  <2>8. CASE ExchangeOK
    <3>1. run.tok \in Token /\ run.tok.id > 0
      BY <2>8 DEF ExchangeOK, ServerAccepts, At, LoginInv, TokenInHand
    <3>2. CertTTL + revoked <= Window
      BY <1>1, <1>2, <3>1, Numbers DEF Ok, Small, Window, Token
    <3>3. run'.tok = NoToken /\ run'.new = CertTTL
      BY <1>1, <2>8 DEF ExchangeOK, Run
    <3> QED
      BY <1>3, <3>2, <3>3 DEF Goal
  <2>9. CASE StartLogout
    <3>1. Kept
      BY <2>9 DEF StartLogout, Off
    <3> QED
      BY <2>1, <3>1
  <2>10. CASE Tick
    <3>1. run'.tok = Aged(run.tok) /\ run'.new = Down(run.new)
      BY <1>1, <2>10 DEF Tick, Run
    <3>2. Down(run.new) > 0 => Down(run.new) + revoked <= Window
      BY <1>1, <1>2, Numbers DEF Down, Window
    <3> QED
      BY <1>4, <3>1, <3>2 DEF Goal
  <2>11. CASE UNCHANGED run
    <3>1. Kept
      BY <2>11
    <3> QED
      BY <2>1, <3>1
  <2>12. /\ \A g \in RefreshGrants : ~RefreshOK(g)
         /\ \A g \in AuthGrants : ~CodeOK(g) /\ ~PollOK(g)
    BY DEF RefreshOK, RefreshGranted, CodeOK, PollOK
  <2> QED
    BY <1>1, <2>2, <2>3, <2>4, <2>5, <2>6, <2>7, <2>8, <2>9, <2>10, <2>11, <2>12, RunSteps
    DEF QuietPCs, PCs
<1>7. certLeft' > 0 => certLeft' + revoked <= Window
  <2>1. CASE UNCHANGED certLeft
    BY <1>2, <2>1
  <2>2. CASE Saved
    BY <1>1, <1>2, <2>2 DEF Saved
  <2>3. CASE Tick
    BY <1>1, <1>2, <2>3, Numbers DEF Tick, Down, Window
  <2> QED
    BY <2>1, <2>2, <2>3
    DEF Next, Command, StartLogin, StartLogout, WakeUp, StillValid,
     NeedsRenewal, CheckFails, PlainHTTP, LookUp, RefreshDiscoverOK,
     RefreshFails, RefreshRefused, RefreshLost, RefreshOK, StoreInKeychain,
     StoreInFile, StoreWritten, StoreFails, DiscoverOK, AuthRefused,
     OpenBrowser, Callback, GotResult, GotError, WaitTimeout, CodeOK,
     CodeFails, AuthReturns, RequestOK, PollOK, PollAgain, PollFails,
     PauseOver, PauseTimeout, ExchangeOK, ExchangeFails, NoServerCA, Load,
     LoadEnds, SaveStep, SaveFails, DeleteFromKeychain, DeleteFromFile,
     DeleteTruncates, DeleteRewrites, Crash, Revoke
<1> QED
  BY <1>5, <1>6, <1>7 DEF Ok, Small, Young

\* Every step keeps Young: the revocation, the clock, and YoungNow for the rest.
LEMMA YoungStep ==
    ASSUME LoginInv, Next
    PROVE  Young'
<1> USE Numbers
<1>1. CASE revoked' = -1
  BY <1>1 DEF Young
<1>2. CASE Revoke
  BY <1>2 DEF Revoke, LoginInv, TypeOK, CacheTypeOK, Run, Token, Young, Window
<1>3. CASE Tick /\ revoked' # revoked
  <2>1. /\ revoked \in Nat /\ revoked < Window /\ revoked' = revoked + 1
        /\ run \in Run /\ certLeft \in 0 .. CertTTL /\ run.new \in 0 .. CertTTL
        /\ run.tok \in Token \cup {NoToken} /\ CacheTypeOK
    BY <1>3 DEF LoginInv, TypeOK, Tick, Run, Window
  <2>2. Small(keychain, revoked) /\ Small(file, revoked) /\ Small(run.tok, revoked)
    BY <2>1 DEF LoginInv, Young, Small
  <2>3. /\ Small(Aged(keychain), revoked + 1)
        /\ Small(Aged(file), revoked + 1)
        /\ Small(Aged(run.tok), revoked + 1)
    BY <2>1, <2>2, SmallTokens DEF CacheTypeOK, Window
  <2>4. /\ keychain' = Aged(keychain) /\ file' = Aged(file)
        /\ run'.tok = Aged(run.tok) /\ run'.new = Down(run.new)
        /\ certLeft' = Down(certLeft)
    BY <1>3, <2>1 DEF Tick, AgeCache, Run
  <2>5. /\ Down(certLeft) > 0 => Down(certLeft) + revoked + 1 <= Window
        /\ Down(run.new) > 0 => Down(run.new) + revoked + 1 <= Window
    BY <2>1 DEF LoginInv, Young, Down, Window
  <2> QED
    <3>1. /\ revoked' # -1
          /\ Small(keychain', revoked') /\ Small(file', revoked') /\ Small(run'.tok, revoked')
      BY <2>1, <2>3, <2>4
    <3>2. certLeft' > 0 => certLeft' + revoked' <= Window
      <4>1. certLeft' + revoked' = Down(certLeft) + revoked + 1
        BY <2>1, <2>4, Numbers DEF Down
      <4> QED
        BY <2>4, <2>5, <4>1
    <3>3. run'.new > 0 => run'.new + revoked' <= Window
      <4>1. run'.new + revoked' = Down(run.new) + revoked + 1
        BY <2>1, <2>4, Numbers DEF Down
      <4> QED
        BY <2>4, <2>5, <4>1
    <3> QED
      BY <3>1, <3>2, <3>3 DEF Young, Small
<1>4. CASE UNCHANGED revoked /\ revoked # -1
  BY <1>4, YoungNow
<1> QED
  BY <1>1, <1>2, <1>3, <1>4
  DEF Next, Command, StartLogin, StartLogout, WakeUp, StillValid,
     NeedsRenewal, CheckFails, PlainHTTP, LookUp, RefreshDiscoverOK,
     RefreshFails, RefreshRefused, RefreshLost, RefreshOK, StoreInKeychain,
     StoreInFile, StoreWritten, StoreFails, DiscoverOK, AuthRefused,
     OpenBrowser, Callback, GotResult, GotError, WaitTimeout, CodeOK,
     CodeFails, AuthReturns, RequestOK, PollOK, PollAgain, PollFails,
     PauseOver, PauseTimeout, ExchangeOK, ExchangeFails, NoServerCA, Load,
     LoadEnds, SaveStep, Saved, SaveFails, DeleteFromKeychain,
     DeleteFromFile, DeleteTruncates, DeleteRewrites, Crash

\* The inductive invariant.
LEMMA LoginInvInductive ==
    /\ Init => LoginInv
    /\ LoginInv /\ [Next]_vars => LoginInv'
<1>1. Init => TypeOK
  <2>1. Off \in Run
    BY Numbers DEF Off, Run, PCs
  <2>2. ConfigInit => ConfigTypeOK
    BY ContextsDistinct DEF ConfigInit, ConfigTypeOK, IsContent
  <2>3. CallbackInit => CallbackTypeOK
    <3>1. CallbackInit => up \in BOOLEAN
      BY Zenon DEF CallbackInit
    <3>2. CallbackInit => results \in Seq(ResultKinds) /\ results = <<>> /\ errs = 0
      BY DEF CallbackInit
    <3> QED
      BY <3>1, <3>2, Numbers DEF CallbackInit, CallbackTypeOK
  <2>4. CacheInit => CacheTypeOK
    BY DEF CacheInit, CacheTypeOK
  <2>5. DeviceInit => DeviceTypeOK
    BY Numbers DEF DeviceInit, DeviceTypeOK
  <2>6. Init => remembered \in BOOLEAN
    BY Zenon DEF Init
  <2>7. Init => certLeft \in 0 .. CertTTL /\ revoked \in -1 .. Window
    BY Numbers DEF Init, Window
  <2> QED
    BY <2>1, <2>2, <2>3, <2>4, <2>5, <2>6, <2>7 DEF Init, TypeOK
<1>2. Init => LoginInv
  <2>1. Init => ConfigInv
    BY ConfigInit_Inv DEF Init
  <2>2. Init => TokenInHand /\ Young
    BY DEF Init, Off, TokenInHand, AuthPCs, Young
  <2> QED
    BY <1>1, <2>1, <2>2 DEF LoginInv
<1>3. LoginInv /\ Next => LoginInv'
  BY Typed, YoungStep DEF LoginInv
<1>4. LoginInv /\ UNCHANGED vars => LoginInv'
  BY DEF LoginInv, TypeOK, CacheTypeOK, ConfigTypeOK, IsContent, CallbackTypeOK, DeviceTypeOK,
     ConfigInv, TokenInHand, Young, vars, cacheVars, configVars, callbackVars, deviceVars
<1> QED
  BY <1>2, <1>3, <1>4

\* At every step of a command its locals, the cache, the talosconfig, the
\* callback channels and the polling state are of their types; in particular
\* a token is stored or exchanged only where obtainIDToken has one.
THEOREM LoginTypeCorrect == Spec => []TypeOK
  BY LoginInvInductive, PTL DEF Spec, LoginInv

\* However an ID token got into the cache, and however many commands use it,
\* a certificate is valid for at most IDTTL + CertTTL after access was
\* revoked: the server checks exp, and only the provider makes new tokens.
THEOREM RevocationEndsAccess == Spec => []RevocationWindow
<1>1. LoginInv => RevocationWindow
  BY Numbers DEF LoginInv, TypeOK, Young, Window, RevocationWindow
<1> QED
  BY <1>1, LoginInvInductive, PTL DEF Spec

-----------------------------------------------------------------------------
(* When the user is asked *)

\* A token that is about to be stored came from the provider just now.
Fresh ==
    run.pc \in {"shutdown", "store", "write"} /\ run.tok # NoToken
      => run.tok.rt # "spent"

Best == BestToken(keychain, FileEntry)

\* While a login is remembered, the cache or the command has a refresh token
\* the provider takes, and the cache prefers the token that holds it.
Renew ==
    remembered =>
      /\ revoked = -1
      /\ run.pc \notin AuthPCs \cup {"deleteFile", "deleteWrite"}
      /\ run.pc \in {"refreshDiscover", "refresh"} => run.tok.rt = "current"
      /\ run.pc \in {"store", "write"}
           => run.tok.rt = "current" /\ run.tok.id # NoID
      /\ run.pc \notin {"store", "write"}
           => Best \in Token /\ Best.rt = "current"

\* Every step keeps Fresh: the provider spends only tokens in the cache.
LEMMA FreshStep ==
    ASSUME TypeOK, TokenInHand, Fresh, Next
    PROVE  Fresh'
<1> USE DEF Fresh
<1>1. run \in Run
  BY DEF TypeOK
<1>2. RoundEnds => Fresh'
  BY RoundOver
<1>3. Authenticate => Fresh'
  BY <1>1 DEF Authenticate, Run
<1>4. (\E pc \in QuietPCs : Go(pc)) => Fresh'
  BY <1>1 DEF Go, Run, QuietPCs, AuthPCs
<1>5. CASE run.pc \in AuthPCs \ {"shutdown"} /\ \E pc \in AuthPCs : Go(pc)
  BY <1>1, <1>5 DEF Go, Run, TokenInHand
<1>6. Stored => Fresh'
  <2>1. Go("exchange") => Fresh'
    BY <1>1 DEF Go, Run
  <2> QED
    BY <1>2, <1>3, <2>1 DEF Stored, RoundEnds
<1>7. CASE LookUp
  <2>1. PICK t \in Retrieved : Cached(t)
    BY <1>7 DEF LookUp
  <2> QED
    BY <1>1, <1>3, <2>1 DEF Cached, Run
<1>8. CASE StoreInFile
  BY <1>1, <1>8 DEF StoreInFile, At, Go, Run
<1>9. CASE AuthReturns
  <2>1. Go("store") /\ run.pc = "shutdown" => Fresh'
    BY <1>1 DEF Go, Run
  <2> QED
    BY <1>2, <1>9, <2>1 DEF AuthReturns, At, RoundEnds
<1>10. CASE ExchangeOK
  BY <1>1, <1>10 DEF ExchangeOK, Run
<1>11. CASE StartLogout
  BY <1>11 DEF StartLogout, Off
<1>12. CASE Tick
  BY <1>1, <1>12 DEF Tick, LocalPCs, Run
<1>13. ASSUME NEW g \in RefreshGrants, RefreshOK(g) PROVE Fresh'
  BY <1>1, <1>13 DEF RefreshOK, RefreshedToken, Run
<1>14. ASSUME NEW g \in AuthGrants, CodeOK(g) \/ PollOK(g) PROVE Fresh'
  <2>1. run'.tok = NewToken(g)
    BY <1>1, <1>14 DEF CodeOK, PollOK, Run
  <2>2. NewToken(g).rt # "spent"
    BY DEF NewToken
  <2> QED
    BY <2>1, <2>2
<1>15. CASE UNCHANGED run
  BY <1>15
<1> QED
  BY <1>1, <1>2, <1>3, <1>4, <1>5, <1>6, <1>7, <1>8, <1>9, <1>10, <1>11, <1>12, <1>13,
     <1>14, <1>15, RunSteps

\* The steps that keep a login remembered.
Onward ==
    /\ remembered
    /\ UNCHANGED <<revoked, cacheVars>>
    /\ run.pc \notin {"store", "write"}
    /\ \/ UNCHANGED run
       \/ RoundEnds
       \/ run.pc = "refreshDiscover" /\ Go("refresh")
       \/ Go("cache") \/ Go("save")
       \/ ExchangeOK
       \/ StartLogout

\* Of a step that leaves a login remembered, only these are left.
LEMMA RememberedSteps ==
    ASSUME TypeOK, Renew, Next, remembered'
    PROVE  \/ Onward
           \/ Callback \/ LookUp \/ StoreInFile \/ Tick
           \/ \E g \in RefreshGrants : RefreshOK(g)
           \/ StoreInKeychain
           \/ StoreWritten
<1>1. run.kind \in Kinds /\ "login" \in Kinds /\ "watch" \in Kinds
  BY DEF TypeOK, Run, Kinds
<1>2. AuthPCs = {"discover", "listen", "wait", "code", "shutdown", "request", "poll", "pause"}
  BY DEF AuthPCs
<1>3. /\ Crash => remembered /\ run.pc \notin {"store", "write"} /\ Exit
      /\ ~Revoke
  BY DEF Crash, Revoke
<1>4. Crash => Onward
  BY <1>3 DEF Crash, Onward, RoundEnds, cacheVars
<1>5. /\ Sleep(0) => RoundEnds
      /\ Sleep(1) => RoundEnds
      /\ \A kind \in Kinds : NewRound(kind) => RoundEnds
      /\ Exit => RoundEnds
  BY DEF RoundEnds
<1>6. StartLogout \/ (\E kind \in {"login", "watch"} : StartLogin(kind)) => Onward
  <2>1. StartLogout => Onward
    BY DEF StartLogout, At, Onward
  <2>2. ASSUME NEW kind \in {"login", "watch"}, StartLogin(kind)
        PROVE  Onward
    BY <1>1, <1>5, <2>2 DEF StartLogin, At, Onward
  <2> QED
    BY <2>1, <2>2
<1>7. WakeUp \/ StillValid \/ NeedsRenewal \/ CheckFails \/ PlainHTTP => Onward
  BY <1>1, <1>5 DEF WakeUp, StillValid, NeedsRenewal, CheckFails, PlainHTTP, At, Onward
<1>8. RefreshDiscoverOK => Onward
  BY DEF RefreshDiscoverOK, At, Onward
<1>9. ~RefreshFails /\ ~RefreshRefused /\ ~RefreshLost /\ ~StoreFails /\ ~DeleteFromKeychain
  BY DEF RefreshFails, RefreshRefused, RefreshGranted, RefreshLost, StoreFails,
         DeleteFromKeychain, At, Renew
<1>10. /\ ~DiscoverOK /\ ~AuthRefused /\ ~OpenBrowser /\ ~GotResult /\ ~GotError
      /\ ~WaitTimeout /\ ~CodeFails /\ ~AuthReturns /\ ~RequestOK /\ ~PollAgain
      /\ ~PollFails /\ ~PauseOver /\ ~PauseTimeout
      /\ \A g \in AuthGrants : ~CodeOK(g) /\ ~PollOK(g)
  BY <1>2 DEF Renew, At, DiscoverOK, AuthRefused, OpenBrowser, GotResult, GotError,
     WaitTimeout, CodeFails, AuthReturns, RequestOK, PollAgain, PollFails, PauseOver,
     PauseTimeout, CodeOK, PollOK
<1>11. ExchangeOK \/ ExchangeFails \/ NoServerCA => Onward
  BY DEF ExchangeOK, ExchangeFails, NoServerCA, At, Onward, RoundEnds
<1>12. Load \/ LoadEnds \/ SaveStep \/ Saved \/ SaveFails => Onward
  BY <1>5 DEF Load, LoadEnds, SaveStep, Saved, SaveFails, At, Onward
<1>13. ~DeleteFromFile /\ ~DeleteTruncates /\ ~DeleteRewrites
  BY DEF DeleteFromFile, DeleteTruncates, DeleteRewrites, At, Renew
<1> QED
  BY <1>3, <1>4, <1>6, <1>7, <1>8, <1>9, <1>10, <1>11, <1>12, <1>13 DEF Next, Command

\* Every step keeps Renew.
LEMMA RenewStep ==
    ASSUME TypeOK, TokenInHand, Fresh, Renew, Next
    PROVE  Renew'
<1> SUFFICES ASSUME remembered'
             PROVE  Renew'
  BY DEF Renew
<1>1. /\ run \in Run /\ CacheTypeOK /\ run.tok \in Token \cup {NoToken}
  BY DEF TypeOK, Run
<1>2. UNCHANGED cacheVars => Best' = Best
  BY DEF cacheVars, Best, BestToken, FileEntry
<1>3. CASE Onward
  <2>1. /\ remembered /\ revoked' = -1 /\ Best' = Best
        /\ run.pc \notin AuthPCs \cup {"deleteFile", "deleteWrite", "store", "write"}
        /\ Best \in Token /\ Best.rt = "current"
    BY <1>2, <1>3 DEF Onward, Renew
  <2>2. CASE UNCHANGED run
    BY <2>1, <2>2 DEF Renew
  <2>3. CASE RoundEnds
    BY <2>1, <2>3, RoundOver DEF Renew, AuthPCs
  <2>4. CASE run.pc = "refreshDiscover" /\ Go("refresh")
    <3>1. run'.pc = "refresh" /\ run'.tok = run.tok /\ run.tok.rt = "current"
      BY <1>1, <2>1, <2>4 DEF Go, Run, Renew
    <3> QED
      BY <2>1, <3>1 DEF Renew, AuthPCs
  <2>5. CASE Go("cache") \/ Go("save")
    <3>1. run'.pc \in {"cache", "save"}
      BY <1>1, <2>5 DEF Go, Run
    <3> QED
      BY <2>1, <3>1 DEF Renew, AuthPCs
  <2>6. CASE ExchangeOK
    <3>1. run'.pc = "config"
      BY <1>1, <2>6 DEF ExchangeOK, Run
    <3> QED
      BY <2>1, <3>1 DEF Renew, AuthPCs
  <2>7. CASE StartLogout
    <3>1. run'.pc = "delete"
      BY <2>7 DEF StartLogout, Off
    <3> QED
      BY <2>1, <3>1 DEF Renew, AuthPCs
  <2> QED
    BY <1>3, <2>2, <2>3, <2>4, <2>5, <2>6, <2>7 DEF Onward
<1>4. CASE LookUp
  <2>1. PICK t \in Retrieved : Cached(t) /\ remembered' = (remembered /\ t = Best)
    BY <1>4 DEF LookUp, Best
  <2>2. /\ remembered /\ run.pc = "cache" /\ t = Best /\ Best' = Best
        /\ UNCHANGED revoked
    BY <1>2, <1>4, <2>1 DEF LookUp, At
  <2>3. revoked = -1 /\ t \in Token /\ t.rt = "current"
    BY <2>2 DEF Renew
  <2>4. IsToken(t) /\ HasRefreshToken(t)
    BY <2>3, CacheAssumption DEF IsToken, HasRefreshToken
  <2>5. \/ run'.pc = "exchange"
        \/ run'.pc = "refreshDiscover" /\ run'.tok = t
    BY <1>1, <2>1, <2>4 DEF Cached, Run
  <2> QED
    BY <2>2, <2>3, <2>5 DEF Renew, AuthPCs
<1>5. CASE StoreInFile
  <2>1. /\ run.pc = "store" /\ run'.pc = "write" /\ run'.tok = run.tok
        /\ remembered /\ UNCHANGED revoked
    BY <1>1, <1>5 DEF StoreInFile, At, Go, Run
  <2> QED
    BY <2>1 DEF Renew, AuthPCs
<1>6. CASE Tick
  <2>1. /\ remembered /\ run'.pc = run.pc /\ run'.tok = Aged(run.tok)
        /\ run.pc \notin {"store", "write"}
        /\ keychain' = Aged(keychain) /\ file' = Aged(file) /\ UNCHANGED fileLater
    BY <1>1, <1>6 DEF Tick, AgeCache, LocalPCs, Run
  <2>2. revoked = -1 /\ revoked' = -1 /\ Best \in Token /\ Best.rt = "current"
    BY <1>6, <2>1 DEF Renew, Tick
  <2>3. \A t \in Token : Aged(t) \in Token /\ Aged(t).rt = t.rt
    BY AgedTokens DEF Aged, Token
  <2>4. Best' = Aged(Best)
    <3>1. keychain \in Token \cup {NoToken} /\ file \in Token \cup {NoToken, Torn}
      BY <1>1 DEF CacheTypeOK
    <3>2. NoToken \notin Token /\ Torn \notin Token /\ NoToken # Torn
      BY CacheAssumption
    <3> QED
      BY <2>1, <2>3, <3>1, <3>2, AgedTokens
      DEF Best, BestToken, FileEntry, HasRefreshToken
  <2>5. run.pc \in {"refreshDiscover", "refresh"} => run'.tok.rt = "current"
    BY <2>1, <2>2 DEF Renew, Aged, IsToken
  <2> QED
    BY <2>1, <2>2, <2>3, <2>4, <2>5 DEF Renew
<1>7. ASSUME NEW g \in RefreshGrants, RefreshOK(g)
      PROVE  Renew'
  <2>1. /\ run'.pc = "store" /\ run'.tok = RefreshedToken(g)
        /\ g.id # NoID /\ revoked' = -1
    BY <1>1, <1>7 DEF RefreshOK, RefreshGranted, Run
  <2>2. run'.tok.rt = "current" /\ run'.tok.id # NoID
    BY <2>1 DEF RefreshedToken
  <2> QED
    BY <2>1, <2>2 DEF Renew, AuthPCs
\* What both kinds of cache have in common.
<1>8. ASSUME run.pc \in {"store", "write"}, Stored, UNCHANGED revoked,
             remembered' = (remembered \/ Renewable)
      PROVE  /\ run.tok \in Token /\ run.tok.rt = "current"
             /\ run.tok.left = TokenTTL
             /\ revoked' = -1 /\ run'.pc = "exchange"
  <2>1. run.tok \in Token /\ run.tok.left = TokenTTL
    BY <1>8 DEF TokenInHand
  <2>2. run.tok.rt = "current" /\ run.tok.id # NoID /\ revoked = -1
    <3>1. run.tok.rt # "spent"
      BY <1>8, <2>1, CacheAssumption DEF Fresh
    <3> QED
      BY <1>8, <2>1, <3>1 DEF Renew, Renewable, HasRefreshToken, Token
  <2> QED
    BY <1>1, <1>8, <2>1, <2>2 DEF Stored, Go, Run
<1>9. CASE StoreInKeychain
  <2>1. /\ run.tok \in Token /\ run.tok.rt = "current" /\ run.tok.left = TokenTTL
        /\ revoked' = -1 /\ run'.pc = "exchange"
    BY <1>8, <1>9 DEF StoreInKeychain, At
  <2>2. /\ keychain' = run.tok /\ file' = file
        /\ fileLater' = (IsToken(file) /\ file.left > TokenTTL)
    BY <1>9, <2>1 DEF StoreInKeychain, KeychainSet
  <2>3. fileLater' = FALSE
    <3>1. ~(IsToken(file) /\ file.left > TokenTTL)
      BY <1>1, Numbers DEF CacheTypeOK, IsToken, Token
    <3> QED
      BY <2>2, <3>1, Zenon
  <2>4. Best' = run.tok
    BY <2>1, <2>2, <2>3, CacheAssumption DEF Best, BestToken, FileEntry, HasRefreshToken
  <2> QED
    BY <2>1, <2>4 DEF Renew, AuthPCs
<1>10. CASE StoreWritten
  <2>1. /\ run.tok \in Token /\ run.tok.rt = "current" /\ run.tok.left = TokenTTL
        /\ revoked' = -1 /\ run'.pc = "exchange"
    BY <1>8, <1>10 DEF StoreWritten, At
  <2>2. /\ keychain' = keychain /\ file' = run.tok
        /\ fileLater' = (keychain # NoToken /\ TokenTTL >= keychain.left)
    BY <1>10, <2>1 DEF StoreWritten, FileWrite
  <2>3. keychain # NoToken => fileLater' = TRUE
    <3>1. keychain # NoToken => TokenTTL >= keychain.left
      BY <1>1, Numbers DEF CacheTypeOK, Token
    <3> QED
      BY <2>2, <3>1, Zenon
  <2>4. Best' = run.tok
    BY <2>1, <2>2, <2>3, CacheAssumption DEF Best, BestToken, FileEntry, HasRefreshToken
  <2> QED
    BY <2>1, <2>4 DEF Renew, AuthPCs
<1>11. CASE Callback
  BY <1>2, <1>11 DEF Callback, Renew
<1> QED
  BY <1>3, <1>4, <1>5, <1>6, <1>7, <1>9, <1>10, <1>11, RememberedSteps

\* Once a login gave a refresh token that was cached, obtainIDToken reaches
\* Authenticate or AuthenticateDevice only after a fault or a revocation,
\* whichever store the token is in and whatever commands ran, ended or were
\* killed in between.
THEOREM AsksOnlyAfterFault == Spec => []AskedOnlyAfterFault
<1>1. Init => Fresh /\ Renew
  BY DEF Init, Off, Fresh, Renew
<1>2. LoginInv /\ Fresh /\ Renew /\ [Next]_vars => Fresh' /\ Renew'
  <2>1. Fresh /\ Renew /\ UNCHANGED vars => Fresh' /\ Renew'
    BY DEF Fresh, Renew, Best, BestToken, FileEntry, HasRefreshToken, vars, cacheVars
  <2> QED
    BY <2>1, FreshStep, RenewStep DEF LoginInv
<1>3. Renew => AskedOnlyAfterFault
  BY DEF Renew, AskedOnlyAfterFault
<1> QED
  BY <1>1, <1>2, <1>3, LoginInvInductive, PTL DEF Spec

-----------------------------------------------------------------------------
(* The refinement of ClientAccess                                          *)

\* Where a command is about to change the talosconfig.
LastPCs == {"config", "save", "delete", "deleteFile", "deleteWrite"}

\* What a command is going to save: the talosconfig as Load reads it, with the
\* command's own context set or removed and a certificate that was just issued.
Saving ==
    /\ stage[Self] # "idle" =>
         /\ run.pc = "save"
         /\ IF run.kind = "logout"
              THEN Own[Self] \in conf.contexts /\ mem[Self] = RemoveContext(Loaded, Own[Self])
              ELSE mem[Self] = SetContextFromPEM(Loaded, Own[Self])
    /\ run.pc \in {"config", "save"} /\ run.kind # "logout" =>
         run.new = CertTTL /\ revoked < IDTTL
    /\ run.pc \in {"delete", "deleteFile", "deleteWrite"} => run.kind = "logout"

\* The steps that lead to a change of the talosconfig, and the others.
LEMMA SavingSteps ==
    ASSUME run \in Run, Next
    PROVE  \/ Load \/ SaveStep \/ Saved \/ SaveFails \/ Crash \/ Revoke \/ Tick
           \/ /\ UNCHANGED <<configVars, certLeft, revoked>>
              /\ \/ UNCHANGED run
                 \/ ExchangeOK
                 \/ run.pc = "off" /\ run' = [Off EXCEPT !.pc = "delete", !.kind = "logout"]
                 \/ /\ run.pc \in {"delete", "deleteFile", "deleteWrite"}
                    /\ \E pc \in {"deleteFile", "deleteWrite", "config"} : Go(pc)
                 \/ run.pc # "save" /\ run'.pc \notin LastPCs
<1> DEFINE Out == run'.pc \notin LastPCs
<1>1. RoundEnds => Out
  BY RoundOver DEF LastPCs
<1>2. Authenticate => Out
  BY DEF Authenticate, Run, LastPCs
<1>3. \A pc \in PCs \ LastPCs : Go(pc) => Out
  BY DEF Go, Run
<1>4. Stored => Out
  <2>1. "exchange" \in PCs \ LastPCs
    BY DEF PCs, RequestPCs, LastPCs
  <2> QED
    BY <1>1, <1>2, <1>3, <2>1 DEF Stored, RoundEnds
<1>5. ASSUME NEW t, Cached(t) PROVE Out
  <2>1. CASE Authenticate
    BY <1>2, <2>1
  <2>2. CASE run' = [run EXCEPT !.pc = "exchange", !.tok = t]
    BY <2>2 DEF Run, LastPCs
  <2>3. CASE run' = [run EXCEPT !.pc = "refreshDiscover", !.via = "refresh", !.tok = t]
    BY <2>3 DEF Run, LastPCs
  <2> QED
    BY <1>5, <2>1, <2>2, <2>3 DEF Cached
<1>6. ASSUME NEW g, RefreshOK(g) \/ CodeOK(g) \/ PollOK(g) PROVE Out
  BY <1>6 DEF RefreshOK, CodeOK, PollOK, Run, LastPCs
<1>7. AuthReturns => Out
  <2>1. "store" \in PCs \ LastPCs
    BY DEF PCs, LocalPCs, LastPCs
  <2> QED
    BY <1>1, <1>3, <2>1 DEF AuthReturns, RoundEnds
<1>8. /\ {"cache", "refresh", "write", "listen", "request", "wait", "code", "shutdown",
          "poll", "pause"} \subseteq PCs \ LastPCs
      /\ run.kind \in Kinds /\ "login" \in Kinds /\ "watch" \in Kinds
  BY DEF PCs, LocalPCs, RequestPCs, AuthPCs, LastPCs, Run, Kinds
<1> HIDE DEF Out
<1>9. CASE \E g \in RefreshGrants : RefreshOK(g)
  BY <1>6, <1>9 DEF RefreshOK, RefreshGranted, At, Out
<1>10. CASE \E g \in AuthGrants : CodeOK(g) \/ PollOK(g)
  BY <1>6, <1>10 DEF CodeOK, PollOK, At, Out
<1>11. CASE LookUp \/ AuthReturns
  BY <1>5, <1>7, <1>11 DEF LookUp, AuthReturns, At, Out
<1>12. CASE StoreInKeychain \/ StoreWritten \/ StoreFails
  BY <1>4, <1>12 DEF StoreInKeychain, StoreWritten, StoreFails, At, Out
<1>13. CASE \/ StillValid \/ PlainHTTP \/ AuthRefused \/ PollFails \/ PauseTimeout \/ WakeUp
            \/ \E kind \in {"login", "watch"} : StartLogin(kind)
            \/ ExchangeFails \/ NoServerCA \/ LoadEnds
  BY <1>1, <1>8, <1>13
  DEF RoundEnds, StillValid, PlainHTTP, AuthRefused, PollFails, PauseTimeout, WakeUp, StartLogin,
      ExchangeFails, NoServerCA, LoadEnds, At, Out
<1>14. CASE RefreshFails \/ RefreshRefused \/ RefreshLost
  BY <1>2, <1>14 DEF RefreshFails, RefreshRefused, RefreshLost, RefreshGranted, At, Out
<1>15. CASE \/ NeedsRenewal \/ CheckFails \/ RefreshDiscoverOK \/ StoreInFile \/ DiscoverOK
            \/ OpenBrowser \/ GotResult \/ GotError \/ WaitTimeout \/ CodeFails \/ RequestOK
            \/ PollAgain \/ PauseOver
  BY <1>3, <1>8, <1>15
  DEF NeedsRenewal, CheckFails, RefreshDiscoverOK, StoreInFile, DiscoverOK, OpenBrowser,
      GotResult, GotError, WaitTimeout, CodeFails, RequestOK, PollAgain, PauseOver, At, Out
<1>16. CASE Callback \/ ExchangeOK \/ StartLogout
  BY <1>16 DEF Callback, ExchangeOK, StartLogout, At
<1>17. CASE DeleteFromKeychain \/ DeleteFromFile \/ DeleteTruncates \/ DeleteRewrites
  BY <1>17 DEF DeleteFromKeychain, DeleteFromFile, DeleteTruncates, DeleteRewrites, At
<1> QED
  BY <1>9, <1>10, <1>11, <1>12, <1>13, <1>14, <1>15, <1>16, <1>17 DEF Next, Command

LEMMA SavingStep ==
    ASSUME LoginInv, Saving, Next
    PROVE  Saving'
<1>1. /\ run \in Run /\ ConfigInv /\ stage \in [Procs -> {"idle", "loaded", "open", "written"}]
      /\ mem \in [Procs -> Content] /\ Procs = {Self}
      /\ Parsed(conf) = conf
  BY ContextsDistinct, ChangedInMemory DEF LoginInv, TypeOK, ConfigInv, ConfigTypeOK
<1>2. run.pc # "save" => stage[Self] = "idle"
  BY DEF Saving
<1>3. CASE Load
  <2>1. run' = [run EXCEPT !.pc = "save"] /\ conf' = conf /\ revoked' = revoked /\ run.pc = "config"
    BY <1>3 DEF Load, Go, At, LoadAndSet, LoadAndRemove, LoadInto
  <2>2. run'.pc = "save" /\ run'.kind = run.kind /\ run'.new = run.new
    BY <1>1, <2>1 DEF Run
  <2>3. IF run.kind = "logout"
          THEN Own[Self] \in conf.contexts /\ mem'[Self] = RemoveContext(Loaded, Own[Self])
          ELSE mem'[Self] = SetContextFromPEM(Loaded, Own[Self])
    BY <1>1, <1>3 DEF Load, LoadAndSet, LoadAndRemove, LoadInto
  <2>4. Loaded' = Loaded
    BY <2>1 DEF Loaded, Parsed
  <2> QED
    BY <2>1, <2>2, <2>3, <2>4 DEF Saving
<1>4. CASE SaveStep
  <2>1. UNCHANGED <<run, revoked, mem, conf>> /\ run.pc = "save" /\ stage[Self] # "idle"
    BY <1>1, <1>4 DEF SaveStep, At, OpenTmp, WriteTmp, ConfWith, ConfigInv
  <2>2. Loaded' = Loaded
    BY <2>1 DEF Loaded, Parsed
  <2> QED
    BY <2>1, <2>2 DEF Saving
<1>5. CASE Saved \/ SaveFails \/ Crash
  <2>1. stage'[Self] = "idle"
    BY <1>1, <1>5 DEF Saved, SaveFails, Crash, Rename, OpenFails, WriteFails, RenameFails, Die, Leave
  <2>2. run'.pc \notin LastPCs
    BY <1>5, RoundOver DEF Saved, SaveFails, Crash, RoundEnds, LastPCs
  <2> QED
    BY <2>1, <2>2 DEF Saving, LastPCs
<1>6. CASE Revoke
  BY <1>6, Numbers DEF Revoke, Saving, configVars, Loaded, Parsed
<1>7. CASE Tick
  <2>1. stage'[Self] = "idle" /\ run'.pc = run.pc
    BY <1>1, <1>2, <1>7 DEF Tick, LocalPCs, configVars, Run
  <2> QED
    BY <1>7, <2>1 DEF Tick, LocalPCs, Saving
<1>8. ASSUME UNCHANGED <<configVars, certLeft, revoked>>
      PROVE  UNCHANGED <<stage, mem, conf, revoked, Loaded>>
  BY <1>8 DEF configVars, Loaded, Parsed
<1>9. CASE UNCHANGED <<configVars, certLeft, revoked>> /\ UNCHANGED run
  BY <1>8, <1>9 DEF Saving
<1>10. CASE UNCHANGED <<configVars, certLeft, revoked>> /\ ExchangeOK
  <2>1. run.pc = "exchange" /\ run'.pc = "config" /\ run'.new = CertTTL
    BY <1>1, <1>10 DEF ExchangeOK, At, Run
  <2>2. revoked < IDTTL
    <3>1. run.tok \in Token /\ run.tok.id > 0
      BY <1>10, <2>1 DEF ExchangeOK, ServerAccepts, LoginInv, TokenInHand
    <3>2. run.tok.id \in Int /\ revoked \in Int /\ IDTTL \in Nat \ {0}
      BY <3>1, Numbers DEF Token, LoginInv, TypeOK
    <3>3. revoked # -1 => run.tok.id + revoked <= IDTTL
      BY <3>1 DEF LoginInv, Young
    <3> QED
      BY <3>1, <3>2, <3>3
  <2> QED
    BY <1>2, <1>8, <1>10, <2>1, <2>2 DEF Saving
<1>11. CASE /\ UNCHANGED <<configVars, certLeft, revoked>>
            /\ run.pc = "off" /\ run' = [Off EXCEPT !.pc = "delete", !.kind = "logout"]
  <2>1. run'.pc = "delete" /\ run'.kind = "logout"
    BY <1>11 DEF Off
  <2> QED
    BY <1>2, <1>8, <1>11, <2>1 DEF Saving
<1>12. CASE /\ UNCHANGED <<configVars, certLeft, revoked>>
            /\ run.pc \in {"delete", "deleteFile", "deleteWrite"}
            /\ \E pc \in {"deleteFile", "deleteWrite", "config"} : Go(pc)
  <2>1. run'.pc \in {"deleteFile", "deleteWrite", "config"} /\ run'.kind = run.kind
    BY <1>1, <1>12 DEF Go, Run
  <2> QED
    BY <1>2, <1>8, <1>12, <2>1 DEF Saving
<1>13. CASE UNCHANGED <<configVars, certLeft, revoked>> /\ run.pc # "save" /\ run'.pc \notin LastPCs
  BY <1>2, <1>8, <1>13 DEF Saving, LastPCs
<1> QED
  BY <1>1, <1>3, <1>4, <1>5, <1>6, <1>7, <1>9, <1>10, <1>11, <1>12, <1>13, SavingSteps

LEMMA AccessStep ==
    ASSUME LoginInv, Saving, Next
    PROVE  [Access!Next]_(Access!vars)
<1>1. /\ run \in Run /\ ConfigInv /\ Procs = {Self}
  BY ContextsDistinct DEF LoginInv, TypeOK
<1>2. UNCHANGED <<conf, certLeft, revoked>> => UNCHANGED Access!vars
  BY DEF Access!vars
<1>3. CASE Load \/ SaveStep \/ SaveFails \/ Crash
  <2>1. conf' = conf
    BY <1>1, <1>3
    DEF Load, SaveStep, SaveFails, Crash, LoadAndSet, LoadAndRemove, LoadInto, OpenTmp, WriteTmp,
        OpenFails, WriteFails, RenameFails, Die, ConfWith, ConfigInv
  <2> QED
    BY <1>2, <1>3, <2>1 DEF Load, SaveStep, SaveFails, Crash
<1>4. CASE Saved
  <2>1. /\ run.pc = "save" /\ stage[Self] = "written" /\ conf' = mem[Self] /\ tmp = mem[Self]
        /\ certLeft' = IF Own[Self] \in tmp.contexts THEN run.new ELSE 0
        /\ revoked' = revoked
    BY <1>1, <1>4 DEF Saved, At, Rename, ConfigInv
  <2>2. CASE run.kind = "logout"
    <3>1. Own[Self] \in conf.contexts /\ mem[Self] = RemoveContext(Loaded, Own[Self])
      BY <2>1, <2>2 DEF Saving
    <3>2. Own[Self] \notin mem[Self].contexts
      BY <1>1, <3>1, ChangedInMemory DEF ConfigInv
    <3> QED
      BY <1>1, <2>1, <3>1, <3>2, ChangedInMemory DEF ConfigInv, Access!Next, Access!Remove
  <2>3. CASE run.kind # "logout"
    <3>1. /\ mem[Self] = SetContextFromPEM(Loaded, Own[Self])
          /\ run.new = CertTTL /\ revoked < IDTTL
      BY <2>1, <2>3 DEF Saving
    <3>2. Own[Self] \in mem[Self].contexts
      BY <1>1, <3>1, ChangedInMemory DEF ConfigInv
    <3> QED
      BY <1>1, <2>1, <3>1, <3>2, ChangedInMemory DEF ConfigInv, Access!Next, Access!Renew
  <2> QED
    BY <2>2, <2>3
<1>5. CASE Revoke
  BY <1>5 DEF Revoke, configVars, Access!Next, Access!Revoke
<1>6. CASE Tick
  <2>1. /\ certLeft' = IF certLeft = 0 THEN 0 ELSE certLeft - 1
        /\ revoked' = IF revoked \in {-1, IDTTL + CertTTL} THEN revoked ELSE revoked + 1
        /\ conf' = conf
    BY <1>6, Numbers DEF Tick, Down, Window, configVars, LoginInv, TypeOK
  <2> QED
    BY <2>1 DEF Access!Next, Access!Tick
<1>7. CASE UNCHANGED <<configVars, certLeft, revoked>>
  BY <1>2, <1>7 DEF configVars
<1> QED
  BY <1>1, <1>3, <1>4, <1>5, <1>6, <1>7, SavingSteps

\* Behind caches, flows, deadlines and half-written files, the commands change
\* the talosconfig and its certificate in one step: SetContextFromPEM and
\* RemoveContext change their own context and the selected one, and from the
\* others Load drops the fields it has no place for, nothing else.  None issues
\* a certificate an ID token's life after the revocation.
THEOREM LoginImplementsClientAccess == Spec => ImplementsClientAccess
<1>1. Init => Saving
  BY ContextsDistinct DEF Init, ConfigInit, Off, Saving
<1>2. Init => Access!Init
  BY DEF Init, ConfigInit, Access!Init
<1>3. UNCHANGED vars => UNCHANGED Access!vars /\ (Saving => Saving')
  BY DEF vars, configVars, Access!vars, Saving, Loaded, Parsed
<1>4. LoginInv /\ [Next]_vars => LoginInv'
  BY LoginInvInductive
<1>5. LoginInv /\ Saving /\ [Next]_vars => Saving' /\ [Access!Next]_(Access!vars)
  BY <1>3, SavingStep, AccessStep
<1> QED
  BY <1>1, <1>2, <1>4, <1>5, LoginInvInductive, PTL DEF Spec, ImplementsClientAccess, Access!Spec
=============================================================================
