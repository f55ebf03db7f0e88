---------------------------- MODULE TokenCache ----------------------------
(***************************************************************************)
(* pkg/keychain: where the tokens of one context are cached.  Store puts   *)
(* them in the system keychain and, when the keychain refuses, in a file;  *)
(* Retrieve reads both and picks one; Delete clears both.                  *)
(*                                                                         *)
(* A token says how long the client considers it valid (left: until        *)
(* ExpiresAt, less the 30 seconds of IsExpired), how long its ID token is  *)
(* (id: until exp, NoID if it has none) and what its refresh token is      *)
(* worth (rt: none, current, or spent because the provider replaced it).   *)
(* The file is one JSON object for all contexts; os.WriteFile truncates it *)
(* before it writes, and a file that does not parse is Torn.               *)
(***************************************************************************)
EXTENDS Integers

CONSTANTS
    NoToken,        \* nothing cached for the context
    Torn,           \* a file that does not parse
    TokenTTL,       \* ticks until ExpiresAt of a new token
    IDTTL           \* the longest an ID token is valid, in ticks

NoID == -1

Token == [left : 0 .. TokenTTL, id : NoID .. IDTTL,
          rt : {"none", "current", "spent"}]

ASSUME CacheAssumption ==
    /\ TokenTTL \in Nat \ {0}
    /\ IDTTL \in Nat \ {0}
    /\ NoToken # Torn
    /\ NoToken \notin Token
    /\ Torn \notin Token

VARIABLES
    keychain,       \* the entry of the context in the system keychain
    file,           \* its entry in tokens.json, or Torn for the whole file
    fileLater       \* both are there, and the one in the file expires later

cacheVars == <<keychain, file, fileLater>>

IsToken(t) == t \notin {NoToken, Torn}

CacheTypeOK ==
    /\ keychain = NoToken \/ keychain \in Token
    /\ file \in {NoToken, Torn} \/ file \in Token
    /\ fileLater \in BOOLEAN

CacheInit == keychain = NoToken /\ file = NoToken /\ fileLater = FALSE

IsExpired(t) == t.left = 0

HasRefreshToken(t) == t.rt # "none"

\* bestToken: one with a refresh token before one without, else the later.
BestToken(k, f) ==
    IF k = NoToken THEN f
    ELSE IF f = NoToken THEN k
    ELSE IF HasRefreshToken(k) # HasRefreshToken(f)
         THEN IF HasRefreshToken(k) THEN k ELSE f
         ELSE IF fileLater THEN f ELSE k

\* Mutant of FileEntry: a file that does not parse is not noticed.
FileUnchecked == file

\* fileRetrieve: an error is no token.
FileEntry == IF file = Torn THEN NoToken ELSE file

\* Retrieve never returns an error: a store that cannot be read is skipped.
Retrieved == {BestToken(k, f) : k \in {keychain, NoToken},
                                f \in {FileEntry, NoToken}}

-----------------------------------------------------------------------------
\* The new token expires later than one stored before it with the same
\* life, and maybe sooner than one with a longer life.
KeychainSet(t) ==
    /\ keychain' = t
    /\ fileLater' = (IsToken(file) /\ file.left > t.left)
    /\ UNCHANGED file

\* The keychain refused (it is not there, or the token is too large):
\* fileStore reads the file, adds the token, and truncates the file ...
FileTruncate ==
    /\ file # Torn
    /\ file' = Torn
    /\ fileLater' = FALSE
    /\ UNCHANGED keychain

\* ... and writes it.
FileWrite(t) ==
    /\ file' = t
    /\ fileLater' = (keychain # NoToken /\ t.left >= keychain.left)
    /\ UNCHANGED keychain

\* keyring.Delete; an error other than "not found" is only logged.
KeychainDelete ==
    /\ keychain' \in {NoToken, keychain}
    /\ fileLater' = (fileLater /\ keychain' # NoToken)
    /\ UNCHANGED file

\* fileDelete when no other context has a token: the file is removed.  An
\* error, one from parsing the file included, is only logged.
FileRemove ==
    /\ file' \in (IF file = Torn THEN {Torn} ELSE {NoToken, file})
    /\ fileLater' = (fileLater /\ file' # NoToken)
    /\ UNCHANGED keychain

\* With tokens of other contexts left, the file is truncated and rewritten.
FileRewrite ==
    /\ file' = NoToken
    /\ UNCHANGED <<keychain, fileLater>>

-----------------------------------------------------------------------------
Down(n) == IF n > 0 THEN n - 1 ELSE n

\* A tick of the clock.
Aged(t) == IF IsToken(t)
           THEN [t EXCEPT !.left = Down(@), !.id = Down(@)] ELSE t

\* The provider replaced the refresh token that was in use.
Spent(t) == IF IsToken(t) /\ t.rt = "current"
            THEN [t EXCEPT !.rt = "spent"] ELSE t

AgeCache ==
    /\ keychain' = Aged(keychain)
    /\ file' = Aged(file)
    /\ UNCHANGED fileLater

SpendRefreshToken ==
    /\ keychain' = Spent(keychain)
    /\ file' = Spent(file)
    /\ UNCHANGED fileLater
=============================================================================
