-------------------------- MODULE CallbackServer --------------------------
(***************************************************************************)
(* The local server of pkg/oidc/auth.go that waits for the redirect of the *)
(* browser: every request to /callback is a handler that sends on one of   *)
(* two channels, resultCh (buffer 1) or errCh (buffer ErrCap), and blocks  *)
(* while that is full.  WaitForCallback receives once; Shutdown waits for  *)
(* the handlers, but not for ever.                                         *)
(***************************************************************************)
EXTENDS Integers, Sequences

CONSTANTS
    ErrCap,         \* buffer of errCh: the number of listeners, and one
    MaxCallbacks    \* bound on the callbacks of one attempt

ASSUME CallbackAssumption == ErrCap \in Nat \ {0} /\ MaxCallbacks \in Nat

VARIABLES
    up,         \* the listeners are open
    results,    \* values sent or waiting to be sent on resultCh, in order
    errs        \* values sent or waiting to be sent on errCh

callbackVars == <<up, results, errs>>

\* own: the redirect that carries this attempt's state.  foreign: a code with
\* another state, as from the browser tab of an earlier attempt, or a repeated
\* one, which nobody will look at.
ResultKinds == {"own", "foreign"}

CallbackTypeOK ==
    /\ up \in BOOLEAN
    /\ results \in Seq(ResultKinds)
    /\ errs \in Nat
    /\ Len(results) + errs <= MaxCallbacks

Range(s) == {s[i] : i \in DOMAIN s}

CallbackInit == up = FALSE /\ results = <<>> /\ errs = 0

\* NewCallbackServer and Start.
Listen == up' = TRUE /\ results' = <<>> /\ errs' = 0

\* handleCallback with a code ...
CodeCallback(kind) ==
    /\ up
    /\ Len(results) + errs < MaxCallbacks
    /\ kind = "own" => "own" \notin Range(results)
    /\ results' = Append(results, kind)
    /\ UNCHANGED <<up, errs>>

\* ... and with an error or without a code.
ErrorCallback ==
    /\ up
    /\ Len(results) + errs < MaxCallbacks
    /\ errs' = errs + 1
    /\ UNCHANGED <<up, results>>

\* The two receiving cases of WaitForCallback.
ReceiveResult ==
    /\ results # <<>>
    /\ results' = Tail(results)
    /\ UNCHANGED <<up, errs>>

ReceiveError ==
    /\ errs > 0
    /\ errs' = errs - 1
    /\ UNCHANGED <<up, results>>

\* Handlers whose send does not end: nobody receives any more.
HandlersBlocked == Len(results) > 1 \/ errs > ErrCap

\* No listener, and no handler that anything will be received from.
Closed == up' = FALSE /\ results' = <<>> /\ errs' = 0

\* Mutant of Shutdown: it waits for the handlers without a deadline.
ShutdownPatient == up /\ ~HandlersBlocked /\ Closed

\* Shutdown when Authenticate returns: the listeners close.  It waits for the
\* handlers, 5 seconds at most, and leaves those that are still blocked.
Shutdown == up /\ Closed
=============================================================================
