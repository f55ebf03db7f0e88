---------------------------- MODULE SlidingWindow ----------------------------
(***************************************************************************)
(* What the limiter promises of each client object, whatever locks, late   *)
(* clocks and clean-ups are behind it: a request is admitted, in one step, *)
(* only if fewer than Requests of the object's admissions carry a stamp of *)
(* the last Window ticks.  RateLimiter implements this specification       *)
(* (RateLimiter!ImplementsSlidingWindow).                                  *)
(***************************************************************************)
EXTENDS Integers, Sequences, FiniteSets

CONSTANTS
    Clients,            \* client objects
    Requests, Window,   \* the limit
    MaxDelay            \* how old the stamp of a request may be

VARIABLES now, log      \* the clock and the admissions, as in RateLimiter

vars == <<now, log>>

Init == now = 0 /\ log = [c \in Clients |-> <<>>]

Recent(c) == {k \in DOMAIN log[c] : log[c][k].stamp > now - Window}

Admit(c) ==
    /\ Cardinality(Recent(c)) < Requests
    /\ \E s \in now - MaxDelay .. now :
         log' = [log EXCEPT ![c] = Append(@, [stamp |-> s, at |-> now])]
    /\ now' = now

Tick == now' = now + 1 /\ log' = log

Next == Tick \/ \E c \in Clients : Admit(c)

Spec == Init /\ [][Next]_vars
=============================================================================
