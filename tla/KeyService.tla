----------------------------- MODULE KeyService -----------------------------
(***************************************************************************)
(* What token validation relies on when it asks for the provider's keys,   *)
(* whatever cache, locks and fetches are behind it: each answer is one     *)
(* step, `served' is the newest set handed out so far.  JWKSCache          *)
(* implements this specification (JWKSCache!ImplementsKeyService).         *)
(***************************************************************************)
EXTENDS Integers

CONSTANTS
    Delay,          \* how long a withdrawn set may still be handed out
    MaxVersions     \* bound on the key sets the provider publishes

VARIABLES
    now, keys, publishedAt,     \* the clock and the provider, as in JWKSCache
    served,                     \* the newest set handed out, 0 before the first
    answer                      \* the last answer

vars == <<now, keys, publishedAt, served, answer>>

Init ==
    /\ now = 0
    /\ keys = 1
    /\ publishedAt = [v \in 1 .. MaxVersions |-> 0]
    /\ served = 0
    /\ answer = [ver |-> 0, failed |-> FALSE, at |-> 0]

\* A set the provider still published less than Delay ago.
Recent(v) == v = keys \/ publishedAt[v + 1] > now - Delay

Give(v, failed) ==
    /\ answer' = [ver |-> v, failed |-> failed, at |-> now]
    /\ served' = v
    /\ UNCHANGED <<now, keys, publishedAt>>

\* A recent set, never older than one handed out before.
Answer ==
    \E v \in 1 .. keys : /\ served <= v
                         /\ Recent(v)
                         /\ Give(v, FALSE)

\* The provider cannot be reached: the last set again, or an error if there
\* never was one.
Outage == Give(served, TRUE)

Rotate ==
    /\ keys < MaxVersions
    /\ keys' = keys + 1
    /\ publishedAt' = [publishedAt EXCEPT ![keys + 1] = now]
    /\ UNCHANGED <<now, served, answer>>

Tick ==
    /\ now' = now + 1
    /\ UNCHANGED <<keys, publishedAt, served, answer>>

Next == Answer \/ Outage \/ Rotate \/ Tick

Spec == Init /\ [][Next]_vars
=============================================================================
