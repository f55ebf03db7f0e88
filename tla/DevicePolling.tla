--------------------------- MODULE DevicePolling ---------------------------
(***************************************************************************)
(* PollDeviceToken of pkg/oidc/provider.go: polling the token endpoint     *)
(* until the user approved the login on another device, at an interval     *)
(* that the provider may stretch, until the device code expires.           *)
(***************************************************************************)
EXTENDS Integers

CONSTANTS
    Interval,       \* the provider's interval, in ticks; slow_down adds as much
    CodeTTL         \* how long a device code is valid, in ticks

ASSUME DeviceAssumption ==
    /\ Interval \in Nat \ {0}   \* RequestDeviceCode replaces one <= 0
    /\ CodeTTL \in Nat \ {0}

VARIABLES
    interval,       \* the current interval, 0 outside of the flow
    pause,          \* what is left of the pause before the next poll
    codeLeft        \* until the deadline

deviceVars == <<interval, pause, codeLeft>>

DeviceTypeOK == interval \in Nat /\ pause \in Nat /\ codeLeft \in 0 .. CodeTTL

DeviceInit == interval = 0 /\ pause = 0 /\ codeLeft = 0

\* RequestDeviceCode, and the deadline.
DeviceCode ==
    /\ interval' = Interval
    /\ pause' = 0
    /\ codeLeft' = CodeTTL

\* The answers after which the loop goes on.
Pending ==
    /\ pause' = interval
    /\ UNCHANGED <<interval, codeLeft>>

SlowDown ==
    /\ interval' = interval + Interval
    /\ pause' = interval'
    /\ UNCHANGED codeLeft

\* The loop returns.
DeviceDone == interval' = 0 /\ pause' = 0 /\ codeLeft' = 0

CodeExpired == codeLeft = 0
=============================================================================
