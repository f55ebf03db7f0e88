---------------------------- MODULE ClientAccess ----------------------------
(***************************************************************************)
(* What `login', `login --watch' and `logout' promise the user, whatever   *)
(* caches, flows, deadlines and files are behind them: the context of the  *)
(* cluster and its certificate are replaced or removed in one step, which  *)
(* also selects it or, if it was selected, selects none; every other       *)
(* context stays in the file with its endpoints, certificate and nodes;    *)
(* and no certificate is issued once an ID token's life has passed since   *)
(* access was revoked.  The step is not confined to the one context: it    *)
(* drops fields the program does not know from all of them.                *)
(* Login implements this specification (Login!ImplementsClientAccess).     *)
(***************************************************************************)
EXTENDS Integers

CONSTANTS
    Mine,               \* the context the commands manage
    NoContext,          \* no context is selected
    Initial,            \* what the talosconfig may contain at first
    IDTTL, CertTTL      \* the lives of an ID token and of a certificate

VARIABLES
    config,             \* the talosconfig, as in TalosConfig
    certLeft, revoked   \* the certificate and the provider, as in Login

vars == <<config, certLeft, revoked>>

Init ==
    /\ config \in Initial
    /\ certLeft = 0
    /\ revoked = -1

\* A login, or a round of a watch.
Renew ==
    /\ revoked < IDTTL
    /\ config' = [current |-> Mine, contexts |-> config.contexts \cup {Mine},
                  nodes |-> config.nodes \ {Mine}, extra |-> {}]
    /\ certLeft' = CertTTL
    /\ UNCHANGED revoked

\* A logout.
Remove ==
    /\ Mine \in config.contexts
    /\ config' = [current |-> IF config.current = Mine THEN NoContext ELSE config.current,
                  contexts |-> config.contexts \ {Mine},
                  nodes |-> config.nodes \ {Mine}, extra |-> {}]
    /\ certLeft' = 0
    /\ UNCHANGED revoked

Revoke ==
    /\ revoked = -1
    /\ revoked' = 0
    /\ UNCHANGED <<config, certLeft>>

Tick ==
    /\ certLeft' = IF certLeft = 0 THEN 0 ELSE certLeft - 1
    /\ revoked' = IF revoked \in {-1, IDTTL + CertTTL} THEN revoked ELSE revoked + 1
    /\ UNCHANGED config

Next == Renew \/ Remove \/ Revoke \/ Tick

Spec == Init /\ [][Next]_vars
=============================================================================
