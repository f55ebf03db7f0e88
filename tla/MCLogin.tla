------------------------------ MODULE MCLogin ------------------------------
(* Login for TLC: tokens, certificates and rounds of two ticks, callbacks   *)
(* enough to block handlers, a provider that leaves parts of a grant out.   *)
(* The talosconfig has the context of another cluster, which is selected.   *)
EXTENDS Login

CONSTANTS mine, other

MCOwn == [p \in {Self} |-> mine]

MCInitial == {[current |-> other, contexts |-> {other}, nodes |-> {other}, extra |-> {other}]}

MCAuthGrants == [id : {IDTTL}, rt : BOOLEAN] \cup {[id |-> NoID, rt |-> TRUE]}

MCRefreshGrants == {[id |-> IDTTL, rt |-> TRUE], [id |-> IDTTL, rt |-> FALSE],
                    [id |-> NoID, rt |-> FALSE]}
=============================================================================
