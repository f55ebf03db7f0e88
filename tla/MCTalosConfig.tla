--------------------------- MODULE MCTalosConfig ---------------------------
(* TalosConfig for TLC: two logins for two clusters, one file with the      *)
(* context of a third.                                                      *)
EXTENDS TalosConfig, TLC

CONSTANTS p1, p2, mine, theirs, other

MCInitial == {[current |-> other, contexts |-> {other}, nodes |-> {other}, extra |-> {other}]}

MCOwn == (p1 :> mine) @@ (p2 :> theirs)
=============================================================================
