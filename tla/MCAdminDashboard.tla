------------------------- MODULE MCAdminDashboard -------------------------
(* Two handlers and two addresses; two wrong tokens lock an address out,   *)
(* and the clock runs past a lockout, a window and a session.              *)
EXTENDS AdminDashboard, TLC

CONSTANTS h1, h2, a1, a2

MCThreads == {h1, h2}
MCAddresses == {a1, a2}
Handlers == Permutations(MCThreads) \cup Permutations(MCAddresses)
=============================================================================
