--------------------------- MODULE MCRateLimiter ---------------------------
(* RateLimiter for TLC.  A call of Allow allocates at most one client       *)
(* object, so MaxCalls addresses are enough.  Threads and keys are          *)
(* interchangeable; the symmetry is used only where no liveness is checked. *)
EXTENDS RateLimiter, TLC

ASSUME EnoughClients == Cardinality(Clients) >= MaxCalls

Symmetry == Permutations(Threads) \cup Permutations(IPs)
=============================================================================
