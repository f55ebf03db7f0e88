---------------------------- MODULE MCJWKSCache ----------------------------
(* JWKSCache for TLC: the clock covers a fill, its expiry and a refresh.    *)
EXTENDS JWKSCache
=============================================================================
