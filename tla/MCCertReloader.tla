-------------------------- MODULE MCCertReloader --------------------------
(* CertReloader with two handshakes and two key pairs: enough for one      *)
(* handshake to wait for the lock while the other reloads in the middle of *)
(* a rotation of two files, and for a second rotation after it.            *)
EXTENDS CertReloader, TLC

CONSTANTS h1, h2

MCThreads == {h1, h2}
MCGenerations == {1, 2}
Handshakes == Permutations(MCThreads)
=============================================================================
