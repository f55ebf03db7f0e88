--------------------------- MODULE MCSelfSigned ---------------------------
(* SelfSigned over three generations and two lives of a certificate, so    *)
(* that files of three generations can lie side by side.                   *)
EXTENDS SelfSigned
=============================================================================
