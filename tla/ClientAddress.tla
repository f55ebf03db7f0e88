--------------------------- MODULE ClientAddress ---------------------------
(***************************************************************************)
(* Who a request is from: extractIP and isTrustedProxy, which              *)
(* pkg/ratelimit and pkg/allowlist each define with the same body, and     *)
(* Allowlist.Allowed.  An address is a model value; what net.ParseIP and   *)
(* IPNet.Contains say of it is given by the sets below.                    *)
(*                                                                         *)
(* A request may carry several X-Forwarded-For lines, each a list of       *)
(* comma-separated parts.  Header.Get reads the first line only, so a      *)
(* header is [parts, first, lines]: all parts in order, how many of them   *)
(* are in the first line, and the number of lines (0 for no header).       *)
(***************************************************************************)
EXTENDS Integers, Sequences, FiniteSetsExt

CONSTANTS
    Unparseable,    \* strings net.ParseIP rejects
    Trusted,        \* addresses inside a trusted_proxies entry
    Listed          \* addresses inside an ip_allowlist entry

\* A string that does not parse is inside no network.
isTrustedProxy(a) == a \in Trusted \ Unparseable

\* The parts of the first line.
Get(xff) == SubSeq(xff.parts, 1, xff.first)

\* Mutant of extractIP: the line is read from the left.
extractIPLeft(peer, xff) ==
    LET untrusted == {k \in DOMAIN Get(xff) : ~isTrustedProxy(Get(xff)[k])}
    IN  IF isTrustedProxy(peer) /\ untrusted # {}
          THEN Get(xff)[Min(untrusted)]
          ELSE peer

\* The line is read from the right, from a trusted peer only: the first part
\* that is not a trusted proxy, else the peer itself.
extractIP(peer, xff) ==
    LET untrusted == {k \in DOMAIN Get(xff) : ~isTrustedProxy(Get(xff)[k])}
    IN  IF isTrustedProxy(peer) /\ untrusted # {}
          THEN Get(xff)[Max(untrusted)]
          ELSE peer

\* An empty allowlist is disabled and lets every address pass.
AllowlistEnabled == Listed # {}

Allowed(a) == AllowlistEnabled => a \in Listed \ Unparseable
=============================================================================
