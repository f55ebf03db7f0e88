--------------------------- MODULE MCAccessPolicy ---------------------------
(* AccessPolicy and TokenLife for TLC, in one run: a behaviour explores one *)
(* of their three decisions.  A client, a second client, two trusted        *)
(* proxies, of which one adds a header line of its own, and a proxy that is *)
(* not trusted; claims of every shape the mapper tells apart; the tokens of *)
(* MCTokenLife.                                                             *)
EXTENDS AccessPolicy, MCTokenLife

CONSTANTS c1, c2, p1, p2, q, junk, reader, operator, admin, dev, ops, other

MCAddrs == {c1, c2, p1, p2, q}
MCParts == {c2, p1, junk}

String(ws, padded) == [kind |-> "string", words |-> ws, padded |-> padded]
List(vs) == [kind |-> "list", items |-> vs]

Values == {Missing, [kind |-> "other"],
           String(<<dev>>, FALSE), String(<<dev>>, TRUE), String(<<dev, ops>>, FALSE),
           String(<<dev, ops>>, TRUE), List({<<ops>>}), List({<<dev>>, <<dev, ops>>})}

MCClaimSets == [{"groups", "email"} -> Values]
MCRoleSets == {{}, {reader}, {admin}}
MCRules == {[claim |-> "groups", value |-> <<dev>>, roles |-> {reader}],
            [claim |-> "groups", value |-> <<ops>>, roles |-> {admin}],
            [claim |-> "email", value |-> <<dev, ops>>, roles |-> {operator}],
            [claim |-> "groups", value |-> <<other>>, roles |-> {admin}],
            [claim |-> "groups", value |-> <<dev, ops>>, roles |-> {}]}
\* While the address or the roles are decided, the token is at rest, and the
\* other way round.
DecisionInit ==
    \/ /\ AccessInit
       /\ tok = (CHOOSE t \in Tokens : TRUE) /\ jwks = <<>> /\ now = 0
    \/ /\ part = "token"
       /\ Init
       /\ path = <<c1>> /\ xff = NoHeader /\ sent = NoHeader
       /\ roles = {} /\ rules = <<>> /\ claims = CHOOSE c \in ClaimSets : TRUE

DecisionNext ==
    \/ AccessNext /\ UNCHANGED vars
    \/ part = "token" /\ Next /\ UNCHANGED accessVars

DecisionSpec == DecisionInit /\ [][DecisionNext]_<<vars, accessVars>>
=============================================================================
