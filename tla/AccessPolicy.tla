---------------------------- MODULE AccessPolicy ----------------------------
(***************************************************************************)
(* The two decisions of the server that depend only on configuration and   *)
(* on the request: the address a request is accounted to, as the request   *)
(* travels through proxies, and the roles a token gets, as an operator     *)
(* edits roles and rules (each edit is a restart with a new file).  The    *)
(* two parts share nothing; a behaviour explores one of them.              *)
(***************************************************************************)
EXTENDS ClientAddress, RoleMapping

CONSTANTS
    Addrs,      \* addresses of clients and proxies
    Parts,      \* parts of the X-Forwarded-For header a client may send
    Merging,    \* proxies that send the header on in one line
    RoleSets,   \* values of the configured role list
    Rules,      \* rules an operator may add
    ClaimSets,  \* claims of a validated token
    MaxParts,   \* bound on the parts of that header
    MaxHops,    \* bound on the length of the path to the server
    MaxRules    \* bound on the number of rules

ASSUME AccessAssumption == MaxParts \in Nat /\ MaxHops \in Nat /\ MaxRules \in Nat

VARIABLES
    part,           \* "address" or "roles"
    path, xff,      \* the hops a request really took; its header
    sent,           \* history: the header the client sent
    roles, rules, claims    \* configured roles and rules; the token

accessVars == <<part, path, xff, sent, roles, rules, claims>>

NoHeader == [parts |-> <<>>, first |-> 0, lines |-> 0]

\* Headers a client may send: none, one line, or two.
Headers ==
    {h \in [parts : UNION {[1 .. n -> Parts] : n \in 0 .. MaxParts},
            first : 0 .. MaxParts, lines : 0 .. 2] :
        /\ h.lines = 0 => h = NoHeader
        /\ h.lines = 1 => h.first = Len(h.parts)
        /\ h.first <= Len(h.parts)}

AccessInit ==
    \/ /\ part = "address"
       /\ path \in {<<a>> : a \in Addrs}
       /\ xff \in Headers
       /\ sent = xff
       /\ roles = {} /\ rules = <<>> /\ claims = CHOOSE c \in ClaimSets : TRUE
    \/ /\ part = "roles"
       /\ roles \in RoleSets
       /\ rules = <<>>
       /\ claims \in ClaimSets
       /\ path = <<CHOOSE a \in Addrs : TRUE>>
       /\ xff = NoHeader /\ sent = NoHeader

\* External: a proxy passes the request on and adds the address it was called
\* from: to the header's only line, joining the lines if there are more, or as
\* a line of its own behind those that came.
Forward(proxy) ==
    /\ part = "address"
    /\ Len(path) < MaxHops
    /\ path' = Append(path, proxy)
    /\ LET all == Append(xff.parts, path[Len(path)])
       IN  xff' = IF proxy \in Merging \/ xff.lines = 0
                  THEN [parts |-> all, first |-> Len(all), lines |-> 1]
                  ELSE [parts |-> all, first |-> xff.first, lines |-> xff.lines + 1]
    /\ UNCHANGED <<part, sent, roles, rules, claims>>

\* External: the operator adds a rule to the configuration file.
AddRule(rule) ==
    /\ part = "roles"
    /\ Len(rules) < MaxRules
    /\ rules' = Append(rules, rule)
    /\ UNCHANGED <<part, path, xff, sent, roles, claims>>

\* External: the operator changes the role list.
SetRoles(r) ==
    /\ part = "roles"
    /\ r # roles
    /\ roles' = r
    /\ UNCHANGED <<part, path, xff, sent, rules, claims>>

AccessNext ==
    \/ \E p \in Addrs : Forward(p)
    \/ \E r \in Rules : AddRule(r)
    \/ \E r \in RoleSets : SetRoles(r)

AccessSpec == AccessInit /\ [][AccessNext]_accessVars

-----------------------------------------------------------------------------
(* Properties *)

\* The server sees the last hop as its peer.
Key == extractIP(path[Len(path)], xff)

UntrustedHops == {k \in DOMAIN path : ~isTrustedProxy(path[k])}

\* The hop that the trusted proxies saw the request come from.
LastHop == Max(UntrustedHops)

\* That hop is the peer itself, or its address is in the line that Header.Get
\* reads: one of the trusted proxies behind it sends one line only, or the
\* request came to them without a header.
InFirstLine ==
    \/ LastHop = Len(path)
    \/ \E k \in LastHop + 1 .. Len(path) : path[k] \in Merging
    \/ LastHop = 1 /\ sent.lines = 0

\* A request is accounted to the last hop that is not a trusted proxy, however
\* many lines and parts the client wrote, provided that hop's address is in
\* the first line.  Where every trusted proxy adds a line of its own it is
\* not: the first line is then the client's, and the address in it is used.
SpoofResistant ==
    UntrustedHops # {} /\ InFirstLine => Key = path[LastHop]

Granted == RolesFor(roles, rules, claims)

\* os:admin is granted only by a list or a rule that names it, or when neither
\* roles nor rules are configured: the default of ApplyDefaults never applies
\* beside RBAC rules, and the default roles never to a user a rule matches;
\* with rules and no default roles, a user no rule matches gets nothing.
LeastPrivilege ==
    /\ Admin \in Granted =>
         \/ roles = {} /\ rules = <<>>
         \/ Admin \in roles /\ Matching(rules, claims) = {}
         \/ \E k \in Matching(rules, claims) : Admin \in rules[k].roles
    /\ (rules # <<>> /\ roles = {} /\ Matching(rules, claims) = {}) => Granted = {}

\* A rule added behind one that matches never takes a role away.
RulesAccumulate ==
    [][(Matching(rules, claims) # {} /\ rules' # rules) => Granted \subseteq Granted']_accessVars
=============================================================================
