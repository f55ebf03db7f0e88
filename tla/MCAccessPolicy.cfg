SPECIFICATION DecisionSpec
CONSTANTS
    c1 = c1
    c2 = c2
    p1 = p1
    p2 = p2
    q = q
    junk = junk
    reader = reader
    operator = operator
    admin = admin
    dev = dev
    ops = ops
    other = other
    Unparseable = {junk}
    Trusted = {p1, p2}
    Listed = {c1}
    Admin = admin
    Addrs <- MCAddrs
    Parts <- MCParts
    Merging = {p1, q}
    MaxParts = 2
    RoleSets <- MCRoleSets
    Rules <- MCRules
    ClaimSets <- MCClaimSets
    MaxHops = 4
    MaxRules = 3
    absent = absent
    Absent = absent
    Skew = 1
    Tokens <- MCTokens
    KeySets <- MCKeySets
    Issuer <- MCIssuer
    ClientID = "talos"
    Secret = "secret"
    MaxTime = 4
INVARIANTS SpoofResistant LeastPrivilege Authentic NoLockout
PROPERTIES RulesAccumulate NoResurrection
CHECK_DEADLOCK FALSE
