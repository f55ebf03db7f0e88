SPECIFICATION FairSpec
CONSTANTS
    client = client
    stranger = stranger
    proxy = proxy
    dev = dev
    guest = guest
    reader = reader
    admin = admin
    Unparseable = {}
    Trusted = {proxy}
    Listed = {client}
    Admin = admin
    Reqs = {r1, r2}
    Kinds <- MCKinds
    Roles = {}
    Rules <- MCRules
    TTL = 1
    MaxTime = 2
    MaxBoots = 2
    NoKind = NoKind
    NoCert = NoCert
INVARIANTS StatsConsistent MintedOnlyForAuthorized LiveCertListed AuditTrailOrdered
PROPERTIES CleanShutdownComplete DeliveredIsHeard ShutdownTerminates
    ImplementsCertService
CHECK_DEADLOCK FALSE
