SPECIFICATION Spec
CONSTANTS
    h1 = h1
    h2 = h2
    a1 = a1
    a2 = a2
    NoAddress = NoAddress
    Threads <- MCThreads
    Addresses <- MCAddresses
    AdminEnabled = TRUE
    MaxAttempts = 2
    Lockout = 2
    Window = 2
    SessionTimeout = 2
    MaxSessions = 2
    MaxTime = 4
SYMMETRY Handlers
INVARIANTS
    GuessesBounded
    OnlyAdminsSee
PROPERTIES
    LockoutJustified
    SessionsKept
