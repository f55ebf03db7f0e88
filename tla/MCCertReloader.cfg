SPECIFICATION Spec
CONSTANTS
    h1 = h1
    h2 = h2
    Main = Main
    NoThread = NoThread
    Threads <- MCThreads
    Generations <- MCGenerations
    Interval = 2
    MaxWrites = 3
    MaxTime = 4
SYMMETRY Handshakes
INVARIANTS
    StampHonest
    StaleBounded
PROPERTIES
    CheckedOncePerInterval
