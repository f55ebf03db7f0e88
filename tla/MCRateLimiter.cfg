SPECIFICATION FairSpec
CONSTANTS
    Threads = {t1, t2}
    IPs = {ip1, ip2}
    Clients = {1, 2, 3}
    NoClient = NoClient
    NoIP = NoIP
    NoThread = NoThread
    Requests = 1
    Window = 2
    MaxDelay = 1
    MaxTime = 3
    MaxCalls = 3
INVARIANT KeyWindow
PROPERTIES ImplementsSlidingWindow DenialJustified IdleEntryReclaimed
CHECK_DEADLOCK TRUE
