SPECIFICATION Spec
CONSTANTS
    Threads = {t1, t2}
    IPs = {ip1}
    Clients = {1, 2, 3}
    NoClient = NoClient
    NoIP = NoIP
    NoThread = NoThread
    Requests = 1
    Window = 2
    MaxDelay = 0
    MaxTime = 4
    MaxCalls = 3
INVARIANT IPWindow

SYMMETRY Symmetry
