SPECIFICATION ConfigSpec
CONSTANTS
    p1 = p1
    p2 = p2
    mine = mine
    theirs = theirs
    other = other
    Procs = {p1, p2}
    Own <- MCOwn
    OtherContexts = {other}
    NoContext = NoContext
    Initial <- MCInitial
    Absent = Absent
    Garbled = Garbled
INVARIANT ConfigWhole
