SPECIFICATION Spec
CONSTANTS
    NoToken = NoToken
    Torn = Torn
    TokenTTL = 2
    IDTTL = 2
    Self = self
    Procs = {self}
    mine = mine
    other = other
    Own <- MCOwn
    OtherContexts = {other}
    NoContext = NoContext
    Initial <- MCInitial
    Absent = Absent
    Garbled = Garbled
    ErrCap = 2
    MaxCallbacks = 2
    Interval = 1
    CodeTTL = 2
    CertTTL = 2
    Threshold = 2
    LoginTimeout = 2
    AuthGrants <- MCAuthGrants
    RefreshGrants <- MCRefreshGrants
INVARIANT AccessEndsWithCertificate
