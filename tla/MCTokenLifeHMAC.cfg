SPECIFICATION Spec
CONSTANTS
    absent = absent
    Absent = absent
    Skew = 1
    Tokens <- MCTokens
    KeySets <- MCKeySets
    Issuer <- MCIssuer
    ClientID = "talos"
    Secret = "secret"
    MaxTime = 4
INVARIANT HMACTokenAccepted
