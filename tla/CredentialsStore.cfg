\* Two goroutines make four Set and Get calls over two sessions and two
\* schemes.
CONSTANTS
    c1 = c1  c2 = c2  s1 = s1  s2 = s2  k1 = k1  k2 = k2  v1 = v1  v2 = v2
    Callers <- MCCallers
    Sessions <- MCSessions
    Schemes <- MCSchemes
    Creds <- MCCreds
    NoCred = NoCred
    NoOne = NoOne
    MaxOps = 4

SPECIFICATION Spec

PROPERTY CredentialsContractHolds

\* The callers stop after MaxOps calls.
CHECK_DEADLOCK FALSE
