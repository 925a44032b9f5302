------------------------- MODULE MC_CredentialsStore -------------------------
EXTENDS CredentialsStore

CONSTANTS c1, c2, s1, s2, k1, k2, v1, v2

MCCallers == {c1, c2}
MCSessions == {s1, s2}
MCSchemes == {k1, k2}
MCCreds == {v1, v2}

=============================================================================
