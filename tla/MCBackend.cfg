\* Two threads, two initialisations, two networks and keys, and one nonce that
\* every request fights for; a session expires within the bound.
CONSTANTS
    Nonces = {n1}
    SessionLifetime = 0
    MaxNonces = 2
    MaxSessions = 1
    MaxTime = 1
    Threads = {t1, t2}
    Networks = {devnet, mainnet}
    Keys = {k1, k2}
    MaxInits = 2
SPECIFICATION BackendSpec
INVARIANTS
    BackendTypeOK
    OneSignaturePerNonce
PROPERTIES
    NoncePassedOnce
    HeldStateIsStable
