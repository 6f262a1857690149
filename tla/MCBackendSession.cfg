\* One thread is enough to sign with a session that was never opened.
CONSTANTS
    Nonces = {n1, n2}
    SessionLifetime = 0
    MaxNonces = 2
    MaxSessions = 1
    MaxTime = 1
    Threads = {t1}
    Networks = {devnet}
    Keys = {k1}
    MaxInits = 1
SPECIFICATION BackendSpec
INVARIANT SignedWithinLiveSession
