\* Three nonces against a budget of two, two sessions, and clock readings
\* that reach past the lifetime in both directions.
CONSTANTS
    Nonces = {n1, n2, n3}
    SessionLifetime = 1
    MaxNonces = 2
    MaxSessions = 2
    MaxTime = 3
SPECIFICATION SessionSpec
INVARIANTS
    SessionTypeOK
    SessionBudget
PROPERTIES
    AcceptedOnce
    OnlyLatestSessionAccepts
    LifetimeBound
