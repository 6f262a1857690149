\* Three wallets, two PINs, two drives, two calls and two timers of a PIN at a
\* time.
CONSTANTS
    Wallets = {w1, w2, w3}
    Pins = {p1, p2}
    Drives = {d1, d2}
    None = None
    MaxCalls = 2
    MaxPinTimers = 2
SYMMETRY Symmetry
SPECIFICATION OnboardingSpec
INVARIANTS
    OnboardingTypeOK
    PinOpensKey
    NoGhosts
    DrawerHeals
    BusyOnlyDuringCall
PROPERTIES
    SecuredIsComplete
    CreatesOnlyAfterTrouble
