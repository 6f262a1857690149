\* On either platform: two drives, blank or in use already, two wallets, two flashes.
CONSTANTS
    Drives = {d1, d2}
    Wallets = {w1, w2}
    Survivors <- MCSurvivors
    Leftovers <- MCLeftovers
    MaxFlashes = 2
SYMMETRY MCSymmetry
SPECIFICATION PlatformSpec
INVARIANTS
    FlashTypeOK
    FlashedDriveIsComplete
PROPERTIES
    RegisteredKeyIsKept
    FoundWalletIsSpared
