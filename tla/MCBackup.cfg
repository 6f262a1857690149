\* Two drives in any known state, two wallets; of writes and swaps three.
CONSTANTS
    Drives = {d1, d2}
    Wallets = {w1, w2}
    Survivors <- MCSurvivors
    Leftovers <- MCLeftovers
    MaxTurns = 3
SYMMETRY MCSymmetry
SPECIFICATION BackupSpec
INVARIANTS
    BackupTypeOK
    VerifiedBackupIsTheWallet
PROPERTY
    KeyKeptWhenForgotten
