\* One drive and one flash that fails are enough.
CONSTANTS
    Drives = {d1}
    Wallets = {w1}
    Survivors <- MCSurvivors
    Leftovers <- MCLeftovers
    MaxFlashes = 1
SPECIFICATION FlashSpec
INVARIANT FlashingMeansRunning
