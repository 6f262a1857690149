\* One drive, written by a newer app.
CONSTANTS
    Drives = {d1}
    Wallets = {w1}
    Survivors <- MCSurvivors
    Leftovers <- MCLeftovers
    MaxFlashes = 1
SPECIFICATION FlashSpec
PROPERTY NewerVolumeRefused
