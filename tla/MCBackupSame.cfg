\* One drive, which is the source and the target at once.
CONSTANTS
    Drives = {d1}
    Wallets = {w1}
    Survivors <- MCSurvivors
    Leftovers <- MCLeftovers
    MaxTurns = 1
SPECIFICATION BackupSpec
PROPERTY CompleteMeansDuplicated
