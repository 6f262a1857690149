------------------------------ MODULE MCBackup ------------------------------
(* Bounds for BackupWallet: its drives and its wallets are interchangeable.*)
EXTENDS BackupWallet, TLC

MCSurvivors == {{}, {"keypair", "pubkey"}}
MCLeftovers == {"torn"}
MCSymmetry == Permutations(Drives) \cup Permutations(Wallets)
=============================================================================
