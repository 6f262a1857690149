------------------------------- MODULE MCFlash -------------------------------
(* Bounds for StartupFlash: its drives and its wallets are interchangeable.*)
EXTENDS StartupFlash, TLC

MCSurvivors == {{}, {"backupKeypair", "backupPubkey"}}
MCLeftovers == {"torn"}
MCSymmetry == Permutations(Drives) \cup Permutations(Wallets)
=============================================================================
