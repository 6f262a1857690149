----------------------------- MODULE MCPlatforms -----------------------------
(* Bounds for creating a wallet on either platform. *)
EXTENDS IOSFlash, TLC

MCSurvivors == {{}, {"backupKeypair", "backupPubkey"}}
MCLeftovers == {"torn"}
MCSymmetry == Permutations(Drives) \cup Permutations(Wallets)
=============================================================================
