------------------------------ MODULE MCWallets ------------------------------
(* The instance of Onboarding that TLC checks.  No wallet, PIN or drive is *)
(* told from another, and no liveness is checked: the symmetry is sound.   *)
EXTENDS Onboarding, TLC

Symmetry ==
    Permutations(Wallets) \cup Permutations(Pins) \cup Permutations(Drives)
=============================================================================
