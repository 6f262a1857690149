------------------------------ MODULE MCContext ------------------------------
(* The instance of WalletContext that TLC checks: two wallets, one without *)
(* SOL; a drive with a wallet, an empty one and one of a newer format.     *)
EXTENDS WalletContext

MCWallets == {"w1", "w2"}
MCKeyOn == [d1 |-> "w1", d2 |-> Nothing, d3 |-> "w2"]
MCDrives == {"d1", "d2", "d3"}
=============================================================================
