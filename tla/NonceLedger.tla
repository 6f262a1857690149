----------------------------- MODULE NonceLedger -----------------------------
(***************************************************************************)
(* What the device promises about nonces, without saying how: within one   *)
(* scope (a session, or one life of the signing pipeline) a nonce is       *)
(* consumed at most once, and a consumed nonce stays consumed.             *)
(* SessionManager and DeviceBackend are shown to implement it.             *)
(***************************************************************************)
EXTENDS Naturals

CONSTANTS
    Scopes,    \* session ids, or the pipelines made by coldstar_init
    Nonces

VARIABLE
    consumed   \* consumed[s][n]: how often nonce n was let through in s

LedgerInit == consumed = [s \in Scopes |-> [n \in Nonces |-> 0]]

Consume(s, n) ==
    /\ consumed[s][n] = 0
    /\ consumed' = [consumed EXCEPT ![s][n] = 1]

LedgerNext == \E s \in Scopes, n \in Nonces : Consume(s, n)

LedgerSpec == LedgerInit /\ [][LedgerNext]_consumed
=============================================================================
