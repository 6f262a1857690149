---------------------------- MODULE WalletStore ----------------------------
(***************************************************************************)
(* The wallets a phone knows: src/services/wallet.ts over local storage,   *)
(* the secure store and the USB drive.  registerUSBWallet and createWallet *)
(* wait for the drive and for the keystore, so each is a call under way    *)
(* that other steps interleave with.  The rest of the file is synchronous, *)
(* but for the secureRemove that removeWallet starts and does not wait     *)
(* for: it may end late, be refused by the keystore, or die with the app.  *)
(*                                                                         *)
(* Abstractions: a wallet is its public key, a key container is the wallet *)
(* it opens and the PIN that opens it, a hash is the PIN it is the hash    *)
(* of.  The order of the registry is left out, so that "the first of the   *)
(* remaining wallets" is any of them.  passphrase is what                  *)
(* getWalletPassphrase would find, in either store.  The native calls of a *)
(* wallet's passphrase are served in the order they were made.             *)
(***************************************************************************)
EXTENDS Naturals, FiniteSets

CONSTANTS Wallets, Pins, Drives, None,
          MaxCalls    \* bound: calls under way at a time

ASSUME StoreAssumption ==
    /\ None \notin Wallets \cup Pins \cup Drives
    /\ MaxCalls \in Nat

VARIABLES
    active,      \* coldstar_active_wallet
    meta,        \* the wallets that have a coldstar_wallet_meta entry
    pinHash,     \* per wallet: coldstar_pin_hash
    passphrase,  \* per wallet: coldstar_wallet_passphrase
    registry,    \* coldstar_wallet_registry
    removals,    \* the wallets whose secureRemove is under way
    unremoved,   \* history: a secureRemove failed or was lost, and left a
                 \* passphrase that nothing has replaced since
    key,         \* per drive: the wallet of its wallet/keypair.json
    sealedBy,    \* per wallet: the PIN its key was encrypted with
    inserted,    \* the drive that detectUSBDevices finds first
    calls        \* registerUSBWallet and createWallet under way

removalVars == <<removals, unremoved>>
phoneVars == <<active, meta, pinHash, passphrase, registry, removalVars>>
driveVars == <<key, sealedBy, inserted>>
storeVars == <<phoneVars, driveVars, calls>>

Callers == {"startup", "setup"}
Calls == [op : {"register", "create"}, by : Callers, wallet : Wallets,
          pin : Pins, seen : BOOLEAN,
          at : {"write", "queued", "store", "hash"}]

Generated == {w \in Wallets : sealedBy[w] # None}

-----------------------------------------------------------------------------
(* Reading.                                                                *)

\* getPublicKey (getWalletMeta): the active wallet, if it has metadata.
PublicKey(a, m) == IF a \in m THEN a ELSE None

HasWallet == PublicKey(active, meta) # None

\* getWalletRegistry seeds an empty registry with the active wallet.
Seeded(a, m) == IF registry = {} /\ a \in m THEN {a} ELSE registry

\* verifyUSBWalletPin, and decryption in getKeypair: the PIN opens the drive.
Opens(p, d) == key[d] \in Generated /\ sealedBy[key[d]] = p

-----------------------------------------------------------------------------
(* Calls under way; a call is seen while the screen that made it is there. *)

Under(c, place) == c \in calls /\ c.at = place

\* The keystore, and the digest after it, serve one call and then the next.
Serving(cs) == \E c \in cs : c.at \in {"store", "hash"}

\* The place of a call that asks for the keystore.
InLine(cs) == IF Serving(cs) THEN "queued" ELSE "store"

Moves(c, place) == calls' = (calls \ {c}) \cup {[c EXCEPT !.at = place]}

Serve(c) ==
    /\ Under(c, "queued")
    /\ ~Serving(calls)
    /\ Moves(c, "store")
    /\ UNCHANGED <<phoneVars, driveVars>>

\* registerUSBWallet up to its first await.
BeginRegister(w, p, by) ==
    /\ Cardinality(calls) < MaxCalls
    /\ meta' = meta \cup {w}
    /\ active' = w
    /\ calls' = calls \cup {[op |-> "register", by |-> by, wallet |-> w,
                             pin |-> p, seen |-> TRUE, at |-> InLine(calls)]}
    /\ UNCHANGED <<pinHash, passphrase, registry, removalVars, driveVars>>

\* createWallet up to its first await: the key exists in memory only.
BeginCreate(p, by) ==
    /\ Cardinality(calls) < MaxCalls
    /\ \E w \in Wallets \ Generated :
         /\ sealedBy' = [sealedBy EXCEPT ![w] = p]
         /\ calls' = calls \cup {[op |-> "create", by |-> by, wallet |-> w,
                                  pin |-> p, seen |-> TRUE, at |-> "write"]}
    /\ UNCHANGED <<phoneVars, key, inserted>>

\* writeEncryptedKeyToUSB replaces the key of the drive found first, then
\* createWallet stores the metadata.
WriteKey(c) ==
    /\ Under(c, "write")
    /\ inserted # None
    /\ key' = [key EXCEPT ![inserted] = c.wallet]
    /\ meta' = meta \cup {c.wallet}
    /\ Moves(c, InLine(calls))
    /\ UNCHANGED <<active, pinHash, passphrase, registry, removalVars, sealedBy,
                   inserted>>

\* No drive, or a write that fails, perhaps leaving no readable key.
WriteKeyFails(c) ==
    /\ Under(c, "write")
    /\ key' \in {key} \cup {[key EXCEPT ![d] = None] : d \in {inserted} \ {None}}
    /\ calls' = calls \ {c}
    /\ UNCHANGED <<phoneVars, sealedBy, inserted>>

\* storeWalletPassphrase, after a removal that was asked for before.
StorePassphrase(c) ==
    /\ Under(c, "store")
    /\ c.wallet \notin removals
    /\ passphrase' = [passphrase EXCEPT ![c.wallet] = c.pin]
    /\ unremoved' = unremoved \ {c.wallet}
    /\ Moves(c, "hash")
    /\ UNCHANGED <<active, meta, pinHash, registry, removals, driveVars>>

StoreFails(c) ==
    /\ Under(c, "store")
    /\ c.wallet \notin removals
    /\ calls' = calls \ {c}
    /\ UNCHANGED <<phoneVars, driveVars>>

FinishCallUnregistered(c) ==
    /\ Under(c, "hash")
    /\ pinHash' = [pinHash EXCEPT ![c.wallet] = c.pin]
    /\ active' = IF c.op = "create" THEN c.wallet ELSE active
    /\ calls' = calls \ {c}
    /\ UNCHANGED <<meta, passphrase, registry, removalVars, driveVars>>

FinishCallWithoutHash(c) ==
    /\ Under(c, "hash")
    /\ active' = IF c.op = "create" THEN c.wallet ELSE active
    /\ registry' = Seeded(active', meta) \cup {c.wallet}
    /\ calls' = calls \ {c}
    /\ UNCHANGED <<pinHash, meta, passphrase, removalVars, driveVars>>

\* The rest of both functions: hash, active wallet (createWallet only) and
\* addToWalletRegistry.
FinishCall(c) ==
    /\ Under(c, "hash")
    /\ pinHash' = [pinHash EXCEPT ![c.wallet] = c.pin]
    /\ active' = IF c.op = "create" THEN c.wallet ELSE active
    /\ registry' = Seeded(active', meta) \cup {c.wallet}
    /\ calls' = calls \ {c}
    /\ UNCHANGED <<meta, passphrase, removalVars, driveVars>>

LeaveScreen == calls' = {[c EXCEPT !.seen = FALSE] : c \in calls}

CallFails(c) == WriteKeyFails(c) \/ StoreFails(c)

-----------------------------------------------------------------------------
(* Synchronous operations.                                                 *)

\* switchWallet, for a wallet of the registry.
SwitchWallet(w) ==
    /\ w \in Seeded(active, meta)
    /\ active' = w
    /\ registry' = Seeded(active, meta)
    /\ UNCHANGED <<meta, pinHash, passphrase, removalVars, driveVars, calls>>

\* void secureRemove(...), and the plaintext copy of an older version.
BeginRemoval(w) ==
    /\ removals' = removals \cup {w}
    /\ passphrase' \in {passphrase, [passphrase EXCEPT ![w] = None]}
    /\ UNCHANGED unremoved

RemoveWalletKeepingHash(w) ==
    /\ meta' = meta \ {w}
    /\ BeginRemoval(w)
    /\ registry' = Seeded(active, meta \ {w}) \ {w}
    /\ active' \in CASE active # w    -> {active}
                     [] registry' # {} -> registry'
                     [] OTHER          -> {None}
    /\ UNCHANGED <<pinHash, driveVars, calls>>

\* removeWallet.
RemoveWallet(w) ==
    /\ meta' = meta \ {w}
    /\ BeginRemoval(w)
    /\ pinHash' = [pinHash EXCEPT ![w] = None]
    /\ registry' = Seeded(active, meta \ {w}) \ {w}
    /\ active' \in CASE active # w    -> {active}
                     [] registry' # {} -> registry'
                     [] OTHER          -> {None}
    /\ UNCHANGED <<driveVars, calls>>

\* The keystore answers secureRemove; nobody hears of a refusal.
RemovalDone(w) ==
    /\ w \in removals
    /\ passphrase' = [passphrase EXCEPT ![w] = None]
    /\ removals' = removals \ {w}
    /\ unremoved' = unremoved \ {w}
    /\ UNCHANGED <<active, meta, pinHash, registry, driveVars, calls>>

LeftBehind(ws) == {w \in ws : passphrase[w] # None}

RemovalFails(w) ==
    /\ w \in removals
    /\ removals' = removals \ {w}
    /\ unremoved' = unremoved \cup LeftBehind({w})
    /\ UNCHANGED <<active, meta, pinHash, passphrase, registry, driveVars, calls>>

\* The app is killed: local storage stays, and every call is lost.
LoseCalls ==
    /\ calls' = {}
    /\ removals' = {}
    /\ unremoved' = unremoved \cup LeftBehind(removals)
    /\ UNCHANGED <<active, meta, pinHash, passphrase, registry, driveVars>>

\* migrateToPerWalletStorage, for the wallet of an older version.
MigrateIf(moves, legacy) ==
    /\ active' = IF moves THEN legacy ELSE active
    /\ meta' = IF moves THEN meta \cup {legacy} ELSE meta
    /\ pinHash' = IF moves THEN [pinHash EXCEPT ![legacy] = sealedBy[legacy]]
                           ELSE pinHash
    /\ passphrase' = IF moves
                     THEN [passphrase EXCEPT ![legacy] = sealedBy[legacy]]
                     ELSE passphrase

MigrateNothing(legacy) == MigrateIf(active = None, legacy)

Migrate(legacy) == MigrateIf(active = None /\ legacy # None, legacy)

=============================================================================
