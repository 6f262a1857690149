---------------------------- MODULE DeviceBackend ----------------------------
(***************************************************************************)
(* The Rust backend behind the C ABI: backend/crates/coldstar-ffi, and the *)
(* signing pipeline of backend/crates/coldstar-signer.  Application        *)
(* threads call the exported functions concurrently; the functions share   *)
(* GLOBAL_STATE, a mutex around the session manager, the signing pipeline  *)
(* and the RPC clients.                                                    *)
(*                                                                         *)
(* coldstar_init, coldstar_init_session and coldstar_sign never block      *)
(* while they hold the mutex, so each is one action taken when the mutex   *)
(* is free.  coldstar_get_balance and coldstar_check_token hold it across  *)
(* a network request, so they are two.  A panic with the mutex held        *)
(* poisons it: every later lock().unwrap() panics too, and catch_unwind    *)
(* turns that into an error answer.  Keys and PINs are abstracted to       *)
(* whether the PIN given opens the wallet given.                           *)
(***************************************************************************)
EXTENDS SessionManager

CONSTANTS
    Threads,    \* application threads calling the C ABI
    Networks,   \* network identifiers
    Keys,       \* wallet public keys
    MaxInits    \* bound: successful coldstar_init calls in a behaviour


VARIABLES
    lock,            \* GLOBAL_STATE's mutex: Free, Poisoned, or its holder
    calls,           \* calls[t]: the call thread t is in, "idle" if none
    epoch,           \* successful coldstar_init calls so far
    backend,         \* None, or the network of the AppState installed
    pipelineNonces,  \* SigningPipeline.used_nonces
    passed,          \* history: passed[e][n], nonces past the replay check
    signed,          \* history: signed[e][n], how often nonce n was signed with
    signatures       \* history: what was signed for whom, see Signatures

backendVars == <<lock, calls, epoch, backend, pipelineNonces, passed, signed,
                 signatures>>
vars == <<sessionVars, backendVars>>

Free == "free"
Poisoned == "poisoned"
None == "none"

LockingCalls == {"init", "session", "sign", "query"}
CallStates == {"idle", "querying"} \cup LockingCalls
Epochs == 1..MaxInits

\* A mutex state is not a thread, and "none" is no network's identifier.
ASSUME BackendAssumption ==
    /\ MaxInits \in Nat
    /\ Free \notin Threads
    /\ Poisoned \notin Threads
    /\ None \notin Networks

Initialized == backend # None

Requests == [session: SessionIds, nonce: Nonces, network: Networks, signer: Keys]
Wallets == [publicKey: Keys, pin: {"opens", "kdfFails", "wrong"}]
Signatures == [epoch: Epochs, nonce: Nonces, network: Networks, signer: Keys,
               sessionLive: BOOLEAN]

BackendInit ==
    /\ SessionInit
    /\ now = 0
    /\ lock = Free
    /\ calls = [t \in Threads |-> "idle"]
    /\ epoch = 0
    /\ backend = None
    /\ pipelineNonces = {}
    /\ passed = [e \in Epochs |-> [n \in Nonces |-> 0]]
    /\ signed = passed
    /\ signatures = {}

-----------------------------------------------------------------------------

Return(t) == calls' = [calls EXCEPT ![t] = "idle"]

\* Thread t enters an exported function that uses GLOBAL_STATE.
Call(t) ==
    /\ calls[t] = "idle"
    /\ \E f \in LockingCalls : calls' = [calls EXCEPT ![t] = f]
    /\ UNCHANGED <<sessionVars, lock, epoch, backend, pipelineNonces, passed,
                   signed, signatures>>

\* The input does not parse: the function answers without taking the mutex.
RejectInput(t) ==
    /\ calls[t] \in LockingCalls
    /\ Return(t)
    /\ UNCHANGED <<sessionVars, lock, epoch, backend, pipelineNonces, passed,
                   signed, signatures>>

\* lock().unwrap() on a poisoned mutex panics; catch_unwind answers "panic".
PanicOnPoison(t) ==
    /\ calls[t] \in LockingCalls
    /\ lock = Poisoned
    /\ Return(t)
    /\ UNCHANGED <<sessionVars, lock, epoch, backend, pipelineNonces, passed,
                   signed, signatures>>

\* The mutex is taken, and global.as_mut() is None.
NotInitialized(t) ==
    /\ calls[t] \in LockingCalls \ {"init"}
    /\ lock = Free
    /\ ~Initialized
    /\ Return(t)
    /\ UNCHANGED <<sessionVars, lock, epoch, backend, pipelineNonces, passed,
                   signed, signatures>>

\* coldstar_init replaces the whole AppState, sessions and nonces included.
ColdstarInitUnlocked(t, net) ==
    /\ calls[t] = "init"
    /\ lock # Poisoned
    /\ epoch < MaxInits
    /\ epoch' = epoch + 1
    /\ backend' = net
    /\ pipelineNonces' = {}
    /\ session' = NoSession
    /\ age' = 0
    /\ setBack' = 0
    /\ Return(t)
    /\ UNCHANGED <<now, made, accepted, reply, lock, passed, signed, signatures>>

ColdstarInit(t, net) ==
    /\ calls[t] = "init"
    /\ lock = Free
    /\ epoch < MaxInits
    /\ epoch' = epoch + 1
    /\ backend' = net
    /\ pipelineNonces' = {}
    /\ session' = NoSession
    /\ age' = 0
    /\ setBack' = 0
    /\ Return(t)
    /\ UNCHANGED <<now, made, accepted, reply, lock, passed, signed, signatures>>

ColdstarInitSession(t) ==
    /\ calls[t] = "session"
    /\ lock = Free
    /\ Initialized
    /\ HandleInit
    /\ Return(t)
    /\ UNCHANGED <<lock, epoch, backend, pipelineNonces, passed, signed, signatures>>

\* SigningPipeline::do_sign after the replay check: the first failing step.
DoSignResult(req, wallet) ==
    IF req.network # backend THEN "DomainMismatch"
    ELSE IF req.signer # wallet.publicKey THEN "KeyNotFound"
    ELSE IF wallet.pin = "kdfFails" THEN "InternalError"
    ELSE IF wallet.pin = "wrong" THEN "DecryptionFailed"
    ELSE "Success"

\* The session a request names is the active one, and has not expired: what
\* SignErrorCode::SessionInvalid stands for.
SessionLive(req) == session.id = req.session /\ ~IsExpired

Signature(req) ==
    [epoch |-> epoch, nonce |-> req.nonce, network |-> req.network,
     signer |-> req.signer, sessionLive |-> SessionLive(req)]

\* The answer, and the signature of the request's transaction if there is one.
Sign(req, wallet) ==
    IF DoSignResult(req, wallet) = "Success"
    THEN /\ signed' = [signed EXCEPT ![epoch][req.nonce] = @ + 1]
         /\ signatures' = signatures \cup {Signature(req)}
    ELSE UNCHANGED <<signed, signatures>>

\* coldstar_sign: handle_sign of the installed pipeline, the nonce burnt
\* before anything else is looked at.  Neither the session id of the request
\* nor the session manager is consulted.
ColdstarSignBurnLate(t, req, wallet) ==
    /\ calls[t] = "sign"
    /\ lock = Free
    /\ Initialized
    /\ Return(t)
    /\ IF req.nonce \in pipelineNonces
       THEN UNCHANGED <<pipelineNonces, passed, signed, signatures>>
       ELSE /\ passed' = [passed EXCEPT ![epoch][req.nonce] = @ + 1]
            /\ pipelineNonces' = IF DoSignResult(req, wallet) = "Success"
                                 THEN pipelineNonces \cup {req.nonce}
                                 ELSE pipelineNonces
            /\ Sign(req, wallet)
    /\ UNCHANGED <<sessionVars, lock, epoch, backend>>

ColdstarSignBurnNever(t, req, wallet) ==
    /\ calls[t] = "sign"
    /\ lock = Free
    /\ Initialized
    /\ Return(t)
    /\ Sign(req, wallet)
    /\ UNCHANGED <<sessionVars, lock, epoch, backend, pipelineNonces, passed>>

ColdstarSign(t, req, wallet) ==
    /\ calls[t] = "sign"
    /\ lock = Free
    /\ Initialized
    /\ Return(t)
    /\ IF req.nonce \in pipelineNonces
       THEN UNCHANGED <<pipelineNonces, passed, signed, signatures>>
       ELSE /\ pipelineNonces' = pipelineNonces \cup {req.nonce}
            /\ passed' = [passed EXCEPT ![epoch][req.nonce] = @ + 1]
            /\ Sign(req, wallet)
    /\ UNCHANGED <<sessionVars, lock, epoch, backend>>

\* coldstar_get_balance, coldstar_check_token: the mutex is held from here
\* until block_on returns, or until something in between panics.
BeginQuery(t) ==
    /\ calls[t] = "query"
    /\ lock = Free
    /\ Initialized
    /\ lock' = t
    /\ calls' = [calls EXCEPT ![t] = "querying"]
    /\ UNCHANGED <<sessionVars, epoch, backend, pipelineNonces, passed, signed,
                   signatures>>

EndQuery(t) ==
    /\ calls[t] = "querying"
    /\ lock' = Free
    /\ Return(t)
    /\ UNCHANGED <<sessionVars, epoch, backend, pipelineNonces, passed, signed,
                   signatures>>

PanicInQueryKeepsLock(t) ==
    /\ calls[t] = "querying"
    /\ lock' = lock
    /\ Return(t)
    /\ UNCHANGED <<sessionVars, epoch, backend, pipelineNonces, passed, signed,
                   signatures>>

PanicInQuery(t) ==
    /\ calls[t] = "querying"
    /\ lock' = Poisoned
    /\ Return(t)
    /\ UNCHANGED <<sessionVars, epoch, backend, pipelineNonces, passed, signed,
                   signatures>>

\* The process dies and starts again: the static is back to its initial
\* value and no call is in progress.  The histories remain.
Restart ==
    /\ lock' = Free
    /\ calls' = [t \in Threads |-> "idle"]
    /\ backend' = None
    /\ pipelineNonces' = {}
    /\ session' = NoSession
    /\ age' = 0
    /\ setBack' = 0
    /\ reply' = "none"
    /\ UNCHANGED <<now, made, accepted, epoch, passed, signed, signatures>>

BackendTick == Tick /\ UNCHANGED backendVars

BackendNext ==
    \/ Restart
    \/ BackendTick
    \/ \E t \in Threads :
         \/ Call(t)
         \/ RejectInput(t)
         \/ PanicOnPoison(t)
         \/ NotInitialized(t)
         \/ \E net \in Networks : ColdstarInit(t, net)
         \/ ColdstarInitSession(t)
         \/ \E req \in Requests, wallet \in Wallets : ColdstarSign(t, req, wallet)
         \/ BeginQuery(t)
         \/ EndQuery(t)
         \/ PanicInQuery(t)

\* Nothing is assumed of the scheduler or of the network: a thread may hold the
\* mutex across its request for ever, since no request has a timeout.
BackendSpec == BackendInit /\ [][BackendNext]_vars

-----------------------------------------------------------------------------

\* Every variable keeps its type, an installed backend was installed by some
\* coldstar_init, and exactly the querying thread holds the mutex.
BackendTypeOK ==
    /\ SessionTypeOK
    /\ lock \in {Free, Poisoned} \cup Threads
    /\ calls \in [Threads -> CallStates]
    /\ epoch \in 0..MaxInits
    /\ backend \in Networks \cup {None}
    /\ Initialized => epoch >= 1
    /\ pipelineNonces \subseteq Nonces
    /\ passed \in [Epochs -> [Nonces -> Nat]]
    /\ signed \in [Epochs -> [Nonces -> Nat]]
    /\ signatures \subseteq Signatures
    /\ \A t \in Threads : calls[t] = "querying" <=> lock = t

\* Replay protection of the pipeline: between two coldstar_init calls a nonce
\* gets past the check at most once, whatever became of the request that
\* carried it (a wrong PIN or a wrong network burns the nonce too).
Pipeline == INSTANCE NonceLedger WITH Scopes <- Epochs, consumed <- passed

NoncePassedOnce == Pipeline!LedgerSpec

\* Between two coldstar_init calls at most one transaction is signed with a
\* nonce, whoever asks and for whichever signer, and every signature is for the
\* one network that coldstar_init installed.
OneSignaturePerNonce ==
    /\ \A e \in Epochs, n \in Nonces : signed[e][n] <= 1
    /\ \A a, b \in signatures : a.epoch = b.epoch => a.network = b.network

\* No thread replaces or uses the backend under a query in progress, nor after
\* a panic poisoned the mutex: while a thread holds it across its request, and
\* while it is poisoned, sessions, nonces and network stand still and nothing
\* is signed.
HeldStateIsStable ==
    [][(lock # Free /\ lock' = lock) =>
         /\ epoch' = epoch
         /\ backend' = backend
         /\ session' = session
         /\ pipelineNonces' = pipelineNonces
         /\ signed' = signed]_vars

\* SignErrorCode::SessionInvalid, "Session has expired or is invalid"
\* (coldstar-core/src/sign_response.rs:34): a request is signed only within
\* the live session it names.
SignedWithinLiveSession == \A s \in signatures : s.sessionLive
=============================================================================
