--------------------------- MODULE SessionManager ---------------------------
(***************************************************************************)
(* The device's session layer: backend/crates/coldstar-session.            *)
(* One session at a time (SessionManager.active_session); a session lives  *)
(* SESSION_LIFETIME_SECS of the device's wall clock and accepts at most    *)
(* MAX_NONCES_PER_SESSION different nonces.                                *)
(*                                                                         *)
(* Abstractions: a session id (Uuid::new_v4) is the number of sessions     *)
(* made so far, so it is fresh; the key exchange and the shared secret     *)
(* carry no control and are left out; the clock counts whole seconds, as   *)
(* num_seconds() does.  Utc::now() is the system clock, which can be set:  *)
(* it moves with true time (Tick) and by adjustment (AdjustClock).         *)
(***************************************************************************)
EXTENDS Integers, FiniteSets

CONSTANTS
    Nonces,           \* the nonces that requests carry
    SessionLifetime,  \* SESSION_LIFETIME_SECS
    MaxNonces,        \* MAX_NONCES_PER_SESSION
    MaxSessions,      \* bound: sessions made in a behaviour
    MaxTime           \* bound: the largest clock reading, age and set-back

ASSUME SessionAssumption ==
    /\ IsFiniteSet(Nonces)
    /\ SessionLifetime \in Nat
    /\ MaxNonces \in Nat
    /\ MaxSessions \in Nat
    /\ MaxTime \in Nat

VARIABLES
    now,       \* the reading of the device's wall clock
    session,   \* active_session: NoSession, or a record of Sessions
    made,      \* how many sessions were made: the source of fresh ids
    age,       \* history: true time since the active session was made
    setBack,   \* history: how far the clock was set back in that time
    accepted,  \* history: accepted[id][n], how often a nonce was accepted
    reply      \* what the last call returned

sessionVars == <<now, session, made, age, setBack, accepted, reply>>

SessionIds == 1..MaxSessions
Times == 0..MaxTime
NoSession == [id |-> 0, createdAt |-> 0, usedNonces |-> {}]
Sessions == [id: SessionIds, createdAt: Times, usedNonces: SUBSET Nonces]
Replies == {"none", "ok", "NoActiveSession", "SessionIdMismatch",
            "SessionExpired", "NonceReplay"}

SessionInit ==
    /\ now \in Times
    /\ session = NoSession
    /\ made = 0
    /\ age = 0
    /\ setBack = 0
    /\ accepted = [s \in SessionIds |-> [n \in Nonces |-> 0]]
    /\ reply = "none"

-----------------------------------------------------------------------------

\* Session::is_expired.
IsExpiredLate == now - session.createdAt > SessionLifetime + 1

IsExpired == now - session.createdAt > SessionLifetime

\* Session::use_nonce answers with the first check that fails, in this order.
UseNonceResultNoReplayCheck(n) ==
    IF IsExpired \/ Cardinality(session.usedNonces) >= MaxNonces
    THEN "SessionExpired" ELSE "ok"

UseNonceResultOneTooMany(n) ==
    IF IsExpired \/ Cardinality(session.usedNonces) > MaxNonces
    THEN "SessionExpired"
    ELSE IF n \in session.usedNonces THEN "NonceReplay" ELSE "ok"

UseNonceResult(n) ==
    IF IsExpired \/ Cardinality(session.usedNonces) >= MaxNonces
    THEN "SessionExpired"
    ELSE IF n \in session.usedNonces THEN "NonceReplay" ELSE "ok"

\* SessionManager::handle_init: a fresh session replaces whatever was there.
HandleInitOldId ==
    /\ made < MaxSessions
    /\ made' = made + 1
    /\ session' = [id |-> made, createdAt |-> now, usedNonces |-> {}]
    /\ age' = 0
    /\ setBack' = 0
    /\ reply' = "ok"
    /\ UNCHANGED <<now, accepted>>

HandleInit ==
    /\ made < MaxSessions
    /\ made' = made + 1
    /\ session' = [id |-> made + 1, createdAt |-> now, usedNonces |-> {}]
    /\ age' = 0
    /\ setBack' = 0
    /\ reply' = "ok"
    /\ UNCHANGED <<now, accepted>>

\* SessionManager::validate_and_use_nonce, for any session id a caller may
\* hold: the current one, one replaced since, or one not issued yet.
ValidateResultAnyId(sid, n) ==
    IF session = NoSession THEN "NoActiveSession" ELSE UseNonceResult(n)

ValidateResult(sid, n) ==
    IF session = NoSession THEN "NoActiveSession"
    ELSE IF session.id # sid THEN "SessionIdMismatch"
    ELSE UseNonceResult(n)

ValidateAndUseNonce(sid, n) ==
    /\ reply' = ValidateResult(sid, n)
    /\ \/ /\ reply' = "ok"
          /\ session' = [session EXCEPT !.usedNonces = @ \cup {n}]
          /\ accepted' = [accepted EXCEPT ![sid][n] = @ + 1]
       \/ /\ reply' # "ok"
          /\ UNCHANGED <<session, accepted>>
    /\ UNCHANGED <<now, made, age, setBack>>

\* SessionManager::destroy_session.
DestroySession ==
    /\ session' = NoSession
    /\ age' = 0
    /\ setBack' = 0
    /\ reply' = "ok"
    /\ UNCHANGED <<now, made, accepted>>

\* The environment: a second passes, or the system clock is set.
Tick ==
    /\ now < MaxTime
    /\ age < MaxTime
    /\ now' = now + 1
    /\ age' = IF session = NoSession THEN 0 ELSE age + 1
    /\ UNCHANGED <<session, made, setBack, accepted, reply>>

AdjustClock(t) ==
    /\ t # now
    /\ now' = t
    /\ setBack' = IF t < now /\ session # NoSession
                  THEN setBack + (now - t) ELSE setBack
    /\ setBack' <= MaxTime
    /\ UNCHANGED <<session, made, age, accepted, reply>>

SessionNext ==
    \/ HandleInit
    \/ DestroySession
    \/ Tick
    \/ \E t \in Times : AdjustClock(t)
    \/ \E sid \in SessionIds, n \in Nonces : ValidateAndUseNonce(sid, n)

SessionSpec == SessionInit /\ [][SessionNext]_sessionVars

-----------------------------------------------------------------------------

\* Every variable keeps its type; only NoSession has the id 0, so handle_init
\* never installs a session whose id was not issued.
SessionTypeOK ==
    /\ now \in Times
    /\ session \in Sessions \cup {NoSession}
    /\ made \in 0..MaxSessions
    /\ age \in Times
    /\ setBack \in Times
    /\ accepted \in [SessionIds -> [Nonces -> Nat]]
    /\ reply \in Replies

\* Replay protection of Session.used_nonces across replaced and destroyed
\* sessions: a (session id, nonce) pair is accepted at most once, ever.
Ledger == INSTANCE NonceLedger WITH Scopes <- SessionIds, consumed <- accepted

AcceptedOnce == Ledger!LedgerSpec

\* The per-session budget MAX_NONCES_PER_SESSION bounds what a session has
\* accepted over its whole life, refused replays in between included.
SessionBudget ==
    \A s \in SessionIds :
        Cardinality({n \in Nonces : accepted[s][n] > 0}) <= MaxNonces

\* A session that handle_init replaced or destroy_session ended accepts
\* nothing any more: only the latest session made ever accepts a nonce.
OnlyLatestSessionAccepts ==
    [][\A s \in SessionIds :
         accepted'[s] # accepted[s] => s = made /\ session.id = made]_sessionVars

\* SESSION_LIFETIME_SECS is measured on the wall clock: setting it back by d
\* seconds keeps a session alive for d more seconds, and never for longer.
LifetimeBound ==
    [][accepted' # accepted => age <= SessionLifetime + setBack]_sessionVars
=============================================================================
