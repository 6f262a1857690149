------------------------- MODULE DeviceBackendProofs -------------------------
(***************************************************************************)
(* What the session manager guarantees for every lifetime, every nonce     *)
(* budget and any number of sessions; and what the backend around it       *)
(* guarantees for any number of threads, requests and initialisations: its *)
(* replay protection, and the mutual exclusion that GLOBAL_STATE gives a   *)
(* query in progress.                                                      *)
(***************************************************************************)
EXTENDS DeviceBackend, TLAPS, FiniteSetTheorems

\* Counting one more acceptance of nonce n in scope s stays a table of counts,
\* and changes that one count.
LEMMA CountOnce ==
    ASSUME NEW S, NEW N, NEW f \in [S -> [N -> Nat]], NEW s \in S, NEW n \in N
    PROVE  /\ [f EXCEPT ![s][n] = @ + 1] \in [S -> [N -> Nat]]
           /\ \A x \in S, y \in N :
                [f EXCEPT ![s][n] = @ + 1][x][y] =
                  IF x = s /\ y = n THEN f[x][y] + 1 ELSE f[x][y]
<1> DEFINE g == [f EXCEPT ![s][n] = @ + 1]
<1>1. f[s] \in [N -> Nat]
  OBVIOUS
<1>2. [f[s] EXCEPT ![n] = f[s][n] + 1] \in [N -> Nat]
  BY <1>1
<1>3. g = [f EXCEPT ![s] = [f[s] EXCEPT ![n] = f[s][n] + 1]]
  OBVIOUS
<1>4. g \in [S -> [N -> Nat]]
  BY <1>2, <1>3
<1>5. ASSUME NEW x \in S, NEW y \in N
      PROVE  g[x][y] = IF x = s /\ y = n THEN f[x][y] + 1 ELSE f[x][y]
  BY <1>1, <1>3
<1> QED
  BY <1>4, <1>5

\* A call of validate_and_use_nonce that succeeds passed all its checks.
LEMMA AcceptedCall ==
    ASSUME SessionTypeOK, NEW sid \in SessionIds, NEW n \in Nonces,
           ValidateAndUseNonce(sid, n), reply' = "ok"
    PROVE  /\ session # NoSession
           /\ session.id = sid
           /\ ~IsExpired
           /\ Cardinality(session.usedNonces) < MaxNonces
           /\ n \notin session.usedNonces
           /\ session' = [session EXCEPT !.usedNonces = @ \cup {n}]
           /\ accepted' = [accepted EXCEPT ![sid][n] = @ + 1]
<1>1. ValidateResult(sid, n) = "ok"
  BY DEF ValidateAndUseNonce
<1>2. session # NoSession /\ session.id = sid /\ UseNonceResult(n) = "ok"
  BY <1>1 DEF ValidateResult
<1>3. /\ ~IsExpired
      /\ ~(Cardinality(session.usedNonces) >= MaxNonces)
      /\ n \notin session.usedNonces
  BY <1>2 DEF UseNonceResult
<1>4. Cardinality(session.usedNonces) \in Nat
  <2>1. session.usedNonces \subseteq Nonces
    BY DEF SessionTypeOK, Sessions, NoSession
  <2> QED
    BY <2>1, SessionAssumption, FS_Subset, FS_CardinalityType
<1>5. Cardinality(session.usedNonces) < MaxNonces
  BY <1>3, <1>4, SessionAssumption
<1> QED
  BY <1>2, <1>3, <1>5 DEF ValidateAndUseNonce

\* A refused call changes nothing but the answer.
LEMMA RefusedCall ==
    ASSUME NEW sid \in SessionIds, NEW n \in Nonces,
           ValidateAndUseNonce(sid, n), reply' # "ok"
    PROVE  UNCHANGED <<now, session, made, age, setBack, accepted>>
BY DEF ValidateAndUseNonce

\* No operation of the manager, and no clock, breaks a variable's type.
LEMMA SessionTypedStep ==
    SessionTypeOK /\ [SessionNext]_sessionVars => SessionTypeOK'
<1> USE SessionAssumption
        DEF SessionTypeOK, Times, SessionIds, Sessions, NoSession, Replies
<1> SUFFICES ASSUME SessionTypeOK, [SessionNext]_sessionVars
             PROVE  SessionTypeOK'
  OBVIOUS
<1>1. CASE HandleInit
  BY <1>1 DEF HandleInit
<1>2. CASE DestroySession
  BY <1>2 DEF DestroySession
<1>3. CASE Tick
  BY <1>3 DEF Tick
<1>4. ASSUME NEW t \in Times, AdjustClock(t)
      PROVE  SessionTypeOK'
  BY <1>4 DEF AdjustClock
<1>5. ASSUME NEW sid \in SessionIds, NEW n \in Nonces,
             ValidateAndUseNonce(sid, n)
      PROVE  SessionTypeOK'
  <2>1. ValidateResult(sid, n) \in Replies
    BY DEF ValidateResult, UseNonceResult
  <2>2. CASE reply' = "ok"
    <3>1. session \in Sessions /\ session' = [session EXCEPT !.usedNonces = @ \cup {n}]
      BY <1>5, <2>2, AcceptedCall
    <3>2. accepted' \in [SessionIds -> [Nonces -> Nat]]
      <4>1. accepted' = [accepted EXCEPT ![sid][n] = @ + 1]
        BY <1>5, <2>2, AcceptedCall
      <4>2. accepted \in [SessionIds -> [Nonces -> Nat]]
        OBVIOUS
      <4> QED
        BY <4>1, <4>2, CountOnce
    <3> QED
      BY <1>5, <2>1, <3>1, <3>2 DEF ValidateAndUseNonce
  <2>3. CASE reply' # "ok"
    BY <1>5, <2>1, <2>3, RefusedCall DEF ValidateAndUseNonce
  <2> QED
    BY <2>2, <2>3
<1>6. CASE UNCHANGED sessionVars
  BY <1>6 DEF sessionVars
<1> QED
  BY <1>1, <1>2, <1>3, <1>4, <1>5, <1>6 DEF SessionNext

-----------------------------------------------------------------------------
(***************************************************************************)
(* The inductive invariant: the code keeps no record of the sessions that  *)
(* are gone, so the history must be tied to the one set it keeps.          *)
(***************************************************************************)

\* accepted agrees with used_nonces on the active session, holds nothing for
\* ids still to be issued, and at most one acceptance anywhere.
HistoryMatches ==
    /\ session.id \in {0, made}
    /\ \A s \in SessionIds, n \in Nonces :
         /\ accepted[s][n] \in {0, 1}
         /\ s > made => accepted[s][n] = 0
         /\ s = session.id => (accepted[s][n] = 1 <=> n \in session.usedNonces)

\* The wall clock runs behind true time by no more than it was set back.
ClockLag == session # NoSession => age <= (now - session.createdAt) + setBack

SessionInv ==
    /\ SessionTypeOK
    /\ HistoryMatches
    /\ SessionBudget
    /\ ClockLag

\* Between sessions the history holds still.
LEMMA SameHistory ==
    ASSUME SessionBudget, UNCHANGED accepted
    PROVE  SessionBudget'
BY DEF SessionBudget

LEMMA SessionInvInit == SessionInit => SessionInv
<1> SUFFICES ASSUME SessionInit PROVE SessionInv
  OBVIOUS
<1> USE SessionAssumption DEF SessionInit
<1>1. SessionTypeOK
  BY DEF SessionTypeOK, Times, SessionIds, Sessions, NoSession, Replies
<1>2. HistoryMatches
  BY DEF HistoryMatches, SessionIds, NoSession
<1>3. SessionBudget
  <2>1. ASSUME NEW s \in SessionIds
        PROVE  {n \in Nonces : accepted[s][n] > 0} = {}
    OBVIOUS
  <2> QED
    BY <2>1, FS_EmptySet DEF SessionBudget
<1>4. ClockLag
  BY DEF ClockLag
<1> QED
  BY <1>1, <1>2, <1>3, <1>4 DEF SessionInv

\* An accepted nonce keeps the history in step with used_nonces, and the
\* budget: the session had accepted fewer nonces than used_nonces may hold.
LEMMA AcceptKeepsInv ==
    ASSUME SessionInv, NEW sid \in SessionIds, NEW n \in Nonces,
           ValidateAndUseNonce(sid, n), reply' = "ok"
    PROVE  HistoryMatches' /\ SessionBudget' /\ ClockLag'
<1>1. /\ session # NoSession
      /\ session.id = sid
      /\ Cardinality(session.usedNonces) < MaxNonces
      /\ n \notin session.usedNonces
      /\ session' = [session EXCEPT !.usedNonces = @ \cup {n}]
      /\ accepted' = [accepted EXCEPT ![sid][n] = @ + 1]
      /\ UNCHANGED <<now, made, age, setBack>>
  BY AcceptedCall DEF SessionInv, ValidateAndUseNonce
<1>2. /\ session \in Sessions
      /\ accepted \in [SessionIds -> [Nonces -> Nat]]
      /\ made \in Nat
  BY <1>1, SessionAssumption DEF SessionInv, SessionTypeOK
<1>3. /\ session'.id = session.id
      /\ session'.createdAt = session.createdAt
      /\ session'.usedNonces = session.usedNonces \cup {n}
  BY <1>1, <1>2 DEF Sessions
<1>4. \A s \in SessionIds, m \in Nonces :
        accepted'[s][m] = IF s = sid /\ m = n THEN accepted[s][m] + 1
                                              ELSE accepted[s][m]
  BY <1>1, <1>2, CountOnce
<1>5. HistoryMatches'
  <2> SUFFICES ASSUME NEW s \in SessionIds, NEW m \in Nonces
               PROVE  /\ accepted'[s][m] \in {0, 1}
                      /\ s > made => accepted'[s][m] = 0
                      /\ s = session.id =>
                           (accepted'[s][m] = 1 <=> m \in session'.usedNonces)
    BY <1>1, <1>3 DEF SessionInv, HistoryMatches
  <2>1. /\ accepted[s][m] \in {0, 1}
        /\ s > made => accepted[s][m] = 0
        /\ s = session.id => (accepted[s][m] = 1 <=> m \in session.usedNonces)
        /\ session.id \in {0, made}
    BY DEF SessionInv, HistoryMatches
  <2>2. CASE s = sid /\ m = n
    <3>1. accepted[s][m] = 0 /\ accepted'[s][m] = 1
      BY <1>1, <1>4, <2>1, <2>2
    <3>2. ~(s > made)
      BY <1>1, <1>2, <2>1, <2>2 DEF SessionIds
    <3> QED
      BY <1>3, <2>2, <3>1, <3>2
  <2>3. CASE ~(s = sid /\ m = n)
    BY <1>1, <1>3, <1>4, <2>1, <2>3
  <2> QED
    BY <2>2, <2>3
<1>6. SessionBudget'
  <2> SUFFICES ASSUME NEW s \in SessionIds
               PROVE  Cardinality({m \in Nonces : accepted'[s][m] > 0}) <= MaxNonces
    BY DEF SessionBudget
  <2>1. CASE s # sid
    <3>1. {m \in Nonces : accepted'[s][m] > 0} = {m \in Nonces : accepted[s][m] > 0}
      BY <1>4, <2>1
    <3> QED
      BY <3>1 DEF SessionInv, SessionBudget
  <2>2. CASE s = sid
    <3>1. {m \in Nonces : accepted'[s][m] > 0} = session.usedNonces \cup {n}
      <4>1. \A m \in Nonces : accepted[s][m] \in {0, 1}
                              /\ (accepted[s][m] = 1 <=> m \in session.usedNonces)
        BY <1>1, <2>2 DEF SessionInv, HistoryMatches
      <4>2. session.usedNonces \subseteq Nonces
        BY <1>2 DEF Sessions
      <4> QED
        BY <1>4, <2>2, <4>1, <4>2
    <3>2. IsFiniteSet(session.usedNonces)
      BY <1>2, SessionAssumption, FS_Subset DEF Sessions
    <3>3. Cardinality(session.usedNonces \cup {n}) = Cardinality(session.usedNonces) + 1
      BY <1>1, <3>2, FS_AddElement
    <3>4. Cardinality(session.usedNonces) \in Nat
      BY <3>2, FS_CardinalityType
    <3>5. Cardinality(session.usedNonces \cup {n}) <= MaxNonces
      BY <1>1, <3>3, <3>4, SessionAssumption
    <3> QED
      BY <3>1, <3>5
  <2> QED
    BY <2>1, <2>2
<1>7. ClockLag'
  BY <1>1, <1>2, <1>3 DEF SessionInv, ClockLag
<1> QED
  BY <1>5, <1>6, <1>7

\* The invariant is inductive: one step per operation of the manager.
LEMMA SessionInvStep == SessionInv /\ [SessionNext]_sessionVars => SessionInv'
<1> SUFFICES ASSUME SessionInv, SessionTypeOK', [SessionNext]_sessionVars
             PROVE  HistoryMatches' /\ SessionBudget' /\ ClockLag'
  BY SessionTypedStep DEF SessionInv
<1> USE SessionAssumption DEF SessionInv
<1>1. CASE HandleInit
  <2>1. /\ session' = [id |-> made + 1, createdAt |-> now, usedNonces |-> {}]
        /\ made' = made + 1
        /\ age' = 0 /\ setBack' = 0
        /\ UNCHANGED <<now, accepted>>
    BY <1>1 DEF HandleInit
  <2>2. made \in Nat /\ now \in Nat
    BY DEF SessionTypeOK, Times
  <2>3. HistoryMatches'
    BY <2>1, <2>2 DEF HistoryMatches, SessionIds
  <2>4. ClockLag'
    BY <2>1, <2>2 DEF ClockLag
  <2> QED
    BY <2>1, <2>3, <2>4, SameHistory
<1>2. CASE DestroySession
  <2>1. session' = NoSession /\ UNCHANGED <<made, accepted>>
    BY <1>2 DEF DestroySession
  <2>2. HistoryMatches'
    BY <2>1 DEF HistoryMatches, SessionIds, NoSession
  <2> QED
    BY <2>1, <2>2, SameHistory DEF ClockLag
<1>3. CASE Tick
  <2>1. /\ now' = now + 1
        /\ session # NoSession => age' = age + 1
        /\ UNCHANGED <<session, made, setBack, accepted>>
    BY <1>3 DEF Tick
  <2>2. HistoryMatches'
    BY <2>1 DEF HistoryMatches
  <2>3. ClockLag'
    BY <2>1 DEF ClockLag, SessionTypeOK, Times, Sessions
  <2> QED
    BY <2>1, <2>2, <2>3, SameHistory
<1>4. ASSUME NEW t \in Times, AdjustClock(t)
      PROVE  HistoryMatches' /\ SessionBudget' /\ ClockLag'
  <2>1. /\ now' = t
        /\ t < now /\ session # NoSession => setBack' = setBack + (now - t)
        /\ ~(t < now) => setBack' = setBack
        /\ UNCHANGED <<session, made, age, accepted>>
    BY <1>4 DEF AdjustClock
  <2>2. HistoryMatches'
    BY <2>1 DEF HistoryMatches
  <2>3. ClockLag'
    BY <2>1 DEF ClockLag, SessionTypeOK, Times, Sessions
  <2> QED
    BY <2>1, <2>2, <2>3, SameHistory
<1>5. ASSUME NEW sid \in SessionIds, NEW n \in Nonces, ValidateAndUseNonce(sid, n)
      PROVE  HistoryMatches' /\ SessionBudget' /\ ClockLag'
  <2>1. CASE reply' = "ok"
    BY <1>5, <2>1, AcceptKeepsInv
  <2>2. CASE reply' # "ok"
    BY <1>5, <2>2, RefusedCall, SameHistory DEF HistoryMatches, ClockLag
  <2> QED
    BY <2>1, <2>2
<1>6. CASE UNCHANGED sessionVars
  BY <1>6, SameHistory DEF sessionVars, HistoryMatches, ClockLag
<1> QED
  BY <1>1, <1>2, <1>3, <1>4, <1>5, <1>6 DEF SessionNext

\* Every variable keeps its type, whatever the bounds.
THEOREM SessionTyped == SessionSpec => []SessionTypeOK
<1>1. SessionInit => SessionTypeOK
  BY SessionInvInit DEF SessionInv
<1> QED
  BY <1>1, SessionTypedStep, PTL DEF SessionSpec

\* The budget of every session, over its whole life.
THEOREM SessionBudgetHolds == SessionSpec => []SessionBudget
<1>1. SessionInv => SessionBudget
  BY DEF SessionInv
<1> QED
  BY <1>1, SessionInvInit, SessionInvStep, PTL DEF SessionSpec

\* A nonce let through counts once in the ledger; nothing else touches it.
LEMMA AcceptIsConsume ==
    ASSUME SessionInv, NEW sid \in SessionIds, NEW n \in Nonces,
           ValidateAndUseNonce(sid, n), reply' = "ok"
    PROVE  Ledger!Consume(sid, n)
<1>1. /\ session.id = sid
      /\ n \notin session.usedNonces
      /\ accepted' = [accepted EXCEPT ![sid][n] = @ + 1]
  BY AcceptedCall DEF SessionInv
<1>2. accepted[sid][n] = 0
  BY <1>1 DEF SessionInv, HistoryMatches
<1>3. accepted' = [accepted EXCEPT ![sid][n] = 1]
  BY <1>1, <1>2
<1> QED
  BY <1>2, <1>3 DEF Ledger!Consume

\* The session manager implements the ledger: each nonce of each session is
\* consumed at most once, across replacement and destruction of sessions.
THEOREM SessionImplementsLedger == SessionSpec => AcceptedOnce
<1>1. SessionInit => Ledger!LedgerInit
  BY DEF SessionInit, Ledger!LedgerInit
<1>2. SessionInv /\ [SessionNext]_sessionVars => [Ledger!LedgerNext]_accepted
  <2> SUFFICES ASSUME SessionInv, [SessionNext]_sessionVars
               PROVE  (\E s \in SessionIds, n \in Nonces : Ledger!Consume(s, n))
                      \/ UNCHANGED accepted
    BY DEF Ledger!LedgerNext
  <2>1. ASSUME NEW sid \in SessionIds, NEW n \in Nonces, ValidateAndUseNonce(sid, n)
        PROVE  Ledger!Consume(sid, n) \/ UNCHANGED accepted
    BY <2>1, AcceptIsConsume, RefusedCall
  <2> QED
    BY <2>1 DEF SessionNext, sessionVars, HandleInit, DestroySession, Tick, AdjustClock
<1> QED
  BY <1>1, <1>2, SessionInvInit, SessionInvStep, PTL
     DEF SessionSpec, AcceptedOnce, Ledger!LedgerSpec

\* A session accepts for as long as SESSION_LIFETIME_SECS on the wall clock:
\* in true time, that and what the clock was set back since it was made.
THEOREM SessionLifetimeHolds == SessionSpec => LifetimeBound
<1>1. SessionInv /\ [SessionNext]_sessionVars =>
        [accepted' # accepted => age <= SessionLifetime + setBack]_sessionVars
  <2> SUFFICES ASSUME SessionInv, [SessionNext]_sessionVars, accepted' # accepted
               PROVE  age <= SessionLifetime + setBack
    OBVIOUS
  <2>1. PICK sid \in SessionIds, n \in Nonces : ValidateAndUseNonce(sid, n)
    BY DEF SessionNext, sessionVars, HandleInit, DestroySession, Tick, AdjustClock
  <2>2. session # NoSession /\ ~(now - session.createdAt > SessionLifetime)
    BY <2>1, RefusedCall, AcceptedCall DEF SessionInv, IsExpired
  <2> QED
    BY <2>2, SessionAssumption DEF SessionInv, ClockLag, SessionTypeOK, Times, Sessions
<1> QED
  BY <1>1, SessionInvInit, SessionInvStep, PTL DEF SessionSpec, LifetimeBound
-----------------------------------------------------------------------------

\* Only the session made last, and only while it is the active one, accepts a
\* nonce: not one that was replaced or destroyed, nor one still to be made.
THEOREM LatestSessionAccepts == SessionSpec => OnlyLatestSessionAccepts
<1>1. SessionInv /\ [SessionNext]_sessionVars =>
        [\A s \in SessionIds :
           accepted'[s] # accepted[s] => s = made /\ session.id = made]_sessionVars
  <2> SUFFICES ASSUME SessionInv, [SessionNext]_sessionVars,
                      NEW s \in SessionIds, accepted'[s] # accepted[s]
               PROVE  s = made /\ session.id = made
    OBVIOUS
  <2>1. PICK sid \in SessionIds, n \in Nonces : ValidateAndUseNonce(sid, n)
    BY DEF SessionNext, sessionVars, HandleInit, DestroySession, Tick, AdjustClock
  <2>2. /\ session # NoSession
        /\ session.id = sid
        /\ accepted' = [accepted EXCEPT ![sid][n] = @ + 1]
    BY <2>1, RefusedCall, AcceptedCall DEF SessionInv
  <2>3. s = sid
    BY <2>2
  <2>4. session.id # 0
    BY <2>2 DEF SessionInv, SessionTypeOK, Sessions, SessionIds
  <2> QED
    BY <2>2, <2>3, <2>4 DEF SessionInv, HistoryMatches
<1> QED
  BY <1>1, SessionInvInit, SessionInvStep, PTL
     DEF SessionSpec, OnlyLatestSessionAccepts

-----------------------------------------------------------------------------
(* The backend.                                                            *)

\* A fresh AppState, or none, has no session.
LEMMA NoSessionTyped ==
    ASSUME SessionTypeOK, session' = NoSession, age' = 0, setBack' = 0,
           reply' \in Replies, UNCHANGED <<now, made, accepted>>
    PROVE  SessionTypeOK'
BY SessionAssumption DEF SessionTypeOK, Times

\* The session manager's own steps, and steps that leave it alone.
LEMMA SessionStepTyped ==
    ASSUME SessionTypeOK, HandleInit \/ Tick \/ UNCHANGED sessionVars
    PROVE  SessionTypeOK'
BY SessionTypedStep DEF SessionNext

\* What coldstar_sign changes, by whether the replay check stops it.
LEMMA SignEffect ==
    ASSUME BackendTypeOK, NEW t \in Threads, NEW req \in Requests,
           NEW wallet \in Wallets, ColdstarSign(t, req, wallet)
    PROVE  /\ Initialized
           /\ epoch \in Epochs
           /\ req.nonce \in Nonces
           /\ UNCHANGED <<sessionVars, lock, epoch, backend>>
           /\ \/ UNCHANGED <<pipelineNonces, passed, signed, signatures>>
              \/ /\ req.nonce \notin pipelineNonces
                 /\ pipelineNonces' = pipelineNonces \cup {req.nonce}
                 /\ passed' = [passed EXCEPT ![epoch][req.nonce] = @ + 1]
                 /\ \/ UNCHANGED <<signed, signatures>>
                    \/ /\ req.network = backend
                       /\ signed' = [signed EXCEPT ![epoch][req.nonce] = @ + 1]
                       /\ signatures' = signatures \cup {Signature(req)}
<1>1. Initialized
  BY DEF ColdstarSign
<1>2. epoch \in Epochs
  BY <1>1, BackendAssumption DEF BackendTypeOK, Epochs
<1>3. req.nonce \in Nonces
  BY DEF Requests
<1>4. DoSignResult(req, wallet) = "Success" => req.network = backend
  BY DEF DoSignResult
<1> QED
  BY <1>1, <1>2, <1>3, <1>4 DEF ColdstarSign, Sign

\* A signature records the request and the state it was made in.
LEMMA SignatureTyped ==
    ASSUME NEW req \in Requests, epoch \in Epochs
    PROVE  Signature(req) \in Signatures
<1>1. SessionLive(req) \in BOOLEAN
  BY DEF SessionLive
<1> QED
  BY <1>1 DEF Signature, Signatures, Requests

\* coldstar_sign keeps the types of what it changes.
LEMMA SignTyped ==
    ASSUME BackendTypeOK, NEW t \in Threads, NEW req \in Requests,
           NEW wallet \in Wallets, ColdstarSign(t, req, wallet), SessionTypeOK'
    PROVE  BackendTypeOK'
<1>1. passed' \in [Epochs -> [Nonces -> Nat]]
  <2>1. passed \in [Epochs -> [Nonces -> Nat]]
    BY DEF BackendTypeOK
  <2>2. /\ epoch \in Epochs
        /\ req.nonce \in Nonces
        /\ passed' = passed \/ passed' = [passed EXCEPT ![epoch][req.nonce] = @ + 1]
    BY SignEffect
  <2> QED
    BY <2>1, <2>2, CountOnce
<1>2. signatures' \subseteq Signatures /\ pipelineNonces' \subseteq Nonces
  BY SignEffect, SignatureTyped DEF BackendTypeOK
<1>5. signed' \in [Epochs -> [Nonces -> Nat]]
  <2>1. signed \in [Epochs -> [Nonces -> Nat]]
    BY DEF BackendTypeOK
  <2>2. /\ epoch \in Epochs
        /\ req.nonce \in Nonces
        /\ signed' = signed \/ signed' = [signed EXCEPT ![epoch][req.nonce] = @ + 1]
    BY SignEffect
  <2> QED
    BY <2>1, <2>2, CountOnce
<1>3. /\ calls' = [calls EXCEPT ![t] = "idle"]
      /\ calls[t] = "sign"
      /\ UNCHANGED <<lock, epoch, backend>>
  BY DEF ColdstarSign, Return
<1>4. /\ calls' \in [Threads -> CallStates]
      /\ \A u \in Threads : calls'[u] = "querying" <=> lock' = u
  BY <1>3 DEF BackendTypeOK, CallStates
<1> QED
  BY <1>1, <1>2, <1>3, <1>4, <1>5 DEF BackendTypeOK, Initialized

\* No exported function, and no restart, breaks a variable's type or leaves
\* the mutex with the wrong holder.
LEMMA BackendTypedStep ==
    BackendTypeOK /\ [BackendNext]_vars => BackendTypeOK'
<1> USE BackendAssumption DEF LockingCalls, CallStates, Epochs, Initialized
<1> SUFFICES ASSUME BackendTypeOK, [BackendNext]_vars
             PROVE  BackendTypeOK'
  OBVIOUS
<1>t. SessionTypeOK
  BY DEF BackendTypeOK
<1>1. CASE Restart
  <2>1. SessionTypeOK'
    BY <1>1, <1>t, NoSessionTyped DEF Restart, Replies
  <2> QED
    BY <1>1, <2>1 DEF Restart, BackendTypeOK
<1>2. CASE BackendTick
  <2>1. SessionTypeOK'
    BY <1>2, <1>t, SessionStepTyped DEF BackendTick
  <2> QED
    BY <1>2, <2>1 DEF BackendTick, BackendTypeOK, backendVars
<1>3. ASSUME NEW t \in Threads,
             Call(t) \/ RejectInput(t) \/ PanicOnPoison(t) \/ NotInitialized(t)
      PROVE  BackendTypeOK'
  <2>1. SessionTypeOK'
    BY <1>3, <1>t, SessionStepTyped
       DEF Call, RejectInput, PanicOnPoison, NotInitialized
  <2> QED
    BY <1>3, <2>1
       DEF Call, RejectInput, PanicOnPoison, NotInitialized, Return, BackendTypeOK
<1>4. ASSUME NEW t \in Threads, NEW net \in Networks, ColdstarInit(t, net)
      PROVE  BackendTypeOK'
  <2>1. SessionTypeOK'
    BY <1>4, <1>t, NoSessionTyped DEF ColdstarInit, SessionTypeOK
  <2> QED
    BY <1>4, <2>1 DEF ColdstarInit, Return, BackendTypeOK
<1>5. ASSUME NEW t \in Threads, ColdstarInitSession(t)
      PROVE  BackendTypeOK'
  <2>1. SessionTypeOK'
    BY <1>5, <1>t, SessionStepTyped DEF ColdstarInitSession
  <2> QED
    BY <1>5, <2>1 DEF ColdstarInitSession, Return, BackendTypeOK
<1>6. ASSUME NEW t \in Threads, NEW req \in Requests, NEW wallet \in Wallets,
             ColdstarSign(t, req, wallet)
      PROVE  BackendTypeOK'
  <2>1. SessionTypeOK'
    BY <1>6, <1>t, SessionStepTyped DEF ColdstarSign
  <2> QED
    BY <1>6, <2>1, SignTyped
<1>7. ASSUME NEW t \in Threads, BeginQuery(t) \/ EndQuery(t) \/ PanicInQuery(t)
      PROVE  BackendTypeOK'
  <2>1. SessionTypeOK'
    BY <1>7, <1>t, SessionStepTyped DEF BeginQuery, EndQuery, PanicInQuery
  <2> QED
    BY <1>7, <2>1 DEF BeginQuery, EndQuery, PanicInQuery, Return, BackendTypeOK
<1>8. CASE UNCHANGED vars
  <2>1. SessionTypeOK'
    BY <1>8, <1>t, SessionStepTyped DEF vars
  <2> QED
    BY <1>8, <2>1 DEF vars, backendVars, BackendTypeOK
<1> QED
  BY <1>1, <1>2, <1>3, <1>4, <1>5, <1>6, <1>7, <1>8 DEF BackendNext

LEMMA BackendTypedInit == BackendInit => BackendTypeOK
<1>1. SessionInit => SessionTypeOK
  BY SessionInvInit DEF SessionInv
<1> QED
  BY <1>1, BackendAssumption
     DEF BackendInit, BackendTypeOK, Initialized, CallStates, LockingCalls, Epochs

\* Every variable keeps its type, and only a thread in a query holds the
\* mutex, whatever the interleaving, the panics and the restarts.
THEOREM BackendTyped == BackendSpec => []BackendTypeOK
BY BackendTypedInit, BackendTypedStep, PTL DEF BackendSpec

-----------------------------------------------------------------------------
(***************************************************************************)
(* Replay protection.  The pipeline remembers only the nonces of its own   *)
(* life, so the invariant ties that set to the history of this epoch, and  *)
(* says that later epochs have no history yet.  It speaks of an installed  *)
(* backend only: after a restart the set is empty and the history is not,  *)
(* but nothing can be signed before coldstar_init opens the next epoch.    *)
(***************************************************************************)

PassedMatches ==
    /\ \A e \in Epochs, n \in Nonces :
         e > epoch => passed[e][n] = 0
    /\ Initialized =>
         \A n \in Nonces :
           passed[epoch][n] = IF n \in pipelineNonces THEN 1 ELSE 0

\* What is signed has passed the replay check.  A signature belongs to an epoch
\* that has begun, and in the present epoch to the installed network.
SignaturesMatch ==
    /\ \A e \in Epochs, n \in Nonces : passed[e][n] = 0 => signed[e][n] = 0
    /\ \A s \in signatures :
         /\ s.epoch <= epoch
         /\ Initialized /\ s.epoch = epoch => s.network = backend

BackendInv ==
    /\ BackendTypeOK
    /\ PassedMatches
    /\ SignaturesMatch
    /\ OneSignaturePerNonce

LEMMA BackendInvInit == BackendInit => BackendInv
BY BackendTypedInit
   DEF BackendInv, BackendInit, PassedMatches, SignaturesMatch,
       OneSignaturePerNonce, Initialized

\* Nothing that the replay protection rests on changes.
LEMMA SameReplayState ==
    ASSUME PassedMatches, SignaturesMatch, OneSignaturePerNonce,
           UNCHANGED <<epoch, backend, pipelineNonces, passed, signed, signatures>>
    PROVE  PassedMatches' /\ SignaturesMatch' /\ OneSignaturePerNonce'
BY DEF PassedMatches, SignaturesMatch, OneSignaturePerNonce, Initialized

\* A request that gets past the replay check consumes its nonce, which had
\* not been consumed in this epoch.
LEMMA SignConsumes ==
    ASSUME BackendInv, NEW t \in Threads, NEW req \in Requests,
           NEW wallet \in Wallets, ColdstarSign(t, req, wallet)
    PROVE  Pipeline!Consume(epoch, req.nonce) \/ UNCHANGED passed
<1>1. CASE UNCHANGED passed
  BY <1>1
<1>2. CASE ~(UNCHANGED passed)
  <2>1. /\ Initialized
        /\ req.nonce \in Nonces
        /\ req.nonce \notin pipelineNonces
        /\ passed' = [passed EXCEPT ![epoch][req.nonce] = @ + 1]
    BY <1>2, SignEffect DEF BackendInv
  <2>2. passed[epoch][req.nonce] = 0
    BY <2>1 DEF BackendInv, PassedMatches
  <2>3. passed' = [passed EXCEPT ![epoch][req.nonce] = 1]
    BY <2>1, <2>2
  <2> QED
    BY <2>2, <2>3 DEF Pipeline!Consume
<1> QED
  BY <1>1, <1>2

\* coldstar_sign preserves the invariant: what is signed now, if anything, is
\* the first to be signed with its nonce in its epoch.
LEMMA SignKeepsInv ==
    ASSUME BackendInv, NEW t \in Threads, NEW req \in Requests,
           NEW wallet \in Wallets, ColdstarSign(t, req, wallet)
    PROVE  PassedMatches' /\ SignaturesMatch' /\ OneSignaturePerNonce'
<1>1. /\ Initialized
      /\ epoch \in Epochs
      /\ req.nonce \in Nonces
      /\ UNCHANGED <<epoch, backend>>
  BY SignEffect DEF BackendInv
<1>2. CASE UNCHANGED <<pipelineNonces, passed, signed, signatures>>
  BY <1>1, <1>2, SameReplayState DEF BackendInv
<1>3. CASE ~(UNCHANGED <<pipelineNonces, passed, signed, signatures>>)
  <2>1. /\ req.nonce \notin pipelineNonces
        /\ pipelineNonces' = pipelineNonces \cup {req.nonce}
        /\ passed' = [passed EXCEPT ![epoch][req.nonce] = @ + 1]
    BY <1>3, SignEffect DEF BackendInv
  <2>2. \/ UNCHANGED <<signed, signatures>>
        \/ /\ req.network = backend
           /\ signed' = [signed EXCEPT ![epoch][req.nonce] = @ + 1]
           /\ signatures' = signatures \cup {Signature(req)}
    BY <1>3, SignEffect DEF BackendInv
  <2>3. /\ Signature(req).epoch = epoch
        /\ Signature(req).network = req.network
    BY DEF Signature
  <2>4. epoch \in Nat
    BY <1>1, BackendAssumption DEF Epochs
  <2>5. \A e \in Epochs, n \in Nonces :
          passed'[e][n] = IF e = epoch /\ n = req.nonce THEN passed[e][n] + 1
                                                        ELSE passed[e][n]
    BY <1>1, <2>1, CountOnce DEF BackendInv, BackendTypeOK
  <2>6. PassedMatches'
    <3>1. \A e \in Epochs, n \in Nonces : e > epoch' => passed'[e][n] = 0
      BY <1>1, <2>4, <2>5 DEF BackendInv, PassedMatches
    <3>2. \A n \in Nonces :
            passed'[epoch'][n] = IF n \in pipelineNonces' THEN 1 ELSE 0
      BY <1>1, <2>1, <2>5 DEF BackendInv, PassedMatches
    <3> QED
      BY <3>1, <3>2 DEF PassedMatches
  <2>7. passed[epoch][req.nonce] = 0 /\ signed[epoch][req.nonce] = 0
    BY <1>1, <2>1 DEF BackendInv, PassedMatches, SignaturesMatch
  <2>8. CASE UNCHANGED <<signed, signatures>>
    <3>1. SignaturesMatch'
      <4>1. \A e \in Epochs, n \in Nonces : passed'[e][n] = 0 => signed'[e][n] = 0
        BY <2>5, <2>7, <2>8 DEF BackendInv, SignaturesMatch
      <4> QED
        BY <1>1, <2>8, <4>1 DEF BackendInv, SignaturesMatch, Initialized
    <3> QED
      BY <2>6, <2>8, <3>1 DEF BackendInv, OneSignaturePerNonce
  <2>9. CASE /\ req.network = backend
             /\ signed' = [signed EXCEPT ![epoch][req.nonce] = @ + 1]
             /\ signatures' = signatures \cup {Signature(req)}
    <3>1. \A e \in Epochs, n \in Nonces :
            signed'[e][n] = IF e = epoch /\ n = req.nonce THEN signed[e][n] + 1
                                                          ELSE signed[e][n]
      BY <1>1, <2>9, CountOnce DEF BackendInv, BackendTypeOK
    <3>2. SignaturesMatch'
      <4>1. \A e \in Epochs, n \in Nonces : passed'[e][n] = 0 => signed'[e][n] = 0
        BY <2>5, <2>7, <3>1 DEF BackendInv, SignaturesMatch
      <4>2. \A s \in signatures' :
              /\ s.epoch <= epoch'
              /\ Initialized' /\ s.epoch = epoch' => s.network = backend'
        BY <1>1, <2>3, <2>4, <2>9 DEF BackendInv, SignaturesMatch, Initialized
      <4> QED
        BY <4>1, <4>2 DEF SignaturesMatch
    <3>3. OneSignaturePerNonce'
      <4>1. \A e \in Epochs, n \in Nonces : signed'[e][n] <= 1
        BY <2>7, <3>1 DEF BackendInv, OneSignaturePerNonce
      <4>2. \A s \in signatures : s.epoch = epoch => s.network = req.network
        BY <1>1, <2>9 DEF BackendInv, SignaturesMatch
      <4> QED
        BY <2>3, <2>9, <4>1, <4>2 DEF BackendInv, OneSignaturePerNonce
    <3> QED
      BY <2>6, <3>2, <3>3
  <2> QED
    BY <2>2, <2>8, <2>9
<1> QED
  BY <1>2, <1>3

LEMMA BackendInvStep == BackendInv /\ [BackendNext]_vars => BackendInv'
<1> SUFFICES ASSUME BackendInv, BackendTypeOK', [BackendNext]_vars
             PROVE  PassedMatches' /\ SignaturesMatch' /\ OneSignaturePerNonce'
  BY BackendTypedStep DEF BackendInv
<1> USE DEF BackendInv
<1>1. CASE Restart
  <2>1. /\ ~Initialized'
        /\ UNCHANGED <<epoch, passed, signed, signatures>>
    BY <1>1 DEF Restart, Initialized
  <2> QED
    BY <2>1 DEF PassedMatches, SignaturesMatch, OneSignaturePerNonce
<1>2. CASE BackendTick
  BY <1>2, SameReplayState DEF BackendTick, backendVars
<1>3. ASSUME NEW t \in Threads,
             \/ Call(t) \/ RejectInput(t) \/ PanicOnPoison(t) \/ NotInitialized(t)
             \/ ColdstarInitSession(t)
             \/ BeginQuery(t) \/ EndQuery(t) \/ PanicInQuery(t)
      PROVE  PassedMatches' /\ SignaturesMatch' /\ OneSignaturePerNonce'
  BY <1>3, SameReplayState
     DEF Call, RejectInput, PanicOnPoison, NotInitialized, ColdstarInitSession,
         BeginQuery, EndQuery, PanicInQuery
<1>4. ASSUME NEW t \in Threads, NEW net \in Networks, ColdstarInit(t, net)
      PROVE  PassedMatches' /\ SignaturesMatch' /\ OneSignaturePerNonce'
  <2>1. /\ epoch' = epoch + 1
        /\ pipelineNonces' = {}
        /\ UNCHANGED <<passed, signed, signatures>>
    BY <1>4 DEF ColdstarInit
  <2>2. epoch \in Nat /\ epoch' \in Epochs
    BY <2>1, BackendAssumption DEF BackendTypeOK, Epochs
  <2>3. PassedMatches'
    BY <2>1, <2>2, BackendAssumption DEF PassedMatches, Epochs
  <2>4. \A s \in signatures : s.epoch \in Nat /\ s.epoch < epoch'
    BY <2>1, <2>2, BackendAssumption
       DEF SignaturesMatch, BackendTypeOK, Signatures, Epochs
  <2>5. SignaturesMatch'
    BY <2>1, <2>2, <2>4 DEF SignaturesMatch
  <2> QED
    BY <2>1, <2>3, <2>5 DEF OneSignaturePerNonce
<1>5. ASSUME NEW t \in Threads, NEW req \in Requests, NEW wallet \in Wallets,
             ColdstarSign(t, req, wallet)
      PROVE  PassedMatches' /\ SignaturesMatch' /\ OneSignaturePerNonce'
  BY <1>5, SignKeepsInv
<1>6. CASE UNCHANGED vars
  BY <1>6, SameReplayState DEF vars, backendVars
<1> QED
  BY <1>1, <1>2, <1>3, <1>4, <1>5, <1>6 DEF BackendNext

\* Between two coldstar_init calls at most one transaction is signed with a
\* nonce, and all signatures are for the installed network.
THEOREM NoNonceSignedTwice == BackendSpec => []OneSignaturePerNonce
<1>1. BackendInv => OneSignaturePerNonce
  BY DEF BackendInv
<1> QED
  BY <1>1, BackendInvInit, BackendInvStep, PTL DEF BackendSpec

\* The pipeline implements the ledger: in each epoch a nonce gets past the
\* replay check at most once, whatever became of the request.
THEOREM PipelineImplementsLedger == BackendSpec => NoncePassedOnce
<1>1. BackendInit => Pipeline!LedgerInit
  BY DEF BackendInit, Pipeline!LedgerInit
<1>2. BackendInv /\ [BackendNext]_vars => [Pipeline!LedgerNext]_passed
  <2> SUFFICES ASSUME BackendInv, [BackendNext]_vars
               PROVE  (\E e \in Epochs, n \in Nonces : Pipeline!Consume(e, n))
                      \/ UNCHANGED passed
    BY DEF Pipeline!LedgerNext
  <2>1. ASSUME NEW t \in Threads, NEW req \in Requests, NEW wallet \in Wallets,
               ColdstarSign(t, req, wallet)
        PROVE  (\E e \in Epochs, n \in Nonces : Pipeline!Consume(e, n))
               \/ UNCHANGED passed
    <3>1. epoch \in Epochs /\ req.nonce \in Nonces
      BY <2>1, SignEffect DEF BackendInv
    <3> QED
      BY <2>1, <3>1, SignConsumes
  <2> QED
    BY <2>1
       DEF BackendNext, vars, backendVars, Restart, BackendTick, Call, RejectInput,
           PanicOnPoison, NotInitialized, ColdstarInit, ColdstarInitSession,
           BeginQuery, EndQuery, PanicInQuery
<1> QED
  BY <1>1, <1>2, BackendInvInit, BackendInvStep, PTL
     DEF BackendSpec, NoncePassedOnce, Pipeline!LedgerSpec

\* While a thread holds the mutex across its request, and once a panic has
\* poisoned it, no thread can replace the backend, open a session, burn a nonce
\* or sign.
THEOREM QuerySeesOneBackend == BackendSpec => HeldStateIsStable
<1>1. [BackendNext]_vars =>
        [(lock # Free /\ lock' = lock) =>
           /\ epoch' = epoch
           /\ backend' = backend
           /\ session' = session
           /\ pipelineNonces' = pipelineNonces
           /\ signed' = signed]_vars
  BY DEF BackendNext, vars, backendVars, sessionVars, Restart, BackendTick, Tick,
         Call, RejectInput, PanicOnPoison, NotInitialized, ColdstarInit,
         ColdstarInitSession, ColdstarSign, BeginQuery, EndQuery, PanicInQuery
<1> QED
  BY <1>1, PTL DEF BackendSpec, HeldStateIsStable
=============================================================================
