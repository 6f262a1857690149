------------------------- MODULE WalletContextProofs -------------------------
(***************************************************************************)
(* What WalletContext shows and caches, for any number of wallets, drives, *)
(* refreshes, polls and calls.                                             *)
(*                                                                         *)
(* The invariant of the balances: a refresh under way is of a wallet, and  *)
(* the cache of a wallet is its own; a step of the drive or of the history *)
(* leaves all of it alone.  That of the drive: what answers during the     *)
(* pause of the polling was under way when the pause began.                *)
(***************************************************************************)
EXTENDS WalletContext, TLAPS

BalancesOwn ==
    /\ active \in Wallets \cup {None}
    /\ registry \subseteq Wallets
    /\ refreshes \in [RefreshIds -> Refreshes \cup {None}]
    /\ CacheIsOwn

FetchesIndexed == DOMAIN fetches = CallIds

\* What is saved for a wallet is of the wallet.
LEMMA SaveIsOwn ==
    ASSUME CacheIsOwn, NEW w \in Wallets, NEW worth \in Worths, Save(w, worth)
    PROVE  CacheIsOwn'
<1>1. CASE worth # "none" \/ w \in Broke
  <2>1. cache' = [cache EXCEPT ![w] = [of |-> w, worth |-> worth]]
    BY <1>1 DEF Save
  <2>2. [of |-> w, worth |-> worth] \in Holdings
    BY DEF Holdings
  <2>3. cache' \in [Wallets -> Holdings \cup {None}]
    BY <2>1, <2>2 DEF CacheIsOwn
  <2> QED
    BY <1>1, <2>1, <2>3 DEF CacheIsOwn
<1>2. CASE ~(worth # "none" \/ w \in Broke)
  BY <1>2 DEF Save, CacheIsOwn
<1> QED
  BY <1>1, <1>2

\* What is cached for the wallet that becomes active shows it, or nothing.
LEMMA CachedShowsOwn ==
    ASSUME CacheIsOwn, None \notin Wallets, active' \in Wallets \cup {None},
           ShowCached(active')
    PROVE  ShowsOwn'
<1>1. CASE active' = None
  BY <1>1 DEF ShowCached, Cached, ShowsOwn
<1>2. CASE active' \in Wallets /\ cache[active'] = None
  BY <1>2 DEF ShowCached, Cached, ShowsOwn
<1>3. CASE active' \in Wallets /\ cache[active'] # None
  <2>1. Cached(active') = cache[active'] /\ cache[active'].of = active'
    BY <1>3 DEF Cached, CacheIsOwn
  <2> QED
    BY <1>3, <2>1 DEF ShowCached, ShowsOwn
<1> QED
  BY <1>1, <1>2, <1>3

LEMMA BalancesOwnStep ==
    ASSUME BalancesOwn, [Next]_vars
    PROVE  BalancesOwn'
<1> USE BalancesAssumption
<1>1. ASSUME NEW i \in RefreshIds, Begin(i)
      PROVE  BalancesOwn'
  <2>1. [wallet |-> active, at |-> "balance"] \in Refreshes
    BY <1>1 DEF Begin, BalancesOwn, Refreshes
  <2> QED
    BY <1>1, <2>1 DEF Begin, BalancesOwn, storedVars, CacheIsOwn
<1>2. ASSUME NEW i \in RefreshIds, Answer(i)
      PROVE  BalancesOwn'
  <2>1. refreshes[i] # None /\ refreshes[i] \in Refreshes
    BY <1>2 DEF Answer, BalanceAnswer, BalanceFails, PricesAnswer, At, BalancesOwn
  <2>2. CASE BalanceAnswer(i)
    <3>1. [refreshes[i] EXCEPT !.at = "prices"] \in Refreshes
      BY <2>1 DEF Refreshes
    <3> QED
      BY <2>2, <3>1 DEF BalanceAnswer, BalancesOwn, storedVars, CacheIsOwn
  <2>3. CASE BalanceFails(i)
    BY <2>3 DEF BalanceFails, BalancesOwn, storedVars, CacheIsOwn
  <2>4. CASE PricesAnswer(i)
    <3>1. refreshes[i].wallet \in Wallets
      BY <2>1 DEF Refreshes
    <3>2. CacheIsOwn'
      BY <2>4, <3>1, SaveIsOwn DEF PricesAnswer, BalancesOwn
    <3> QED
      BY <2>4, <3>2 DEF PricesAnswer, BalancesOwn
  <2> QED
    BY <1>2, <2>2, <2>3, <2>4 DEF Answer
<1>3. ASSUME NEW w \in Wallets, Switch(w) \/ Remove(w) \/ Register(w)
      PROVE  BalancesOwn'
  <2>1. active' \in Wallets \cup {None} /\ registry' \subseteq Wallets
    BY <1>3 DEF Switch, Remove, Register, BalancesOwn
  <2>2. UNCHANGED <<cache, refreshes>>
    BY <1>3 DEF Switch, Remove, Register
  <2> QED
    BY <2>1, <2>2 DEF BalancesOwn, CacheIsOwn
<1>4. CASE Restart
  BY <1>4 DEF Restart, Idle, BalancesOwn, storedVars, CacheIsOwn
<1>5. CASE ReachableChanges \/ UNCHANGED balanceVars
  BY <1>5 DEF ReachableChanges, BalancesOwn, balanceVars, storedVars, CacheIsOwn
<1> QED
  BY <1>1, <1>2, <1>3, <1>4, <1>5
  DEF Next, BalancesStep, HardwareStep, HistoryStep, BalancesNext, vars

\* The cache of a wallet holds balances of that wallet, whichever wallet was
\* active when they came.
THEOREM CachesAreOwn == ContextSpec => []CacheIsOwn
<1>1. ContextInit => BalancesOwn
  BY DEF ContextInit, BalancesInit, Idle, BalancesOwn, CacheIsOwn
<1>2. BalancesOwn /\ [Next]_vars => BalancesOwn'
  BY BalancesOwnStep
<1>3. BalancesOwn => CacheIsOwn
  BY DEF BalancesOwn
<1> QED
  BY <1>1, <1>2, <1>3, PTL DEF ContextSpec

-----------------------------------------------------------------------------

\* A foreign balance comes on the screen by an overtaken refresh or a
\* registration only.
LEMMA StaysOwn ==
    ASSUME BalancesOwn, ShowsOwn, [Next]_vars,
           ~(active' # active /\ publicKey' = publicKey),
           \A i \in RefreshIds :
               refreshes[i] # None /\ refreshes'[i] # refreshes[i]
                   => refreshes[i].wallet = active
    PROVE  ShowsOwn'
<1> USE BalancesAssumption
<1>1. ASSUME NEW i \in RefreshIds, Begin(i)
      PROVE  ShowsOwn'
  BY <1>1 DEF Begin, ShowsOwn, storedVars, shownVars
<1>2. ASSUME NEW i \in RefreshIds, Answer(i)
      PROVE  ShowsOwn'
  <2>1. refreshes[i] # None /\ refreshes[i] \in Refreshes
    BY <1>2 DEF Answer, BalanceAnswer, BalanceFails, PricesAnswer, At, BalancesOwn
  <2>2. CASE BalanceAnswer(i)
    <3>1. refreshes'[i].at = "prices" /\ refreshes[i].at = "balance"
      BY <2>1, <2>2 DEF BalanceAnswer, At, BalancesOwn, Refreshes
    <3>2. refreshes[i].wallet = active
      BY <2>1, <3>1
    <3> QED
      BY <2>2, <3>2 DEF BalanceAnswer, ShowsOwn, storedVars
  <2>3. CASE BalanceFails(i)
    BY <2>3 DEF BalanceFails, ShowsOwn, storedVars, shownVars
  <2>4. CASE PricesAnswer(i)
    <3>1. refreshes'[i] = None
      BY <2>4 DEF PricesAnswer, BalancesOwn
    <3>2. refreshes[i].wallet = active
      BY <2>1, <3>1
    <3> QED
      BY <2>4, <3>2 DEF PricesAnswer, ShowsOwn
  <2> QED
    BY <1>2, <2>2, <2>3, <2>4 DEF Answer
<1>3. ASSUME NEW w \in Wallets, Switch(w) \/ Remove(w)
      PROVE  ShowsOwn'
  <2>1. active' \in Wallets \cup {None}
    BY <1>3 DEF Switch, Remove, BalancesOwn
  <2>2. ShowCached(active')
    BY <1>3 DEF Switch, Remove
  <2> QED
    BY <2>1, <2>2, CachedShowsOwn DEF BalancesOwn
<1>4. ASSUME NEW w \in Wallets, Register(w)
      PROVE  ShowsOwn'
  BY <1>4 DEF Register, ShowsOwn, shownVars
<1>5. CASE Restart
  <2>1. active' = active /\ ShowCached(active')
    BY <1>5 DEF Restart, storedVars
  <2> QED
    BY <2>1, CachedShowsOwn DEF BalancesOwn
<1>6. CASE ReachableChanges \/ UNCHANGED balanceVars
  BY <1>6 DEF ReachableChanges, ShowsOwn, balanceVars, storedVars, shownVars
<1> QED
  BY <1>1, <1>2, <1>3, <1>4, <1>5, <1>6
  DEF Next, BalancesStep, HardwareStep, HistoryStep, BalancesNext, vars

\* Balances of another wallet come on the screen only with the answer of a
\* refresh that a change of the wallet overtook, or when onboarding changes
\* the wallet.
THEOREM ForeignBalancesAreLate == ContextSpec => ShownIsOwn
<1>1. ContextInit => BalancesOwn
  BY DEF ContextInit, BalancesInit, Idle, BalancesOwn, CacheIsOwn
<1>2. BalancesOwn /\ [Next]_vars => BalancesOwn'
  BY BalancesOwnStep
<1>3. BalancesOwn /\ [Next]_vars =>
        [ShowsOwn /\ ~ShowsOwn' =>
          \/ \E i \in RefreshIds : /\ refreshes[i] # None
                                   /\ refreshes'[i] # refreshes[i]
                                   /\ refreshes[i].wallet # active
          \/ active' # active /\ publicKey' = publicKey]_vars
  BY StaysOwn
<1> QED
  BY <1>1, <1>2, <1>3, PTL DEF ContextSpec, ShownIsOwn

-----------------------------------------------------------------------------

LEMMA FetchesIndexedStep ==
    ASSUME FetchesIndexed, [Next]_vars
    PROVE  FetchesIndexed'
<1>1. ASSUME NEW i \in CallIds, NEW op, NEW cached, Fetch(i, op, cached)
      PROVE  FetchesIndexed'
  BY <1>1 DEF Fetch, FetchesIndexed
<1>2. CASE HistoryStep
  BY <1>1, <1>2
  DEF HistoryStep, HistoryNext, OpenHistory, CloseHistory, ManualRefresh, BeginSync,
      ConnectivityChanges, FetchEnds, Merged, FetchFails, Ends, Transact,
      FetchesIndexed, screenVars
<1>3. CASE UNCHANGED fetches
  BY <1>3 DEF FetchesIndexed
<1> QED
  BY <1>2, <1>3 DEF Next, BalancesStep, HardwareStep, historyVars, vars

\* What a step writes to the cache has all records of the cache, but for a
\* load that was overtaken.
LEMMA StepKeepsRecords ==
    ASSUME FetchesIndexed, [Next]_vars, ~(records \subseteq records')
    PROVE  \E i \in CallIds : /\ fetches[i] # NoCall /\ fetches'[i] = NoCall
                              /\ fetches[i].op = "load"
                              /\ fetches[i].cached # records
<1>1. records' # records
  OBVIOUS
<1>2. PICK i \in CallIds : Merged(i)
  BY <1>1
  DEF Next, BalancesStep, HardwareStep, HistoryStep, HistoryNext, OpenHistory,
      CloseHistory, ManualRefresh, ConnectivityChanges, FetchEnds, FetchFails,
      Transact, historyVars, vars
<1>3. fetches[i] # NoCall /\ fetches'[i] = NoCall
  BY <1>2 DEF Merged, Ends, FetchesIndexed
<1>4. ~(records \subseteq CachedFor(i))
  BY <1>2 DEF Merged
<1> QED
  BY <1>3, <1>4 DEF CachedFor

\* A record leaves the cached history only by a load that saves what it read
\* before another call saved more.
THEOREM RecordsAreKept == ContextSpec => RecordsKept
<1>1. ContextInit => FetchesIndexed
  BY DEF ContextInit, HistoryInit, FetchesIndexed
<1>2. FetchesIndexed /\ [Next]_vars => FetchesIndexed'
  BY FetchesIndexedStep
<1>3. FetchesIndexed /\ [Next]_vars =>
        [records \subseteq records' \/
          \E i \in CallIds : /\ fetches[i] # NoCall /\ fetches'[i] = NoCall
                             /\ fetches[i].op = "load"
                             /\ fetches[i].cached # records]_vars
  BY StepKeepsRecords
<1> QED
  BY <1>1, <1>2, <1>3, PTL DEF ContextSpec, RecordsKept

-----------------------------------------------------------------------------

Blank == <<Nothing, Nothing>>
Underway == \E i \in PollIds : polls[i] # Nothing

\* During the pause only what was under way when it began is under way, and
\* only that has shown anything.
PausedInv ==
    /\ DOMAIN polls = PollIds
    /\ cooldown /\ (Underway \/ shown # Blank) => straggling

\* A poll that answers was under way, and leaves the pause alone.
LEMMA AnswersWereAsked ==
    ASSUME PausedInv, NEW i \in PollIds, PollAnswer(i)
    PROVE  PausedInv'
<1>1. /\ Underway
      /\ UNCHANGED <<cooldown, straggling>>
      /\ DOMAIN polls' = DOMAIN polls
  BY DEF PollAnswer, Found, FoundUnreadable, Asks, NotFound, KeyRead, PollAt, Underway
<1> QED
  BY <1>1 DEF PausedInv

LEMMA PausedInvStep ==
    ASSUME PausedInv, [Next]_vars
    PROVE  PausedInv'
<1>1. ASSUME NEW i \in PollIds, Poll(i) \/ PollInVain(i)
      PROVE  PausedInv'
  <2>1. ~cooldown' /\ DOMAIN polls' = DOMAIN polls
    BY <1>1 DEF Poll, PollInVain, Looks
  <2> QED
    BY <2>1 DEF PausedInv
<1>2. ASSUME NEW i \in PollIds, PollAnswer(i)
      PROVE  PausedInv'
  BY <1>2, AnswersWereAsked
<1>3. CASE Ejected
  <2>1. /\ shown' = Blank
        /\ polls' = polls
        /\ straggling' = Underway
    BY <1>3 DEF Ejected, shown, Blank, Underway
  <2> QED
    BY <2>1 DEF PausedInv, Underway, Blank
<1>4. CASE CooldownOver
  BY <1>4 DEF CooldownOver, PausedInv
<1>5. CASE Disconnect \/ DriveChanges \/ PickDrive \/ ForgottenElsewhere
  BY <1>5
  DEF Disconnect, DriveChanges, PickDrive, ForgottenElsewhere, PausedInv, Underway,
      Blank
<1>6. CASE UNCHANGED hardwareVars
  BY <1>6 DEF hardwareVars, PausedInv, Underway, Blank
<1> QED
  BY <1>1, <1>2, <1>3, <1>4, <1>5, <1>6
  DEF Next, BalancesStep, HardwareStep, HistoryStep, HardwareNext, vars

\* A drive that was disconnected comes back during the pause only by a poll
\* that was under way when the pause began, for any drives and polls.
THEOREM DisconnectedDrives == ContextSpec => []DisconnectedStaysOff
<1>1. ContextInit => PausedInv
  BY DEF ContextInit, HardwareInit, PausedInv
<1>2. PausedInv /\ [Next]_vars => PausedInv'
  BY PausedInvStep
<1>3. PausedInv => DisconnectedStaysOff
  BY DEF PausedInv, DisconnectedStaysOff, Blank
<1> QED
  BY <1>1, <1>2, <1>3, PTL DEF ContextSpec
=============================================================================
