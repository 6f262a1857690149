------------------------------ MODULE Balances ------------------------------
(***************************************************************************)
(* The balances that WalletContext shows and caches for the active wallet. *)
(* A refresh takes the public key from local storage once, and goes on     *)
(* with it whatever wallet is active when its answers come; a switch shows *)
(* what was cached for the new wallet until a refresh answers.             *)
(*                                                                         *)
(* Abstractions: balances are the wallet they are of; what is worth        *)
(* telling apart of the prices is whether all, some or none are known.     *)
(* Requests that change nothing when they fail (24 h changes, logos,       *)
(* safety) are part of waiting for prices; the error text is left out.     *)
(***************************************************************************)
EXTENDS Naturals

CONSTANTS Wallets, None,
          Broke,       \* the wallets that hold no SOL
          RefreshIds   \* bound: refreshes under way at a time

ASSUME BalancesAssumption == None \notin Wallets /\ Broke \subseteq Wallets

VARIABLES
    active,        \* local storage: the active wallet
    registry,      \* local storage: the wallets known
    cache,         \* local storage, per wallet: coldstar_balance_cache
    publicKey,     \* the wallet that the screens name
    sol,           \* the wallet that solBalance is of
    assets,        \* the wallet that assets and totalBalance are of, their worth
    prices,        \* priceCache: the wallet it was fetched for, and its worth
    refreshes,     \* refreshBalances under way
    isRefreshing,
    reachable      \* the RPC node answers

storedVars == <<active, registry, cache>>
shownVars == <<publicKey, sol, assets>>
balanceVars == <<storedVars, shownVars, prices, refreshes, isRefreshing, reachable>>

Worths == {"all", "some", "none"}
Holdings == [of : Wallets, worth : Worths]
Refreshes == [wallet : Wallets, at : {"balance", "prices"}]

Idle == [i \in RefreshIds |-> None]

\* loadCachedBalances; None is shown as zero.
Cached(w) == IF w = None THEN None ELSE cache[w]

ShowCached(w) ==
    /\ sol' = IF Cached(w) = None THEN None ELSE Cached(w).of
    /\ assets' = Cached(w)

BalancesInit ==
    /\ registry \in SUBSET Wallets
    /\ active \in IF registry = {} THEN {None} ELSE registry
    /\ cache = [w \in Wallets |-> None]
    /\ publicKey = active
    /\ sol = None
    /\ assets = None
    /\ prices = None
    /\ refreshes = Idle
    /\ isRefreshing = FALSE
    /\ reachable \in BOOLEAN

-----------------------------------------------------------------------------
(* refreshBalances.                                                        *)

\* Called by the button of Home, after a payment, and by the interval.
Begin(i) ==
    /\ refreshes[i] = None
    /\ active # None
    /\ refreshes' = [refreshes EXCEPT ![i] = [wallet |-> active, at |-> "balance"]]
    /\ isRefreshing' = TRUE
    /\ UNCHANGED <<storedVars, shownVars, prices, reachable>>

\* The interval of 30 s runs for the public key that the context knows.
Interval == publicKey # None /\ \E i \in RefreshIds : Begin(i)

At(i, place) == refreshes[i] # None /\ refreshes[i].at = place

\* getWalletBalance answers.
BalanceAnswer(i) ==
    /\ At(i, "balance")
    /\ reachable
    /\ sol' = refreshes[i].wallet
    /\ refreshes' = [refreshes EXCEPT ![i].at = "prices"]
    /\ UNCHANGED <<storedVars, publicKey, assets, prices, isRefreshing, reachable>>

\* Its last retry fails.
BalanceFails(i) ==
    /\ At(i, "balance")
    /\ ~reachable
    /\ refreshes' = [refreshes EXCEPT ![i] = None]
    /\ isRefreshing' = FALSE
    /\ UNCHANGED <<storedVars, shownVars, prices, reachable>>

\* The prices known before, for the tokens of w: all of them only if they
\* were fetched for w; SOL is among any.
OldWorth(w) ==
    CASE prices = None -> "none"
      [] prices # None /\ prices.of = w -> prices.worth
      [] OTHER -> "some"

\* getTokenPrices: Jupiter knows all or some of the tokens, CoinGecko knows
\* SOL, or neither answers and the prices known before are used.
GetPrices(w, worth) ==
    \/ worth \in {"all", "some"} /\ prices' = [of |-> w, worth |-> worth]
    \/ worth = OldWorth(w) /\ prices' = prices

\* The cache of the wallet that is active now.
SaveForActive(w, worth) ==
    cache' = IF (worth # "none" \/ w \in Broke) /\ active # None
             THEN [cache EXCEPT ![active] = [of |-> w, worth |-> worth]]
             ELSE cache

\* saveCachedBalances, if the total is positive or there is no SOL at all.
Save(w, worth) ==
    cache' = IF worth # "none" \/ w \in Broke
             THEN [cache EXCEPT ![w] = [of |-> w, worth |-> worth]]
             ELSE cache

PricesAnswerDropped(i) ==
    /\ At(i, "prices")
    /\ \E worth \in Worths :
         /\ GetPrices(refreshes[i].wallet, worth)
         /\ assets' = IF worth = "none" THEN assets
                      ELSE [of |-> refreshes[i].wallet, worth |-> worth]
         /\ Save(refreshes[i].wallet, worth)
    /\ refreshes' = [refreshes EXCEPT ![i] = None]
    /\ isRefreshing' = FALSE
    /\ UNCHANGED <<active, registry, publicKey, sol, reachable>>

PricesAnswer(i) ==
    /\ At(i, "prices")
    /\ \E worth \in Worths :
         /\ GetPrices(refreshes[i].wallet, worth)
         /\ assets' = [of |-> refreshes[i].wallet, worth |-> worth]
         /\ Save(refreshes[i].wallet, worth)
    /\ refreshes' = [refreshes EXCEPT ![i] = None]
    /\ isRefreshing' = FALSE
    /\ UNCHANGED <<active, registry, publicKey, sol, reachable>>

Answer(i) == BalanceAnswer(i) \/ BalanceFails(i) \/ PricesAnswer(i)

-----------------------------------------------------------------------------
(* The wallet drawer of Home.                                              *)

\* The balances on the screen stay until a refresh answers.
SwitchOnly(w) ==
    /\ w \in registry \ {publicKey}
    /\ active' = w
    /\ publicKey' = w
    /\ UNCHANGED <<registry, cache, sol, assets, prices, refreshes, isRefreshing,
                   reachable>>

\* switchActiveWallet.
Switch(w) ==
    /\ w \in registry \ {publicKey}
    /\ active' = w
    /\ publicKey' = w
    /\ ShowCached(w)
    /\ UNCHANGED <<registry, cache, prices, refreshes, isRefreshing, reachable>>

\* removeActiveWallet; the cache of the wallet stays.
Remove(w) ==
    /\ w \in registry
    /\ registry' = registry \ {w}
    /\ active' \in CASE active # w -> {active}
                     [] active = w /\ registry = {w} -> {None}
                     [] OTHER -> registry \ {w}
    /\ publicKey' = active'
    /\ ShowCached(active')
    /\ UNCHANGED <<cache, prices, refreshes, isRefreshing, reachable>>

-----------------------------------------------------------------------------
(* Around it.                                                              *)

\* Onboarding makes w the active wallet; the context is not told.
Register(w) ==
    /\ registry' = registry \cup {w}
    /\ active' = w
    /\ UNCHANGED <<cache, shownVars, prices, refreshes, isRefreshing, reachable>>

\* The app is killed and started again.
Restart ==
    /\ publicKey' = active
    /\ ShowCached(active)
    /\ prices' = None
    /\ refreshes' = Idle
    /\ isRefreshing' = FALSE
    /\ UNCHANGED <<storedVars, reachable>>

ReachableChanges ==
    /\ reachable' = ~reachable
    /\ UNCHANGED <<storedVars, shownVars, prices, refreshes, isRefreshing>>

BalancesNext ==
    \/ \E i \in RefreshIds : Begin(i) \/ Answer(i)
    \/ \E w \in Wallets : Switch(w) \/ Remove(w) \/ Register(w)
    \/ Restart
    \/ ReachableChanges

=============================================================================
