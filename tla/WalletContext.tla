---------------------------- MODULE WalletContext ----------------------------
(***************************************************************************)
(* What runs behind the screens: the balances and the drive that           *)
(* WalletContext keeps, and the history cache.  They share no variable but *)
(* the wallet that is active, which a badge or a history is compared with  *)
(* or opened for, so that a behaviour exercises one part of the three.     *)
(***************************************************************************)
EXTENDS Balances, Hardware, History

VARIABLE part    \* bound: the part that a behaviour exercises

vars == <<balanceVars, hardwareVars, historyVars, part>>

ContextInit ==
    /\ BalancesInit
    /\ HardwareInit
    /\ HistoryInit
    /\ part \in {"balances", "hardware", "history"}
    /\ part # "balances" => active = None /\ registry = {} /\ ~reachable
    /\ part # "hardware" => platform = "ios" /\ drive = Nothing /\ saved = Nothing
    /\ part # "history" => network = "none"

BalancesStep ==
    /\ part = "balances"
    /\ BalancesNext
    /\ UNCHANGED <<hardwareVars, historyVars, part>>

HardwareStep ==
    /\ part = "hardware"
    /\ HardwareNext
    /\ UNCHANGED <<balanceVars, historyVars, part>>

HistoryStep ==
    /\ part = "history"
    /\ HistoryNext
    /\ UNCHANGED <<balanceVars, hardwareVars, part>>

Next == BalancesStep \/ HardwareStep \/ HistoryStep

\* Timers fire and native calls and requests are answered.
ContextSpec ==
    /\ ContextInit
    /\ [][Next]_vars
    /\ WF_vars(BalancesStep /\ Interval)
    /\ \A i \in RefreshIds : WF_vars(BalancesStep /\ Answer(i))
    /\ \A i \in PollIds :
          /\ WF_vars(HardwareStep /\ Poll(i))
          /\ WF_vars(HardwareStep /\ PollAnswer(i))
    /\ WF_vars(HardwareStep /\ Ejected)
    /\ WF_vars(HardwareStep /\ CooldownOver)
    /\ \A i \in CallIds : WF_vars(HistoryStep /\ FetchEnds(i))

-----------------------------------------------------------------------------
(* Properties.                                                             *)

\* The balance cache of a wallet holds balances of that wallet, whichever
\* wallet was active when they came, and unpriced ones only of a wallet
\* without SOL.
CacheIsOwn ==
    /\ cache \in [Wallets -> Holdings \cup {None}]
    /\ \A w \in Wallets : cache[w] # None =>
          cache[w].of = w /\ (cache[w].worth = "none" => w \in Broke)

ShowsOwn ==
    /\ sol \in {active, None}
    /\ assets # None => assets.of = active

\* Balances of another wallet than the active one come on the screen only
\* with the answer of a refresh that began before the wallet changed, or when
\* onboarding changes the wallet without telling the context.
ShownIsOwn ==
    [][ShowsOwn /\ ~ShowsOwn' =>
          \/ \E i \in RefreshIds : /\ refreshes[i] # None
                                   /\ refreshes'[i] # refreshes[i]
                                   /\ refreshes[i].wallet # active
          \/ active' # active /\ publicKey' = publicKey]_vars

\* Once the wallet stays the same, the node answers, and the app is not
\* restarted, the balances shown are those of the active wallet, whatever was
\* under way, provided that the context knows of any wallet.
ShownHeals ==
    \A w \in Wallets :
        <>[](active = w /\ publicKey # None /\ reachable) /\ <>[][~Restart]_vars
            => <>[](sol = w /\ assets # None /\ assets.of = w)


\* A drive that the user disconnected, or its wallet, is shown as connected
\* again within the pause of the polling only by a poll that was under way
\* when the pause began.
DisconnectedStaysOff ==
    cooldown /\ shown # <<Nothing, Nothing>> => straggling

\* A record leaves the cached history only when a load saves what it read
\* before another call saved more.
RecordsKept ==
    [][records \subseteq records' \/
          \E i \in CallIds : /\ fetches[i] # NoCall /\ fetches'[i] = NoCall
                             /\ fetches[i].op = "load"
                             /\ fetches[i].cached # records]_vars

=============================================================================
