------------------------------ MODULE History -------------------------------
(***************************************************************************)
(* The history of one wallet: services/transaction-cache.ts and the        *)
(* History screen.  A load reads the cache before it asks the network, a   *)
(* sync after; both then write the union.  A call outlives its screen.     *)
(*                                                                         *)
(* Abstractions: transactions are numbered as they are made, a record is   *)
(* the identifier it is cached under; content and order in time are left   *)
(* out, and so is the filter.  loadTransactions never throws, so that the  *)
(* error and its Retry never show.                                         *)
(***************************************************************************)
EXTENDS Naturals

CONSTANTS NoCall, CallIds,      \* bound: calls under way at a time
          MaxLedger,          \* bound: transactions the wallet makes
          Swaps,              \* the transactions that are swaps
          SolscanPage, RpcPage

ASSUME HistoryAssumption ==
    /\ {MaxLedger, SolscanPage, RpcPage} \subseteq Nat
    /\ Swaps \subseteq 1 .. MaxLedger

VARIABLES
    ledger,          \* the number of transactions made
    records,         \* local storage: coldstar_tx_cache
    open,            \* the History screen is shown
    transactions,    \* its list
    isLoading,
    isSyncing,
    network,         \* "none", "cellular" or "wifi"
    fetches          \* loadTransactions and syncTransactions under way

screenVars == <<open, transactions, isLoading, isSyncing>>
historyVars == <<ledger, records, screenVars, network, fetches>>

-----------------------------------------------------------------------------
(* getTransactionHistory of the first n transactions.                      *)

\* Solscan names a swap by its signature, a transfer by signature and token.
SolscanId(t) == [of |-> t, by |-> IF t \in Swaps THEN "signature" ELSE "transfer"]
RpcId(t) == [of |-> t, by |-> "signature"]

Newest(n, size) == {t \in 1 .. n : t > n - size}

SolscanHistory(n) == {SolscanId(t) : t \in Newest(n, SolscanPage)}
RpcHistory(n) == {RpcId(t) : t \in Newest(n, RpcPage)}

\* What isOnline and isOnWifi tell apart.
Networks == {"none", "cellular", "wifi"}

Records == [of : 1 .. MaxLedger, by : {"signature", "transfer"}]

Fetches == [op : {"load", "sync"}, cached : SUBSET Records, from : 0 .. MaxLedger,
            shown : BOOLEAN]

HistoryInit ==
    /\ ledger = 0
    /\ records = {}
    /\ open = FALSE
    /\ transactions = {}
    /\ isLoading = FALSE
    /\ isSyncing = FALSE
    /\ network \in Networks
    /\ fetches = [i \in CallIds |-> NoCall]

-----------------------------------------------------------------------------
(* The screen.                                                             *)

\* The refresh button is disabled offline and during a sync.
HistoryOffers ==
    IF open
    THEN {"leave"} \cup IF network # "none" /\ ~isSyncing THEN {"refresh"} ELSE {}
    ELSE {}

Fetch(i, op, cached) ==
    /\ fetches[i] = NoCall
    /\ fetches' = [fetches EXCEPT ![i] =
           [op |-> op, cached |-> cached, from |-> ledger, shown |-> TRUE]]

\* fetchTransactions on mount: loadTransactions without force asks the
\* network on WiFi only.
OpenHistory ==
    /\ ~open
    /\ open' = TRUE
    /\ isSyncing' = FALSE
    /\ IF network = "wifi"
       THEN /\ \E i \in CallIds : Fetch(i, "load", records)
            /\ transactions' = {}
            /\ isLoading' = TRUE
       ELSE /\ transactions' = records
            /\ isLoading' = FALSE
            /\ UNCHANGED fetches
    /\ UNCHANGED <<ledger, records, network>>

CloseHistory ==
    /\ "leave" \in HistoryOffers
    /\ open' = FALSE
    /\ transactions' = {}
    /\ isLoading' = FALSE
    /\ isSyncing' = FALSE
    /\ fetches' = [i \in CallIds |->
           IF fetches[i] = NoCall THEN NoCall ELSE [fetches[i] EXCEPT !.shown = FALSE]]
    /\ UNCHANGED <<ledger, records, network>>

\* syncTransactions asks at once; what it gives is merged when it answers.
BeginSync ==
    /\ \E i \in CallIds : Fetch(i, "sync", {})
    /\ isSyncing' = TRUE

\* handleManualRefresh.
ManualRefresh ==
    /\ "refresh" \in HistoryOffers
    /\ BeginSync
    /\ UNCHANGED <<ledger, records, open, transactions, isLoading, network>>

\* onConnectivityChange: the screen syncs whenever WiFi is there; two events
\* may tell of one change.  A network without a type counts as WiFi.
ConnectivityChanges ==
    /\ network' \in Networks
    /\ IF open /\ network' = "wifi"
       THEN BeginSync
       ELSE UNCHANGED <<isSyncing, fetches>>
    /\ UNCHANGED <<ledger, records, open, transactions, isLoading>>

-----------------------------------------------------------------------------
(* Answers.                                                                *)

\* A sync that writes what it fetched.
CachedForUnmerged(i) == IF fetches[i].op = "load" THEN fetches[i].cached ELSE {}

\* What a call merges the answer with.
CachedFor(i) == IF fetches[i].op = "load" THEN fetches[i].cached ELSE records

\* The call ends; its screen shows list, if it is still there.
Ends(i, list) ==
    /\ fetches' = [fetches EXCEPT ![i] = NoCall]
    /\ transactions' = IF fetches[i].shown THEN list ELSE transactions
    /\ isLoading' = (isLoading /\ ~(fetches[i].shown /\ fetches[i].op = "load"))
    /\ isSyncing' = (isSyncing /\ ~(fetches[i].shown /\ fetches[i].op = "sync"))
    /\ UNCHANGED <<ledger, open, network>>

\* The history as of some moment of the call is merged, saved and shown.
Merged(i) ==
    /\ fetches[i] # NoCall
    /\ \E n \in fetches[i].from .. ledger :
         \E fresh \in {SolscanHistory(n), RpcHistory(n)} :
             /\ records' = CachedFor(i) \cup fresh
             /\ Ends(i, CachedFor(i) \cup fresh)

\* Both sources fail: a load shows what it had read, a sync nothing new.
FetchFails(i) ==
    /\ fetches[i] # NoCall
    /\ Ends(i, IF fetches[i].op = "load" THEN fetches[i].cached ELSE transactions)
    /\ UNCHANGED records

FetchEnds(i) == Merged(i) \/ FetchFails(i)

\* The wallet makes, or is sent, a transaction.
Transact ==
    /\ ledger < MaxLedger
    /\ ledger' = ledger + 1
    /\ UNCHANGED <<records, screenVars, network, fetches>>

HistoryNext ==
    \/ OpenHistory
    \/ CloseHistory
    \/ ManualRefresh
    \/ ConnectivityChanges
    \/ \E i \in CallIds : FetchEnds(i)
    \/ Transact

=============================================================================
