---------------------------- MODULE Transactions ----------------------------
(***************************************************************************)
(* Paying: getKeypair, then sendSol and sendSplToken (services/            *)
(* transactions.ts) or signAndSubmitSwap with executeSwap (services/       *)
(* jupiter.ts), over a network that may land a transaction whether or not  *)
(* its sender hears of it.  Several calls may be under way.                *)
(*                                                                         *)
(* Abstractions: what is paid is a value; a transaction that is built anew *)
(* with the same payload and the same blockhash is the same transaction,   *)
(* and so is a quote that is signed again.  Polling that finds nothing yet *)
(* changes nothing and is left out; giving up is possible at any time, and *)
(* nobody asks what becomes of a fee transaction.  The requests before a   *)
(* transaction is sent are one step with it.                               *)
(***************************************************************************)
EXTENDS Naturals, FiniteSets

CONSTANTS Payable,    \* transfers that can be built
          Unpayable,  \* without amount, or to no valid address
          Quotes,     \* the orders Jupiter answers with
          CallIds,    \* bound: calls under way at a time
          PayIds,     \* bound: payments of a visit
          FeeIds,     \* bound: fees of a visit
          None

Payments == Payable \cup Unpayable

TxIds == PayIds \cup FeeIds

Statuses == {"sent", "processed", "confirmed", "failed", "expired"}
Places == {"key", "poll", "answer", "fee"}

\* ours, seen: made by, or known to, the screen that is open.
Txs == [kind : {"send", "swap", "fee"}, pays : Payments \cup Quotes,
        status : Statuses, ours : BOOLEAN]
Calls == [pays : Payments \cup Quotes, at : Places,
          tx : TxIds \cup {None}, seen : BOOLEAN]

ASSUME TransactionsAssumption ==
    /\ Payments \cap Quotes = {}
    /\ CallIds \subseteq Nat /\ TxIds \subseteq Nat /\ PayIds \cap FeeIds = {}
    /\ None \notin Payments \cup Quotes \cup TxIds \cup Txs \cup Calls

VARIABLES
    txs,    \* the transactions, as the network has them
    calls   \* the signings under way

netVars == <<txs, calls>>

NetInit ==
    /\ txs = [i \in TxIds |-> None]
    /\ calls = [c \in CallIds |-> None]

Is(i, status) == i # None /\ txs[i] # None /\ txs[i].status = status

\* It was paid, or it still may be.
Live(i) == \E s \in {"sent", "processed", "confirmed"} : Is(i, s)

LiveOf(kinds) == {i \in TxIds : Live(i) /\ txs[i].ours /\ txs[i].kind \in kinds}

-----------------------------------------------------------------------------
(* Steps of a call.                                                        *)

\* The first name of S that is free in f.
First(i, f, S) == i \in S /\ f[i] = None /\ \A j \in S : f[j] = None => i <= j

At(c, place) == calls[c] # None /\ calls[c].at = place

Ends(c) == calls' = [calls EXCEPT ![c] = None]

\* A call starts with getKeypair.
Begin(pays) ==
    \E c \in CallIds :
        /\ First(c, calls, CallIds)
        /\ calls' = [calls EXCEPT ![c] = [pays |-> pays, at |-> "key",
                                         tx |-> None, seen |-> TRUE]]

\* The transaction of a call, unless the network has it already.
Has(i, kind, c) ==
    /\ txs[i] # None
    /\ txs[i].kind = kind
    /\ txs[i].pays = calls[c].pays
    /\ txs[i].ours = calls[c].seen

Adds(i, kind, c) ==
    /\ First(i, txs, IF kind = "fee" THEN FeeIds ELSE PayIds)
    /\ txs' = [txs EXCEPT ![i] = [kind |-> kind, pays |-> calls[c].pays,
                                  status |-> "sent", ours |-> calls[c].seen]]

\* sendSol, sendSplToken up to the answer of sendRawTransaction: the drive
\* held the wallet's key and the PIN opened it, the transaction could be
\* built, with a new blockhash or the one of a moment ago, and passed the
\* preflight check.
Submits(c, i) ==
    /\ At(c, "key")
    /\ calls[c].pays \in Payable
    /\ \/ Adds(i, "send", c)
       \/ Has(i, "send", c) /\ Is(i, "sent") /\ UNCHANGED txs

Submit(c) ==
    \E i \in TxIds :
        /\ Submits(c, i)
        /\ calls' = [calls EXCEPT ![c].at = "poll", ![c].tx = i]

\* executeSwap: the signed order reaches Jupiter, perhaps not the first time.
Execute(c) ==
    /\ At(c, "key")
    /\ calls[c].pays \in Quotes
    /\ \E i \in TxIds :
         /\ IF \E j \in TxIds : Has(j, "swap", c)
            THEN Has(i, "swap", c) /\ UNCHANGED txs
            ELSE Adds(i, "swap", c)
         /\ calls' = [calls EXCEPT ![c].at = "answer", ![c].tx = i]

\* The answer of Jupiter is not looked at.
AnswerAny(c) ==
    /\ At(c, "answer")
    /\ calls' = [calls EXCEPT ![c].at = "fee"]
    /\ UNCHANGED txs

\* Jupiter answers "Success": it has landed the order; there is a fee.
AnswerSuccess(c) ==
    /\ At(c, "answer")
    /\ Is(calls[c].tx, "confirmed")
    /\ calls' = [calls EXCEPT ![c].at = "fee"]
    /\ UNCHANGED txs

GoesOn(c) ==
    \/ Submit(c)
    \/ Execute(c)
    \/ AnswerSuccess(c)

-----------------------------------------------------------------------------
(* How a call ends.                                                        *)

\* The last check takes no status for success, too.
PollSuccessUnlessFailed(c) ==
    /\ At(c, "poll")
    /\ ~Is(calls[c].tx, "failed")
    /\ UNCHANGED txs

\* pollForConfirmation returns: confirmed, or at the last check not failed.
PollSuccess(c) ==
    /\ At(c, "poll")
    /\ Is(calls[c].tx, "confirmed") \/ Is(calls[c].tx, "processed")
    /\ UNCHANGED txs

\* signAndSubmitSwap returns, without a fee if it was not known; whatever
\* becomes of the fee is swallowed.
SwapSuccess(c) ==
    \/ At(c, "answer") /\ Is(calls[c].tx, "confirmed") /\ UNCHANGED txs
    \/ At(c, "fee") /\ UNCHANGED txs
    \/ At(c, "fee") /\ \E i \in TxIds : Adds(i, "fee", c)

Succeeds(c) ==
    /\ PollSuccess(c) \/ SwapSuccess(c)
    /\ Ends(c)

\* No drive, another wallet's drive, an address or amount that cannot be
\* built, the preflight check, or an error on the chain.
Refused(c) ==
    \/ At(c, "key")
    \/ At(c, "poll") /\ Is(calls[c].tx, "failed")
    \/ At(c, "answer") /\ Is(calls[c].tx, "failed")

FailsForSure(c) ==
    /\ Refused(c)
    /\ Ends(c)
    /\ UNCHANGED txs

\* A request that fails after it had its effect, or polling that is given up.
FailsInDoubt(c) ==
    /\ \/ \E i \in TxIds : Submits(c, i)
       \/ (At(c, "poll") \/ At(c, "answer")) /\ UNCHANGED txs
    /\ Ends(c)

-----------------------------------------------------------------------------
(* The network.                                                            *)

Becomes(i, status) == txs' = [txs EXCEPT ![i].status = status]

\* A payment may be rolled back; Jupiter lands a swap or gives it up.
Network(i) ==
    /\ \/ Is(i, "sent") /\ txs[i].kind = "send"
          /\ \E s \in {"processed", "failed", "expired"} : Becomes(i, s)
       \/ Is(i, "processed") /\ \E s \in {"confirmed", "sent"} : Becomes(i, s)
       \/ Is(i, "sent") /\ txs[i].kind = "swap"
          /\ \E s \in {"confirmed", "failed"} : Becomes(i, s)
    /\ UNCHANGED calls

\* The screen that made the calls is gone; they go on.
Orphaned ==
    /\ calls' = [c \in CallIds |-> IF calls[c] = None THEN None
                                   ELSE [calls[c] EXCEPT !.seen = FALSE]]
    /\ txs' = [i \in TxIds |->
                 IF \E c \in CallIds : calls[c] # None /\ calls[c].tx = i
                 THEN [txs[i] EXCEPT !.ours = FALSE] ELSE None]

Killed ==
    /\ calls' = [c \in CallIds |-> None]
    /\ txs' = [i \in TxIds |-> None]

=============================================================================
