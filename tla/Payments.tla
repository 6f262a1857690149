------------------------------ MODULE Payments ------------------------------
(***************************************************************************)
(* Paying: the Send and the Swap screen, one open at a time, over the      *)
(* network of Transactions.  A call that is under way goes on when its     *)
(* screen is left; the app may be killed at any time.                      *)
(*                                                                         *)
(* Abstraction: the next screen is opened when the calls of the last are   *)
(* over.                                                                   *)
(***************************************************************************)
EXTENDS Send, Swap

vars == <<netVars, signVars, send, recents, swap>>

PaymentsInit ==
    /\ NetInit
    /\ SignInit
    /\ SendInit
    /\ \E p \in Picks : p.to \in SafeTokens /\ swap = NewSwap(p)

Home == route = "home" /\ \A c \in CallIds : calls[c] = None

\* A screen is mounted; the state of the other is of no account.  Bound:
\* Swap is not opened once a recipient is remembered.
OpenSend ==
    /\ Home
    /\ route' = "send"
    /\ step' = "address"
    /\ UNCHANGED <<netVars, signing, send, recents, swap>>

OpenSwap ==
    /\ Home
    /\ recents = {}
    /\ route' = "swap"
    /\ step' = "input"
    /\ UNCHANGED <<netVars, signing, send, recents, swap>>

CloseScreen ==
    /\ route' = "home"
    /\ step' = "none"
    /\ signing' = NewSigning
    /\ send' = NewSend
    /\ \E p \in Picks : p.to \in SafeTokens /\ swap' = NewSwap(p)

\* The arrows and buttons that lead home.
Leave ==
    /\ "home" \in SendOffers \cup SwapOffers
    /\ signing.swipes = <<>>
    /\ CloseScreen
    /\ Orphaned
    /\ UNCHANGED recents

Kill ==
    /\ ~Home
    /\ CloseScreen
    /\ Killed
    /\ UNCHANGED recents

SendStep == route = "send" /\ SendScreenStep /\ UNCHANGED swap

SwapStep == route = "swap" /\ SwapScreenStep /\ UNCHANGED <<send, recents>>

TimerStep == SwipeTimer /\ UNCHANGED <<send, recents, swap>>

\* One step of the call c.
CallStep(c) ==
    /\ \/ GoesOn(c) /\ UNCHANGED <<signVars, recents>>
       \/ SignSucceeds(c) /\ SaveRecent(calls[c].pays)
       \/ SignFails(c) /\ UNCHANGED recents
    /\ UNCHANGED <<send, swap>>

NetworkStep ==
    /\ \E i \in TxIds : Network(i)
    /\ UNCHANGED <<signVars, send, recents, swap>>

Next ==
    \/ OpenSend
    \/ OpenSwap
    \/ Leave
    \/ Kill
    \/ SendStep
    \/ SwapStep
    \/ TimerStep
    \/ \E c \in CallIds : CallStep(c)
    \/ NetworkStep

\* A request is answered or fails, and polling gives up after 30 seconds.
PaymentsSpec ==
    /\ PaymentsInit
    /\ [][Next]_vars
    /\ \A c \in CallIds : WF_vars(CallStep(c))

-----------------------------------------------------------------------------
(* Properties.                                                             *)

\* The types of the network and of the screens.
NetTypeOK ==
    /\ txs \in [TxIds -> Txs \cup {None}]
    /\ calls \in [CallIds -> Calls \cup {None}]

SigningTypeOK ==
    /\ route \in {"home", "send", "swap"}
    /\ step \in Steps
    /\ signing \in [swipes : Seq(Payments \cup Quotes \cup {None}),
                    isSigning : BOOLEAN, attempts : 0 .. MaxSwipes,
                    authorised : SUBSET (Payments \cup Quotes \cup {None}),
                    doubled : BOOLEAN, doubt : BOOLEAN]

ScreenTypeOK ==
    /\ send \in [to : Addresses \cup {None}, what : Sums \cup {None},
                 asking : BOOLEAN, authenticating : BOOLEAN,
                 pinCheck : {"no", "checking", "right"},
                 reviewed : Payments \cup {None}, late : BOOLEAN]
    /\ recents \subseteq ValidAddresses
    /\ swap \in [pair : Pairs, amount : Amounts \cup {None}, quote : Quotes \cup {None},
                 timer : BOOLEAN,
                 fetches : SUBSET [order : Orders, id : 1 .. MaxQuotes, latest : BOOLEAN],
                 isQuoting : BOOLEAN, asked : 0 .. MaxQuotes, suspect : BOOLEAN,
                 modal : BOOLEAN, prompting : BOOLEAN,
                 verified : BOOLEAN, report : Tokens \cup {None},
                 isScanning : BOOLEAN, scans : SUBSET Tokens]

PaymentsTypeOK == NetTypeOK /\ SigningTypeOK /\ ScreenTypeOK

\* A visit to Send or Swap pays once, however often the user tries again:
\* twice only after an attempt that ended in doubt ("check explorer, it may
\* have succeeded") or a second swipe within 300 ms.  The infrastructure fee
\* of a swap is taken once even after doubt, and only for a swap that landed.
PaidOnce ==
    /\ ~signing.doubt /\ ~signing.doubled => Cardinality(LiveOf({"send", "swap"})) <= 1
    /\ ~signing.doubled => Cardinality(LiveOf({"fee"})) <= 1
    /\ \A i \in LiveOf({"fee"}) :
          \E j \in TxIds : /\ Is(j, "confirmed") /\ txs[j].kind = "swap"
                           /\ txs[j].pays = txs[i].pays

\* What is submitted is what the sign screen showed at a swipe, and on Send
\* that is what the review showed, unless the answer of a paste, a scan or
\* the check of the PIN came after it.
SentAsShown ==
    /\ \A i \in TxIds : txs[i] # None /\ txs[i].ours /\ txs[i].kind # "fee" =>
                            txs[i].pays \in signing.authorised
    /\ route = "send" /\ step = "sign" /\ ~send.late => Shown = send.reviewed

\* "Complete" is shown only when a payment that was swiped in this visit, and
\* a recipient remembered only when a payment to it, had been taken up by the
\* network without an error at that moment.
CompleteMeansPaid ==
    [][/\ step' = "complete" /\ step # "complete" =>
             \E i \in TxIds :
                 /\ Is(i, "processed") \/ Is(i, "confirmed")
                 /\ txs[i].kind # "fee" /\ txs[i].pays \in signing.authorised
       /\ \A a \in recents' \ recents : \E i \in TxIds :
             /\ Is(i, "processed") \/ Is(i, "confirmed")
             /\ txs[i].kind = "send" /\ txs[i].pays.to = a]_vars

\* The quote that is reviewed and signed is for the pair and the amount on
\* the screen, unless Review was pressed before the quote of these inputs had
\* come, or the answer of an earlier fetch came after it.
QuoteIsOfOrder ==
    swap.quote # None /\ swap.quote.order # Order =>
        swap.suspect \/ (step = "input" /\ Unsettled)

\* The safety report on the screen is of the token received, whichever of
\* the scans answered last, but for a review that was opened while this
\* token's scan was under way: until it ends, the review shows the report of
\* the token before.  The screen goes on scanning without a scan only for a
\* token that needs none.
ReportIsOfToken ==
    /\ ReportShown \notin {None, swap.pair.to} =>
           step = "review" /\ swap.pair.to \in swap.scans
    /\ swap.isScanning /\ swap.scans = {} => swap.pair.to \in SafeTokens

\* "Broadcasting" ends.
SigningSettles == signing.isSigning ~> ~signing.isSigning

=============================================================================
