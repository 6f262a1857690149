-------------------------------- MODULE Swap --------------------------------
(***************************************************************************)
(* The Swap screen (components/transaction/Swap.tsx) with PinVerification: *)
(* a pair of tokens and an amount, a quote that is fetched half a second   *)
(* after either changes, a safety scan of the token received, review,      *)
(* fingerprint, swipe.  A fetch is never called off: its answer sets the   *)
(* quote whatever the inputs, and the step, are by then.                   *)
(*                                                                         *)
(* Abstractions: the infrastructure fee is nothing or something, as its    *)
(* price lookup answers or not; balances, and the search of tokens, are    *)
(* left out: a picked token is any; slippage is not part of the request; a *)
(* safety report is told by its token; a scan that is called off changes   *)
(* nothing any more and is left out, and so are report and scans from the  *)
(* swipe on: no later step shows them, or leads back to one that does.     *)
(***************************************************************************)
EXTENDS Signing

CONSTANTS Tokens, SafeTokens, Amounts,
          Picks,       \* bound: the pairs that are picked
          Orders,      \* bound: pairs with the amounts that are typed
          MaxQuotes    \* bound: quotes fetched in a visit

Pairs == {p \in [from : Tokens, to : Tokens] : p.from # p.to}

ASSUME SwapAssumption ==
    /\ SafeTokens \subseteq Tokens
    /\ Picks \subseteq Pairs
    /\ Orders \subseteq [pair : Pairs, amount : Amounts]
    /\ Quotes = [order : Orders, id : 1 .. MaxQuotes]
    /\ MaxQuotes \in Nat
    /\ None \notin Tokens \cup Amounts

VARIABLE swap    \* the state of the screen

\* timer: the debounce of fetchQuote; fetches: under way, latest unless a
\* later fetchQuote has begun; suspect: quote is the answer of one that is
\* not latest, or Review was pressed before the quote had settled; modal,
\* prompting, verified: PinVerification; report: the token that the safety
\* report is of; scans: those whose scan will still set it.
NewSwap(p) == [pair |-> p, amount |-> None, quote |-> None, timer |-> TRUE,
               fetches |-> {}, isQuoting |-> FALSE, asked |-> 0,
               suspect |-> FALSE, modal |-> FALSE,
               prompting |-> FALSE, verified |-> FALSE, report |-> p.to,
               isScanning |-> FALSE, scans |-> {}]

In(s) == route = "swap" /\ step = s

Order == [pair |-> swap.pair, amount |-> swap.amount]

-----------------------------------------------------------------------------
(* What the steps of the screen offer.  "pair" stands for the pickers and   *)
(* the arrows between the tokens, "amount" also for Max.                   *)

InputOffers ==
    {"home"} \cup (IF swap.asked < MaxQuotes THEN {"pair", "amount"} ELSE {})
             \cup IF swap.amount # None /\ swap.quote # None /\ ~swap.isQuoting
                  THEN {"review"} ELSE {}

SwapReviewOffers == {"back", "sign"}

SwapSignOffers == IF swap.verified /\ ~signing.isSigning THEN {"swipe"} ELSE {}

\* PinVerification covers the sign step.
ModalOffers == {"close"}

SwapOffers ==
    CASE In("input") -> InputOffers
      [] In("review") -> SwapReviewOffers
      [] In("sign") -> IF swap.modal THEN ModalOffers ELSE SwapSignOffers
      [] In("complete") -> {"home"}
      [] OTHER -> {}

\* The safety report on the screen, always under the symbol of the token
\* received: the input step hides it during a scan, the review step does not.
ReportShown ==
    IF In("review") \/ (In("input") /\ ~swap.isScanning) THEN swap.report ELSE None

Unsettled == swap.timer \/ swap.fetches # {}

OtherVars == <<signVars, netVars>>

Overtake(fs) == {[f EXCEPT !.latest = FALSE] : f \in fs}

-----------------------------------------------------------------------------
(* The input step, and what is going on behind all steps.                  *)

\* The effect without its clean-up: the scans of earlier tokens go on.
ScanNotCalledOff(s, t) ==
    CASE t = s.pair.to -> s
      [] t # s.pair.to /\ t \in SafeTokens -> [s EXCEPT !.report = t]
      [] OTHER -> [s EXCEPT !.isScanning = TRUE, !.scans = @ \cup {t}]

\* The effect that scans the token received when it changes.  The scan of
\* the token before is called off, but its report stays until the new one
\* comes; isScanning stays when the new token needs no scan.
Scan(s, t) ==
    CASE t = s.pair.to -> s
      [] t # s.pair.to /\ t \in SafeTokens -> [s EXCEPT !.report = t, !.scans = {}]
      [] OTHER -> [s EXCEPT !.isScanning = TRUE, !.scans = {t}]

\* A token picked, or handleSwapAssets: amount and quote are cleared.
PickPair(p) ==
    /\ "pair" \in SwapOffers
    /\ swap' = [Scan(swap, p.to) EXCEPT !.pair = p, !.amount = None,
                    !.quote = None, !.suspect = FALSE, !.timer = TRUE]
    /\ UNCHANGED OtherVars

\* The amount is typed, or Max; a new slippage only asks again.
TypeAmount(a) ==
    /\ a = None \/ [pair |-> swap.pair, amount |-> a] \in Orders
    /\ "amount" \in SwapOffers
    /\ swap' = [swap EXCEPT !.amount = a, !.timer = TRUE]
    /\ UNCHANGED OtherVars

\* fetchQuote, when the timer fires.
FetchQuote ==
    /\ swap.timer
    /\ swap' =
         IF swap.amount = None
         THEN [swap EXCEPT !.timer = FALSE, !.quote = None, !.suspect = FALSE,
                           !.fetches = Overtake(@)]
         ELSE [swap EXCEPT !.timer = FALSE, !.isQuoting = TRUE, !.asked = @ + 1,
                  !.fetches = Overtake(@) \cup
                      {[order |-> Order, id |-> swap.asked + 1, latest |-> TRUE]}]
    /\ UNCHANGED OtherVars

\* A fetch that fails leaves the quote that was there.
QuoteAnswerKept(f) ==
    /\ f \in swap.fetches
    /\ \E q \in {swap.quote, [order |-> f.order, id |-> f.id]} :
         swap' = [swap EXCEPT !.quote = q, !.isQuoting = FALSE,
                      !.fetches = @ \ {f},
                      !.suspect = ~f.latest \/ (swap.timer /\ ~In("input"))]
    /\ UNCHANGED OtherVars

\* getSwapQuote answers or fails.
QuoteAnswer(f) ==
    /\ f \in swap.fetches
    /\ \E q \in {None, [order |-> f.order, id |-> f.id]} :
         swap' = [swap EXCEPT !.quote = q, !.isQuoting = FALSE,
                      !.fetches = @ \ {f},
                      !.suspect = ~f.latest \/ (swap.timer /\ ~In("input"))]
    /\ UNCHANGED OtherVars

\* getTokenSafetyReport answers or fails, on whatever step.
ScanAnswer(t) ==
    /\ t \in swap.scans
    /\ \E r \in {t, None} :
         swap' = [swap EXCEPT !.report = r, !.isScanning = FALSE, !.scans = @ \ {t}]
    /\ UNCHANGED OtherVars

-----------------------------------------------------------------------------
(* Review, fingerprint, swipe.                                             *)

\* handleReview, which does not wait for the scan.
ToSwapReview ==
    /\ "review" \in SwapOffers
    /\ step' = "review"
    /\ swap' = [swap EXCEPT !.suspect = @ \/ Unsettled]
    /\ UNCHANGED <<netVars, route, signing>>

SwapReviewBack ==
    /\ "back" \in SwapOffers
    /\ step' = "input"
    /\ UNCHANGED <<netVars, route, signing, swap>>

\* handleSign opens PinVerification, which prompts at once.
ToSwapSign ==
    /\ "sign" \in SwapOffers
    /\ step' = "sign"
    /\ swap' = [swap EXCEPT !.modal = TRUE, !.prompting = TRUE]
    /\ UNCHANGED <<netVars, route, signing>>

\* handlePinVerified, with the stored passphrase; the answer also comes
\* after the modal was closed, and after an error it can be asked for again.
PromptAnswer ==
    /\ swap.prompting
    /\ swap' = [swap EXCEPT !.prompting = FALSE, !.modal = FALSE, !.verified = TRUE]
    /\ UNCHANGED OtherVars

\* onClose.
CloseModal ==
    /\ "close" \in SwapOffers
    /\ step' = "review"
    /\ swap' = [swap EXCEPT !.modal = FALSE]
    /\ UNCHANGED <<netVars, route, signing>>

WithoutReport(s) ==
    [s EXCEPT !.report = None, !.isScanning = FALSE, !.scans = {}]

SwapSwipe ==
    /\ "swipe" \in SwapOffers
    /\ Swipe(swap.quote)
    /\ swap' = WithoutReport(swap)

SwapScreenStep ==
    \/ \E p \in Picks : PickPair(p)
    \/ \E a \in Amounts \cup {None} : TypeAmount(a)
    \/ FetchQuote
    \/ \E f \in swap.fetches : QuoteAnswer(f)
    \/ \E t \in swap.scans : ScanAnswer(t)
    \/ ToSwapReview
    \/ SwapReviewBack
    \/ ToSwapSign
    \/ PromptAnswer
    \/ CloseModal
    \/ SwapSwipe

=============================================================================
