--------------------------- MODULE PaymentsProofs ---------------------------
(***************************************************************************)
(* What paying guarantees for any payments, quotes and addresses, any      *)
(* number of swipes, calls and transactions, and any order of answers.     *)
(*                                                                         *)
(* That a visit pays once rests on three things.  The screens: nothing     *)
(* that is still awaited can take Send or Swap off the sign step while a   *)
(* swipe or a call is under way (FlagsFit).  The button: unless a swipe    *)
(* came within 300 ms of another, they are under way one at a time         *)
(* (OneAtATime).  And the calls: one that fails for sure leaves nothing    *)
(* that may still be paid (OnePayment).                                    *)
(***************************************************************************)
EXTENDS Payments, TLAPS, FiniteSetTheorems

Seen(c) == calls[c] # None /\ calls[c].seen

Busy == signing.swipes # <<>> \/ \E c \in CallIds : Seen(c)

\* A call is known to the screen exactly while one is open; its transaction
\* is of its kind and its payment, and known once it was submitted.
CallsFit ==
    \A c \in CallIds : calls[c] # None =>
        /\ calls[c].seen <=> route # "home"
        /\ calls[c].tx = None <=> calls[c].at = "key"
        /\ calls[c].at = "poll" =>
              /\ calls[c].pays \in Payable
              /\ txs[calls[c].tx] # None
              /\ txs[calls[c].tx].kind = "send"
              /\ txs[calls[c].tx].pays = calls[c].pays
        /\ calls[c].at \in {"answer", "fee"} =>
              /\ calls[c].pays \in Quotes
              /\ txs[calls[c].tx] # None
              /\ txs[calls[c].tx].kind = "swap"
              /\ txs[calls[c].tx].pays = calls[c].pays
        /\ calls[c].at = "fee" => txs[calls[c].tx].status = "confirmed"

\* Nothing is ours, nothing was swiped, when no screen is open.
HomeIsBlank ==
    route = "home" =>
        /\ signing = NewSigning
        /\ \A i \in TxIds : txs[i] # None => ~txs[i].ours

StepFits ==
    /\ route = "home" => step = "none"
    /\ route = "send" => step \in {"address", "biometric", "amount", "review",
                                   "pin", "sign", "complete"}
    /\ route = "swap" => step \in {"input", "review", "sign", "complete"}

\* Answers that could still move Send are awaited before its sign step only,
\* and PinVerification covers nothing that is under way.
FlagsFit ==
    /\ route # "send" => send = NewSend
    /\ send.authenticating => step \in {"address", "biometric"}
    /\ send.pinCheck # "no" => step \in {"review", "pin"}
    /\ route # "swap" => \E p \in Pairs : p.to \in SafeTokens /\ swap = NewSwap(p)
    /\ swap.modal => step = "sign"
    /\ Busy => step \in {"sign", "complete"} /\ ~swap.modal

OrderFits ==
    swap.amount # None =>
        Order \in Orders /\ (swap.timer => swap.asked < MaxQuotes)

ShapeInv == CallsFit /\ HomeIsBlank /\ StepFits /\ FlagsFit /\ OrderFits

OursOf(kinds) == {i \in TxIds : txs[i] # None /\ txs[i].ours /\ txs[i].kind \in kinds}

\* Unless a swipe came within 300 ms of another, one swipe or one call is
\* under way at a time, on the sign step; a fee comes last.
OneAtATime ==
    ~signing.doubled =>
        /\ signing.swipes # <<>> =>
              /\ Tail(signing.swipes) = <<>>
              /\ step = "sign"
              /\ ~signing.isSigning
              /\ \A c \in CallIds : ~Seen(c)
        /\ \A c \in CallIds : Seen(c) => step = "sign" /\ signing.isSigning
        /\ \A c, d \in CallIds : Seen(c) /\ Seen(d) => c = d
        /\ OursOf({"fee"}) # {} => step = "complete"
        /\ \A i, j \in OursOf({"fee"}) : i = j

\* Unless an attempt ended in doubt, what may be paid is what the call under
\* way has sent, or what the screen has completed.
OnePayment ==
    ~signing.doubled /\ ~signing.doubt =>
        /\ \A i \in LiveOf({"send", "swap"}) :
              step = "complete" \/ \E c \in CallIds : Seen(c) /\ calls[c].tx = i
        /\ \A i, j \in LiveOf({"send", "swap"}) : i = j

FeesArePaidFor ==
    \A i \in OursOf({"fee"}) :
        \E j \in TxIds : /\ Is(j, "confirmed") /\ txs[j].kind = "swap"
                         /\ txs[j].pays = txs[i].pays

OnceInv == OneAtATime /\ OnePayment /\ FeesArePaidFor

\* What waits, is under way or was sent was on the sign step at a swipe.
Authorised ==
    /\ \A k \in 1 .. Len(signing.swipes) : signing.swipes[k] \in signing.authorised
    /\ \A c \in CallIds : Seen(c) => calls[c].pays \in signing.authorised
    /\ \A i \in OursOf({"send", "swap"}) : txs[i].pays \in signing.authorised

\* From the PIN on, what Send shows is what the review showed.
AsReviewed ==
    route = "send" /\ step \in {"pin", "sign"} /\ ~send.late => Shown = send.reviewed

ShownInv == Authorised /\ AsReviewed

\* The fetch that was begun last, unless a timer runs, is of these inputs.
QuoteInv ==
    /\ QuoteIsOfOrder
    /\ \A f \in swap.fetches : f.latest /\ ~swap.timer => f.order = Order

\* Only the scan of the token received can still set the report.
ReportInv ==
    /\ swap.scans \subseteq {swap.pair.to}
    /\ swap.scans # {} => swap.isScanning
    /\ swap.report \notin {None, swap.pair.to} => swap.pair.to \in swap.scans
    /\ swap.isScanning /\ swap.scans = {} => swap.pair.to \in SafeTokens

-----------------------------------------------------------------------------
(* What the screens offer, and what a step can be.                         *)

\* On which step an offer is made.
LEMMA SendOffersFacts ==
    ASSUME StepFits
    PROVE  /\ SendOffers # {} => route = "send"
           /\ "home" \in SendOffers => step \in {"address", "complete"}
           /\ "paste" \in SendOffers => step \in {"address", "amount"}
           /\ "clear" \in SendOffers \/ "recent" \in SendOffers
                 \/ "continue" \in SendOffers => step = "address"
           /\ "prompt" \in SendOffers => step = "biometric"
           /\ "amount" \in SendOffers \/ "review" \in SendOffers => step = "amount"
           /\ "sign" \in SendOffers => step = "review"
           /\ "digits" \in SendOffers => step = "pin"
           /\ "back" \in SendOffers =>
                 \/ step \in {"biometric", "amount", "pin"}
                 \/ step = "review" /\ send.pinCheck = "no"
           /\ "swipe" \in SendOffers => step = "sign" /\ ~signing.isSigning
<1>1. CASE route # "send"
  BY <1>1 DEF SendOffers
<1>2. CASE route = "send"
  <2>1. step \in {"address", "biometric", "amount", "review", "pin", "sign", "complete"}
    BY <1>2 DEF StepFits
  <2> QED
    BY <1>2, <2>1 DEF SendOffers, AddressOffers, BiometricOffers, AmountOffers,
       ReviewOffers, PinOffers, SendSignOffers, CompleteOffers
<1> QED
  BY <1>1, <1>2

LEMMA SwapOffersFacts ==
    ASSUME StepFits
    PROVE  /\ SwapOffers # {} => route = "swap"
           /\ "home" \in SwapOffers => step \in {"input", "complete"}
           /\ "pair" \in SwapOffers \/ "amount" \in SwapOffers =>
                 step = "input" /\ swap.asked < MaxQuotes
           /\ "review" \in SwapOffers => step = "input" /\ ~swap.isQuoting
           /\ "back" \in SwapOffers \/ "sign" \in SwapOffers => step = "review"
           /\ "close" \in SwapOffers => step = "sign" /\ swap.modal
           /\ "swipe" \in SwapOffers =>
                 step = "sign" /\ ~swap.modal /\ ~signing.isSigning
<1>1. CASE route # "swap"
  BY <1>1 DEF SwapOffers, In
<1>2. CASE route = "swap"
  <2>1. step \in {"input", "review", "sign", "complete"}
    BY <1>2 DEF StepFits
  <2> QED
    BY <1>2, <2>1 DEF SwapOffers, In, InputOffers, SwapReviewOffers,
       SwapSignOffers, ModalOffers
<1> QED
  BY <1>1, <1>2

Sends == [to : Addresses \cup {None}, what : Sums \cup {None},
          asking : BOOLEAN, authenticating : BOOLEAN,
          pinCheck : {"no", "checking", "right"},
          reviewed : Payments \cup {None}, late : BOOLEAN]

Fetches == [order : Orders, id : 1 .. MaxQuotes, latest : BOOLEAN]

Swaps == [pair : Pairs, amount : Amounts \cup {None}, quote : Quotes \cup {None},
          timer : BOOLEAN, fetches : SUBSET Fetches,
          isQuoting : BOOLEAN, asked : 0 .. MaxQuotes, suspect : BOOLEAN,
          modal : BOOLEAN, prompting : BOOLEAN,
          verified : BOOLEAN, report : Tokens \cup {None},
          isScanning : BOOLEAN, scans : SUBSET Tokens]

\* A screen's step that starts nothing: it changes what the screen shows, and
\* leaves the sign step only when nothing is under way.
Quiet ==
    /\ UNCHANGED <<txs, calls, signing, route, recents>>
    /\ \/ step' = step
       \/ step # "complete" /\ step' # "complete" /\ ~Busy

\* The part of FlagsFit that is about the Send screen.
SendFits ==
    /\ send.authenticating => step \in {"address", "biometric"}
    /\ send.pinCheck # "no" => step \in {"review", "pin"}

LEMMA SendStepEffect ==
    ASSUME PaymentsTypeOK, ShapeInv, SendStep
    PROVE  /\ route = "send" /\ UNCHANGED swap
           /\ send' \in Sends
           /\ SendFits'
           /\ (Quiet /\ StepFits') \/ SendSwipe
<1> USE DEF SendStep
<1>1. send \in Sends
  BY DEF PaymentsTypeOK, ScreenTypeOK, Sends
<1>2. step \in {"address", "biometric", "amount", "review", "pin", "sign", "complete"}
  BY DEF ShapeInv, StepFits
<1>3. SendFits
  BY DEF ShapeInv, FlagsFit, SendFits
<1>4. Busy => step \in {"sign", "complete"}
  BY DEF ShapeInv, FlagsFit
<1>5. Shown \in Payments
  BY <1>1, SendAssumption DEF Shown, Sends
<1> DEFINE
      Goal == send' \in Sends /\ SendFits' /\ Quiet /\ StepFits'
<1>6. CASE Ask
  BY <1>1, <1>2, <1>3, <1>6 DEF Ask, Stays, signVars, netVars, Sends, SendFits, Quiet, StepFits
<1>7. CASE Unanswered
  BY <1>1, <1>2, <1>3, <1>7
     DEF Unanswered, Stays, signVars, netVars, Sends, SendFits, Quiet, StepFits
<1>8. ASSUME NEW a \in Addresses, Answered(a) PROVE Goal
  BY <1>1, <1>2, <1>3, <1>8 DEF Answered, Stays, signVars, netVars, Sends, SendFits, Quiet, StepFits
<1>9. ASSUME NEW a \in Addresses \cup {None}, ClearOrPick(a) PROVE Goal
  BY <1>1, <1>2, <1>3, <1>9
     DEF ClearOrPick, Stays, signVars, netVars, Sends, SendFits, Quiet, StepFits
<1>10. CASE ToBiometric
  BY <1>1, <1>2, <1>3, <1>4, <1>10, SendOffersFacts
     DEF ToBiometric, Goes, Same, netVars, Sends, SendFits, Quiet, StepFits, ShapeInv
<1>11. CASE BiometricRetry
  BY <1>1, <1>2, <1>3, <1>11, SendOffersFacts
     DEF BiometricRetry, Stays, signVars, netVars, Sends, SendFits, Quiet, StepFits, ShapeInv
<1>12. CASE BiometricPassed
  BY <1>1, <1>2, <1>3, <1>4, <1>12
     DEF BiometricPassed, Goes, Same, netVars, Sends, SendFits, Quiet, StepFits
<1>13. CASE BiometricRefused
  BY <1>1, <1>2, <1>3, <1>13
     DEF BiometricRefused, Stays, signVars, netVars, Sends, SendFits, Quiet, StepFits
<1>14. ASSUME NEW w \in Sums \cup {None}, SetAmount(w) PROVE Goal
  BY <1>1, <1>2, <1>3, <1>14
     DEF SetAmount, Stays, signVars, netVars, Sends, SendFits, Quiet, StepFits
<1>15. CASE ToReview
  BY <1>1, <1>2, <1>3, <1>4, <1>15, SendOffersFacts
     DEF ToReview, Goes, Same, netVars, Sends, SendFits, Quiet, StepFits, ShapeInv
<1>16. CASE ToPin
  BY <1>1, <1>2, <1>3, <1>4, <1>5, <1>16, SendOffersFacts
     DEF ToPin, Goes, Same, netVars, Sends, SendFits, Quiet, StepFits, ShapeInv
<1>17. CASE Back
  <2>1. /\ step = "review" => send.pinCheck = "no"
        /\ step \in {"biometric", "amount", "review", "pin"}
    BY <1>17, SendOffersFacts DEF Back, ShapeInv
  <2>2. /\ step \in {"biometric", "amount"} => step' = "address"
        /\ step = "review" => step' = "amount"
        /\ step = "pin" => step' = "review"
        /\ route' = route
    BY <1>17, <2>1 DEF Back, Goes
  <2> QED
    BY <1>1, <1>3, <1>4, <1>17, <2>1, <2>2
       DEF Back, Same, netVars, Sends, SendFits, Quiet, StepFits
<1>18. CASE TypePin
  BY <1>1, <1>2, <1>3, <1>18, SendOffersFacts
     DEF TypePin, Stays, signVars, netVars, Sends, SendFits, Quiet, StepFits, ShapeInv
<1>19. CASE PinAnswer
  BY <1>1, <1>2, <1>3, <1>19
     DEF PinAnswer, Stays, signVars, netVars, Sends, SendFits, Quiet, StepFits
<1>20. CASE PinTimer
  BY <1>1, <1>2, <1>3, <1>4, <1>20
     DEF PinTimer, Goes, Same, netVars, Sends, SendFits, Quiet, StepFits
<1>21. CASE SendSwipe
  BY <1>1, <1>3, <1>21 DEF SendSwipe, Swipe, SendFits
<1> QED
  BY <1>6, <1>7, <1>8, <1>9, <1>10, <1>11, <1>12, <1>13, <1>14, <1>15, <1>16,
     <1>17, <1>18, <1>19, <1>20, <1>21 DEF SendScreenStep

\* A scan changes what the screen reports and nothing else.
LEMMA ScanTyped ==
    ASSUME swap \in Swaps, NEW t \in Tokens
    PROVE  /\ Scan(swap, t) \in Swaps
           /\ \A x \in {"modal", "asked", "fetches", "quote", "timer"} :
                 Scan(swap, t)[x] = swap[x]
BY DEF Scan, Swaps

\* Overtaken fetches are fetches, and none of them is the latest.
LEMMA OvertakeTyped ==
    ASSUME NEW fs \in SUBSET Fetches
    PROVE  Overtake(fs) \in SUBSET Fetches /\ \A f \in Overtake(fs) : ~f.latest
<1> SUFFICES ASSUME NEW g \in Overtake(fs)
             PROVE  g \in Fetches /\ ~g.latest
  OBVIOUS
<1>1. PICK f \in fs : g = [f EXCEPT !.latest = FALSE]
  BY DEF Overtake
<1>2. f \in Fetches
  OBVIOUS
<1> QED
  BY <1>1, <1>2 DEF Fetches

LEMMA SwapStepEffect ==
    ASSUME PaymentsTypeOK, ShapeInv, SwapStep
    PROVE  /\ route = "swap" /\ UNCHANGED send
           /\ swap' \in Swaps
           /\ OrderFits'
           /\ swap'.modal => step' = "sign"
           /\ Busy => ~swap'.modal
           /\ \/ Quiet /\ StepFits'
              \/ SwapSwipe /\ UNCHANGED recents /\ ~swap.modal /\ ~swap'.modal
<1> USE DEF SwapStep
<1>1. swap \in Swaps /\ None \notin Amounts \cup Tokens /\ MaxQuotes \in Nat
  BY SwapAssumption DEF PaymentsTypeOK, ScreenTypeOK, Swaps, Fetches
<1>2. step \in {"input", "review", "sign", "complete"}
  BY DEF ShapeInv, StepFits
<1>3. /\ swap.modal => step = "sign"
      /\ Busy => step \in {"sign", "complete"} /\ ~swap.modal
      /\ OrderFits
  BY DEF ShapeInv, FlagsFit
<1> DEFINE
      Goal == /\ swap' \in Swaps /\ OrderFits'
              /\ swap'.modal => step' = "sign"
              /\ Busy => ~swap'.modal
              /\ Quiet /\ StepFits'
<1>4. ASSUME NEW p \in Picks, PickPair(p) PROVE Goal
  <2>1. /\ swap' = [Scan(swap, p.to) EXCEPT !.pair = p, !.amount = None,
                      !.quote = None, !.suspect = FALSE, !.timer = TRUE]
        /\ UNCHANGED <<signVars, netVars>>
    BY <1>4 DEF PickPair, OtherVars
  <2>2. /\ p \in Pairs
        /\ Scan(swap, p.to) \in Swaps /\ Scan(swap, p.to).modal = swap.modal
    <3>1. p \in Pairs /\ p.to \in Tokens
      BY SwapAssumption DEF Pairs
    <3> QED
      BY <1>1, <3>1, ScanTyped
  <2>3. swap' \in Swaps /\ swap'.modal = swap.modal /\ swap'.amount = None
    BY <2>1, <2>2 DEF Swaps
  <2> QED
    BY <1>2, <1>3, <2>1, <2>3 DEF signVars, netVars, Quiet, StepFits, OrderFits
<1>5. ASSUME NEW a \in Amounts \cup {None}, TypeAmount(a) PROVE Goal
  BY <1>1, <1>2, <1>3, <1>5, SwapOffersFacts
     DEF TypeAmount, OtherVars, signVars, netVars, Swaps, OrderFits, Order,
         Quiet, StepFits, ShapeInv
<1>6. CASE FetchQuote
  <2>1. Overtake(swap.fetches) \subseteq Fetches
    BY <1>1, OvertakeTyped DEF Swaps
  <2>2. CASE swap.amount = None
    BY <1>1, <1>2, <1>3, <1>6, <2>1, <2>2, ZenonT(60)
       DEF FetchQuote, OtherVars, signVars, netVars, Swaps, OrderFits, Order, Quiet, StepFits
  <2>3. CASE swap.amount # None
    <3>1. Order \in Orders /\ swap.asked + 1 \in 1 .. MaxQuotes
      BY <1>1, <1>3, <1>6, <2>3 DEF OrderFits, FetchQuote, Swaps
    <3>2. swap' = [swap EXCEPT !.timer = FALSE, !.isQuoting = TRUE, !.asked = @ + 1,
                     !.fetches = Overtake(@) \cup
                        {[order |-> Order, id |-> swap.asked + 1, latest |-> TRUE]}]
      BY <1>6, <2>3 DEF FetchQuote
    <3>3. [order |-> Order, id |-> swap.asked + 1, latest |-> TRUE] \in Fetches
      BY <3>1 DEF Fetches
    <3>4. swap' \in Swaps
      <4> DEFINE fs == Overtake(swap.fetches) \cup
                   {[order |-> Order, id |-> swap.asked + 1, latest |-> TRUE]}
      <4>1. fs \in SUBSET Fetches
        BY <2>1, <3>3
      <4>2. swap' = [swap EXCEPT !.timer = FALSE, !.isQuoting = TRUE,
                                 !.asked = @ + 1, !.fetches = fs]
        BY <1>1, <3>2 DEF Swaps
      <4>3. swap.asked + 1 \in 0 .. MaxQuotes
        BY <1>1, <3>1 DEF Swaps
      <4> HIDE DEF fs
      <4> QED
        BY <1>1, <4>1, <4>2, <4>3 DEF Swaps
    <3>5. /\ swap'.pair = swap.pair /\ swap'.amount = swap.amount
          /\ swap'.modal = swap.modal /\ ~swap'.timer
      BY <1>1, <3>2 DEF Swaps
    <3> QED
      BY <1>2, <1>3, <1>6, <3>1, <3>4, <3>5
         DEF FetchQuote, OtherVars, signVars, netVars, OrderFits, Order, Quiet, StepFits
  <2> QED
    BY <2>2, <2>3
<1>7. ASSUME NEW f \in swap.fetches, QuoteAnswer(f) PROVE Goal
  <2>1. PICK q \in {None, [order |-> f.order, id |-> f.id]} :
          swap' = [swap EXCEPT !.quote = q, !.isQuoting = FALSE,
                      !.fetches = @ \ {f},
                      !.suspect = ~f.latest \/ (swap.timer /\ ~In("input"))]
    BY <1>7 DEF QuoteAnswer
  <2>2. q \in Quotes \cup {None}
    BY <1>1, SwapAssumption DEF Swaps, Fetches
  <2>3. (~f.latest \/ (swap.timer /\ ~In("input"))) \in BOOLEAN
    OBVIOUS
  <2>4. swap' \in Swaps
    BY <1>1, <2>1, <2>2, <2>3, ZenonT(60) DEF Swaps
  <2>5. \A x \in {"pair", "amount", "modal", "timer", "asked"} : swap'[x] = swap[x]
    BY <1>1, <2>1 DEF Swaps
  <2> QED
    BY <1>2, <1>3, <1>7, <2>4, <2>5
       DEF QuoteAnswer, OtherVars, signVars, netVars, OrderFits, Order, Quiet, StepFits
<1>8. ASSUME NEW t \in swap.scans, ScanAnswer(t) PROVE Goal
  <2>1. PICK r \in {t, None} :
          swap' = [swap EXCEPT !.report = r, !.isScanning = FALSE, !.scans = @ \ {t}]
    BY <1>8 DEF ScanAnswer
  <2>2. swap.scans \ {t} \in SUBSET Tokens /\ r \in Tokens \cup {None}
    BY <1>1 DEF Swaps
  <2>3. /\ swap' \in Swaps
        /\ \A x \in {"pair", "amount", "modal"} : swap'[x] = swap[x]
    BY <1>1, <2>1, <2>2 DEF Swaps
  <2> QED
    BY <1>2, <1>3, <1>8, <2>3
       DEF ScanAnswer, OtherVars, signVars, netVars, OrderFits, Order, Quiet, StepFits
<1>9. CASE ToSwapReview
  <2>1. (swap.suspect \/ Unsettled) \in BOOLEAN
    BY <1>1 DEF Swaps, Unsettled
  <2> QED
    BY <1>1, <1>2, <1>3, <1>9, <2>1, SwapOffersFacts
       DEF ToSwapReview, netVars, Swaps, OrderFits, Order, Quiet, StepFits, ShapeInv
<1>10. CASE SwapReviewBack
  BY <1>1, <1>2, <1>3, <1>10, SwapOffersFacts
     DEF SwapReviewBack, netVars, OrderFits, Order, Quiet, StepFits, ShapeInv
<1>11. CASE ToSwapSign
  BY <1>1, <1>2, <1>3, <1>11, SwapOffersFacts
     DEF ToSwapSign, netVars, Swaps, OrderFits, Order, Quiet, StepFits, ShapeInv
<1>12. CASE PromptAnswer
  BY <1>1, <1>2, <1>3, <1>12
     DEF PromptAnswer, OtherVars, signVars, netVars, Swaps, OrderFits, Order, Quiet, StepFits
<1>13. CASE CloseModal
  BY <1>1, <1>2, <1>3, <1>13, SwapOffersFacts
     DEF CloseModal, netVars, Swaps, OrderFits, Order, Quiet, StepFits, ShapeInv
<1>14. CASE SwapSwipe
  BY <1>1, <1>3, <1>14, SwapOffersFacts
     DEF SwapSwipe, Swipe, WithoutReport, Swaps, OrderFits, Order, ShapeInv
<1> QED
  BY <1>4, <1>5, <1>6, <1>7, <1>8, <1>9, <1>10, <1>11, <1>12, <1>13, <1>14
     DEF SwapScreenStep

-----------------------------------------------------------------------------
(* Calls and the network.                                                  *)

\* The network has the transaction of the call c as i, and no other new one.
Sent(c, i, kind) ==
    /\ txs' \in [TxIds -> Txs \cup {None}]
    /\ txs'[i] # None
    /\ txs'[i].kind = kind
    /\ txs'[i].pays = calls[c].pays
    /\ txs'[i].ours = calls[c].seen
    /\ \A j \in TxIds : txs[j] # None => txs'[j] = txs[j]
    /\ \A j \in TxIds : txs[j] = None /\ txs'[j] # None => j = i

LEMMA AddsEffect ==
    ASSUME NetTypeOK, NEW c \in CallIds, calls[c] # None,
           NEW kind \in {"send", "swap", "fee"}, NEW i, Adds(i, kind, c)
    PROVE  /\ i \in TxIds /\ txs[i] = None
           /\ txs'[i].status = "sent"
           /\ Sent(c, i, kind)
<1> DEFINE new == [kind |-> kind, pays |-> calls[c].pays,
                   status |-> "sent", ours |-> calls[c].seen]
<1>1. new \in Txs
  BY DEF NetTypeOK, Txs, Calls, Statuses
<1>2. i \in TxIds /\ txs[i] = None /\ txs' = [txs EXCEPT ![i] = new]
  BY DEF Adds, First, TxIds
<1>3. new # None
  BY <1>1, TransactionsAssumption
<1>4. /\ new.kind = kind /\ new.pays = calls[c].pays
      /\ new.status = "sent" /\ new.ours = calls[c].seen
  OBVIOUS
<1> HIDE DEF new
<1>5. txs' \in [TxIds -> Txs \cup {None}] /\ txs'[i] = new
  BY <1>1, <1>2 DEF NetTypeOK
<1>6. \A j \in TxIds : j # i => txs'[j] = txs[j]
  BY <1>2 DEF NetTypeOK
<1> QED
  BY <1>2, <1>3, <1>4, <1>5, <1>6 DEF Sent

\* The call c goes on to another place, with its transaction.
MovesTo(c, place, i) ==
    /\ calls' \in [CallIds -> Calls \cup {None}]
    /\ calls'[c] # None
    /\ calls'[c].pays = calls[c].pays /\ calls'[c].seen = calls[c].seen
    /\ calls'[c].at = place /\ calls'[c].tx = i
    /\ \A d \in CallIds \ {c} : calls'[d] = calls[d]

LEMMA MovedIs ==
    ASSUME NetTypeOK, NEW c \in CallIds, calls[c] # None,
           NEW place \in Places, NEW i \in TxIds,
           calls' = [calls EXCEPT ![c].at = place, ![c].tx = i]
    PROVE  MovesTo(c, place, i)
<1> DEFINE f == [calls EXCEPT ![c].at = place]
           g == [f EXCEPT ![c].tx = i]
<1>1. calls \in [CallIds -> Calls \cup {None}] /\ calls[c] \in Calls
  BY DEF NetTypeOK
<1>2. /\ f \in [CallIds -> Calls \cup {None}] /\ f[c] \in Calls
      /\ f[c].pays = calls[c].pays /\ f[c].seen = calls[c].seen /\ f[c].at = place
      /\ \A d \in CallIds \ {c} : f[d] = calls[d]
  BY <1>1 DEF Calls
<1> HIDE DEF f
<1>3. /\ g \in [CallIds -> Calls \cup {None}] /\ g[c] \in Calls
      /\ g[c].pays = f[c].pays /\ g[c].seen = f[c].seen /\ g[c].at = f[c].at /\ g[c].tx = i
      /\ \A d \in CallIds \ {c} : g[d] = f[d]
  BY <1>2 DEF Calls
<1>4. calls' = g
  BY DEF f
<1> HIDE DEF g
<1> QED
  BY <1>2, <1>3, <1>4, TransactionsAssumption DEF MovesTo

\* Submitting makes or finds the transaction of the call.
LEMMA SubmitsEffect ==
    ASSUME NetTypeOK, NEW c \in CallIds, NEW i \in TxIds, Submits(c, i)
    PROVE  /\ calls[c] # None /\ calls[c].at = "key" /\ calls[c].pays \in Payable
           /\ Sent(c, i, "send")
           /\ txs[i] # None => Is(i, "sent")
<1>1. calls[c] # None
  BY DEF Submits, At
<1>2. CASE Adds(i, "send", c)
  BY <1>1, <1>2, AddsEffect DEF Submits, At
<1>3. CASE Has(i, "send", c) /\ Is(i, "sent") /\ UNCHANGED txs
  BY <1>3 DEF Submits, At, Has, NetTypeOK, Sent
<1> QED
  BY <1>2, <1>3 DEF Submits

\* So does the signed order of a swap.
LEMMA ExecuteEffect ==
    ASSUME NetTypeOK, NEW c \in CallIds, Execute(c)
    PROVE  /\ calls[c] # None /\ calls[c].at = "key" /\ calls[c].pays \in Quotes
           /\ \E i \in TxIds : Sent(c, i, "swap") /\ MovesTo(c, "answer", i)
<1>1. calls[c] # None /\ calls[c].at = "key" /\ calls[c].pays \in Quotes
  BY DEF Execute, At
<1>2. PICK i \in TxIds :
        /\ Adds(i, "swap", c) \/ (Has(i, "swap", c) /\ UNCHANGED txs)
        /\ calls' = [calls EXCEPT ![c].at = "answer", ![c].tx = i]
  BY DEF Execute
<1>3. MovesTo(c, "answer", i)
  BY <1>1, <1>2, MovedIs DEF Places
<1>4. Sent(c, i, "swap")
  <2>1. CASE Adds(i, "swap", c)
    BY <1>1, <2>1, AddsEffect
  <2>2. CASE Has(i, "swap", c) /\ UNCHANGED txs
    BY <1>1, <2>2 DEF Has, NetTypeOK, Sent
  <2> QED
    BY <1>2, <2>1, <2>2
<1> QED
  BY <1>1, <1>3, <1>4

\* The answer to a swap moves its call on.
LEMMA AnswerEffect ==
    ASSUME NetTypeOK, NEW c \in CallIds, AnswerSuccess(c)
    PROVE  /\ calls[c] # None /\ calls[c].at = "answer"
           /\ Is(calls[c].tx, "confirmed")
           /\ MovesTo(c, "fee", calls[c].tx) /\ UNCHANGED txs
<1>1. calls \in [CallIds -> Calls \cup {None}] /\ calls[c] \in Calls
  BY DEF NetTypeOK, AnswerSuccess, At
<1>2. /\ calls' \in [CallIds -> Calls \cup {None}] /\ calls'[c] \in Calls
      /\ calls'[c].pays = calls[c].pays /\ calls'[c].seen = calls[c].seen
      /\ calls'[c].at = "fee" /\ calls'[c].tx = calls[c].tx
      /\ \A d \in CallIds \ {c} : calls'[d] = calls[d]
  BY <1>1 DEF AnswerSuccess, Calls, Places
<1> QED
  BY <1>2, TransactionsAssumption DEF AnswerSuccess, At, MovesTo

LEMMA EndsEffect ==
    ASSUME NetTypeOK, NEW c \in CallIds, Ends(c)
    PROVE  /\ calls' \in [CallIds -> Calls \cup {None}]
           /\ calls'[c] = None
           /\ \A d \in CallIds \ {c} : calls'[d] = calls[d]
BY DEF Ends, NetTypeOK

\* What the network has stays: some may be added, none is changed.
Grows ==
    /\ txs' \in [TxIds -> Txs \cup {None}]
    /\ \A j \in TxIds : txs[j] # None => txs'[j] = txs[j]

\* What may be added is a transaction of the call c.
AddsOnlyFor(c) ==
    \A i \in TxIds : txs[i] = None /\ txs'[i] # None =>
        txs'[i].ours = calls[c].seen /\ txs'[i].pays = calls[c].pays

\* How a call ends: what it leaves on the network, and what it says of it.
LEMMA CallEnds ==
    ASSUME PaymentsTypeOK, ShapeInv, NEW c \in CallIds,
           SignSucceeds(c) \/ SignFails(c)
    PROVE  /\ calls[c] # None /\ Ends(c) /\ Grows /\ AddsOnlyFor(c) /\ UNCHANGED route
           /\ SignSucceeds(c) =>
                 /\ Is(calls[c].tx, "processed") \/ Is(calls[c].tx, "confirmed")
                 /\ \/ UNCHANGED txs
                    \/ /\ calls[c].at = "fee"
                       /\ \E i \in TxIds : txs[i] = None /\ Sent(c, i, "fee")
           /\ SignFails(c) =>
                 \/ UNCHANGED txs
                 \/ \E i \in TxIds : Sent(c, i, "send")
<1>1. NetTypeOK /\ CallsFit
  BY DEF PaymentsTypeOK, ShapeInv
<1>2. calls[c] # None /\ Ends(c) /\ UNCHANGED route
  BY DEF SignSucceeds, Succeeds, PollSuccess, SwapSuccess, SignFails,
         FailsForSure, Refused, FailsInDoubt, Submits, At
<1>3. UNCHANGED txs => Grows /\ AddsOnlyFor(c)
  BY <1>1 DEF NetTypeOK, Grows, AddsOnlyFor
<1>4. ASSUME NEW i \in TxIds, \E kind \in {"send", "swap", "fee"} : Sent(c, i, kind)
      PROVE  Grows /\ AddsOnlyFor(c)
  BY <1>4 DEF Sent, Grows, AddsOnlyFor
<1>5. ASSUME SignSucceeds(c)
      PROVE  /\ Is(calls[c].tx, "processed") \/ Is(calls[c].tx, "confirmed")
             /\ \/ UNCHANGED txs
                \/ /\ calls[c].at = "fee"
                   /\ \E i \in TxIds : txs[i] = None /\ Sent(c, i, "fee")
  <2>1. Is(calls[c].tx, "processed") \/ Is(calls[c].tx, "confirmed")
    BY <1>1, <1>2, <1>5
       DEF SignSucceeds, Succeeds, PollSuccess, SwapSuccess, At, CallsFit, Is
  <2>2. UNCHANGED txs \/ (calls[c].at = "fee" /\ \E i \in TxIds : Adds(i, "fee", c))
    BY <1>5 DEF SignSucceeds, Succeeds, PollSuccess, SwapSuccess, At
  <2> QED
    BY <1>1, <1>2, <2>1, <2>2, AddsEffect
<1>6. ASSUME SignFails(c)
      PROVE  UNCHANGED txs \/ \E i \in TxIds : Sent(c, i, "send")
  BY <1>1, <1>6, SubmitsEffect DEF SignFails, FailsForSure, FailsInDoubt
<1> QED
  BY <1>2, <1>3, <1>4, <1>5, <1>6

\* The call ends, or it goes on with its transaction.
LEMMA CallGoesOn ==
    ASSUME NetTypeOK, NEW c \in CallIds, GoesOn(c)
    PROVE  /\ calls[c] # None
           /\ \/ /\ calls[c].at = "key"
                 /\ \E i \in TxIds :
                      \/ /\ Submits(c, i) /\ Sent(c, i, "send") /\ MovesTo(c, "poll", i)
                         /\ calls[c].pays \in Payable
                      \/ /\ Sent(c, i, "swap") /\ MovesTo(c, "answer", i)
                         /\ calls[c].pays \in Quotes
              \/ /\ calls[c].at = "answer"
                 /\ Is(calls[c].tx, "confirmed")
                 /\ MovesTo(c, "fee", calls[c].tx)
                 /\ UNCHANGED txs
<1>1. CASE Submit(c)
  <2>1. PICK i \in TxIds :
          Submits(c, i) /\ calls' = [calls EXCEPT ![c].at = "poll", ![c].tx = i]
    BY <1>1 DEF Submit
  <2>2. /\ calls[c] # None /\ calls[c].at = "key" /\ calls[c].pays \in Payable
        /\ Sent(c, i, "send")
    BY <2>1, SubmitsEffect
  <2>3. MovesTo(c, "poll", i)
    BY <2>1, <2>2, MovedIs DEF Places
  <2> QED
    BY <2>1, <2>2, <2>3
<1>2. CASE Execute(c)
  BY <1>2, ExecuteEffect
<1>3. CASE AnswerSuccess(c)
  BY <1>3, AnswerEffect
<1> QED
  BY <1>1, <1>2, <1>3 DEF GoesOn

LEMMA CallStepNet ==
    ASSUME PaymentsTypeOK, ShapeInv, NEW c \in CallIds, CallStep(c)
    PROVE  /\ NetTypeOK' /\ CallsFit' /\ Grows /\ AddsOnlyFor(c)
           /\ UNCHANGED <<route, send, swap>>
           /\ calls[c] # None
<1>1. NetTypeOK /\ CallsFit
  BY DEF PaymentsTypeOK, ShapeInv
<1>2. UNCHANGED <<send, swap>>
  BY DEF CallStep
<1>3. CASE GoesOn(c) /\ UNCHANGED signVars
  <2>1. calls[c] # None /\ UNCHANGED route
    BY <1>1, <1>3, CallGoesOn DEF signVars
  <2>2. ASSUME NEW i \in TxIds, Sent(c, i, "send"), MovesTo(c, "poll", i),
               calls[c].pays \in Payable
        PROVE  NetTypeOK' /\ CallsFit' /\ Grows /\ AddsOnlyFor(c)
    BY <1>1, <2>1, <2>2, TransactionsAssumption
       DEF CallsFit, MovesTo, Sent, NetTypeOK, Grows, AddsOnlyFor, Calls
  <2>3. ASSUME NEW i \in TxIds, Sent(c, i, "swap"), MovesTo(c, "answer", i),
               calls[c].pays \in Quotes
        PROVE  NetTypeOK' /\ CallsFit' /\ Grows /\ AddsOnlyFor(c)
    BY <1>1, <2>1, <2>3, TransactionsAssumption
       DEF CallsFit, MovesTo, Sent, NetTypeOK, Grows, AddsOnlyFor, Calls
  <2>4. ASSUME calls[c].at = "answer", Is(calls[c].tx, "confirmed"),
               MovesTo(c, "fee", calls[c].tx), UNCHANGED txs
        PROVE  NetTypeOK' /\ CallsFit' /\ Grows /\ AddsOnlyFor(c)
    BY <1>1, <2>1, <2>4
       DEF CallsFit, MovesTo, NetTypeOK, Grows, AddsOnlyFor, Is
  <2> QED
    BY <1>1, <1>2, <1>3, <2>1, <2>2, <2>3, <2>4, CallGoesOn
<1>4. CASE SignSucceeds(c) \/ SignFails(c)
  <2>1. /\ calls[c] # None /\ Ends(c) /\ Grows /\ AddsOnlyFor(c) /\ UNCHANGED route
    BY <1>4, CallEnds
  <2>2. /\ calls' \in [CallIds -> Calls \cup {None}]
        /\ \A d \in CallIds : calls'[d] # None => calls'[d] = calls[d]
    BY <1>1, <2>1, EndsEffect
  <2>3. NetTypeOK'
    BY <2>1, <2>2 DEF Grows, NetTypeOK
  <2>4. CallsFit'
    BY <1>1, <2>1, <2>2 DEF CallsFit, Grows, NetTypeOK, Calls
  <2> QED
    BY <1>2, <2>1, <2>3, <2>4
<1> QED
  BY <1>3, <1>4 DEF CallStep, signVars

-----------------------------------------------------------------------------
(* Types and shape.                                                        *)

\* A swipe is of what the sign step shows, and begins when no call is known
\* to be under way.
SwipeNow ==
    \E pays \in Payments \cup Quotes \cup {None} :
        /\ Swipe(pays)
        /\ step = "sign" /\ ~signing.isSigning /\ ~swap.modal
        /\ route # "home"
        /\ UNCHANGED <<send, recents>>

\* Every step of a screen is quiet or a swipe.
LEMMA ScreenStepKinds ==
    ASSUME PaymentsTypeOK, ShapeInv, SendStep \/ SwapStep
    PROVE  (Quiet /\ StepFits') \/ SwipeNow
<1>1. CASE SendStep
  <2>1. CASE SendSwipe
    <3>1. Shown \in Payments
      BY SendAssumption DEF PaymentsTypeOK, ScreenTypeOK, Shown
    <3>2. route = "send" /\ step = "sign" /\ ~signing.isSigning
      BY <2>1, SendOffersFacts DEF SendSwipe, ShapeInv
    <3>3. ~swap.modal
      BY <3>2 DEF ShapeInv, FlagsFit, NewSwap
    <3> QED
      BY <1>1, <2>1, <3>1, <3>2, <3>3 DEF SendSwipe, SendStep, SwipeNow
  <2> QED
    BY <1>1, <2>1, SendStepEffect
<1>2. CASE SwapStep
  <2>1. CASE SwapSwipe
    <3>1. swap.quote \in Quotes \cup {None}
      BY DEF PaymentsTypeOK, ScreenTypeOK
    <3>2. route = "swap" /\ step = "sign" /\ ~swap.modal /\ ~signing.isSigning
      BY <2>1, SwapOffersFacts DEF SwapSwipe, ShapeInv
    <3> QED
      BY <1>2, <2>1, <3>1, <3>2 DEF SwapSwipe, SwapStep, SwipeNow
  <2> QED
    BY <1>2, <2>1, SwapStepEffect
<1> QED
  BY <1>1, <1>2

\* What a swipe leaves of the visit.
LEMMA SwipeEffect ==
    ASSUME PaymentsTypeOK, NEW pays \in Payments \cup Quotes \cup {None}, Swipe(pays)
    PROVE  /\ SigningTypeOK' /\ UNCHANGED <<txs, calls, route, step>>
           /\ signing'.swipes = Append(signing.swipes, pays)
           /\ signing'.isSigning = signing.isSigning
           /\ signing'.doubt = signing.doubt
           /\ signing'.doubled = (signing.doubled \/ signing.swipes # <<>>)
           /\ signing'.authorised = signing.authorised \cup {pays}
<1> DEFINE S == Payments \cup Quotes \cup {None}
<1>1. SigningTypeOK /\ MaxSwipes \in Nat
  BY SigningAssumption DEF PaymentsTypeOK
<1>2. Append(signing.swipes, pays) \in Seq(S)
  <2> HIDE DEF S
  <2>1. signing.swipes \in Seq(S) /\ pays \in S
    BY <1>1 DEF SigningTypeOK, S
  <2> QED
    BY <2>1
<1>3. signing.attempts + 1 \in 0 .. MaxSwipes
  BY <1>1 DEF Swipe, SigningTypeOK
<1>4. (signing.doubled \/ signing.swipes # <<>>) \in BOOLEAN
  BY <1>1 DEF SigningTypeOK
<1> DEFINE more == Append(signing.swipes, pays)
           twice == signing.doubled \/ signing.swipes # <<>>
<1>5. signing' = [signing EXCEPT
                     !.swipes = more,
                     !.attempts = @ + 1,
                     !.authorised = @ \cup {pays},
                     !.doubled = twice]
  BY DEF Swipe
<1>6. UNCHANGED <<txs, calls, route, step>>
  BY DEF Swipe, netVars
<1>7. more \in Seq(S) /\ twice \in BOOLEAN
  BY <1>2, <1>4
<1> HIDE DEF more, twice
<1>8. /\ SigningTypeOK'
      /\ signing'.swipes = more
      /\ signing'.isSigning = signing.isSigning
      /\ signing'.doubt = signing.doubt
      /\ signing'.doubled = twice
      /\ signing'.authorised = signing.authorised \cup {pays}
  BY <1>1, <1>3, <1>5, <1>6, <1>7 DEF SigningTypeOK
<1> QED
  BY <1>6, <1>8 DEF more, twice

\* The first swipe that waits is one, and those behind it wait on.
LEMMA TailEffect ==
    ASSUME PaymentsTypeOK, signing.swipes # <<>>
    PROVE  /\ Head(signing.swipes) \in Payments \cup Quotes \cup {None}
           /\ Tail(signing.swipes) \in Seq(Payments \cup Quotes \cup {None})
           /\ Len(Tail(signing.swipes)) = Len(signing.swipes) - 1
           /\ Head(signing.swipes) = signing.swipes[1]
           /\ 1 \in 1 .. Len(signing.swipes)
           /\ \A k \in 1 .. Len(Tail(signing.swipes)) :
                 /\ k + 1 \in 1 .. Len(signing.swipes)
                 /\ Tail(signing.swipes)[k] = signing.swipes[k + 1]
<1> DEFINE S == Payments \cup Quotes \cup {None}
           s == signing.swipes
<1>1. s \in Seq(S) /\ s # <<>>
  BY DEF PaymentsTypeOK, SigningTypeOK
<1> HIDE DEF S, s
<1>2. Len(s) \in Nat /\ Len(s) # 0
  BY <1>1
<1>3. Head(s) \in S /\ Tail(s) \in Seq(S) /\ Len(Tail(s)) = Len(s) - 1 /\ Head(s) = s[1]
  BY <1>1, <1>2
<1>4. \A k \in 1 .. Len(Tail(s)) : k + 1 \in 1 .. Len(s) /\ Tail(s)[k] = s[k + 1]
  BY <1>1, <1>2, <1>3
<1> QED
  BY <1>2, <1>3, <1>4 DEF S, s

\* A call is begun where there was none.
LEMMA BeginEffect ==
    ASSUME NetTypeOK, NEW pays \in Payments \cup Quotes, Begin(pays)
    PROVE  \E c \in CallIds :
             /\ calls[c] = None
             /\ calls' \in [CallIds -> Calls \cup {None}]
             /\ calls'[c] # None
             /\ calls'[c].pays = pays /\ calls'[c].at = "key"
             /\ calls'[c].tx = None /\ calls'[c].seen
             /\ \A d \in CallIds \ {c} : calls'[d] = calls[d]
<1> DEFINE new == [pays |-> pays, at |-> "key", tx |-> None, seen |-> TRUE]
<1>1. PICK c \in CallIds : calls[c] = None /\ calls' = [calls EXCEPT ![c] = new]
  BY DEF Begin, First
<1>2. new \in Calls
  BY DEF Calls, Places
<1>2a. new # None
  BY <1>2, TransactionsAssumption
<1>3. new.pays = pays /\ new.at = "key" /\ new.tx = None /\ new.seen
  OBVIOUS
<1> HIDE DEF new
<1> QED
  BY <1>1, <1>2, <1>2a, <1>3 DEF NetTypeOK

\* The timer of a swipe begins the call c.
Begins(c) ==
    /\ signing.swipes # <<>>
    /\ calls[c] = None
    /\ calls' \in [CallIds -> Calls \cup {None}]
    /\ calls'[c] # None
    /\ calls'[c].pays = Head(signing.swipes) /\ calls'[c].at = "key"
    /\ calls'[c].tx = None /\ calls'[c].seen
    /\ \A d \in CallIds \ {c} : calls'[d] = calls[d]
    /\ signing'.isSigning

\* It takes its swipe off.
TakesOff ==
    /\ signing.swipes # <<>>
    /\ signing'.swipes = Tail(signing.swipes)
    /\ signing'.doubled = signing.doubled
    /\ signing'.doubt = signing.doubt
    /\ signing'.authorised = signing.authorised
    /\ UNCHANGED <<txs, route, step, send, recents, swap>>

LEMMA TimerEffect ==
    ASSUME PaymentsTypeOK, TimerStep
    PROVE  /\ SigningTypeOK' /\ TakesOff
           /\ \/ UNCHANGED calls /\ signing'.isSigning = signing.isSigning
              \/ \E c \in CallIds : Begins(c)
<1>1. SigningTypeOK /\ NetTypeOK /\ signing.swipes # <<>> /\ UNCHANGED <<send, recents, swap>>
  BY DEF PaymentsTypeOK, TimerStep, SwipeTimer, NothingToStart
<1> DEFINE rest == Tail(signing.swipes)
<1>2. rest \in Seq(Payments \cup Quotes \cup {None})
  BY <1>1, TailEffect
<1>3. rest = Tail(signing.swipes)
  OBVIOUS
<1> HIDE DEF rest
<1>4. ASSUME signing' = [signing EXCEPT !.swipes = rest, !.isSigning = TRUE],
             UNCHANGED <<txs, route, step>>
      PROVE  SigningTypeOK' /\ TakesOff /\ signing'.isSigning
  BY <1>1, <1>2, <1>3, <1>4 DEF SigningTypeOK, TakesOff
<1>5. ASSUME signing' = [signing EXCEPT !.swipes = rest],
             UNCHANGED <<txs, route, step>>
      PROVE  SigningTypeOK' /\ TakesOff /\ signing'.isSigning = signing.isSigning
  BY <1>1, <1>2, <1>3, <1>5 DEF SigningTypeOK, TakesOff
<1>6. CASE Head(signing.swipes) # None /\ Start(Head(signing.swipes))
  <2>1. Head(signing.swipes) \in Payments \cup Quotes
    BY <1>1, <1>6, TailEffect
  <2>2. /\ signing' = [signing EXCEPT !.swipes = rest, !.isSigning = TRUE]
        /\ UNCHANGED <<txs, route, step>>
    BY <1>3, <1>6 DEF Start
  <2>3. SigningTypeOK' /\ TakesOff /\ signing'.isSigning
    BY <1>4, <2>2
  <2>4. \E c \in CallIds : Begins(c)
    BY <1>1, <1>6, <2>1, <2>3, BeginEffect DEF Start, Begins
  <2> QED
    BY <2>3, <2>4
<1>7. CASE NothingToStart
  BY <1>3, <1>5, <1>7 DEF NothingToStart, netVars
<1> QED
  BY <1>6, <1>7 DEF TimerStep, SwipeTimer

\* What the end of a call leaves of the visit it belongs to.
Keeps ==
    /\ signing'.swipes = signing.swipes
    /\ signing'.doubled = signing.doubled
    /\ signing'.authorised = signing.authorised

LEMMA ReturnEffect ==
    ASSUME PaymentsTypeOK, ShapeInv, NEW c \in CallIds,
           SignSucceeds(c) \/ SignFails(c)
    PROVE  /\ SigningTypeOK' /\ Keeps
           /\ ~calls[c].seen => UNCHANGED <<signing, step>>
           /\ calls[c].seen => ~signing'.isSigning
           /\ SignSucceeds(c) /\ calls[c].seen => step' = "complete"
           /\ ~SignSucceeds(c) => UNCHANGED step
           /\ signing.doubt => signing'.doubt
           /\ calls[c].seen /\ ~signing'.doubt => SignSucceeds(c) \/ FailsForSure(c)
<1>1. SigningTypeOK /\ NetTypeOK /\ calls[c] # None /\ UNCHANGED route
  BY CallEnds DEF PaymentsTypeOK
<1>2. calls[c].seen \in BOOLEAN
  BY <1>1 DEF NetTypeOK, Calls
<1>3. CASE SignSucceeds(c)
  BY <1>1, <1>2, <1>3 DEF SignSucceeds, SigningTypeOK, Keeps, Steps
<1>4. CASE SignFails(c) /\ ~SignSucceeds(c)
  BY <1>1, <1>2, <1>4 DEF SignFails, SigningTypeOK, Keeps, Steps
<1> QED
  BY <1>3, <1>4

\* A screen that is closed leaves nothing behind.
LEMMA ClosedTyped ==
    ASSUME CloseScreen
    PROVE  /\ route' = "home" /\ step' = "none" /\ signing' = NewSigning
           /\ send' = NewSend
           /\ \E p \in Pairs : p.to \in SafeTokens /\ swap' = NewSwap(p)
           /\ SigningTypeOK'
           /\ send' \in Sends /\ swap' \in Swaps
           /\ OrderFits' /\ ~swap'.modal
<1>1. PICK p \in Pairs : p.to \in SafeTokens /\ swap' = NewSwap(p)
  BY SwapAssumption DEF CloseScreen
<1>2. p.to \in Tokens
  BY DEF Pairs
<1>3. swap' \in Swaps /\ swap'.amount = None /\ ~swap'.modal
  BY <1>1, <1>2, SwapAssumption DEF NewSwap, Swaps
<1>4. SigningTypeOK'
  BY SigningAssumption DEF CloseScreen, NewSigning, SigningTypeOK, Steps
<1>5. send' \in Sends
  BY DEF CloseScreen, NewSend, Sends
<1> QED
  BY <1>1, <1>3, <1>4, <1>5 DEF CloseScreen, OrderFits

\* The types of the screens, in the names above.
LEMMA ScreenTypes ==
    /\ ScreenTypeOK <=> send \in Sends /\ recents \subseteq ValidAddresses /\ swap \in Swaps
    /\ ScreenTypeOK' <=> send' \in Sends /\ recents' \subseteq ValidAddresses /\ swap' \in Swaps
BY DEF ScreenTypeOK, Sends, Swaps, Fetches

\* The invariant of types and shape.
SoundInv == PaymentsTypeOK /\ ShapeInv

LEMMA InitSound ==
    ASSUME PaymentsInit
    PROVE  SoundInv
<1>1. PICK p \in Pairs : p.to \in SafeTokens /\ swap = NewSwap(p)
  BY SwapAssumption DEF PaymentsInit
<1>2. p.to \in Tokens
  BY DEF Pairs
<1>3. swap \in Swaps /\ swap.amount = None /\ ~swap.modal
  BY <1>1, <1>2, SwapAssumption DEF NewSwap, Swaps
<1>4. SigningTypeOK /\ NetTypeOK
  BY SigningAssumption DEF PaymentsInit, NetInit, SignInit, NewSigning, SigningTypeOK,
     NetTypeOK, Steps
<1>5. send \in Sends /\ recents \subseteq ValidAddresses
  BY DEF PaymentsInit, SendInit, NewSend, Sends
<1>6. PaymentsTypeOK
  BY <1>3, <1>4, <1>5, ScreenTypes DEF PaymentsTypeOK
<1>7. CallsFit /\ HomeIsBlank /\ StepFits /\ OrderFits
  BY <1>3 DEF PaymentsInit, NetInit, SignInit, CallsFit, HomeIsBlank, StepFits, OrderFits
<1>8. ~Busy
  BY DEF PaymentsInit, NetInit, SignInit, NewSigning, Busy, Seen
<1>9. FlagsFit
  BY <1>1, <1>3, <1>8 DEF PaymentsInit, SignInit, SendInit, NewSend, FlagsFit
<1> QED
  BY <1>6, <1>7, <1>9 DEF SoundInv, ShapeInv

LEMMA OpenSound ==
    ASSUME SoundInv, OpenSend \/ OpenSwap
    PROVE  SoundInv'
<1> USE DEF SoundInv
<1>1. /\ route = "home" /\ \A c \in CallIds : calls[c] = None
      /\ UNCHANGED <<txs, calls, signing, send, recents, swap>>
      /\ \/ route' = "send" /\ step' = "address"
         \/ route' = "swap" /\ step' = "input"
  BY DEF OpenSend, OpenSwap, Home, netVars
<1>2. send = NewSend /\ \E p \in Pairs : p.to \in SafeTokens /\ swap = NewSwap(p)
  BY <1>1 DEF ShapeInv, FlagsFit
<1>3. signing = NewSigning
  BY <1>1 DEF ShapeInv, HomeIsBlank
<1>4. ~Busy'
  BY <1>1, <1>3 DEF NewSigning, Busy, Seen
<1>5. PaymentsTypeOK'
  BY <1>1 DEF PaymentsTypeOK, NetTypeOK, SigningTypeOK, ScreenTypeOK, Steps
<1>6. CallsFit' /\ HomeIsBlank' /\ StepFits' /\ OrderFits'
  BY <1>1 DEF ShapeInv, CallsFit, HomeIsBlank, StepFits, OrderFits, Order
<1>7. ~swap.modal /\ ~send.authenticating /\ send.pinCheck = "no"
  BY <1>2 DEF NewSwap, NewSend
<1>8. FlagsFit'
  BY <1>1, <1>2, <1>4, <1>7 DEF FlagsFit
<1> QED
  BY <1>5, <1>6, <1>8 DEF ShapeInv

LEMMA CloseSound ==
    ASSUME SoundInv, CloseScreen, Orphaned \/ Killed, UNCHANGED recents
    PROVE  SoundInv'
<1> USE DEF SoundInv
<1>1. NetTypeOK /\ CallsFit
  BY DEF PaymentsTypeOK, ShapeInv
<1>2. /\ NetTypeOK'
      /\ CallsFit'
      /\ \A i \in TxIds : txs'[i] # None => ~txs'[i].ours
      /\ \A c \in CallIds : calls'[c] # None => ~calls'[c].seen
  <2>1. CASE Killed
    BY <1>1, <2>1 DEF Killed, NetTypeOK, CallsFit
  <2>2. CASE Orphaned
    <3>1. \A c \in CallIds :
            \/ calls[c] = None /\ calls'[c] = None
            \/ /\ calls[c] # None
               /\ calls'[c] \in Calls
               /\ calls'[c].pays = calls[c].pays /\ calls'[c].at = calls[c].at
               /\ calls'[c].tx = calls[c].tx /\ calls'[c].seen = FALSE
      BY <1>1, <2>2 DEF Orphaned, NetTypeOK, Calls
    <3>2. \A c \in CallIds : calls[c] # None /\ calls[c].tx # None =>
                                 calls[c].tx \in TxIds /\ txs[calls[c].tx] # None
      BY <1>1 DEF CallsFit, NetTypeOK, Calls, Places
    <3>3. \A i \in TxIds :
            \/ txs'[i] = None /\ ~\E c \in CallIds : calls[c] # None /\ calls[c].tx = i
            \/ /\ txs[i] # None
               /\ txs'[i] \in Txs
               /\ txs'[i].kind = txs[i].kind /\ txs'[i].pays = txs[i].pays
               /\ txs'[i].status = txs[i].status /\ txs'[i].ours = FALSE
      <4> SUFFICES ASSUME NEW i \in TxIds,
                          NEW c \in CallIds, calls[c] # None, calls[c].tx = i
                   PROVE  /\ txs[i] # None
                          /\ txs'[i] \in Txs
                          /\ txs'[i].kind = txs[i].kind /\ txs'[i].pays = txs[i].pays
                          /\ txs'[i].status = txs[i].status /\ txs'[i].ours = FALSE
        BY <2>2 DEF Orphaned
      <4>1. txs[i] # None /\ txs[i] \in Txs
        BY <1>1, <3>2, TransactionsAssumption DEF NetTypeOK
      <4> QED
        BY <2>2, <4>1 DEF Orphaned, Txs
    <3>4. NetTypeOK'
      BY <2>2, <3>1, <3>3 DEF Orphaned, NetTypeOK
    <3>5. \A c \in CallIds : calls'[c] # None => ~calls'[c].seen
      BY <3>1
    <3>6. \A i \in TxIds : txs'[i] # None => ~txs'[i].ours
      BY <3>3
    <3>7. \A c \in CallIds : calls[c] # None /\ calls[c].tx # None =>
             /\ txs'[calls[c].tx] # None
             /\ txs'[calls[c].tx].kind = txs[calls[c].tx].kind
             /\ txs'[calls[c].tx].pays = txs[calls[c].tx].pays
             /\ txs'[calls[c].tx].status = txs[calls[c].tx].status
      BY <3>2, <3>3, <3>4, TransactionsAssumption DEF NetTypeOK
    <3>8. CallsFit'
      BY <1>1, <3>1, <3>7 DEF CallsFit, CloseScreen
    <3> QED
      BY <3>4, <3>5, <3>6, <3>8
  <2> QED
    BY <2>1, <2>2
<1>3. SigningTypeOK' /\ ScreenTypeOK' /\ OrderFits'
  BY ClosedTyped, ScreenTypes DEF PaymentsTypeOK
<1>4. ~Busy'
  BY <1>2, ClosedTyped DEF NewSigning, Busy, Seen
<1>5. FlagsFit'
  BY <1>4, ClosedTyped DEF FlagsFit, NewSend
<1>6. StepFits' /\ HomeIsBlank'
  BY <1>2, ClosedTyped DEF StepFits, HomeIsBlank
<1> QED
  BY <1>2, <1>3, <1>5, <1>6 DEF ShapeInv, PaymentsTypeOK

\* A quiet step of a screen, or a swipe, keeps what is not the screen's.
LEMMA ScreenSound ==
    ASSUME SoundInv, Quiet \/ SwipeNow, route # "home", Quiet => StepFits'
    PROVE  /\ NetTypeOK' /\ SigningTypeOK' /\ CallsFit' /\ HomeIsBlank' /\ StepFits'
           /\ Busy' => /\ step' \in {"sign", "complete"}
                       /\ Busy \/ ~swap.modal
           /\ UNCHANGED <<route, recents>>
<1> USE DEF SoundInv
<1>1. CASE Quiet
  <2>1. NetTypeOK' /\ CallsFit' /\ (Busy' <=> Busy)
    BY <1>1 DEF Quiet, PaymentsTypeOK, ShapeInv, NetTypeOK, CallsFit, Busy, Seen
  <2>2. SigningTypeOK' /\ HomeIsBlank'
    BY <1>1 DEF Quiet, PaymentsTypeOK, SigningTypeOK, ShapeInv, StepFits, HomeIsBlank, Steps
  <2> QED
    BY <1>1, <2>1, <2>2 DEF Quiet, ShapeInv, FlagsFit
<1>2. CASE SwipeNow
  <2>1. PICK pays \in Payments \cup Quotes \cup {None} : Swipe(pays)
    BY <1>2 DEF SwipeNow
  <2>2. SigningTypeOK' /\ UNCHANGED <<txs, calls, route, step>>
    BY <2>1, SwipeEffect
  <2>3. NetTypeOK' /\ CallsFit' /\ HomeIsBlank' /\ StepFits'
    BY <2>2 DEF PaymentsTypeOK, ShapeInv, NetTypeOK, CallsFit, HomeIsBlank, StepFits
  <2> QED
    BY <1>2, <2>2, <2>3 DEF SwipeNow
<1> QED
  BY <1>1, <1>2

LEMMA SendSound ==
    ASSUME SoundInv, SendStep
    PROVE  SoundInv'
<1> USE DEF SoundInv
<1>1. /\ route = "send" /\ UNCHANGED swap
      /\ send' \in Sends /\ SendFits'
      /\ (Quiet /\ StepFits') \/ SwipeNow
  BY SendStepEffect, ScreenStepKinds
<1>2. /\ NetTypeOK' /\ SigningTypeOK' /\ CallsFit' /\ HomeIsBlank' /\ StepFits'
      /\ Busy' => step' \in {"sign", "complete"}
      /\ UNCHANGED <<route, recents>>
  BY <1>1, SendStepEffect, ScreenSound DEF SendSwipe, Swipe, ShapeInv, StepFits
<1>3. \E p \in Pairs : p.to \in SafeTokens /\ swap' = NewSwap(p)
  BY <1>1 DEF ShapeInv, FlagsFit
<1>4. ~swap'.modal
  BY <1>3 DEF NewSwap
<1>5. FlagsFit'
  BY <1>1, <1>2, <1>3, <1>4 DEF FlagsFit, SendFits
<1>6. ScreenTypeOK' /\ OrderFits'
  BY <1>1, <1>2, ScreenTypes DEF PaymentsTypeOK, ShapeInv, OrderFits, Order
<1> QED
  BY <1>2, <1>5, <1>6 DEF ShapeInv, PaymentsTypeOK

LEMMA SwapSound ==
    ASSUME SoundInv, SwapStep
    PROVE  SoundInv'
<1> USE DEF SoundInv
<1>1. /\ route = "swap" /\ UNCHANGED send
      /\ swap' \in Swaps /\ OrderFits'
      /\ swap'.modal => step' = "sign"
      /\ Busy => ~swap'.modal
      /\ \/ Quiet /\ StepFits'
         \/ SwapSwipe /\ ~swap.modal /\ ~swap'.modal
  BY SwapStepEffect
<1>2. /\ NetTypeOK' /\ SigningTypeOK' /\ CallsFit' /\ HomeIsBlank' /\ StepFits'
      /\ Busy' => step' \in {"sign", "complete"}
      /\ UNCHANGED <<route, recents>>
      /\ Quiet => (Busy' <=> Busy)
  BY <1>1, ScreenStepKinds, ScreenSound DEF SwapSwipe, Swipe, ShapeInv, StepFits,
     Quiet, Busy, Seen
<1>3. Busy' => ~swap'.modal
  BY <1>1, <1>2
<1>4. send = NewSend
  BY <1>1 DEF ShapeInv, FlagsFit
<1>5. FlagsFit'
  BY <1>1, <1>2, <1>3, <1>4 DEF FlagsFit, NewSend
<1>6. ScreenTypeOK'
  BY <1>1, <1>2, ScreenTypes DEF PaymentsTypeOK
<1> QED
  BY <1>1, <1>2, <1>5, <1>6 DEF ShapeInv, PaymentsTypeOK

LEMMA TimerSound ==
    ASSUME SoundInv, TimerStep
    PROVE  SoundInv'
<1> USE DEF SoundInv
<1>1. SigningTypeOK' /\ TakesOff
  BY TimerEffect
<1>2. UNCHANGED calls \/ \E c \in CallIds : Begins(c)
  BY TimerEffect
<1>3. route # "home"
  BY <1>1 DEF TakesOff, ShapeInv, HomeIsBlank, NewSigning
<1>4. step \in {"sign", "complete"} /\ ~swap.modal
  BY <1>1 DEF TakesOff, ShapeInv, FlagsFit, Busy
<1>5. NetTypeOK' /\ CallsFit'
  <2>1. CASE UNCHANGED calls
    BY <1>1, <2>1 DEF TakesOff, PaymentsTypeOK, ShapeInv, NetTypeOK, CallsFit
  <2>2. ASSUME NEW c \in CallIds, Begins(c)
        PROVE  NetTypeOK' /\ CallsFit'
    BY <1>1, <1>3, <2>2
       DEF Begins, TakesOff, PaymentsTypeOK, ShapeInv, NetTypeOK, CallsFit
  <2> QED
    BY <1>2, <2>1, <2>2
<1>6. HomeIsBlank' /\ StepFits' /\ OrderFits' /\ ScreenTypeOK'
  BY <1>1, <1>3 DEF TakesOff, PaymentsTypeOK, ScreenTypeOK, ShapeInv, HomeIsBlank,
     StepFits, OrderFits, Order
<1>7. FlagsFit'
  BY <1>1, <1>3, <1>4 DEF TakesOff, ShapeInv, FlagsFit
<1> QED
  BY <1>1, <1>5, <1>6, <1>7 DEF ShapeInv, PaymentsTypeOK

LEMMA CallSound ==
    ASSUME SoundInv, NEW c \in CallIds, CallStep(c)
    PROVE  SoundInv'
<1> USE DEF SoundInv
<1>1. /\ NetTypeOK' /\ CallsFit' /\ AddsOnlyFor(c) /\ Grows
      /\ UNCHANGED <<route, send, swap>> /\ calls[c] # None
  BY CallStepNet
<1>2. NetTypeOK /\ calls[c] \in Calls
  BY <1>1 DEF PaymentsTypeOK, NetTypeOK
<1>3. /\ SigningTypeOK'
      /\ ~calls[c].seen => UNCHANGED <<signing, step>>
      /\ UNCHANGED step \/ (calls[c].seen /\ step' = "complete")
      /\ signing'.swipes = signing.swipes
      /\ recents' \subseteq ValidAddresses
  <2>1. CASE GoesOn(c) /\ UNCHANGED <<signVars, recents>>
    BY <2>1 DEF signVars, PaymentsTypeOK, SigningTypeOK, ScreenTypeOK
  <2>2. CASE SignSucceeds(c) /\ SaveRecent(calls[c].pays)
    BY <1>2, <2>2, ReturnEffect, SendAssumption
       DEF Keeps, SaveRecent, Calls, PaymentsTypeOK, ScreenTypeOK
  <2>3. CASE SignFails(c) /\ UNCHANGED recents
    <3>1. SigningTypeOK' /\ Keeps /\ (~calls[c].seen => UNCHANGED <<signing, step>>)
      BY <2>3, ReturnEffect
    <3> QED
      BY <2>3, <3>1 DEF SignFails, Keeps, PaymentsTypeOK, ScreenTypeOK
  <2> QED
    BY <2>1, <2>2, <2>3 DEF CallStep
<1>4. \A d \in CallIds : Seen(d)' => Seen(d)
  <2>1. CASE GoesOn(c)
    BY <1>1, <2>1, CallGoesOn DEF PaymentsTypeOK, MovesTo, Seen
  <2>2. CASE SignSucceeds(c) \/ SignFails(c)
    BY <2>2, CallEnds, EndsEffect DEF PaymentsTypeOK, Seen
  <2> QED
    BY <2>1, <2>2 DEF CallStep
<1>5. Busy' => Busy
  BY <1>3, <1>4 DEF Busy
<1>6. calls[c].seen => Busy /\ route # "home"
  BY <1>1 DEF Busy, Seen, ShapeInv, CallsFit
<1>7. calls[c].seen => step \in {"sign", "complete"} /\ ~swap.modal
  BY <1>6 DEF ShapeInv, FlagsFit
<1>8. StepFits' /\ FlagsFit'
  BY <1>1, <1>3, <1>5, <1>6, <1>7 DEF ShapeInv, StepFits, FlagsFit
<1>9. HomeIsBlank'
  BY <1>1, <1>3, <1>6 DEF ShapeInv, HomeIsBlank, AddsOnlyFor, Grows
<1>10. OrderFits' /\ ScreenTypeOK'
  BY <1>1, <1>3, ScreenTypes DEF PaymentsTypeOK, ShapeInv, OrderFits, Order
<1> QED
  BY <1>1, <1>3, <1>8, <1>9, <1>10 DEF ShapeInv, PaymentsTypeOK

\* The network changes the status of a transaction that has not landed.
NewStatus(i) ==
    /\ txs' \in [TxIds -> Txs \cup {None}]
    /\ i # None /\ txs[i] # None /\ txs'[i] # None
    /\ txs'[i].kind = txs[i].kind /\ txs'[i].pays = txs[i].pays
    /\ txs'[i].ours = txs[i].ours
    /\ \A j \in TxIds \ {i} : txs'[j] = txs[j]
    /\ UNCHANGED <<calls, signVars, send, recents, swap>>

LEMMA NetworkEffect ==
    ASSUME PaymentsTypeOK, NetworkStep
    PROVE  \E i \in TxIds :
             /\ NewStatus(i)
             /\ \/ Is(i, "sent") /\ txs'[i].status \in {"processed", "failed", "expired", "confirmed"}
                \/ Is(i, "processed") /\ txs'[i].status \in {"confirmed", "sent"}
<1>1. PICK i \in TxIds : Network(i)
  BY DEF NetworkStep
<1>2. NetTypeOK /\ UNCHANGED <<calls, signVars, send, recents, swap>>
  BY <1>1 DEF PaymentsTypeOK, NetworkStep, Network
<1>3. PICK s \in Statuses :
        /\ Becomes(i, s)
        /\ \/ Is(i, "sent") /\ s \in {"processed", "failed", "expired", "confirmed"}
           \/ Is(i, "processed") /\ s \in {"confirmed", "sent"}
  BY <1>1 DEF Network, Statuses
<1>4. txs[i] # None /\ i # None /\ txs[i] \in Txs
  BY <1>2, <1>3 DEF Is, NetTypeOK
<1> DEFINE new == [txs[i] EXCEPT !.status = s]
<1>5. /\ new \in Txs
      /\ new.kind = txs[i].kind /\ new.pays = txs[i].pays
      /\ new.ours = txs[i].ours /\ new.status = s
  BY <1>4 DEF Txs
<1>6. txs' = [txs EXCEPT ![i] = new]
  BY <1>3 DEF Becomes
<1>7. new # None
  BY <1>5, TransactionsAssumption
<1> HIDE DEF new
<1>8. NewStatus(i) /\ txs'[i].status = s
  BY <1>2, <1>4, <1>5, <1>6, <1>7 DEF NetTypeOK, NewStatus
<1> QED
  BY <1>3, <1>8

LEMMA NetworkSound ==
    ASSUME SoundInv, NetworkStep
    PROVE  SoundInv'
<1> USE DEF SoundInv
<1>1. PICK i \in TxIds : NewStatus(i) /\ ~Is(i, "confirmed")
  BY NetworkEffect DEF Is
<1>2. NetTypeOK' /\ SigningTypeOK' /\ ScreenTypeOK'
  BY <1>1 DEF NewStatus, signVars, PaymentsTypeOK, NetTypeOK, SigningTypeOK, ScreenTypeOK
<1>3. CallsFit'
  <2> SUFFICES ASSUME NEW c \in CallIds, calls[c] # None, calls[c].tx \in TxIds
               PROVE  /\ txs[calls[c].tx] # None =>
                           /\ txs'[calls[c].tx] # None
                           /\ txs'[calls[c].tx].kind = txs[calls[c].tx].kind
                           /\ txs'[calls[c].tx].pays = txs[calls[c].tx].pays
                      /\ Is(calls[c].tx, "confirmed") =>
                           txs'[calls[c].tx] = txs[calls[c].tx]
    BY <1>1 DEF NewStatus, signVars, CallsFit, ShapeInv, PaymentsTypeOK, NetTypeOK, Calls, Is
  <2> QED
    BY <1>1 DEF NewStatus
<1>4. HomeIsBlank' /\ StepFits' /\ OrderFits'
  BY <1>1 DEF NewStatus, signVars, ShapeInv, HomeIsBlank, StepFits, OrderFits, Order
<1>5. FlagsFit'
  BY <1>1 DEF NewStatus, signVars, ShapeInv, FlagsFit, Busy, Seen
<1> QED
  BY <1>2, <1>3, <1>4, <1>5 DEF ShapeInv, PaymentsTypeOK

LEMMA NextSound ==
    ASSUME SoundInv, [Next]_vars
    PROVE  SoundInv'
<1>1. CASE UNCHANGED vars
  BY <1>1 DEF vars, netVars, signVars, SoundInv, PaymentsTypeOK, NetTypeOK,
     SigningTypeOK, ScreenTypeOK, ShapeInv, CallsFit, HomeIsBlank, StepFits, FlagsFit,
     OrderFits, Order, Busy, Seen
<1> QED
  BY <1>1, OpenSound, CloseSound, SendSound, SwapSound, TimerSound, CallSound,
     NetworkSound DEF Next, Leave, Kill

\* Types hold, a call fits the screen that began it, and the flags of Send
\* and Swap are those of their step, in every state that is reached.
THEOREM SoundAlways == PaymentsSpec => []SoundInv
<1>1. PaymentsInit => SoundInv
  BY InitSound
<1>2. SoundInv /\ [Next]_vars => SoundInv'
  BY NextSound
<1> QED
  BY <1>1, <1>2, PTL DEF PaymentsSpec

\* Everything on the network and on the screens has its type, for any sets
\* and bounds.
THEOREM PaymentsTyped == PaymentsSpec => []PaymentsTypeOK
<1>1. SoundInv => PaymentsTypeOK
  BY DEF SoundInv
<1> QED
  BY <1>1, SoundAlways, PTL

-----------------------------------------------------------------------------
(* A visit pays once.                                                      *)

\* When a screen is opened or closed, nothing of a visit is there.
LEMMA BlankOnce ==
    ASSUME SoundInv, SoundInv', OpenSend \/ OpenSwap \/ CloseScreen
    PROVE  OnceInv'
<1> USE DEF SoundInv
<1>1. signing'.swipes = <<>> /\ signing' = NewSigning
  BY DEF OpenSend, OpenSwap, Home, CloseScreen, ShapeInv, HomeIsBlank, NewSigning
<1>2. \A i \in TxIds : txs'[i] # None => ~txs'[i].ours
  BY DEF OpenSend, OpenSwap, Home, CloseScreen, ShapeInv, HomeIsBlank, netVars
<1>3. \A c \in CallIds : ~Seen(c)'
  BY DEF OpenSend, OpenSwap, Home, CloseScreen, ShapeInv, CallsFit, netVars, Seen
<1>4. OursOf({"fee"})' = {} /\ LiveOf({"send", "swap"})' = {}
  BY <1>2 DEF OursOf, LiveOf, Live, Is
<1> QED
  BY <1>1, <1>3, <1>4 DEF OnceInv, OneAtATime, OnePayment, FeesArePaidFor

LEMMA ScreenOnce ==
    ASSUME SoundInv, OnceInv, SendStep \/ SwapStep
    PROVE  OnceInv'
<1> USE DEF SoundInv
<1>1. Quiet \/ SwipeNow
  BY ScreenStepKinds
<1>2. CASE Quiet
  <2>1. /\ Busy => step' = step
        /\ step = "complete" => step' = step
        /\ UNCHANGED <<txs, calls, signing>>
    BY <1>2 DEF Quiet
  <2>2. /\ OursOf({"fee"})' = OursOf({"fee"})
        /\ LiveOf({"send", "swap"})' = LiveOf({"send", "swap"})
        /\ \A c \in CallIds : Seen(c)' <=> Seen(c)
    BY <2>1 DEF OursOf, LiveOf, Live, Is, Seen
  <2>3. OneAtATime'
    BY <2>1, <2>2 DEF OnceInv, OneAtATime, Busy
  <2>4. OnePayment'
    BY <2>1, <2>2 DEF OnceInv, OnePayment
  <2>5. FeesArePaidFor'
    BY <2>1, <2>2 DEF OnceInv, FeesArePaidFor, Is
  <2> QED
    BY <2>3, <2>4, <2>5 DEF OnceInv
<1>3. CASE SwipeNow
  <2>1. PICK pays \in Payments \cup Quotes \cup {None} : Swipe(pays)
    BY <1>3 DEF SwipeNow
  <2>2. /\ UNCHANGED <<txs, calls, step>> /\ step = "sign" /\ ~signing.isSigning
        /\ signing'.swipes = Append(signing.swipes, pays)
        /\ signing'.isSigning = signing.isSigning
        /\ signing'.doubt = signing.doubt
        /\ signing'.doubled = (signing.doubled \/ signing.swipes # <<>>)
    BY <1>3, <2>1, SwipeEffect DEF SwipeNow
  <2>3. /\ OursOf({"fee"})' = OursOf({"fee"})
        /\ LiveOf({"send", "swap"})' = LiveOf({"send", "swap"})
        /\ \A c \in CallIds : Seen(c)' <=> Seen(c)
    BY <2>2 DEF OursOf, LiveOf, Live, Is, Seen
  <2>4. OneAtATime'
    <3> SUFFICES ASSUME ~signing.doubled, signing.swipes = <<>>
                 PROVE  OneAtATime'
      BY <2>2 DEF OneAtATime
    <3>1. \A c \in CallIds : ~Seen(c)
      BY <2>2 DEF OnceInv, OneAtATime
    <3>2. Tail(signing'.swipes) = <<>>
      BY <2>2
    <3> QED
      BY <2>2, <2>3, <3>1, <3>2 DEF OnceInv, OneAtATime
  <2>5. OnePayment'
    BY <2>2, <2>3 DEF OnceInv, OnePayment
  <2>6. FeesArePaidFor'
    BY <2>2, <2>3 DEF OnceInv, FeesArePaidFor, Is
  <2> QED
    BY <2>4, <2>5, <2>6 DEF OnceInv
<1> QED
  BY <1>1, <1>2, <1>3

LEMMA TimerOnce ==
    ASSUME SoundInv, OnceInv, TimerStep
    PROVE  OnceInv'
<1> USE DEF SoundInv
<1>1. /\ signing.swipes # <<>> /\ UNCHANGED <<txs, step>>
      /\ signing'.swipes = Tail(signing.swipes)
      /\ signing'.doubled = signing.doubled /\ signing'.doubt = signing.doubt
  BY TimerEffect DEF TakesOff
<1>2. /\ OursOf({"fee"})' = OursOf({"fee"})
      /\ LiveOf({"send", "swap"})' = LiveOf({"send", "swap"})
  BY <1>1 DEF OursOf, LiveOf, Live, Is
<1>3. FeesArePaidFor'
  BY <1>1, <1>2 DEF OnceInv, FeesArePaidFor, Is
<1>4. CASE signing.doubled
  BY <1>1, <1>3, <1>4 DEF OnceInv, OneAtATime, OnePayment
<1>5. CASE ~signing.doubled
  <2>1. /\ signing'.swipes = <<>> /\ step = "sign"
        /\ ~signing.isSigning /\ \A c \in CallIds : ~Seen(c)
    BY <1>1, <1>5 DEF OnceInv, OneAtATime
  <2>2. ~signing.doubt => LiveOf({"send", "swap"}) = {}
    BY <1>5, <2>1 DEF OnceInv, OnePayment
  <2>3. OnePayment'
    BY <1>1, <1>2, <1>5, <2>2 DEF OnePayment
  <2>4. \/ \A c \in CallIds : ~Seen(c)'
        \/ signing'.isSigning /\ \E c \in CallIds : \A d \in CallIds \ {c} : ~Seen(d)'
    BY <2>1, TimerEffect DEF Begins, Seen
  <2>5. OneAtATime'
    BY <1>1, <1>2, <1>5, <2>1, <2>4 DEF OnceInv, OneAtATime
  <2> QED
    BY <1>3, <2>3, <2>5 DEF OnceInv
<1> QED
  BY <1>4, <1>5

LEMMA NetworkOnce ==
    ASSUME SoundInv, OnceInv, NetworkStep
    PROVE  OnceInv'
<1> USE DEF SoundInv
<1>1. PICK i \in TxIds :
        /\ NewStatus(i)
        /\ Is(i, "sent") \/ Is(i, "processed")
  BY NetworkEffect
<1>2. /\ UNCHANGED <<calls, signVars>>
      /\ \A j \in TxIds :
            /\ txs'[j] # None <=> txs[j] # None
            /\ txs[j] # None => /\ txs'[j].kind = txs[j].kind
                                /\ txs'[j].pays = txs[j].pays
                                /\ txs'[j].ours = txs[j].ours
            /\ Live(j)' => Live(j)
            /\ Is(j, "confirmed") => txs'[j] = txs[j]
  BY <1>1 DEF NewStatus, Live, Is
<1>3. /\ OursOf({"fee"})' = OursOf({"fee"})
      /\ LiveOf({"send", "swap"})' \subseteq LiveOf({"send", "swap"})
      /\ \A c \in CallIds : Seen(c)' <=> Seen(c)
  BY <1>2 DEF OursOf, LiveOf, Live, Is, Seen
<1>4. OneAtATime'
  BY <1>2, <1>3 DEF signVars, OnceInv, OneAtATime
<1>5. OnePayment'
  BY <1>2, <1>3 DEF signVars, OnceInv, OnePayment
<1>6. FeesArePaidFor'
  BY <1>2, <1>3 DEF OnceInv, FeesArePaidFor, OursOf, Is
<1> QED
  BY <1>4, <1>5, <1>6 DEF OnceInv

\* A call that the screen does not know changes nothing the screen made.
LEMMA UnseenOnce ==
    ASSUME SoundInv, OnceInv, NEW c \in CallIds, ~calls[c].seen, Grows, AddsOnlyFor(c),
           UNCHANGED <<signing, step>>, calls[c] # None,
           \A d \in CallIds \ {c} : calls'[d] = calls[d],
           calls'[c] # None => calls'[c].seen = calls[c].seen
    PROVE  OnceInv'
<1> USE DEF SoundInv
<1>1. \A i \in TxIds :
        /\ txs[i] # None => txs'[i] = txs[i]
        /\ txs'[i] # None /\ txs'[i].ours => txs[i] # None
  BY DEF Grows, AddsOnlyFor
<1>2. \A d \in CallIds : (Seen(d)' <=> Seen(d)) /\ (Seen(d) => calls'[d] = calls[d])
  BY DEF Seen
<1>3. /\ OursOf({"fee"})' = OursOf({"fee"})
      /\ LiveOf({"send", "swap"})' = LiveOf({"send", "swap"})
      /\ \A i \in OursOf({"fee"}) : txs'[i] = txs[i]
      /\ \A j \in TxIds : Is(j, "confirmed") => txs'[j] = txs[j]
  BY <1>1 DEF OursOf, LiveOf, Live, Is
<1>4. OneAtATime'
  BY <1>2, <1>3 DEF OnceInv, OneAtATime
<1>5. OnePayment'
  BY <1>2, <1>3 DEF OnceInv, OnePayment
<1>6. FeesArePaidFor'
  BY <1>3 DEF OnceInv, FeesArePaidFor, Is
<1> QED
  BY <1>4, <1>5, <1>6 DEF OnceInv

\* The one call of a visit: what may be paid before it is over.
LEMMA TheCall ==
    ASSUME SoundInv, OnceInv, NEW c \in CallIds, Seen(c), ~signing.doubled
    PROVE  /\ signing.swipes = <<>> /\ step = "sign" /\ signing.isSigning
           /\ \A d \in CallIds \ {c} : ~Seen(d)
           /\ OursOf({"fee"}) = {}
           /\ ~signing.doubt =>
                 \A i \in LiveOf({"send", "swap"}) : calls[c].at # "key" /\ calls[c].tx = i
<1>1. /\ signing.swipes = <<>> /\ step = "sign" /\ signing.isSigning
      /\ \A d \in CallIds \ {c} : ~Seen(d)
      /\ OursOf({"fee"}) = {}
  BY DEF OnceInv, OneAtATime
<1>2. ASSUME ~signing.doubt, NEW i \in LiveOf({"send", "swap"})
      PROVE  calls[c].at # "key" /\ calls[c].tx = i
  <2>1. calls[c].tx = i
    BY <1>1, <1>2 DEF OnceInv, OnePayment
  <2> QED
    BY <2>1, TransactionsAssumption DEF LiveOf, SoundInv, ShapeInv, CallsFit, Seen
<1> QED
  BY <1>1, <1>2

LEMMA GoesOnOnce ==
    ASSUME SoundInv, OnceInv, NEW c \in CallIds, CallStep(c), GoesOn(c),
           UNCHANGED signVars, calls[c].seen
    PROVE  OnceInv'
<1> USE DEF SoundInv
<1>1. PICK i \in TxIds, place \in Places :
        /\ MovesTo(c, place, i)
        /\ \/ calls[c].at = "key" /\ (Sent(c, i, "send") \/ Sent(c, i, "swap"))
           \/ calls[c].tx = i /\ UNCHANGED txs
  <2>1. calls[c].at # "key" => calls[c].tx \in TxIds
    BY CallStepNet DEF PaymentsTypeOK, NetTypeOK, ShapeInv, CallsFit, Calls
  <2> QED
    BY <2>1, CallGoesOn DEF PaymentsTypeOK, Places
<1>2. Grows /\ calls[c] # None
  BY CallStepNet
<1>3. \A d \in CallIds : Seen(d)' <=> Seen(d)
  BY <1>1, <1>2 DEF MovesTo, Seen
<1>4. /\ \A j \in TxIds : txs[j] = None /\ txs'[j] # None => j = i /\ calls[c].at = "key"
      /\ txs[i] = None /\ txs'[i] # None => txs'[i].kind \in {"send", "swap"}
  BY <1>1 DEF Sent
<1>5. OursOf({"fee"})' = OursOf({"fee"}) /\ \A j \in OursOf({"fee"}) : txs'[j] = txs[j]
  BY <1>2, <1>4 DEF OursOf, Grows
<1>6. OneAtATime'
  BY <1>3, <1>5 DEF signVars, OnceInv, OneAtATime
<1>7. FeesArePaidFor'
  BY <1>2, <1>5 DEF Grows, OnceInv, FeesArePaidFor, Is
<1>8. OnePayment'
  <2> SUFFICES ASSUME ~signing.doubled, ~signing.doubt
               PROVE  OnePayment'
    BY DEF signVars, OnePayment
  <2>1. Seen(c) /\ Seen(c)' /\ calls'[c].tx = i
    BY <1>1, <1>2, <1>3 DEF Seen, MovesTo
  <2>2. \A j \in LiveOf({"send", "swap"}) : calls[c].at # "key" /\ j = calls[c].tx
    BY <2>1, TheCall
  <2>3. \A j \in LiveOf({"send", "swap"})' : j = i
    <3> SUFFICES ASSUME NEW j \in LiveOf({"send", "swap"})', j # i
                 PROVE  FALSE
      OBVIOUS
    <3>1. j \in TxIds /\ txs'[j] = txs[j]
      BY <1>1, <1>2, <1>4 DEF LiveOf, Live, Is, Grows
    <3>2. j \in LiveOf({"send", "swap"})
      BY <3>1 DEF LiveOf, Live, Is
    <3> QED
      BY <1>1, <2>2, <3>2
  <2> QED
    BY <2>1, <2>3 DEF OnePayment
<1> QED
  BY <1>6, <1>7, <1>8 DEF OnceInv

LEMMA SucceedsOnce ==
    ASSUME SoundInv, OnceInv, NEW c \in CallIds, SignSucceeds(c), calls[c].seen
    PROVE  OnceInv'
<1> USE DEF SoundInv
<1>1. /\ calls[c] # None /\ Grows /\ Keeps /\ step' = "complete"
      /\ signing.doubt => signing'.doubt
      /\ \A d \in CallIds : Seen(d)' => Seen(d) /\ d # c
  BY CallEnds, EndsEffect, ReturnEffect DEF PaymentsTypeOK, Seen
<1>2. \/ UNCHANGED txs
      \/ /\ calls[c].at = "fee"
         /\ \E i \in TxIds : txs[i] = None /\ Sent(c, i, "fee")
  BY CallEnds
<1>3. \E i \in TxIds \cup {None} : \A j \in OursOf({"fee"})' :
        \/ j \in OursOf({"fee"}) /\ txs'[j] = txs[j]
        \/ j = i /\ calls[c].at = "fee" /\ txs'[j].pays = calls[c].pays
  BY <1>1, <1>2 DEF OursOf, Grows, Sent
<1>4. \A j \in LiveOf({"send", "swap"})' : j \in LiveOf({"send", "swap"})
  BY <1>1, <1>2 DEF LiveOf, Live, Is, Grows, Sent
<1>5. OneAtATime'
  <2> SUFFICES ASSUME ~signing.doubled
               PROVE  OneAtATime'
    BY <1>1 DEF OneAtATime, Keeps
  <2>1. /\ signing.swipes = <<>> /\ OursOf({"fee"}) = {}
        /\ \A d \in CallIds \ {c} : ~Seen(d)
    BY <1>1, TheCall DEF Seen
  <2> QED
    BY <1>1, <1>3, <2>1 DEF OneAtATime, Keeps
<1>6. OnePayment'
  BY <1>1, <1>4 DEF OnceInv, OnePayment, Keeps
<1>7. FeesArePaidFor'
  <2> SUFFICES ASSUME NEW j \in OursOf({"fee"})'
               PROVE  \E k \in TxIds : /\ Is(k, "confirmed") /\ txs[k].kind = "swap"
                                       /\ txs[k].pays = txs'[j].pays
    BY <1>1 DEF FeesArePaidFor, Grows, Is
  <2>1. CASE j \in OursOf({"fee"}) /\ txs'[j] = txs[j]
    BY <2>1 DEF OnceInv, FeesArePaidFor
  <2>2. CASE calls[c].at = "fee" /\ txs'[j].pays = calls[c].pays
    <3>1. calls[c].tx \in TxIds
      BY <1>1, <2>2 DEF PaymentsTypeOK, NetTypeOK, ShapeInv, CallsFit, Calls
    <3>2. /\ Is(calls[c].tx, "confirmed") /\ txs[calls[c].tx].kind = "swap"
          /\ txs[calls[c].tx].pays = txs'[j].pays
      BY <1>1, <2>2, <3>1, TransactionsAssumption DEF ShapeInv, CallsFit, Is
    <3> QED
      BY <3>1, <3>2
  <2> QED
    BY <1>3, <2>1, <2>2
<1> QED
  BY <1>5, <1>6, <1>7 DEF OnceInv

\* A call that fails for sure leaves nothing that may still be paid.
LEMMA FailsOnce ==
    ASSUME SoundInv, OnceInv, NEW c \in CallIds, SignFails(c), ~SignSucceeds(c),
           calls[c].seen
    PROVE  OnceInv'
<1> USE DEF SoundInv
<1>1. /\ calls[c] # None /\ Grows /\ Keeps
      /\ signing.doubt => signing'.doubt
      /\ UNCHANGED step
      /\ \A d \in CallIds : Seen(d)' => Seen(d) /\ d # c
  BY CallEnds, EndsEffect, ReturnEffect DEF PaymentsTypeOK, Seen, SignFails
<1>2. UNCHANGED txs \/ \E i \in TxIds : Sent(c, i, "send")
  BY CallEnds
<1>3. OursOf({"fee"})' = OursOf({"fee"}) /\ \A j \in OursOf({"fee"}) : txs'[j] = txs[j]
  BY <1>1, <1>2 DEF OursOf, Grows, Sent
<1>4. OneAtATime'
  <2> SUFFICES ASSUME ~signing.doubled
               PROVE  OneAtATime'
    BY <1>1 DEF OneAtATime, Keeps
  <2>1. /\ signing.swipes = <<>> /\ OursOf({"fee"}) = {}
        /\ \A d \in CallIds \ {c} : ~Seen(d)
    BY <1>1, TheCall DEF Seen
  <2> QED
    BY <1>1, <1>3, <2>1 DEF OneAtATime, Keeps
<1>5. FeesArePaidFor'
  BY <1>1, <1>3 DEF Grows, OnceInv, FeesArePaidFor, Is
<1>6. OnePayment'
  <2> SUFFICES ASSUME ~signing.doubled, ~signing.doubt, FailsForSure(c)
               PROVE  OnePayment'
    BY <1>1, ReturnEffect DEF OnePayment, Keeps, SignFails
  <2>1. \A i \in LiveOf({"send", "swap"}) : calls[c].at # "key" /\ calls[c].tx = i
    BY <1>1, TheCall DEF Seen
  <2>2. calls[c].at # "key" => ~Live(calls[c].tx)
    BY DEF FailsForSure, Refused, At, Is, Live
  <2>3. LiveOf({"send", "swap"}) = {}
    BY <2>1, <2>2 DEF LiveOf
  <2>4. LiveOf({"send", "swap"})' = {}
    BY <2>3 DEF FailsForSure, LiveOf, Live, Is
  <2> QED
    BY <2>4 DEF OnePayment
<1> QED
  BY <1>4, <1>5, <1>6 DEF OnceInv

LEMMA CallOnce ==
    ASSUME SoundInv, OnceInv, NEW c \in CallIds, CallStep(c)
    PROVE  OnceInv'
<1> USE DEF SoundInv
<1>1. Grows /\ AddsOnlyFor(c) /\ calls[c] # None
  BY CallStepNet
<1>2. CASE calls[c].seen
  BY <1>2, GoesOnOnce, SucceedsOnce, FailsOnce DEF CallStep
<1>3. CASE ~calls[c].seen
  <2>1. UNCHANGED <<signing, step>>
    BY <1>3, ReturnEffect DEF CallStep, signVars
  <2>2. /\ \A d \in CallIds \ {c} : calls'[d] = calls[d]
        /\ calls'[c] # None => calls'[c].seen = calls[c].seen
    <3>1. CASE GoesOn(c)
      BY <3>1, CallGoesOn DEF PaymentsTypeOK, MovesTo
    <3>2. CASE SignSucceeds(c) \/ SignFails(c)
      BY <3>2, CallEnds, EndsEffect DEF PaymentsTypeOK
    <3> QED
      BY <3>1, <3>2 DEF CallStep
  <2> QED
    BY <1>1, <1>3, <2>1, <2>2, UnseenOnce
<1> QED
  BY <1>2, <1>3

LEMMA NextOnce ==
    ASSUME SoundInv, OnceInv, [Next]_vars
    PROVE  OnceInv'
<1>1. CASE UNCHANGED vars
  BY <1>1 DEF vars, netVars, signVars, OnceInv, OneAtATime, OnePayment, FeesArePaidFor,
     OursOf, LiveOf, Live, Is, Seen
<1>2. SoundInv'
  BY NextSound
<1> QED
  BY <1>1, <1>2, BlankOnce, ScreenOnce, TimerOnce, CallOnce, NetworkOnce
     DEF Next, Leave, Kill

LEMMA InitOnce ==
    ASSUME PaymentsInit
    PROVE  OnceInv
BY DEF PaymentsInit, NetInit, SignInit, NewSigning, OnceInv, OneAtATime, OnePayment,
   FeesArePaidFor, OursOf, LiveOf, Live, Is, Seen

\* No two members: at most one.
LEMMA AtMostOne ==
    ASSUME NEW S, \A i, j \in S : i = j
    PROVE  Cardinality(S) <= 1
<1>1. CASE S = {}
  BY <1>1, FS_EmptySet
<1>2. CASE S # {}
  <2>1. PICK i \in S : S = {i}
    BY <1>2
  <2>2. Cardinality(S) = 1
    BY <2>1, FS_Singleton
  <2> QED
    BY <2>2
<1> QED
  BY <1>1, <1>2

\* A visit to Send or Swap pays once, for any number of tries, of calls left
\* over from visits before and of answers out of order, unless an attempt
\* ended in doubt or a swipe came within 300 ms of another; and the fee of a
\* swap only for one that landed.
THEOREM PaysOnce == PaymentsSpec => []PaidOnce
<1>1. PaymentsInit => OnceInv
  BY InitOnce
<1>2. SoundInv /\ OnceInv /\ [Next]_vars => OnceInv'
  BY NextOnce
<1>3. OnceInv => PaidOnce
  <2> SUFFICES ASSUME OnceInv
               PROVE  PaidOnce
    OBVIOUS
  <2>1. LiveOf({"fee"}) \subseteq OursOf({"fee"})
    BY DEF LiveOf, OursOf, Live, Is
  <2>2. ~signing.doubled => Cardinality(LiveOf({"fee"})) <= 1
    <3> SUFFICES ASSUME ~signing.doubled
                 PROVE  \A i, j \in LiveOf({"fee"}) : i = j
      BY AtMostOne
    <3> QED
      BY <2>1 DEF OnceInv, OneAtATime
  <2>3. ~signing.doubt /\ ~signing.doubled => Cardinality(LiveOf({"send", "swap"})) <= 1
    BY AtMostOne DEF OnceInv, OnePayment
  <2> QED
    BY <2>1, <2>2, <2>3 DEF PaidOnce, OnceInv, FeesArePaidFor
<1> QED
  BY <1>1, <1>2, <1>3, SoundAlways, PTL DEF PaymentsSpec

-----------------------------------------------------------------------------
(* What is paid is what was shown.                                         *)

LEMMA AuthorisedKept ==
    ASSUME SoundInv, SoundInv', Authorised, [Next]_vars
    PROVE  Authorised'
<1> USE DEF SoundInv
<1>1. CASE UNCHANGED <<txs, calls, signing>>
  BY <1>1 DEF Authorised, Seen, OursOf
<1>2. CASE OpenSend \/ OpenSwap
  BY <1>1, <1>2 DEF OpenSend, OpenSwap, netVars
<1>3. CASE CloseScreen
  <2>1. signing' = NewSigning /\ route' = "home"
    BY <1>3 DEF CloseScreen
  <2>2. \A c \in CallIds : ~Seen(c)'
    BY <2>1 DEF ShapeInv, CallsFit, Seen
  <2>3. OursOf({"send", "swap"})' = {}
    BY <2>1 DEF ShapeInv, HomeIsBlank, OursOf
  <2> QED
    BY <2>1, <2>2, <2>3 DEF NewSigning, Authorised
<1>4. CASE SwipeNow
  <2>1. PICK pays \in Payments \cup Quotes \cup {None} : Swipe(pays)
    BY <1>4 DEF SwipeNow
  <2>2. /\ UNCHANGED <<txs, calls>>
        /\ signing'.swipes = Append(signing.swipes, pays)
        /\ signing'.authorised = signing.authorised \cup {pays}
    BY <2>1, SwipeEffect
  <2>3. signing.swipes \in Seq(Payments \cup Quotes \cup {None})
    BY DEF PaymentsTypeOK, SigningTypeOK
  <2>4. ASSUME NEW k \in 1 .. Len(signing'.swipes)
        PROVE  signing'.swipes[k] \in signing.authorised \cup {pays}
    <3> DEFINE S == Payments \cup Quotes \cup {None}
               s == signing.swipes
    <3>1. s \in Seq(S) /\ pays \in S /\ k \in 1 .. Len(Append(s, pays))
      BY <2>2, <2>3, <2>4
    <3> HIDE DEF S, s
    <3>2. Append(s, pays)[k] = IF k <= Len(s) THEN s[k] ELSE pays
      BY <3>1
    <3>3. k <= Len(s) => k \in 1 .. Len(s)
      BY <3>1
    <3> QED
      BY <2>2, <3>2, <3>3 DEF s, Authorised
  <2> QED
    BY <2>2, <2>4 DEF Authorised, Seen, OursOf
<1>5. CASE TimerStep
  <2>1. /\ signing.swipes # <<>> /\ UNCHANGED txs
        /\ signing'.swipes = Tail(signing.swipes)
        /\ signing'.authorised = signing.authorised
    BY <1>5, TimerEffect DEF TakesOff
  <2>2. Head(signing.swipes) \in signing.authorised
    BY <2>1, TailEffect DEF Authorised
  <2>3. \A k \in 1 .. Len(signing'.swipes) : signing'.swipes[k] \in signing'.authorised
    BY <2>1, TailEffect DEF Authorised
  <2>4. \A c \in CallIds : Seen(c)' => calls'[c].pays \in signing'.authorised
    BY <1>5, <2>1, <2>2, TimerEffect DEF Begins, Authorised, Seen
  <2> QED
    BY <2>1, <2>3, <2>4 DEF Authorised, OursOf
<1>6. ASSUME NEW c \in CallIds, CallStep(c)
      PROVE  Authorised'
  <2>1. Grows /\ AddsOnlyFor(c) /\ calls[c] # None
    BY <1>6, CallStepNet
  <2>2. signing'.swipes = signing.swipes /\ signing'.authorised = signing.authorised
    BY <1>6, ReturnEffect DEF CallStep, signVars, Keeps
  <2>3. \A d \in CallIds : Seen(d)' => Seen(d) /\ calls'[d].pays = calls[d].pays
    <3>1. CASE GoesOn(c)
      BY <2>1, <3>1, CallGoesOn DEF PaymentsTypeOK, MovesTo, Seen
    <3>2. CASE SignSucceeds(c) \/ SignFails(c)
      BY <3>2, CallEnds, EndsEffect DEF PaymentsTypeOK, Seen
    <3> QED
      BY <1>6, <3>1, <3>2 DEF CallStep
  <2>4. \A i \in OursOf({"send", "swap"})' :
          \/ i \in OursOf({"send", "swap"}) /\ txs'[i].pays = txs[i].pays
          \/ Seen(c) /\ txs'[i].pays = calls[c].pays
    BY <2>1 DEF OursOf, Grows, AddsOnlyFor, Seen
  <2> QED
    BY <2>2, <2>3, <2>4 DEF Authorised
<1>7. CASE NetworkStep
  <2>1. PICK i \in TxIds : NewStatus(i)
    BY <1>7, NetworkEffect
  <2>2. /\ UNCHANGED <<calls, signing>>
        /\ \A j \in OursOf({"send", "swap"})' :
              j \in OursOf({"send", "swap"}) /\ txs'[j].pays = txs[j].pays
    BY <2>1 DEF NewStatus, signVars, OursOf
  <2> QED
    BY <2>2 DEF Authorised, Seen
<1> QED
  BY <1>1, <1>2, <1>3, <1>4, <1>5, <1>6, <1>7, ScreenStepKinds
     DEF Next, Leave, Kill, Quiet, vars, netVars, signVars

LEMMA SendAsReviewed ==
    ASSUME SoundInv, AsReviewed, SendStep
    PROVE  AsReviewed'
<1> USE DEF SoundInv
<1>1. /\ send \in Sends /\ route = "send" /\ StepFits
      /\ step \in {"address", "biometric", "amount", "review", "pin", "sign", "complete"}
  BY DEF PaymentsTypeOK, ScreenTypeOK, Sends, ShapeInv, StepFits, SendStep
\* Steps that show another payment do not show it from the PIN on.
<1>2. CASE Ask \/ Unanswered \/ BiometricRetry \/ BiometricRefused \/ TypePin \/ PinAnswer
  BY <1>1, <1>2
     DEF Ask, Unanswered, BiometricRetry, BiometricRefused, TypePin, PinAnswer,
         Stays, signVars, Sends, AsReviewed, Shown
<1>3. CASE \/ \E a \in Addresses \cup {None} : ClearOrPick(a)
           \/ \E w \in Sums \cup {None} : SetAmount(w)
  BY <1>1, <1>3, SendOffersFacts DEF ClearOrPick, SetAmount, Stays, signVars, AsReviewed
<1>4. CASE \E a \in Addresses : Answered(a)
  BY <1>1, <1>4 DEF Answered, Stays, signVars, Sends, AsReviewed, Shown
<1>5. CASE ToBiometric \/ BiometricPassed \/ ToReview
  BY <1>1, <1>5 DEF ToBiometric, BiometricPassed, ToReview, Goes, AsReviewed
<1>6. CASE ToPin
  BY <1>1, <1>6 DEF ToPin, Goes, Sends, AsReviewed, Shown
<1>7. CASE Back
  <2>1. step \in {"biometric", "amount", "review", "pin"}
    BY <1>1, <1>7, SendOffersFacts DEF Back
  <2>2. step' \in {"address", "amount", "review"}
    BY <1>7, <2>1 DEF Back, Goes
  <2> QED
    BY <2>2 DEF AsReviewed
<1>8. CASE PinTimer
  BY <1>1, <1>8 DEF PinTimer, Goes, Sends, AsReviewed, Shown
<1>9. CASE SendSwipe
  BY <1>9 DEF SendSwipe, Swipe, AsReviewed, Shown
<1> QED
  BY <1>2, <1>3, <1>4, <1>5, <1>6, <1>7, <1>8, <1>9 DEF SendStep, SendScreenStep

LEMMA AsReviewedKept ==
    ASSUME SoundInv, SoundInv', AsReviewed, [Next]_vars
    PROVE  AsReviewed'
<1> USE DEF SoundInv
<1>1. CASE UNCHANGED vars \/ NetworkStep
  BY <1>1 DEF vars, NetworkStep, signVars, AsReviewed, Shown
<1>2. CASE OpenSend \/ OpenSwap \/ CloseScreen
  BY <1>2 DEF OpenSend, OpenSwap, CloseScreen, AsReviewed
<1>3. CASE SwapStep
  BY <1>3, SwapStepEffect, ScreenStepKinds DEF SwapSwipe, Swipe, Quiet, AsReviewed
<1>4. CASE TimerStep
  BY <1>4, TimerEffect DEF TakesOff, AsReviewed, Shown
<1>5. ASSUME NEW c \in CallIds, CallStep(c)
      PROVE  AsReviewed'
  <2>1. UNCHANGED <<route, send>> /\ (UNCHANGED step \/ step' = "complete")
    BY <1>5, CallStepNet DEF CallStep, signVars, SignSucceeds, SignFails
  <2> QED
    BY <2>1 DEF AsReviewed, Shown
<1> QED
  BY <1>1, <1>2, <1>3, <1>4, <1>5, SendAsReviewed DEF Next, Leave, Kill

LEMMA ShownAlways == PaymentsSpec => []ShownInv
<1>1. PaymentsInit => ShownInv
  BY DEF PaymentsInit, NetInit, SignInit, NewSigning, ShownInv, Authorised, AsReviewed,
     Seen, OursOf
<1>2. SoundInv /\ SoundInv' /\ ShownInv /\ [Next]_vars => ShownInv'
  BY AuthorisedKept, AsReviewedKept DEF ShownInv
<1> QED
  BY <1>1, <1>2, SoundAlways, PTL DEF PaymentsSpec

\* What is submitted was on the sign step at a swipe, and on Send it is what
\* the review showed unless an answer came since, for any payments and any
\* order of the answers.
THEOREM SendsWhatIsShown == PaymentsSpec => []SentAsShown
<1>1. SoundInv /\ ShownInv => SentAsShown
  BY DEF SoundInv, PaymentsTypeOK, NetTypeOK, Txs, ShownInv, Authorised, AsReviewed,
     OursOf, SentAsShown
<1> QED
  BY <1>1, SoundAlways, ShownAlways, PTL

-----------------------------------------------------------------------------
(* The quote is of the order, the report of the token.                     *)

LEMMA FreshSwap ==
    ASSUME NEW p, swap' = NewSwap(p)
    PROVE  QuoteInv' /\ ReportInv'
BY DEF NewSwap, QuoteInv, QuoteIsOfOrder, ReportInv

\* The parts of swap that the two invariants speak of.
LEMMA SwapSame ==
    ASSUME UNCHANGED swap, UNCHANGED step \/ (step' # "input" /\ step # "input"),
           QuoteInv, ReportInv
    PROVE  QuoteInv' /\ ReportInv'
BY DEF QuoteInv, QuoteIsOfOrder, Unsettled, Order, ReportInv

LEMMA SwapStepQuote ==
    ASSUME SoundInv, QuoteInv, SwapStep
    PROVE  QuoteInv'
<1> USE DEF SoundInv
<1>1. /\ swap \in Swaps /\ None \notin Amounts \cup Tokens /\ route = "swap"
      /\ step \in {"input", "review", "sign", "complete"} /\ StepFits
  BY SwapAssumption DEF PaymentsTypeOK, ScreenTypeOK, Swaps, Fetches, ShapeInv,
     StepFits, SwapStep
<1>2. ASSUME NEW p \in Picks, PickPair(p)
      PROVE  QuoteInv'
  <2>1. Scan(swap, p.to) \in Swaps
    BY <1>1, ScanTyped, SwapAssumption DEF Pairs
  <2>2. swap'.quote = None /\ swap'.timer
    BY <1>2, <2>1 DEF PickPair, Swaps
  <2> QED
    BY <2>2 DEF QuoteInv, QuoteIsOfOrder
<1>3. ASSUME NEW a \in Amounts \cup {None}, TypeAmount(a)
      PROVE  QuoteInv'
  <2>1. swap'.timer /\ step' = "input"
    BY <1>1, <1>3, SwapOffersFacts DEF TypeAmount, OtherVars, signVars, Swaps
  <2> QED
    BY <2>1 DEF QuoteInv, QuoteIsOfOrder, Unsettled
<1>4. CASE FetchQuote
  <2>1. /\ UNCHANGED step
        /\ Overtake(swap.fetches) \subseteq Fetches
        /\ \A f \in Overtake(swap.fetches) : ~f.latest
    BY <1>1, <1>4, OvertakeTyped DEF FetchQuote, OtherVars, signVars, Swaps
  <2>2. CASE swap.amount = None
    <3>1. swap'.quote = None /\ swap'.fetches = Overtake(swap.fetches)
      BY <1>1, <1>4, <2>2 DEF FetchQuote, Swaps
    <3> QED
      BY <2>1, <3>1 DEF QuoteInv, QuoteIsOfOrder
  <2>3. CASE swap.amount # None
    <3> DEFINE new == [order |-> Order, id |-> swap.asked + 1, latest |-> TRUE]
               fs == Overtake(swap.fetches) \cup {new}
    <3>1. swap' = [swap EXCEPT !.timer = FALSE, !.isQuoting = TRUE, !.asked = @ + 1,
                               !.fetches = fs]
      BY <1>1, <1>4, <2>3 DEF FetchQuote, Swaps
    <3>2. new \in fs /\ new.order = Order /\ \A f \in fs : f = new \/ ~f.latest
      BY <2>1
    <3> HIDE DEF new, fs
    <3>3. /\ swap'.quote = swap.quote /\ swap'.suspect = swap.suspect
          /\ swap'.pair = swap.pair /\ swap'.amount = swap.amount
          /\ swap'.fetches = fs
      BY <1>1, <3>1 DEF Swaps
    <3> QED
      BY <2>1, <3>2, <3>3 DEF QuoteInv, QuoteIsOfOrder, Order, Unsettled
  <2> QED
    BY <2>2, <2>3
<1>5. ASSUME NEW f \in swap.fetches, QuoteAnswer(f)
      PROVE  QuoteInv'
  <2> DEFINE doubtful == ~f.latest \/ (swap.timer /\ ~In("input"))
  <2>1. PICK q \in {None, [order |-> f.order, id |-> f.id]} :
          swap' = [swap EXCEPT !.quote = q, !.isQuoting = FALSE,
                      !.fetches = @ \ {f}, !.suspect = doubtful]
    BY <1>5 DEF QuoteAnswer
  <2>2. UNCHANGED step /\ doubtful \in BOOLEAN
    BY <1>5 DEF QuoteAnswer, OtherVars, signVars
  <2>3. ~doubtful /\ f.order # Order => swap.timer /\ step = "input"
    BY <1>1, <1>5 DEF QuoteInv, In, Swaps, Fetches
  <2>4. q = None \/ q.order = f.order
    OBVIOUS
  <2> HIDE DEF doubtful
  <2>5. /\ swap'.quote = q /\ swap'.suspect = doubtful
        /\ swap'.pair = swap.pair /\ swap'.amount = swap.amount
        /\ swap'.fetches = swap.fetches \ {f} /\ swap'.timer = swap.timer
    BY <1>1, <2>1, <2>2 DEF Swaps
  <2> QED
    BY <2>2, <2>3, <2>4, <2>5 DEF QuoteInv, QuoteIsOfOrder, Order, Unsettled
<1>6. CASE ToSwapReview
  <2>1. (swap.suspect \/ Unsettled) \in BOOLEAN
    BY <1>1 DEF Swaps, Unsettled
  <2>2. /\ swap'.suspect = (swap.suspect \/ Unsettled)
        /\ swap'.quote = swap.quote /\ swap'.pair = swap.pair
        /\ swap'.amount = swap.amount /\ swap'.fetches = swap.fetches
        /\ swap'.timer = swap.timer
    BY <1>1, <1>6, <2>1 DEF ToSwapReview, Swaps
  <2> QED
    BY <2>2 DEF QuoteInv, QuoteIsOfOrder, Order
<1>7. CASE \/ \E t \in swap.scans : ScanAnswer(t)
           \/ PromptAnswer \/ ToSwapSign \/ CloseModal \/ SwapReviewBack \/ SwapSwipe
  <2>1. /\ swap'.suspect = swap.suspect /\ swap'.quote = swap.quote
        /\ swap'.pair = swap.pair /\ swap'.amount = swap.amount
        /\ swap'.fetches = swap.fetches /\ swap'.timer = swap.timer
    BY <1>1, <1>7, ZenonT(60)
       DEF ScanAnswer, PromptAnswer, ToSwapSign, CloseModal, SwapReviewBack, SwapSwipe,
           WithoutReport, Swaps
  <2>2. UNCHANGED step \/ step # "input"
    BY <1>1, <1>7, SwapOffersFacts
       DEF ScanAnswer, PromptAnswer, ToSwapSign, CloseModal, SwapReviewBack, SwapSwipe,
           Swipe, OtherVars, signVars
  <2> QED
    BY <2>1, <2>2 DEF QuoteInv, QuoteIsOfOrder, Order, Unsettled
<1> QED
  BY <1>2, <1>3, <1>4, <1>5, <1>6, <1>7 DEF SwapStep, SwapScreenStep

LEMMA SwapStepReport ==
    ASSUME SoundInv, ReportInv, SwapStep
    PROVE  ReportInv'
<1> USE DEF SoundInv
<1>1. swap \in Swaps /\ None \notin Tokens
  BY SwapAssumption DEF PaymentsTypeOK, ScreenTypeOK, Swaps, Fetches
<1>2. ASSUME NEW p \in Picks, PickPair(p)
      PROVE  ReportInv'
  <2>1. p.to \in Tokens /\ Scan(swap, p.to) \in Swaps
    BY <1>1, ScanTyped, SwapAssumption DEF Pairs
  <2>2. /\ swap'.pair = p
        /\ \A x \in {"report", "isScanning", "scans"} :
              swap'[x] = Scan(swap, p.to)[x]
    BY <1>2, <2>1 DEF PickPair, Swaps
  <2>3. \/ p.to = swap.pair.to /\ Scan(swap, p.to) = swap
        \/ /\ p.to \in SafeTokens
           /\ Scan(swap, p.to) = [swap EXCEPT !.report = p.to, !.scans = {}]
        \/ Scan(swap, p.to) = [swap EXCEPT !.isScanning = TRUE, !.scans = {p.to}]
    BY DEF Scan
  <2>4. \/ /\ p.to = swap.pair.to /\ swap'.report = swap.report
           /\ swap'.isScanning = swap.isScanning /\ swap'.scans = swap.scans
        \/ p.to \in SafeTokens /\ swap'.report = p.to /\ swap'.scans = {}
        \/ swap'.isScanning /\ swap'.scans = {p.to}
    <3>1. CASE Scan(swap, p.to) = swap /\ p.to = swap.pair.to
      BY <2>2, <3>1
    <3>2. CASE /\ p.to \in SafeTokens
               /\ Scan(swap, p.to) = [swap EXCEPT !.report = p.to, !.scans = {}]
      BY <1>1, <2>2, <3>2 DEF Swaps
    <3>3. CASE Scan(swap, p.to) = [swap EXCEPT !.isScanning = TRUE, !.scans = {p.to}]
      BY <1>1, <2>2, <3>3 DEF Swaps
    <3> QED
      BY <2>3, <3>1, <3>2, <3>3
  <2> QED
    BY <2>2, <2>4 DEF ReportInv
<1>3. CASE \E t \in swap.scans : ScanAnswer(t)
  BY <1>1, <1>3 DEF ScanAnswer, ReportInv, Swaps
<1> DEFINE Same4 == /\ swap'.pair = swap.pair /\ swap'.report = swap.report
                    /\ swap'.isScanning = swap.isScanning /\ swap'.scans = swap.scans
<1>4. Same4 => ReportInv'
  BY DEF ReportInv
<1>5. CASE ToSwapReview \/ SwapReviewBack \/ ToSwapSign \/ PromptAnswer \/ CloseModal
  <2>1. Same4
    BY <1>1, <1>5
       DEF ToSwapReview, SwapReviewBack, ToSwapSign, PromptAnswer, CloseModal, Swaps
  <2> QED
    BY <1>4, <2>1
<1>6. CASE FetchQuote \/ \E a \in Amounts \cup {None} : TypeAmount(a)
  <2>1. Same4
    BY <1>1, <1>6 DEF TypeAmount, FetchQuote, Swaps
  <2> QED
    BY <1>4, <2>1
<1>7. CASE \E f \in swap.fetches : QuoteAnswer(f)
  <2>1. Same4
    BY <1>1, <1>7 DEF QuoteAnswer, Swaps
  <2> QED
    BY <1>4, <2>1
<1>8. CASE SwapSwipe
  BY <1>1, <1>8 DEF SwapSwipe, WithoutReport, ReportInv, Swaps
<1> QED
  BY <1>2, <1>3, <1>5, <1>6, <1>7, <1>8 DEF SwapStep, SwapScreenStep

LEMMA NextQuoteReport ==
    ASSUME SoundInv, SoundInv', QuoteInv, ReportInv, [Next]_vars
    PROVE  QuoteInv' /\ ReportInv'
<1> USE DEF SoundInv
<1>1. CASE route' # "swap"
  BY <1>1, FreshSwap DEF ShapeInv, FlagsFit
<1>2. CASE OpenSwap
  <2>1. PICK p \in Pairs : swap = NewSwap(p)
    BY <1>2 DEF OpenSwap, Home, ShapeInv, FlagsFit
  <2> QED
    BY <1>2, <2>1, FreshSwap DEF OpenSwap
<1>3. CASE UNCHANGED vars \/ TimerStep \/ NetworkStep
  <2>1. UNCHANGED <<step, swap>>
    BY <1>3, TimerEffect DEF vars, NetworkStep, signVars, TakesOff
  <2> QED
    BY <2>1, SwapSame
<1>4. CASE OpenSend \/ SendStep \/ CloseScreen
  BY <1>1, <1>4, SendStepEffect, ScreenStepKinds
     DEF OpenSend, CloseScreen, SendSwipe, Swipe, Quiet, SwipeNow
<1>5. ASSUME NEW c \in CallIds, CallStep(c)
      PROVE  QuoteInv' /\ ReportInv'
  <2>1. UNCHANGED swap /\ calls[c] # None
    BY <1>5, CallStepNet
  <2>2. UNCHANGED step \/ (calls[c].seen /\ step' = "complete")
    BY <1>5, ReturnEffect DEF CallStep, signVars, SignSucceeds, SignFails
  <2>3. calls[c].seen => step # "input"
    BY <2>1 DEF ShapeInv, FlagsFit, Busy, Seen
  <2> QED
    BY <2>1, <2>2, <2>3, SwapSame
<1> QED
  BY <1>2, <1>3, <1>4, <1>5, SwapStepQuote, SwapStepReport DEF Next, Leave, Kill

LEMMA InitQuoteReport ==
    ASSUME PaymentsInit
    PROVE  QuoteInv /\ ReportInv
<1>1. PICK p \in Pairs : swap = NewSwap(p)
  BY SwapAssumption DEF PaymentsInit
<1> QED
  BY <1>1 DEF NewSwap, QuoteInv, QuoteIsOfOrder, ReportInv

\* The quote that is reviewed and signed is of the pair and the amount on the
\* screen, for any number of fetches that overtake each other, but for the
\* two cases that the screen does not rule out.
THEOREM QuotesFit == PaymentsSpec => []QuoteIsOfOrder
<1>1. PaymentsInit => QuoteInv /\ ReportInv
  BY InitQuoteReport
<1>2. SoundInv /\ SoundInv' /\ QuoteInv /\ ReportInv /\ [Next]_vars => QuoteInv' /\ ReportInv'
  BY NextQuoteReport
<1>3. QuoteInv => QuoteIsOfOrder
  BY DEF QuoteInv
<1> QED
  BY <1>1, <1>2, <1>3, SoundAlways, PTL DEF PaymentsSpec

\* The safety report on the screen is of the token received, for any tokens
\* and any scan that is still under way when another token is picked, but
\* for a review that does not wait for the scan.
THEOREM ReportsFit == PaymentsSpec => []ReportIsOfToken
<1>1. PaymentsInit => QuoteInv /\ ReportInv
  BY InitQuoteReport
<1>2. SoundInv /\ SoundInv' /\ QuoteInv /\ ReportInv /\ [Next]_vars => QuoteInv' /\ ReportInv'
  BY NextQuoteReport
<1>3. SoundInv /\ ReportInv => ReportIsOfToken
  BY DEF ReportInv, ReportIsOfToken, ReportShown, In
<1> QED
  BY <1>1, <1>2, <1>3, SoundAlways, PTL DEF PaymentsSpec

-----------------------------------------------------------------------------
(* What is shown as complete is paid.                                      *)

LEMMA CallCompletes ==
    ASSUME SoundInv, ShownInv, NEW c \in CallIds, CallStep(c)
    PROVE  /\ step' = "complete" /\ step # "complete" =>
                 \E i \in TxIds :
                     /\ Is(i, "processed") \/ Is(i, "confirmed")
                     /\ txs[i].kind # "fee" /\ txs[i].pays \in signing.authorised
           /\ \A a \in recents' \ recents : \E i \in TxIds :
                 /\ Is(i, "processed") \/ Is(i, "confirmed")
                 /\ txs[i].kind = "send" /\ txs[i].pays.to = a
<1> USE DEF SoundInv
<1>1. CASE ~SignSucceeds(c)
  BY <1>1 DEF CallStep, signVars, SignFails
<1>2. CASE SignSucceeds(c)
  <2>1. /\ calls[c] # None
        /\ Is(calls[c].tx, "processed") \/ Is(calls[c].tx, "confirmed")
    BY <1>2, CallEnds
  <2>2. calls[c].tx \in TxIds /\ calls[c].at \in Places
    BY <2>1 DEF PaymentsTypeOK, NetTypeOK, Calls, Is
  <2>3. /\ txs[calls[c].tx].kind # "fee"
        /\ txs[calls[c].tx].pays = calls[c].pays
    <3>1. calls[c].tx # None
      BY <2>1 DEF Is
    <3> QED
      BY <2>1, <2>2, <3>1 DEF ShapeInv, CallsFit, Places
  <2>4. ASSUME step' = "complete", step # "complete"
        PROVE  txs[calls[c].tx].pays \in signing.authorised
    <3>1. Seen(c)
      BY <1>2, <2>1, <2>4 DEF SignSucceeds, Seen
    <3> QED
      BY <2>3, <3>1 DEF ShownInv, Authorised
  <2>5. ASSUME NEW a \in recents' \ recents
        PROVE  txs[calls[c].tx].kind = "send" /\ txs[calls[c].tx].pays.to = a
    <3>1. calls[c].pays \in Payable /\ a = calls[c].pays.to
      BY <2>5 DEF CallStep, SaveRecent
    <3>2. calls[c].pays \notin Quotes
      BY <3>1, TransactionsAssumption DEF Payments
    <3>3. calls[c].at = "poll"
      BY <2>1, <2>2, <3>2, TransactionsAssumption DEF ShapeInv, CallsFit, Places
    <3> QED
      BY <2>1, <3>1, <3>3 DEF ShapeInv, CallsFit
  <2> QED
    BY <2>1, <2>2, <2>3, <2>4, <2>5
<1> QED
  BY <1>1, <1>2

\* "Complete" is shown only for a payment of this visit, and a recipient
\* remembered only for a payment to it, that the network had taken up at that
\* moment, for any number of calls, those of earlier visits included.
THEOREM CompletesPaid == PaymentsSpec => CompleteMeansPaid
<1>1. ASSUME SoundInv, ShownInv, [Next]_vars
      PROVE  [/\ step' = "complete" /\ step # "complete" =>
                   \E i \in TxIds :
                       /\ Is(i, "processed") \/ Is(i, "confirmed")
                       /\ txs[i].kind # "fee" /\ txs[i].pays \in signing.authorised
              /\ \A a \in recents' \ recents : \E i \in TxIds :
                   /\ Is(i, "processed") \/ Is(i, "confirmed")
                   /\ txs[i].kind = "send" /\ txs[i].pays.to = a]_vars
  <2>1. CASE \E c \in CallIds : CallStep(c)
    BY <1>1, <2>1, CallCompletes
  <2>2. CASE ~\E c \in CallIds : CallStep(c)
    <3>1. UNCHANGED vars \/ (UNCHANGED recents /\ (UNCHANGED step \/ step' # "complete"))
      BY <1>1, <2>2, ScreenStepKinds, TimerEffect
         DEF SoundInv, Next, OpenSend, OpenSwap, Leave, Kill, CloseScreen, Quiet, SwipeNow,
             Swipe, TakesOff, NetworkStep, signVars
    <3> QED
      BY <3>1
  <2> QED
    BY <2>1, <2>2
<1> QED
  BY <1>1, SoundAlways, ShownAlways, PTL DEF PaymentsSpec, CompleteMeansPaid

=============================================================================
