-------------------------------- MODULE Send --------------------------------
(***************************************************************************)
(* The Send screen (components/transaction/Send.tsx): recipient,           *)
(* biometrics, amount, review, PIN, swipe.  A paste or a scan, biometrics  *)
(* and the check of the PIN are answered later, and their answers set the  *)
(* recipient or the step whatever the screen shows by then.                *)
(*                                                                         *)
(* Abstractions: amount and asset are one value; the six digits of a PIN   *)
(* are typed in one step, once at a time, and until they are checked       *)
(* nobody goes back further than to the review; one paste or scan is       *)
(* unanswered at a time; isPrivate has no effect in the code.              *)
(***************************************************************************)
EXTENDS Signing

CONSTANTS Addresses,       \* what can be pasted or scanned as a recipient
          ValidAddresses,  \* isValidAddress
          Sums             \* amounts of an asset

ASSUME SendAssumption ==
    /\ ValidAddresses \subseteq Addresses
    /\ Payable = [to : ValidAddresses, what : Sums]
    /\ Payments = [to : Addresses \cup {None}, what : Sums \cup {None}]
    /\ None \notin Addresses \cup Sums

VARIABLES
    send,    \* the state of the screen
    recents  \* coldstar_recent_addresses

\* asking: a paste or a scan is not answered; reviewed: what the
\* review showed when Sign was pressed; late: an answer changed it since,
\* or the timer of the PIN took the screen from the review.
NewSend == [to |-> None, what |-> None, asking |-> FALSE, authenticating |-> FALSE,
            pinCheck |-> "no", reviewed |-> None, late |-> FALSE]

SendInit == send = NewSend /\ recents = {}

Shown == [to |-> send.to, what |-> send.what]

-----------------------------------------------------------------------------
(* What the steps of the screen offer; "paste" stands for the scanner, too.*)

AddressOffers ==
    {"home", "paste"} \cup IF send.to = None THEN {"recent"} ELSE {"clear", "continue"}

BiometricOffers == {"back"} \cup IF send.authenticating THEN {} ELSE {"prompt"}

AmountOffers ==
    {"back", "amount", "paste"} \cup IF send.what = None THEN {} ELSE {"review"}

\* The arrow is not pressed while the PIN is checked (see above).
ReviewOffers == {"sign"} \cup IF send.pinCheck = "no" THEN {"back"} ELSE {}

PinOffers == {"back"} \cup IF send.pinCheck = "no" THEN {"digits"} ELSE {}

SendSignOffers == IF signing.isSigning THEN {} ELSE {"swipe"}

CompleteOffers == {"home"}

SendOffers ==
    IF route # "send" THEN {}
    ELSE CASE step = "address" -> AddressOffers
           [] step = "biometric" -> BiometricOffers
           [] step = "amount" -> AmountOffers
           [] step = "review" -> ReviewOffers
           [] step = "pin" -> PinOffers
           [] step = "sign" -> SendSignOffers
           [] step = "complete" -> CompleteOffers

-----------------------------------------------------------------------------
(* Their handlers, and the answers that come later.                        *)

Goes(s) == step' = s /\ UNCHANGED route

Same == UNCHANGED <<netVars, signing, recents>>

Stays == UNCHANGED <<signVars, netVars, recents>>

\* handlePaste and handleQRScan, and their answers: a pasted text is taken
\* as it is, a code only if it is an address; nothing if refused.
Ask ==
    /\ "paste" \in SendOffers
    /\ ~send.asking
    /\ send' = [send EXCEPT !.asking = TRUE]
    /\ Stays

Answered(a) ==
    /\ send.asking
    /\ send' = [send EXCEPT !.asking = FALSE, !.to = a,
                            !.late = @ \/ step \in {"pin", "sign"}]
    /\ Stays

Unanswered ==
    /\ send.asking
    /\ send' = [send EXCEPT !.asking = FALSE]
    /\ Stays

\* The recent addresses are offered on every step.
ClearOrPickAnywhere(a) ==
    /\ route = "send"
    /\ \/ send.to # None /\ a = None
       \/ a \in recents
    /\ send' = [send EXCEPT !.to = a]
    /\ Stays

\* The cross, and the recent addresses.
ClearOrPick(a) ==
    /\ \/ "clear" \in SendOffers /\ a = None
       \/ "recent" \in SendOffers /\ a \in recents
    /\ send' = [send EXCEPT !.to = a]
    /\ Stays

\* Continue; the effect of the step triggers biometrics.
ToBiometric ==
    /\ "continue" \in SendOffers
    /\ Goes("biometric")
    /\ send' = [send EXCEPT !.authenticating = TRUE]
    /\ Same

BiometricRetry ==
    /\ "prompt" \in SendOffers
    /\ send' = [send EXCEPT !.authenticating = TRUE]
    /\ Stays

\* No biometrics, or passed: on to the amount, also from the address step.
BiometricPassed ==
    /\ send.authenticating
    /\ Goes("amount")
    /\ send' = [send EXCEPT !.authenticating = FALSE]
    /\ Same

BiometricRefused ==
    /\ send.authenticating
    /\ send' = [send EXCEPT !.authenticating = FALSE]
    /\ Stays

\* The keypad, the percentages, and the choice of another asset.
SetAmount(w) ==
    /\ "amount" \in SendOffers
    /\ send' = [send EXCEPT !.what = w]
    /\ Stays

\* handleReview.
ToReview ==
    /\ "review" \in SendOffers
    /\ send.to # None
    /\ Goes("review")
    /\ UNCHANGED send
    /\ Same

\* handleSign.
ToPin ==
    /\ "sign" \in SendOffers
    /\ Goes("pin")
    /\ send' = [send EXCEPT !.reviewed = Shown, !.late = FALSE]
    /\ Same

\* The arrows back.
Back ==
    /\ "back" \in SendOffers
    /\ Goes(CASE step \in {"biometric", "amount"} -> "address"
              [] step = "review" -> "amount"
              [] step = "pin" -> "review")
    /\ send' = [send EXCEPT !.reviewed = None, !.late = FALSE]
    /\ Same

\* handlePinDigit: the sixth digit, verifyPin, and the timer of 300 ms.
TypePin ==
    /\ "digits" \in SendOffers
    /\ send' = [send EXCEPT !.pinCheck = "checking"]
    /\ Stays

PinAnswer ==
    /\ send.pinCheck = "checking"
    /\ \E p \in {"right", "no"} : send' = [send EXCEPT !.pinCheck = p]
    /\ Stays

PinTimer ==
    /\ send.pinCheck = "right"
    /\ Goes("sign")
    /\ send' = [send EXCEPT !.pinCheck = "no", !.late = @ \/ step # "pin"]
    /\ Same

\* The swipe is offered while a call is under way.
SendSwipeAnyTime ==
    /\ route = "send" /\ step = "sign"
    /\ Swipe(Shown)
    /\ UNCHANGED <<send, recents>>

SendSwipe ==
    /\ "swipe" \in SendOffers
    /\ Swipe(Shown)
    /\ UNCHANGED <<send, recents>>

SendScreenStep ==
    \/ Ask
    \/ Unanswered
    \/ \E a \in Addresses : Answered(a)
    \/ \E a \in Addresses \cup {None} : ClearOrPick(a)
    \/ ToBiometric
    \/ BiometricRetry
    \/ BiometricPassed
    \/ BiometricRefused
    \/ \E w \in Sums \cup {None} : SetAmount(w)
    \/ ToReview
    \/ ToPin
    \/ Back
    \/ TypePin
    \/ PinAnswer
    \/ PinTimer
    \/ SendSwipe

\* saveRecentAddress, whether or not the screen is still there.
SaveRecent(pays) ==
    recents' = IF pays \in Payable THEN recents \cup {pays.to} ELSE recents

=============================================================================
