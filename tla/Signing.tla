------------------------------ MODULE Signing ------------------------------
(***************************************************************************)
(* What Send and Swap have in common: the swipe of SwipeButton, whose      *)
(* callback runs 300 ms later with what was on the screen at the swipe,    *)
(* and handleCompleteSigning around a call of Transactions.                *)
(*                                                                         *)
(* Abstraction: the 300 ms of a swipe are over before the screen is left.  *)
(***************************************************************************)
EXTENDS Transactions, Sequences

CONSTANT MaxSwipes    \* bound: swipes in a visit to a screen

ASSUME SigningAssumption == MaxSwipes \in Nat

VARIABLES
    route,   \* the screen that is open: "home", "send" or "swap"
    step,    \* its step
    signing  \* isSigning, the swipes that wait, and the history of the visit

signVars == <<route, step, signing>>

\* authorised: what was shown at a swipe; doubled: a swipe came before the
\* timer of another; doubt: an attempt ended without a definite answer.
NewSigning == [swipes |-> <<>>, isSigning |-> FALSE, attempts |-> 0,
               authorised |-> {}, doubled |-> FALSE, doubt |-> FALSE]

Steps == {"none", "address", "biometric", "amount", "review", "pin", "sign",
          "complete", "input"}

SignInit ==
    /\ route = "home"
    /\ step = "none"
    /\ signing = NewSigning

\* Dragging is not disabled once it is complete, only the keyboard is.
Swipe(pays) ==
    /\ signing.attempts < MaxSwipes
    /\ signing' = [signing EXCEPT
                     !.swipes = Append(@, pays),
                     !.attempts = @ + 1,
                     !.authorised = @ \cup {pays},
                     !.doubled = @ \/ signing.swipes # <<>>]
    /\ UNCHANGED <<netVars, route, step>>

\* The timer: handleCompleteSigning begins, on Swap only if it has a quote.
Start(pays) ==
    /\ signing.swipes # <<>>
    /\ Begin(pays)
    /\ signing' = [signing EXCEPT !.swipes = Tail(@), !.isSigning = TRUE]
    /\ UNCHANGED <<txs, route, step>>

NothingToStart ==
    /\ signing.swipes # <<>>
    /\ Head(signing.swipes) = None
    /\ signing' = [signing EXCEPT !.swipes = Tail(@)]
    /\ UNCHANGED <<netVars, route, step>>

SwipeTimerUnguarded == Start(Head(signing.swipes))

SwipeTimer ==
    \/ /\ signing.swipes # <<>>
       /\ Head(signing.swipes) # None
       /\ Start(Head(signing.swipes))
    \/ NothingToStart

\* The call returns; a screen that is gone takes no notice.
SignSucceeds(c) ==
    /\ Succeeds(c)
    /\ IF calls[c].seen
       THEN step' = "complete" /\ signing' = [signing EXCEPT !.isSigning = FALSE]
       ELSE UNCHANGED <<step, signing>>
    /\ UNCHANGED route

SignFailsStillBusy(c) ==
    /\ FailsForSure(c) \/ FailsInDoubt(c)
    /\ UNCHANGED signVars

SignFails(c) ==
    /\ \/ FailsForSure(c) /\ signing' =
            IF calls[c].seen THEN [signing EXCEPT !.isSigning = FALSE] ELSE signing
       \/ FailsInDoubt(c) /\ signing' =
            IF calls[c].seen THEN [signing EXCEPT !.isSigning = FALSE, !.doubt = TRUE]
            ELSE signing
    /\ UNCHANGED <<route, step>>

=============================================================================
