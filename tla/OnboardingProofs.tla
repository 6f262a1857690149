-------------------------- MODULE OnboardingProofs --------------------------
(***************************************************************************)
(* What the onboarding of wallets guarantees, for any number of wallets,   *)
(* PINs, drives and calls.                                                 *)
(*                                                                         *)
(* PinOpensKey is not inductive: the hash is that of the call's PIN        *)
(* (CallsSealed), which PinSetup took from the session (HandedOver), whose *)
(* two halves fit only because nothing else of the onboarding is under way *)
(* between the flash and the registration (OneAtATime, InStep).  A timer   *)
(* that changes the phase late finds no PIN of a flash any more.           *)
(*                                                                         *)
(* That nothing outlives its wallet, but for what its removal leaves, rests*)
(* on the order of the calls (CallsOrder): a wallet that a call is about   *)
(* has its metadata from the moment the call stores its first secret, which*)
(* waits for a removal of before; the drawer cannot name the wallet that is*)
(* being created, and is not open during a registration.                   *)
(***************************************************************************)
EXTENDS Onboarding, TLAPS

Quiet == calls = {} /\ ~navTimer

AtSetup == screen = "pin-setup" /\ ~initialising

CallsSealed == \A c \in calls : c.pin = sealedBy[c.wallet]

HandedOver ==
    /\ screen = "complete" \/ initialising =>
          /\ flashPubkey # None
          /\ flashPin # None
          /\ flashPin = sealedBy[flashPubkey]
    /\ flashPubkey # None /\ AtSetup =>
          /\ phase = "biometric"
          /\ authenticating # "finalizing"
          /\ savedPin = sealedBy[flashPubkey]

\* With biometrics PinSetup never shows its pad: a flash hands over its PIN.
InStep ==
    /\ initialising => screen = "pin-setup" /\ phase = "pin-enter" /\ pinTimers = 0
    /\ authenticating # "no" => AtSetup /\ phase = "biometric"
    /\ pinTimers # 0 => AtSetup /\ ~biometric /\ savedPin # None
    /\ AtSetup /\ phase \in {"pin-enter", "pin-confirm"} => ~biometric
    /\ AtSetup /\ phase \in {"pin-confirm", "biometric"} => savedPin # None
    /\ AtSetup /\ phase = "biometric" => biometric

OneAtATime ==
    /\ screen = "complete" \/ initialising => Quiet
    /\ AtSetup /\ biometric /\ phase # "done" /\ authenticating # "finalizing"
          => Quiet
    /\ AtSetup /\ biometric /\ phase # "done" /\ authenticating = "finalizing"
          => ~navTimer /\ \A b, c \in calls : b = c /\ b.seen
    /\ \A c \in calls : c.by = "startup" =>
          screen = "startup" /\ c.seen /\ ~navTimer /\ calls = {c}

-----------------------------------------------------------------------------
(* Types.                                                                  *)

\* A call that is begun is a call.
LEMMA CallsAreCalls ==
    ASSUME NEW op \in {"register", "create"}, NEW by \in Callers,
           NEW w \in Wallets, NEW p \in Pins,
           NEW at \in {"write", "queued", "store"}
    PROVE  [op |-> op, by |-> by, wallet |-> w, pin |-> p, seen |-> TRUE,
            at |-> at] \in Calls
BY DEF Calls

\* A call that is not seen any more is one still.
LEMMA UnseenCallsAreCalls ==
    ASSUME NEW c \in Calls
    PROVE  [c EXCEPT !.seen = FALSE] \in Calls
BY DEF Calls

\* What Finalize leaves is well typed.
LEMMA FinalizeTypes ==
    ASSUME OnboardingTypeOK, NEW p \in Pins, Finalize(p)
    PROVE  StoreTypeOK' /\ flashPubkey' \in Wallets \cup {None}
<1> USE StoreAssumption DEF OnboardingTypeOK, StoreTypeOK, ScreenTypeOK
<1>1. "setup" \in Callers
  BY DEF Callers
<1>2. InLine(calls) \in {"queued", "store"}
  BY DEF InLine
<1>3. CASE flashPubkey # None
  <2>1. [op |-> "register", by |-> "setup", wallet |-> flashPubkey, pin |-> p,
         seen |-> TRUE, at |-> InLine(calls)] \in Calls
    BY <1>1, <1>2, <1>3, CallsAreCalls
  <2>2. calls' \in SUBSET Calls
    BY <1>3, <2>1 DEF Finalize, BeginRegister
  <2> QED
    BY <1>3, <2>2 DEF Finalize, BeginRegister, driveVars, removalVars
<1>4. CASE flashPubkey = None
  <2>1. PICK w \in Wallets :
          /\ sealedBy' = [sealedBy EXCEPT ![w] = p]
          /\ calls' = calls \cup {[op |-> "create", by |-> "setup", wallet |-> w,
                                  pin |-> p, seen |-> TRUE, at |-> "write"]}
    BY <1>4 DEF Finalize, BeginCreate
  <2>2. [op |-> "create", by |-> "setup", wallet |-> w, pin |-> p,
         seen |-> TRUE, at |-> "write"] \in Calls
    BY <1>1, CallsAreCalls
  <2>3. calls' \in SUBSET Calls /\ sealedBy' \in [Wallets -> Pins \cup {None}]
    BY <2>1, <2>2
  <2> QED
    BY <1>4, <2>3 DEF Finalize, BeginCreate, phoneVars, removalVars
<1> HIDE DEF OnboardingTypeOK, StoreTypeOK, ScreenTypeOK
<1> QED
  BY <1>3, <1>4

\* A step of a screen keeps the types.
LEMMA ScreenStepTypes ==
    ASSUME OnboardingTypeOK, InStep, ScreenStep
    PROVE  OnboardingTypeOK'
<1> USE StoreAssumption
    DEF OnboardingTypeOK, StoreTypeOK, ScreenTypeOK, Screens, Phases,
        storeVars, phoneVars, removalVars, driveVars, sessionVars, setupVars
<1>1. CASE Start
  BY <1>1 DEF Start, Migrate, MigrateIf, PublicKey
<1>2. CASE Unlock
  BY <1>2 DEF Unlock, EnterHome, Seeded, PublicKey
<1>3. ASSUME NEW p \in Pins, UnlockExisting(p)
      PROVE  OnboardingTypeOK'
  <2>1. key[inserted] \in Wallets
    BY <1>3 DEF UnlockExisting, Opens, Generated
  <2>2. InLine(calls) \in {"queued", "store"} /\ "startup" \in Callers
    BY DEF InLine, Callers
  <2> QED
    <3>1. [op |-> "register", by |-> "startup", wallet |-> key[inserted],
           pin |-> p, seen |-> TRUE, at |-> InLine(calls)] \in Calls
      BY <2>1, <2>2, CallsAreCalls
    <3>2. calls' \in SUBSET Calls
      BY <1>3, <3>1 DEF UnlockExisting, BeginRegister
    <3>3. StoreTypeOK'
      BY <1>3, <2>1, <3>2 DEF UnlockExisting, BeginRegister
    <3>4. ScreenTypeOK'
      BY <1>3 DEF UnlockExisting
    <3> QED
      BY <3>3, <3>4
<1>4. ASSUME NEW p \in Pins, FlashNew(p)
      PROVE  OnboardingTypeOK'
  <2>1. StoreTypeOK'
    <3>1. PICK w \in Wallets :
            /\ key' = [key EXCEPT ![inserted] = w]
            /\ sealedBy' = [sealedBy EXCEPT ![w] = p]
            /\ registry' = Seeded(active, meta) \cup {w}
      BY <1>4 DEF FlashNew
    <3>2. Seeded(active, meta) \subseteq Wallets
      BY DEF Seeded
    <3> QED
      BY <1>4, <3>1, <3>2 DEF FlashNew
  <2>2. ScreenTypeOK'
    <3> HIDE DEF StoreTypeOK
    <3> QED
      BY <1>4 DEF FlashNew, HandOver, Seeded
  <2> QED
    BY <2>1, <2>2
<1>5. ASSUME NEW p \in Pins, FlashFails(p)
      PROVE  OnboardingTypeOK'
  BY <1>5 DEF FlashFails
<1>6. CASE Continue
  BY <1>6, OnboardingAssumption DEF Continue, PinSetupState
<1>7. CASE InitSetup
  <2>0. UNCHANGED <<screen, creatingNew, pinTimers, navTimer, biometric, legacy,
                    shownKey, setupFailed>>
    BY <1>7 DEF InitSetup
  <2>1. CASE flashPin # None /\ ~biometric
    <3>1. flashPin \in Pins /\ Finalize(flashPin)
      BY <1>7, <2>1 DEF InitSetup
    <3>2. StoreTypeOK' /\ flashPubkey' \in Wallets \cup {None}
      <4> HIDE DEF OnboardingTypeOK, StoreTypeOK, ScreenTypeOK
      <4> QED
        BY <3>1, FinalizeTypes
    <3>3. ScreenTypeOK'
      BY <1>7, <2>0, <2>1, <3>2 DEF InitSetup
    <3> QED
      BY <3>2, <3>3
  <2>2. CASE flashPin = None \/ biometric
    <3>1. StoreTypeOK'
      BY <1>7, <2>2 DEF InitSetup
    <3>2. /\ savedPin' \in {savedPin, flashPin}
          /\ phase' \in {phase, "biometric"}
          /\ authenticating' \in {authenticating, "prompt"}
          /\ flashPubkey' = flashPubkey
          /\ initialising' = FALSE /\ flashPin' = None
      BY <1>7, <2>2 DEF InitSetup
    <3>3. savedPin' \in Pins \cup {None} /\ phase' \in Phases
      BY <3>2
    <3>4. authenticating' \in {"no", "prompt", "finalizing"}
      BY <3>2
    <3>5. initialising' \in BOOLEAN /\ flashPin' \in Pins \cup {None}
      BY <3>2
    <3>6. ScreenTypeOK'
      BY <2>0, <3>2, <3>3, <3>4, <3>5
    <3> QED
      BY <3>1, <3>6
  <2> QED
    BY <2>1, <2>2
<1>8. ASSUME NEW p \in Pins, EnterPin(p)
      PROVE  OnboardingTypeOK'
  <2>1. pinTimers' \in 0 .. MaxPinTimers
    BY <1>8, OnboardingAssumption DEF EnterPin
  <2> QED
    BY <1>8, <2>1 DEF EnterPin
<1>18. CASE PinTimer
  <2>1. pinTimers' \in 0 .. MaxPinTimers
    BY <1>18, OnboardingAssumption DEF PinTimer
  <2> QED
    BY <1>18, <2>1 DEF PinTimer
<1>9. CASE ConfirmPin
  <2>1. savedPin \in Pins
    BY <1>9 DEF ConfirmPin, PinSetupOffers, InStep, AtSetup
  <2>2. CASE biometric
    BY <1>9, <2>2 DEF ConfirmPin
  <2>3. CASE ~biometric
    <3>1. StoreTypeOK' /\ flashPubkey' \in Wallets \cup {None}
      <4>1. Finalize(savedPin)
        BY <1>9, <2>3 DEF ConfirmPin
      <4> HIDE DEF OnboardingTypeOK, StoreTypeOK, ScreenTypeOK
      <4> QED
        BY <2>1, <4>1, FinalizeTypes
    <3>2. ScreenTypeOK'
      BY <1>9, <2>3, <3>1 DEF ConfirmPin
    <3> QED
      BY <3>1, <3>2
  <2> QED
    BY <2>2, <2>3
<1>10. CASE Prompt
  BY <1>10 DEF Prompt
<1>11. CASE PromptRefused
  BY <1>11 DEF PromptRefused
<1>12. CASE PromptPassed
  <2>1. savedPin \in Pins
    BY <1>12 DEF PromptPassed, InStep, AtSetup
  <2>2. StoreTypeOK' /\ flashPubkey' \in Wallets \cup {None}
    <3>1. Finalize(savedPin)
      BY <1>12 DEF PromptPassed
    <3> HIDE DEF OnboardingTypeOK, StoreTypeOK, ScreenTypeOK
    <3> QED
      BY <2>1, <3>1, FinalizeTypes
  <2>3. ScreenTypeOK'
    BY <1>12, <2>2 DEF PromptPassed
  <2> QED
    BY <2>2, <2>3
<1>13. CASE NavigateToSuccess
  <2>1. \A c \in calls : [c EXCEPT !.seen = FALSE] \in Calls
    BY UnseenCallsAreCalls
  <2>2. calls' \in SUBSET Calls
    BY <1>13, <2>1 DEF NavigateToSuccess, LeaveScreen
  <2>3. StoreTypeOK'
    BY <1>13, <2>2 DEF NavigateToSuccess
  <2>4. /\ screen' = "success" /\ navTimer' = FALSE
        /\ initialising' = FALSE /\ phase' = "pin-enter" /\ savedPin' = None
        /\ pinTimers' = 0 /\ authenticating' = "no"
        /\ UNCHANGED <<sessionVars, biometric, legacy, shownKey, setupFailed>>
    BY <1>13 DEF NavigateToSuccess, PinSetupState
  <2>5. 0 \in 0 .. MaxPinTimers
    BY OnboardingAssumption
  <2>6. ScreenTypeOK'
    BY <2>4, <2>5
  <2> QED
    BY <2>3, <2>6
<1>14. CASE EnterColdstar
  <2>1. StoreTypeOK'
    <3> HIDE DEF ScreenTypeOK
    <3> QED
      BY <1>14 DEF EnterColdstar, EnterHome, Seeded
  <2>2. ScreenTypeOK'
    <3> HIDE DEF StoreTypeOK
    <3> QED
      BY <1>14, ZenonT(60) DEF EnterColdstar, EnterHome, Seeded
  <2> QED
    BY <2>1, <2>2
<1>15. ASSUME NEW w \in Wallets, Switch(w)
       PROVE  OnboardingTypeOK'
  BY <1>15 DEF Switch, SwitchWallet, Seeded, PublicKey
<1>16. ASSUME NEW w \in Wallets, Remove(w)
       PROVE  OnboardingTypeOK'
  <2>1. registry' \subseteq Wallets
    BY <1>16 DEF Remove, RemoveWallet, Seeded
  <2>2. active' \in Wallets \cup {None}
    BY <1>16, <2>1 DEF Remove, RemoveWallet
  <2>3. StoreTypeOK'
    <3>1. /\ passphrase' \in [Wallets -> Pins \cup {None}]
          /\ removals' \subseteq Wallets /\ unremoved' \subseteq Wallets
      BY <1>16 DEF Remove, RemoveWallet, BeginRemoval
    <3>2. /\ pinHash' \in [Wallets -> Pins \cup {None}] /\ meta' \subseteq Wallets
          /\ UNCHANGED <<key, sealedBy, inserted, calls>>
      BY <1>16 DEF Remove, RemoveWallet, driveVars
    <3> QED
      BY <2>1, <2>2, <3>1, <3>2
  <2>4. shownKey' \in Wallets \cup {None}
    BY <1>16, <2>2 DEF Remove, PublicKey
  <2>5. screen' \in Screens
    BY <1>16 DEF Remove, MountStartup
  <2> QED
    BY <1>16, <2>3, <2>4, <2>5 DEF Remove
<1>17. CASE NewWallet
  BY <1>17 DEF NewWallet
<1> HIDE DEF OnboardingTypeOK, StoreTypeOK, ScreenTypeOK, Screens, Phases,
        storeVars, phoneVars, removalVars, driveVars, sessionVars, setupVars
<1> QED
  BY <1>1, <1>2, <1>3, <1>4, <1>5, <1>6, <1>7, <1>8, <1>9, <1>10, <1>11, <1>12,
     <1>13, <1>14, <1>15, <1>16, <1>17, <1>18 DEF ScreenStep

\* So does a step of a call, and of the world outside.
LEMMA CallStepTypes ==
    ASSUME OnboardingTypeOK, NEW c \in calls, CallStep(c)
    PROVE  OnboardingTypeOK'
<1> USE StoreAssumption
    DEF OnboardingTypeOK, StoreTypeOK, ScreenTypeOK, Screens, Phases,
        storeVars, phoneVars, removalVars, driveVars, sessionVars, setupVars
<1>0. c \in Calls /\ c.wallet \in Wallets /\ c.pin \in Pins
  BY DEF Calls
<1>1. \A place \in {"write", "queued", "store", "hash"} :
          Moves(c, place) => calls' \in SUBSET Calls
  BY <1>0 DEF Moves, Calls
<1>2. FinishCall(c) => StoreTypeOK'
  BY <1>0 DEF FinishCall, Seeded
<1>3. CASE UnlockExistingEnds(c)
  BY <1>0, <1>2, <1>3, ZenonT(60) DEF UnlockExistingEnds, HandOver
<1>4. CASE UnlockExistingFails(c) \/ SetupFails(c)
  <2>1. StoreTypeOK'
    <3> HIDE DEF ScreenTypeOK
    <3> QED
      BY <1>4 DEF UnlockExistingFails, SetupFails, CallFails, WriteKeyFails, StoreFails
  <2>2. ScreenTypeOK'
    <3>1. CASE UnlockExistingFails(c)
      BY <3>1 DEF UnlockExistingFails
    <3>2. CASE SetupFails(c)
      <4>1. authenticating' \in {"no", authenticating} /\ setupFailed' = TRUE
        BY <3>2 DEF SetupFails
      <4> QED
        BY <3>2, <4>1 DEF SetupFails
    <3> QED
      BY <1>4, <3>1, <3>2
  <2> QED
    BY <2>1, <2>2
<1>5. CASE SetupEnds(c)
  BY <1>2, <1>5 DEF SetupEnds
<1>6. CASE GoesOn(c)
  BY <1>0, <1>1, <1>6 DEF GoesOn, WriteKey, Serve, StorePassphrase, InLine
<1> HIDE DEF OnboardingTypeOK, StoreTypeOK, ScreenTypeOK, Screens, Phases,
        storeVars, phoneVars, removalVars, driveVars, sessionVars, setupVars
<1> QED
  BY <1>3, <1>4, <1>5, <1>6 DEF CallStep

LEMMA TypesStep ==
    ASSUME OnboardingTypeOK, InStep, [Next]_vars
    PROVE  OnboardingTypeOK'
<1> USE DEF OnboardingTypeOK, StoreTypeOK, ScreenTypeOK, Screens, Phases,
        storeVars, phoneVars, removalVars, driveVars, sessionVars, setupVars
<1>1. CASE Kill
  <2>1. StoreTypeOK'
    BY <1>1 DEF Kill, LoseCalls, LeftBehind
  <2>2. /\ screen' = "closed" /\ navTimer' = FALSE /\ setupFailed' = FALSE
        /\ creatingNew' = FALSE /\ flashPubkey' = None /\ flashPin' = None
        /\ initialising' = FALSE /\ phase' = "pin-enter" /\ savedPin' = None
        /\ pinTimers' = 0 /\ authenticating' = "no"
        /\ UNCHANGED <<biometric, legacy, shownKey>>
    BY <1>1 DEF Kill, PinSetupState
  <2>3. 0 \in 0 .. MaxPinTimers
    BY OnboardingAssumption
  <2>4. ScreenTypeOK'
    BY <2>2, <2>3
  <2> QED
    BY <2>1, <2>4
<1>5. ASSUME NEW w \in removals, RemovalEnds(w)
      PROVE  OnboardingTypeOK'
  BY <1>5 DEF RemovalEnds, RemovalDone, RemovalFails, LeftBehind
<1>2. ASSUME NEW d \in Drives, Insert(d)
      PROVE  OnboardingTypeOK'
  BY <1>2 DEF Insert
<1>3. CASE PullOut
  BY <1>3 DEF PullOut
<1>4. CASE UNCHANGED vars
  BY <1>4 DEF vars
<1> HIDE DEF OnboardingTypeOK, StoreTypeOK, ScreenTypeOK, Screens, Phases,
        storeVars, phoneVars, removalVars, driveVars, sessionVars, setupVars
<1> QED
  BY <1>1, <1>2, <1>3, <1>4, <1>5, ScreenStepTypes, CallStepTypes DEF Next

-----------------------------------------------------------------------------
(* The PIN.                                                                *)

\* Everything that links the PINs.
Linked ==
    /\ PinOpensKey
    /\ CallsSealed
    /\ HandedOver
    /\ InStep
    /\ OneAtATime
    /\ BusyOnlyDuringCall

\* What the PINs are linked by, when the store, the calls and the session
\* keep what they have.
LEMMA NothingNewLinks ==
    ASSUME PinOpensKey, CallsSealed,
           UNCHANGED <<pinHash, passphrase, sealedBy, calls>>
    PROVE  PinOpensKey' /\ CallsSealed'
BY DEF PinOpensKey, CallsSealed

\* A flash seals a key that no hash, passphrase or call is of yet.
LEMMA SealingLinks ==
    ASSUME OnboardingTypeOK, PinOpensKey, CallsSealed, NEW p \in Pins,
           NEW w \in Wallets \ Generated,
           sealedBy' = [sealedBy EXCEPT ![w] = p],
           UNCHANGED <<pinHash, passphrase>>
    PROVE  /\ PinOpensKey'
           /\ \A c \in calls : c.pin = sealedBy'[c.wallet]
           /\ sealedBy'[w] = p
<1> USE StoreAssumption DEF OnboardingTypeOK, StoreTypeOK, Generated
<1>1. \A v \in Wallets \ {w} : sealedBy'[v] = sealedBy[v]
  OBVIOUS
<1>2. sealedBy[w] = None /\ sealedBy'[w] = p
  OBVIOUS
<1>3. PinOpensKey'
  BY <1>1, <1>2 DEF PinOpensKey
<1>4. ASSUME NEW c \in calls
      PROVE  c.pin = sealedBy'[c.wallet]
  <2>1. c.pin \in Pins /\ c.wallet \in Wallets
    BY DEF Calls
  <2>2. c.pin # None /\ c.wallet # w
    BY <1>2, <2>1 DEF CallsSealed
  <2> QED
    BY <1>1, <2>1, <2>2 DEF CallsSealed
<1> QED
  BY <1>2, <1>3, <1>4

\* finalizeWallet starts a call with the PIN that its wallet is sealed by,
\* provided that a wallet handed over was sealed by the PIN it is given.
LEMMA FinalizeLinks ==
    ASSUME OnboardingTypeOK, PinOpensKey, CallsSealed, NEW p \in Pins,
           flashPubkey # None => p = sealedBy[flashPubkey],
           Finalize(p)
    PROVE  /\ PinOpensKey' /\ CallsSealed' /\ flashPubkey' = None
           /\ \E c : c.by = "setup" /\ c.seen /\ calls' = calls \cup {c}
<1>1. CASE flashPubkey # None
  <2> DEFINE c == [op |-> "register", by |-> "setup", wallet |-> flashPubkey,
                   pin |-> p, seen |-> TRUE, at |-> InLine(calls)]
  <2>1. /\ calls' = calls \cup {c} /\ flashPubkey' = None
        /\ UNCHANGED <<pinHash, passphrase, sealedBy>>
    BY <1>1 DEF Finalize, BeginRegister, driveVars
  <2>2. c.by = "setup" /\ c.seen /\ c.pin = sealedBy[c.wallet]
    BY <1>1
  <2> HIDE DEF c
  <2>3. CallsSealed' /\ PinOpensKey'
    BY <2>1, <2>2 DEF CallsSealed, PinOpensKey
  <2> QED
    BY <2>1, <2>2, <2>3
<1>2. CASE flashPubkey = None
  <2>1. PICK w \in Wallets \ Generated :
          /\ sealedBy' = [sealedBy EXCEPT ![w] = p]
          /\ calls' = calls \cup {[op |-> "create", by |-> "setup", wallet |-> w,
                                  pin |-> p, seen |-> TRUE, at |-> "write"]}
    BY <1>2 DEF Finalize, BeginCreate
  <2> DEFINE c == [op |-> "create", by |-> "setup", wallet |-> w,
                   pin |-> p, seen |-> TRUE, at |-> "write"]
  <2>2. /\ calls' = calls \cup {c} /\ flashPubkey' = None
        /\ UNCHANGED <<pinHash, passphrase>>
    BY <1>2, <2>1 DEF Finalize, BeginCreate, phoneVars
  <2>3. c.by = "setup" /\ c.seen /\ c.pin = p /\ c.wallet = w
    OBVIOUS
  <2> HIDE DEF c
  <2>4. /\ PinOpensKey' /\ sealedBy'[w] = p
        /\ \A b \in calls : b.pin = sealedBy'[b.wallet]
    BY <2>1, <2>2, SealingLinks
  <2>5. CallsSealed'
    BY <2>2, <2>3, <2>4 DEF CallsSealed
  <2> QED
    BY <2>2, <2>3, <2>4, <2>5
<1> QED
  BY <1>1, <1>2

\* No call of StartupFlash is under way anywhere but on its screen.
LEMMA ElsewhereNoStartupCall ==
    ASSUME OneAtATime, screen # "startup", NEW c \in calls
    PROVE  c.by # "startup"
BY DEF OneAtATime

\* A step of the start of the app or of StartupFlash keeps the links.
LEMMA StartupStepLinks ==
    ASSUME OnboardingTypeOK, Linked,
           \/ Start \/ Unlock \/ Continue
           \/ \E p \in Pins : UnlockExisting(p) \/ FlashNew(p) \/ FlashFails(p)
    PROVE  Linked'
<1> USE StoreAssumption DEF Linked
<1> USE DEF storeVars, phoneVars, removalVars, driveVars, sessionVars, setupVars
<1>1. CASE Start
  <2>1. PinOpensKey' /\ CallsSealed'
    BY <1>1 DEF Start, Migrate, MigrateIf, PinOpensKey, CallsSealed,
                OnboardingTypeOK, StoreTypeOK
  <2>2. screen = "closed" /\ screen' \in {"startup", "unlock"}
    BY <1>1 DEF Start
  <2>3. UNCHANGED <<calls, sessionVars, setupVars, navTimer, biometric>>
    BY <1>1 DEF Start
  <2>4. \A c \in calls : c.by # "startup"
    BY <2>2, ElsewhereNoStartupCall
  <2> QED
    BY <2>1, <2>2, <2>3, <2>4 DEF HandedOver, InStep, OneAtATime, BusyOnlyDuringCall, AtSetup
<1>2. CASE Unlock
  <2>1. PinOpensKey' /\ CallsSealed'
    BY <1>2, NothingNewLinks DEF Unlock
  <2>2. screen = "unlock" /\ screen' = "home"
    BY <1>2 DEF Unlock, CanUnlock, EnterHome
  <2>3. UNCHANGED <<calls, sessionVars, setupVars, navTimer, biometric>>
    BY <1>2 DEF Unlock
  <2>4. \A c \in calls : c.by # "startup"
    BY <2>2, ElsewhereNoStartupCall
  <2> QED
    BY <2>1, <2>2, <2>3, <2>4 DEF HandedOver, InStep, OneAtATime, BusyOnlyDuringCall, AtSetup
<1>3. CASE Continue
  <2>1. PinOpensKey' /\ CallsSealed'
    BY <1>3, NothingNewLinks DEF Continue
  <2>2. screen = "complete" /\ Quiet
    BY <1>3 DEF Continue, StartupOffers, OneAtATime
  <2> QED
    BY <1>3, <2>1, <2>2
       DEF Continue, PinSetupState, HandedOver, InStep, OneAtATime, BusyOnlyDuringCall,
           AtSetup, Quiet
<1>4. ASSUME NEW p \in Pins, UnlockExisting(p)
      PROVE  Linked'
  <2>1. screen = "startup" /\ calls = {} /\ ~navTimer
    BY <1>4 DEF UnlockExisting, StartupOffers
  <2> DEFINE c == [op |-> "register", by |-> "startup", wallet |-> key[inserted],
                   pin |-> p, seen |-> TRUE, at |-> InLine(calls)]
  <2>2. calls' = {c} /\ UNCHANGED <<pinHash, passphrase, sealedBy>>
    BY <1>4, <2>1 DEF UnlockExisting, BeginRegister
  <2>3. c.seen /\ c.pin = sealedBy[c.wallet]
    BY <1>4 DEF UnlockExisting, Opens
  <2> HIDE DEF c
  <2>4. PinOpensKey' /\ CallsSealed'
    BY <2>2, <2>3 DEF PinOpensKey, CallsSealed
  <2>5. UNCHANGED <<screen, sessionVars, setupVars, navTimer, biometric>>
    BY <1>4 DEF UnlockExisting
  <2> QED
    BY <2>1, <2>2, <2>3, <2>4, <2>5 DEF HandedOver, InStep, OneAtATime, BusyOnlyDuringCall, AtSetup
<1>5. ASSUME NEW p \in Pins, FlashNew(p)
      PROVE  Linked'
  <2>1. screen = "startup" /\ calls = {} /\ ~navTimer
    BY <1>5 DEF FlashNew, StartupOffers
  <2>2. PICK w \in Wallets \ Generated :
          sealedBy' = [sealedBy EXCEPT ![w] = p] /\ HandOver(w, p)
    BY <1>5 DEF FlashNew
  <2>3. /\ UNCHANGED <<pinHash, passphrase, calls, setupVars, navTimer, biometric>>
        /\ screen' = "complete"
    BY <1>5 DEF FlashNew
  <2>4. PinOpensKey' /\ sealedBy'[w] = p
    BY <2>2, <2>3, SealingLinks
  <2>5. CallsSealed'
    BY <2>1, <2>3 DEF CallsSealed
  <2>6. HandedOver'
    BY <2>2, <2>3, <2>4 DEF HandOver, HandedOver, AtSetup
  <2> QED
    BY <2>1, <2>3, <2>4, <2>5, <2>6 DEF InStep, OneAtATime, BusyOnlyDuringCall, AtSetup, Quiet
<1>6. ASSUME NEW p \in Pins, FlashFails(p)
      PROVE  Linked'
  <2>1. screen = "startup" /\ calls = {} /\ ~navTimer
    BY <1>6 DEF FlashFails, StartupOffers
  <2>2. UNCHANGED <<pinHash, passphrase, calls, screen, sessionVars, setupVars,
                    navTimer, biometric>>
    BY <1>6 DEF FlashFails
  <2>3. PinOpensKey'
    <3>1. CASE UNCHANGED sealedBy
      BY <2>2, <3>1 DEF PinOpensKey
    <3>2. ASSUME NEW w \in Wallets \ Generated,
                 sealedBy' = [sealedBy EXCEPT ![w] = p]
          PROVE  PinOpensKey'
      BY <2>2, <3>2, SealingLinks
    <3> QED
      BY <1>6, <3>1, <3>2 DEF FlashFails
  <2>4. CallsSealed'
    BY <2>1, <2>2 DEF CallsSealed
  <2> QED
    BY <2>1, <2>2, <2>3, <2>4 DEF HandedOver, InStep, OneAtATime, BusyOnlyDuringCall, AtSetup
<1> QED
  BY <1>1, <1>2, <1>3, <1>4, <1>5, <1>6

\* A step of PinSetup keeps the links.
LEMMA SetupStepLinks ==
    ASSUME OnboardingTypeOK, Linked,
           \/ InitSetup \/ PinTimer \/ ConfirmPin
           \/ Prompt \/ PromptRefused \/ PromptPassed
           \/ \E p \in Pins : EnterPin(p)
    PROVE  Linked'
<1> USE StoreAssumption DEF Linked
<1> USE DEF storeVars, phoneVars, removalVars, driveVars, sessionVars, setupVars
<1>1. CASE InitSetup
  <2>1. /\ initialising /\ ~initialising' /\ screen = "pin-setup" /\ Quiet
        /\ phase = "pin-enter" /\ authenticating = "no" /\ pinTimers = 0
        /\ UNCHANGED <<screen, pinTimers, navTimer, biometric>>
    BY <1>1 DEF InitSetup, InStep, OneAtATime, AtSetup
  <2>2. flashPubkey # None /\ flashPin # None /\ flashPin = sealedBy[flashPubkey]
    BY <2>1 DEF HandedOver
  <2>3. CASE biometric
    <3>1. UNCHANGED <<storeVars, flashPubkey>>
      BY <1>1, <2>2, <2>3 DEF InitSetup
    <3>2. PinOpensKey' /\ CallsSealed'
      BY <3>1, NothingNewLinks
    <3>3. savedPin' = flashPin /\ phase' = "biometric" /\ authenticating' = "prompt"
      BY <1>1, <2>2, <2>3 DEF InitSetup
    <3> QED
      BY <2>1, <2>2, <2>3, <3>1, <3>2, <3>3
         DEF HandedOver, InStep, OneAtATime, BusyOnlyDuringCall, AtSetup, Quiet
  <2>4. CASE ~biometric
    <3>1. /\ Finalize(flashPin) /\ savedPin' = flashPin
          /\ UNCHANGED <<phase, authenticating>>
      BY <1>1, <2>2, <2>4 DEF InitSetup
    <3>2. /\ PinOpensKey' /\ CallsSealed' /\ flashPubkey' = None
          /\ \E c : c.by = "setup" /\ c.seen /\ calls' = calls \cup {c}
      <4>1. flashPin \in Pins
        BY <2>2 DEF OnboardingTypeOK, ScreenTypeOK
      <4> QED
        BY <2>2, <3>1, <4>1, FinalizeLinks
    <3> QED
      BY <2>1, <2>4, <3>1, <3>2 DEF HandedOver, InStep, OneAtATime, BusyOnlyDuringCall, AtSetup, Quiet
  <2> QED
    BY <2>3, <2>4
<1>2. ASSUME NEW p \in Pins, EnterPin(p)
      PROVE  Linked'
  <2>1. PinOpensKey' /\ CallsSealed'
    BY <1>2, NothingNewLinks DEF EnterPin
  <2>2. AtSetup /\ phase = "pin-enter"
    BY <1>2 DEF EnterPin, PinSetupOffers, AtSetup
  <2> QED
    BY <1>2, <2>1, <2>2
       DEF EnterPin, HandedOver, InStep, OneAtATime, BusyOnlyDuringCall, AtSetup, Quiet
<1>7. CASE PinTimer
  <2>1. PinOpensKey' /\ CallsSealed'
    BY <1>7, NothingNewLinks DEF PinTimer
  <2>2. AtSetup /\ ~biometric /\ savedPin # None /\ phase # "biometric"
    BY <1>7 DEF PinTimer, InStep
  <2>3. /\ pinTimers' \in Nat /\ phase' = "pin-confirm"
        /\ UNCHANGED <<calls, sealedBy, screen, sessionVars, initialising, savedPin,
                       authenticating, navTimer, biometric>>
    BY <1>7, OnboardingAssumption DEF PinTimer, OnboardingTypeOK, ScreenTypeOK
  <2> QED
    BY <2>1, <2>2, <2>3
       DEF HandedOver, InStep, OneAtATime, BusyOnlyDuringCall, AtSetup, Quiet
<1>3. CASE ConfirmPin
  <2>1. AtSetup /\ phase = "pin-confirm"
    BY <1>3 DEF ConfirmPin, PinSetupOffers, AtSetup
  <2>2. /\ flashPubkey = None /\ authenticating = "no" /\ savedPin # None
        /\ ~biometric
    BY <2>1 DEF HandedOver, InStep
  <2>3. /\ UNCHANGED <<screen, initialising, phase, savedPin, pinTimers, authenticating,
                       navTimer, biometric>>
        /\ Finalize(savedPin)
    BY <1>3, <2>2 DEF ConfirmPin
  <2>4. savedPin \in Pins
    BY <2>2 DEF OnboardingTypeOK, ScreenTypeOK
  <2>5. /\ PinOpensKey' /\ CallsSealed' /\ flashPubkey' = None
        /\ \E c : c.by = "setup" /\ c.seen /\ calls' = calls \cup {c}
    BY <2>2, <2>3, <2>4, FinalizeLinks
  <2>6. \A c \in calls' : c.by # "startup"
    BY <2>1, <2>5, ElsewhereNoStartupCall DEF AtSetup
  <2> QED
    BY <2>1, <2>2, <2>3, <2>5, <2>6
       DEF HandedOver, InStep, OneAtATime, BusyOnlyDuringCall, AtSetup
<1>4. CASE Prompt
  <2>1. PinOpensKey' /\ CallsSealed'
    BY <1>4, NothingNewLinks DEF Prompt
  <2>2. AtSetup /\ phase = "biometric" /\ authenticating = "no"
    BY <1>4 DEF Prompt, PinSetupOffers, AtSetup
  <2> QED
    BY <1>4, <2>1, <2>2 DEF Prompt, HandedOver, InStep, OneAtATime, BusyOnlyDuringCall, AtSetup, Quiet
<1>5. CASE PromptRefused
  <2>1. PinOpensKey' /\ CallsSealed'
    BY <1>5, NothingNewLinks DEF PromptRefused
  <2> QED
    BY <1>5, <2>1
       DEF PromptRefused, HandedOver, InStep, OneAtATime, BusyOnlyDuringCall, AtSetup, Quiet
<1>6. CASE PromptPassed
  <2>1. /\ AtSetup /\ phase = "biometric" /\ biometric /\ savedPin # None
        /\ authenticating = "prompt"
    BY <1>6 DEF PromptPassed, InStep
  <2>2. Quiet /\ savedPin \in Pins
    BY <2>1 DEF OneAtATime, OnboardingTypeOK, ScreenTypeOK
  <2>3. /\ Finalize(savedPin) /\ authenticating' = "finalizing"
        /\ UNCHANGED <<screen, initialising, phase, savedPin, pinTimers, navTimer,
                       biometric>>
    BY <1>6 DEF PromptPassed
  <2>4. /\ PinOpensKey' /\ CallsSealed' /\ flashPubkey' = None
        /\ \E c : c.by = "setup" /\ c.seen /\ calls' = calls \cup {c}
    BY <2>1, <2>2, <2>3, FinalizeLinks DEF HandedOver
  <2> QED
    BY <2>1, <2>2, <2>3, <2>4
       DEF HandedOver, InStep, OneAtATime, BusyOnlyDuringCall, AtSetup, Quiet
<1> QED
  BY <1>1, <1>2, <1>3, <1>4, <1>5, <1>6, <1>7

\* The end of PinSetup, and the home screen with its drawer.
LEMMA HomeStepLinks ==
    ASSUME OnboardingTypeOK, Linked,
           \/ NavigateToSuccess \/ EnterColdstar \/ NewWallet
           \/ \E w \in Wallets : Switch(w) \/ Remove(w)
    PROVE  Linked'
<1> USE StoreAssumption DEF Linked
<1> USE DEF storeVars, phoneVars, removalVars, driveVars, sessionVars, setupVars
<1>1. CASE NavigateToSuccess
  <2>1. /\ navTimer /\ screen' = "success" /\ LeaveScreen
        /\ ~initialising' /\ authenticating' = "no" /\ pinTimers' = 0
        /\ UNCHANGED <<pinHash, passphrase, sealedBy>>
    BY <1>1 DEF NavigateToSuccess, PinSetupState
  <2>2. \A c \in calls : c.by # "startup"
    BY <2>1 DEF OneAtATime
  <2>3. \A c \in calls' : \E b \in calls :
            c.by = b.by /\ c.pin = b.pin /\ c.wallet = b.wallet
    BY <2>1 DEF LeaveScreen, OnboardingTypeOK, StoreTypeOK, Calls
  <2>4. PinOpensKey' /\ CallsSealed'
    BY <2>1, <2>3 DEF PinOpensKey, CallsSealed
  <2> QED
    BY <2>1, <2>2, <2>3, <2>4
       DEF HandedOver, InStep, OneAtATime, BusyOnlyDuringCall, AtSetup
<1>2. CASE EnterColdstar
  <2>1. PinOpensKey' /\ CallsSealed'
    BY <1>2, NothingNewLinks DEF EnterColdstar
  <2>2. /\ screen = "success" /\ screen' = "home"
        /\ UNCHANGED <<calls, flashPubkey, flashPin, setupVars, navTimer, biometric>>
    BY <1>2 DEF EnterColdstar, EnterHome
  <2>3. \A c \in calls : c.by # "startup"
    BY <2>2, ElsewhereNoStartupCall
  <2> QED
    BY <2>1, <2>2, <2>3 DEF HandedOver, InStep, OneAtATime, BusyOnlyDuringCall, AtSetup
<1>3. CASE NewWallet
  <2>1. PinOpensKey' /\ CallsSealed'
    BY <1>3, NothingNewLinks DEF NewWallet
  <2>2. /\ screen = "home" /\ screen' = "startup"
        /\ UNCHANGED <<calls, flashPubkey, flashPin, setupVars, navTimer, biometric>>
    BY <1>3 DEF NewWallet, DrawerOffers
  <2>3. \A c \in calls : c.by # "startup"
    BY <2>2, ElsewhereNoStartupCall
  <2> QED
    BY <2>1, <2>2, <2>3 DEF HandedOver, InStep, OneAtATime, BusyOnlyDuringCall, AtSetup
<1>4. ASSUME NEW w \in Wallets, Switch(w)
      PROVE  Linked'
  <2>1. PinOpensKey' /\ CallsSealed'
    BY <1>4, NothingNewLinks DEF Switch, SwitchWallet
  <2>2. UNCHANGED <<calls, screen, sealedBy, sessionVars, setupVars, navTimer,
                    biometric>>
    BY <1>4 DEF Switch, SwitchWallet
  <2> QED
    BY <2>1, <2>2 DEF HandedOver, InStep, OneAtATime, BusyOnlyDuringCall, AtSetup, Quiet
<1>5. ASSUME NEW w \in Wallets, Remove(w)
      PROVE  Linked'
  <2>1. /\ screen = "home" /\ screen' \in {"home", "startup"}
        /\ UNCHANGED <<calls, sealedBy, sessionVars, setupVars, navTimer, biometric>>
    BY <1>5 DEF Remove, RemoveWallet, DrawerOffers, MountStartup
  <2>2. PinOpensKey' /\ CallsSealed'
    BY <1>5, <2>1 DEF Remove, RemoveWallet, BeginRemoval, PinOpensKey, CallsSealed,
                      OnboardingTypeOK, StoreTypeOK
  <2>3. \A c \in calls : c.by # "startup"
    BY <2>1, ElsewhereNoStartupCall
  <2> QED
    BY <2>1, <2>2, <2>3 DEF HandedOver, InStep, OneAtATime, BusyOnlyDuringCall, AtSetup
<1> QED
  BY <1>1, <1>2, <1>3, <1>4, <1>5

\* A call that goes on keeps its wallet, its PIN and its screen.
LEMMA MovesLinks ==
    ASSUME OnboardingTypeOK, Linked, NEW c \in calls,
           NEW place \in {"write", "queued", "store", "hash"}, Moves(c, place),
           UNCHANGED <<sealedBy, screen, sessionVars, setupVars, navTimer,
                       biometric>>
    PROVE  /\ CallsSealed' /\ HandedOver' /\ InStep' /\ OneAtATime'
           /\ BusyOnlyDuringCall'
<1> USE DEF sessionVars, setupVars
<1> DEFINE b == [c EXCEPT !.at = place]
<1>1. b.by = c.by /\ b.wallet = c.wallet /\ b.pin = c.pin /\ b.seen = c.seen
  BY DEF OnboardingTypeOK, StoreTypeOK, Calls
<1>2. calls' = (calls \ {c}) \cup {b}
  BY DEF Moves
<1> HIDE DEF b
<1>3. CallsSealed'
  BY <1>1, <1>2 DEF Linked, CallsSealed
<1>4. HandedOver' /\ InStep'
  BY DEF Linked, HandedOver, InStep, AtSetup
<1>5. OneAtATime'
  <2>1. screen = "complete" \/ initialising => FALSE
    BY DEF Linked, OneAtATime, Quiet
  <2>2. AtSetup /\ biometric /\ phase # "done" =>
            authenticating = "finalizing" /\ ~navTimer /\ calls' = {b} /\ b.seen
    BY <1>1, <1>2 DEF Linked, OneAtATime, Quiet
  <2>3. ASSUME NEW a \in calls', a.by = "startup"
        PROVE  screen = "startup" /\ a.seen /\ ~navTimer /\ calls' = {a}
    BY <1>1, <1>2, <2>3 DEF Linked, OneAtATime
  <2> QED
    BY <2>1, <2>2, <2>3 DEF OneAtATime, AtSetup
<1>6. BusyOnlyDuringCall'
  BY <1>1, <1>2 DEF Linked, BusyOnlyDuringCall
<1> QED
  BY <1>3, <1>4, <1>5, <1>6

\* A step of a call keeps the links.
LEMMA CallStepLinks ==
    ASSUME OnboardingTypeOK, Linked, NEW c \in calls, CallStep(c)
    PROVE  Linked'
<1> USE StoreAssumption
<1> USE DEF storeVars, phoneVars, removalVars, driveVars, sessionVars, setupVars
<1>0. c.wallet \in Wallets /\ c.pin \in Pins /\ c.pin = sealedBy[c.wallet]
  BY DEF OnboardingTypeOK, StoreTypeOK, Calls, Linked, CallsSealed
<1>1. ASSUME FinishCall(c)
      PROVE  /\ PinOpensKey' /\ CallsSealed' /\ calls' = calls \ {c}
             /\ sealedBy' = sealedBy
  <2>1. calls' = calls \ {c} /\ UNCHANGED <<passphrase, sealedBy>>
    BY <1>1 DEF FinishCall
  <2>2. pinHash' = [pinHash EXCEPT ![c.wallet] = c.pin]
    BY <1>1 DEF FinishCall
  <2>3. PinOpensKey'
    BY <1>0, <2>1, <2>2 DEF Linked, PinOpensKey, OnboardingTypeOK, StoreTypeOK
  <2> QED
    BY <2>1, <2>3 DEF Linked, CallsSealed
<1>2. ASSUME CallFails(c)
      PROVE  /\ PinOpensKey' /\ CallsSealed' /\ calls' = calls \ {c}
             /\ sealedBy' = sealedBy
  <2>1. calls' = calls \ {c} /\ UNCHANGED <<pinHash, passphrase, sealedBy>>
    BY <1>2 DEF CallFails, WriteKeyFails, StoreFails
  <2> QED
    BY <2>1 DEF Linked, PinOpensKey, CallsSealed
<1>3. CASE UnlockExistingEnds(c)
  <2>1. /\ screen = "startup" /\ c.seen /\ ~navTimer /\ calls = {c}
    BY <1>3 DEF UnlockExistingEnds, Linked, OneAtATime
  <2>2. /\ PinOpensKey' /\ CallsSealed' /\ calls' = {} /\ sealedBy' = sealedBy
    BY <1>1, <1>3, <2>1 DEF UnlockExistingEnds
  <2>3. /\ screen' = "complete" /\ flashPubkey' = c.wallet /\ flashPin' = c.pin
        /\ UNCHANGED <<setupVars, navTimer, biometric>>
    BY <1>3, <2>1 DEF UnlockExistingEnds, HandOver
  <2>4. HandedOver'
    BY <1>0, <2>2, <2>3 DEF HandedOver, AtSetup
  <2>5. InStep' /\ OneAtATime' /\ BusyOnlyDuringCall'
    BY <2>1, <2>2, <2>3
       DEF Linked, InStep, OneAtATime, BusyOnlyDuringCall, AtSetup, Quiet
  <2> QED
    BY <2>2, <2>4, <2>5 DEF Linked
<1>4. CASE UnlockExistingFails(c)
  <2>1. /\ screen = "startup" /\ ~navTimer /\ calls = {c}
    BY <1>4 DEF UnlockExistingFails, Linked, OneAtATime
  <2>2. /\ PinOpensKey' /\ CallsSealed' /\ calls' = {} /\ sealedBy' = sealedBy
    BY <1>2, <1>4, <2>1 DEF UnlockExistingFails
  <2>3. UNCHANGED <<screen, sessionVars, setupVars, navTimer, biometric>>
    BY <1>4 DEF UnlockExistingFails
  <2> QED
    BY <2>1, <2>2, <2>3
       DEF Linked, HandedOver, InStep, OneAtATime, BusyOnlyDuringCall, AtSetup, Quiet
<1>5. ASSUME c.by = "setup"
      PROVE  /\ screen # "complete" /\ ~initialising
             /\ AtSetup /\ biometric /\ phase # "done" =>
                    authenticating = "finalizing" /\ ~navTimer /\ calls = {c}
                    /\ c.seen
             /\ \A b \in calls : b.by # "startup"
             /\ authenticating = "finalizing" => calls = {c} /\ c.seen
  BY <1>5 DEF Linked, InStep, OneAtATime, Quiet
<1>6. CASE SetupEnds(c)
  <2>1. /\ PinOpensKey' /\ CallsSealed' /\ calls' = calls \ {c}
        /\ sealedBy' = sealedBy
    BY <1>1, <1>6 DEF SetupEnds
  <2>2. UNCHANGED <<screen, sessionVars, initialising, savedPin, pinTimers, biometric>>
    BY <1>6 DEF SetupEnds
  <2>3. IF c.seen THEN phase' = "done" /\ authenticating' = "no"
                  ELSE UNCHANGED <<phase, authenticating>>
    BY <1>6 DEF SetupEnds
  <2>4. c.by = "setup"
    BY <1>6 DEF SetupEnds
  <2>5. HandedOver'
    BY <1>5, <2>1, <2>2, <2>3, <2>4 DEF Linked, HandedOver, InStep, AtSetup
  <2>6. InStep'
    BY <1>5, <2>2, <2>3, <2>4 DEF Linked, InStep, AtSetup
  <2>7. OneAtATime'
    BY <1>5, <2>1, <2>2, <2>3, <2>4 DEF OneAtATime, AtSetup
  <2>8. BusyOnlyDuringCall'
    BY <1>5, <2>3, <2>4 DEF BusyOnlyDuringCall
  <2> QED
    BY <2>1, <2>5, <2>6, <2>7, <2>8 DEF Linked
<1>7. CASE SetupFails(c)
  <2>1. /\ PinOpensKey' /\ CallsSealed' /\ calls' = calls \ {c}
        /\ sealedBy' = sealedBy
    BY <1>2, <1>7 DEF SetupFails
  <2>2. UNCHANGED <<screen, sessionVars, initialising, phase, savedPin, pinTimers,
                    navTimer, biometric>>
    BY <1>7 DEF SetupFails
  <2>3. authenticating' = IF c.seen THEN "no" ELSE authenticating
    BY <1>7 DEF SetupFails
  <2>4. c.by = "setup"
    BY <1>7 DEF SetupFails
  <2>5. HandedOver'
    BY <1>5, <2>1, <2>2, <2>3, <2>4 DEF Linked, HandedOver, InStep, AtSetup
  <2>6. InStep'
    BY <1>5, <2>2, <2>3, <2>4 DEF Linked, InStep, AtSetup
  <2>7. OneAtATime'
    BY <1>5, <2>1, <2>2, <2>3, <2>4 DEF OneAtATime, AtSetup, Quiet
  <2>8. BusyOnlyDuringCall'
    BY <1>5, <2>3, <2>4 DEF BusyOnlyDuringCall
  <2> QED
    BY <2>1, <2>5, <2>6, <2>7, <2>8 DEF Linked
<1>8. CASE GoesOn(c)
  <2>1. UNCHANGED <<sealedBy, screen, sessionVars, setupVars, navTimer, biometric>>
    BY <1>8 DEF GoesOn, WriteKey, Serve, StorePassphrase
  <2>2. PICK place \in {"queued", "store", "hash"} : Moves(c, place)
    BY <1>8 DEF GoesOn, WriteKey, Serve, StorePassphrase, InLine
  <2>3. /\ CallsSealed' /\ HandedOver' /\ InStep' /\ OneAtATime'
        /\ BusyOnlyDuringCall'
    BY <2>1, <2>2, MovesLinks
  <2>4. pinHash' = pinHash
    BY <1>8 DEF GoesOn, WriteKey, Serve, StorePassphrase
  <2>5. \/ passphrase' = passphrase
        \/ passphrase' = [passphrase EXCEPT ![c.wallet] = c.pin]
    BY <1>8 DEF GoesOn, WriteKey, Serve, StorePassphrase
  <2>6. PinOpensKey'
    BY <1>0, <2>1, <2>4, <2>5
       DEF Linked, PinOpensKey, OnboardingTypeOK, StoreTypeOK
  <2> QED
    BY <2>3, <2>6 DEF Linked
<1> QED
  BY <1>3, <1>4, <1>6, <1>7, <1>8 DEF CallStep

LEMMA LinksStep ==
    ASSUME OnboardingTypeOK, Linked, [Next]_vars
    PROVE  Linked'
<1> USE DEF storeVars, phoneVars, removalVars, driveVars, sessionVars, setupVars
<1>1. CASE Kill
  BY <1>1 DEF Kill, LoseCalls, PinSetupState, Linked, PinOpensKey, CallsSealed,
              HandedOver, InStep, OneAtATime, BusyOnlyDuringCall, AtSetup, Quiet
<1>2. ASSUME UNCHANGED <<pinHash, passphrase, sealedBy, calls, screen, sessionVars,
                         setupVars, navTimer, biometric>>
      PROVE  Linked'
  BY <1>2 DEF Linked, PinOpensKey, CallsSealed, HandedOver, InStep, OneAtATime,
              BusyOnlyDuringCall, AtSetup, Quiet
<1>7. ASSUME NEW w \in removals, RemovalEnds(w)
      PROVE  Linked'
  <2>1. /\ passphrase' \in {passphrase, [passphrase EXCEPT ![w] = None]}
        /\ UNCHANGED <<pinHash, sealedBy, calls, screen, sessionVars, setupVars,
                       navTimer, biometric>>
    BY <1>7 DEF RemovalEnds, RemovalDone, RemovalFails
  <2>2. PinOpensKey'
    BY <2>1 DEF Linked, PinOpensKey, OnboardingTypeOK, StoreTypeOK
  <2> QED
    BY <2>1, <2>2 DEF Linked, CallsSealed, HandedOver, InStep, OneAtATime,
                      BusyOnlyDuringCall, AtSetup, Quiet
<1>3. ASSUME NEW d \in Drives, Insert(d)
      PROVE  Linked'
  BY <1>2, <1>3 DEF Insert
<1>4. CASE PullOut
  BY <1>2, <1>4 DEF PullOut
<1>5. CASE UNCHANGED vars
  BY <1>2, <1>5 DEF vars
<1>6. CASE ScreenStep
  BY <1>6, StartupStepLinks, SetupStepLinks, HomeStepLinks DEF ScreenStep
<1> QED
  BY <1>1, <1>3, <1>4, <1>5, <1>6, <1>7, CallStepLinks DEF Next

LEMMA InitLinks ==
    ASSUME OnboardingInit
    PROVE  OnboardingTypeOK /\ Linked
<1> USE DEF OnboardingInit, Forgotten
<1>1. OnboardingTypeOK
  <2>1. StoreTypeOK
    BY DEF StoreTypeOK, Generated
  <2>2. ScreenTypeOK
    <3>1. 0 \in 0 .. MaxPinTimers
      BY OnboardingAssumption
    <3>2. legacy \in Wallets \cup {None}
      BY DEF Generated
    <3> QED
      BY <3>1, <3>2 DEF ScreenTypeOK, Screens, Phases
  <2> QED
    BY <2>1, <2>2 DEF OnboardingTypeOK
<1>2. Linked
  BY DEF Linked, PinOpensKey, CallsSealed, HandedOver, InStep, OneAtATime,
         BusyOnlyDuringCall, AtSetup, Quiet
<1> QED
  BY <1>1, <1>2

\* The store and the screens are well typed, whatever the phone and the
\* drives hold at first and whoever is killed when.
THEOREM OnboardingTypes == OnboardingSpec => []OnboardingTypeOK
<1>1. OnboardingInit => OnboardingTypeOK /\ Linked
  BY InitLinks
<1>2. OnboardingTypeOK /\ Linked /\ [Next]_vars => (OnboardingTypeOK /\ Linked)'
  BY TypesStep, LinksStep DEF Linked
<1> QED
  BY <1>1, <1>2, PTL DEF OnboardingSpec

\* The PIN that verifyPin and the passphrase store accept for a wallet opens
\* its key, although finalizeWallet stores it long after the flash sealed it.
THEOREM StoredPinsOpenKeys == OnboardingSpec => []PinOpensKey
<1>1. OnboardingInit => OnboardingTypeOK /\ Linked
  BY InitLinks
<1>2. OnboardingTypeOK /\ Linked /\ [Next]_vars => (OnboardingTypeOK /\ Linked)'
  BY TypesStep, LinksStep DEF Linked
<1>3. Linked => PinOpensKey
  BY DEF Linked
<1> QED
  BY <1>1, <1>2, <1>3, PTL DEF OnboardingSpec

-----------------------------------------------------------------------------
(* What a wallet has, and what the screens make of it.                     *)

\* The keystore serves one call at a time.
OneServed ==
    \A b, c \in calls :
        b.at \in {"store", "hash"} /\ c.at \in {"store", "hash"} => b = c

\* A call that has come to the keystore is of a wallet with metadata, and no
\* removal of before undoes what it has stored.
CallsKnown ==
    \A c \in calls :
        /\ c.at # "write" => c.wallet \in meta
        /\ c.at = "hash" => passphrase[c.wallet] # None
        /\ c.at = "hash" => c.wallet \notin removals

\* Until it is over nobody can name the wallet that is being created.
CreatesFresh ==
    \A c \in calls : c.op = "create" =>
        /\ c.by = "setup"
        /\ c.wallet \notin registry \cup {active, shownKey}
        /\ \A b \in calls \ {c} : b.wallet # c.wallet

\* The wallet that is registered is the active one, and PinSetup is not left.
RegistersActive ==
    \A c \in calls : c.op = "register" =>
        /\ c.at \in {"store", "hash"}
        /\ c.wallet = active
        /\ c.by = "setup" => screen = "pin-setup" /\ ~navTimer

CallsOrder == OneServed /\ CallsKnown /\ CreatesFresh /\ RegistersActive

\* Every wallet the phone can name has been generated.
AllGenerated ==
    /\ registry \subseteq Generated
    /\ {active, legacy, shownKey} \subseteq Generated \cup {None}

\* PinSetup is without a flashed wallet only when it has begun to register it,
\* and then until its timer leads on.
SetupOrder ==
    /\ screen = "closed" => Quiet
    /\ AtSetup /\ flashPubkey = None =>
          setupFailed \/ navTimer \/ \E c \in calls : c.by = "setup"
    /\ AtSetup => \A c \in calls : c.seen

Heals ==
    screen \in {"success", "home"} \/ navTimer =>
        \/ shownKey = PublicKey(active, meta)
        \/ active \in registry /\ active # shownKey

Orderly == CallsOrder /\ AllGenerated /\ SetupOrder /\ Heals /\ NoGhosts

\* finalizeWallet begins a call of a wallet that is known, or new to all.
LEMMA FinalizeOrder ==
    ASSUME OnboardingTypeOK, Linked, Orderly, NEW p \in Pins, Finalize(p),
           screen = "pin-setup", flashPubkey # None => Quiet /\ p = sealedBy[flashPubkey],
           UNCHANGED <<screen, navTimer, shownKey, legacy>>
    PROVE  /\ CallsOrder' /\ AllGenerated' /\ Heals' /\ NoGhosts'
           /\ flashPubkey' = None
           /\ \E c \in calls' : c.by = "setup"
           /\ (\A c \in calls : c.seen) => \A c \in calls' : c.seen
<1> USE StoreAssumption
<1>1. CASE flashPubkey # None
  <2> DEFINE c == [op |-> "register", by |-> "setup", wallet |-> flashPubkey,
                   pin |-> p, seen |-> TRUE, at |-> InLine(calls)]
  <2>1. /\ calls = {} /\ ~navTimer
        /\ meta' = meta \cup {flashPubkey} /\ active' = flashPubkey
        /\ UNCHANGED <<pinHash, passphrase, registry, removals, unremoved, sealedBy>>
        /\ flashPubkey' = None
    BY <1>1 DEF Finalize, BeginRegister, driveVars, removalVars, Quiet
  <2>2. calls' = {c}
    BY <1>1, <2>1 DEF Finalize, BeginRegister
  <2>3. /\ c.op = "register" /\ c.by = "setup" /\ c.wallet = flashPubkey /\ c.seen
        /\ c.at = "store"
    BY <2>1 DEF InLine, Serving
  <2> HIDE DEF c
  <2>4. CallsOrder'
    BY <2>1, <2>2, <2>3 DEF CallsOrder, OneServed, CallsKnown, CreatesFresh, RegistersActive
  <2>5. AllGenerated'
    BY <1>1, <2>1 DEF Orderly, AllGenerated, Generated, OnboardingTypeOK, ScreenTypeOK
  <2>6. Heals' /\ NoGhosts'
    BY <2>1 DEF Orderly, Heals, NoGhosts
  <2> QED
    BY <2>1, <2>2, <2>3, <2>4, <2>5, <2>6
<1>2. CASE flashPubkey = None
  <2>1. PICK w \in Wallets \ Generated :
          /\ sealedBy' = [sealedBy EXCEPT ![w] = p]
          /\ calls' = calls \cup {[op |-> "create", by |-> "setup", wallet |-> w,
                                  pin |-> p, seen |-> TRUE, at |-> "write"]}
    BY <1>2 DEF Finalize, BeginCreate
  <2> DEFINE c == [op |-> "create", by |-> "setup", wallet |-> w,
                   pin |-> p, seen |-> TRUE, at |-> "write"]
  <2>2. /\ calls' = calls \cup {c}
        /\ UNCHANGED <<active, meta, pinHash, passphrase, registry, removals,
                       unremoved, flashPubkey>>
    BY <1>2, <2>1 DEF Finalize, BeginCreate, phoneVars, removalVars
  <2>3. c.op = "create" /\ c.by = "setup" /\ c.wallet = w /\ c.seen /\ c.at = "write"
    OBVIOUS
  <2> HIDE DEF c
  <2>4. w \notin registry \cup {active, shownKey} /\ \A b \in calls : b.wallet # w
    BY DEF Orderly, AllGenerated, Generated, Linked, CallsSealed, OnboardingTypeOK,
       StoreTypeOK, Calls
  <2>5. CallsOrder'
    BY <2>2, <2>3, <2>4
       DEF Orderly, CallsOrder, OneServed, CallsKnown, CreatesFresh, RegistersActive
  <2>6. Generated \subseteq Generated'
    BY <2>1 DEF Generated, OnboardingTypeOK, StoreTypeOK
  <2>7. AllGenerated' /\ Heals' /\ NoGhosts'
    BY <2>2, <2>6 DEF Orderly, AllGenerated, Heals, NoGhosts
  <2> QED
    BY <1>2, <2>2, <2>3, <2>5, <2>7
<1> QED
  BY <1>1, <1>2

\* A step of the start of the app or of StartupFlash keeps the order.
LEMMA StartupStepOrder ==
    ASSUME OnboardingTypeOK, Linked, Orderly,
           \/ Start \/ Unlock \/ Continue
           \/ \E p \in Pins : UnlockExisting(p) \/ FlashNew(p) \/ FlashFails(p)
    PROVE  Orderly'
<1> USE StoreAssumption DEF Orderly
<1> USE DEF storeVars, phoneVars, removalVars, driveVars, sessionVars, setupVars
<1>0. \/ calls' # {}
      \/ CallsOrder'
  BY DEF CallsOrder, OneServed, CallsKnown, CreatesFresh, RegistersActive
<1>1. CASE Start
  <2>1. /\ screen = "closed" /\ Quiet /\ ~initialising
        /\ screen' \in {"startup", "unlock"}
        /\ UNCHANGED <<calls, navTimer, initialising, flashPin, flashPubkey, sealedBy,
                       registry>>
        /\ shownKey' = PublicKey(active', meta') /\ legacy' = None
    BY <1>1 DEF Start, SetupOrder, Linked, InStep
  <2>2. AllGenerated'
    BY <1>1, <2>1 DEF Start, Migrate, MigrateIf, AllGenerated, Generated, PublicKey
  <2>3. NoGhosts'
    BY <1>1 DEF Start, Migrate, MigrateIf, NoGhosts, OnboardingTypeOK, StoreTypeOK, ScreenTypeOK
  <2>4. SetupOrder' /\ Heals'
    BY <2>1 DEF SetupOrder, Heals, AtSetup, Quiet
  <2> QED
    BY <1>0, <2>1, <2>2, <2>3, <2>4 DEF Quiet
<1>2. CASE Unlock
  <2>1. /\ screen = "unlock" /\ screen' = "home" /\ ~initialising
        /\ UNCHANGED <<calls, navTimer, initialising, active, meta, pinHash, passphrase,
                       removals, unremoved, sealedBy, legacy>>
        /\ shownKey' = PublicKey(active, meta)
        /\ registry' = Seeded(active, meta)
    BY <1>2 DEF Unlock, CanUnlock, EnterHome, Linked, InStep
  <2>2. registry' \subseteq registry \cup ({active} \ {None}) /\ shownKey' \in {active, None}
    BY <2>1 DEF Seeded, PublicKey, OnboardingTypeOK, StoreTypeOK
  <2>3. CallsOrder'
    BY <2>1, <2>2 DEF CallsOrder, OneServed, CallsKnown, CreatesFresh, RegistersActive,
       OnboardingTypeOK, StoreTypeOK, Calls
  <2>4. AllGenerated' /\ NoGhosts'
    BY <2>1, <2>2 DEF AllGenerated, Generated, NoGhosts
  <2>5. SetupOrder' /\ Heals'
    BY <2>1 DEF SetupOrder, Heals, AtSetup
  <2> QED
    BY <2>3, <2>4, <2>5
<1>3. CASE Continue
  <2>1. /\ screen = "complete" /\ Quiet /\ screen' = "pin-setup" /\ initialising'
        /\ UNCHANGED <<storeVars, sessionVars, navTimer, legacy, shownKey>>
    BY <1>3 DEF Continue, PinSetupState, StartupOffers, Linked, OneAtATime
  <2>2. AllGenerated' /\ NoGhosts' /\ SetupOrder' /\ Heals'
    BY <2>1 DEF AllGenerated, Generated, NoGhosts, SetupOrder, Heals, AtSetup, Quiet
  <2> QED
    BY <1>0, <2>1, <2>2 DEF Quiet
<1>4. ASSUME NEW p \in Pins, UnlockExisting(p)
      PROVE  Orderly'
  <2>1. screen = "startup" /\ calls = {} /\ ~navTimer /\ ~initialising
    BY <1>4 DEF UnlockExisting, StartupOffers, Linked, InStep
  <2> DEFINE w == key[inserted]
             c == [op |-> "register", by |-> "startup", wallet |-> w,
                   pin |-> p, seen |-> TRUE, at |-> InLine(calls)]
  <2>2. calls' = {c} /\ w \in Generated
    BY <1>4, <2>1 DEF UnlockExisting, BeginRegister, Opens
  <2>3. /\ meta' = meta \cup {w} /\ active' = w
        /\ UNCHANGED <<pinHash, passphrase, registry, removals, unremoved, sealedBy,
                       screen, sessionVars, setupVars, navTimer, legacy, shownKey>>
    BY <1>4 DEF UnlockExisting, BeginRegister
  <2>4. c.op = "register" /\ c.by = "startup" /\ c.wallet = w /\ c.seen /\ c.at = "store"
    BY <2>1 DEF InLine, Serving
  <2> HIDE DEF c, w
  <2>5. CallsOrder'
    BY <2>2, <2>3, <2>4
       DEF CallsOrder, OneServed, CallsKnown, CreatesFresh, RegistersActive
  <2>6. AllGenerated' /\ NoGhosts' /\ SetupOrder' /\ Heals'
    BY <2>1, <2>2, <2>3 DEF AllGenerated, Generated, NoGhosts, SetupOrder, Heals, AtSetup
  <2> QED
    BY <2>5, <2>6
<1>5. ASSUME NEW p \in Pins, FlashNew(p)
      PROVE  Orderly'
  <2>1. screen = "startup" /\ calls = {} /\ ~navTimer /\ ~initialising
    BY <1>5 DEF FlashNew, StartupOffers, Linked, InStep
  <2>2. PICK w \in Wallets \ Generated :
          /\ sealedBy' = [sealedBy EXCEPT ![w] = p] /\ HandOver(w, p)
          /\ registry' = Seeded(active, meta) \cup {w}
    BY <1>5 DEF FlashNew
  <2>3. /\ UNCHANGED <<active, meta, pinHash, passphrase, removals, unremoved, calls,
                       setupVars, navTimer, legacy, shownKey>>
        /\ screen' = "complete"
    BY <1>5 DEF FlashNew
  <2>4. Generated' = Generated \cup {w}
    BY <2>2 DEF Generated, OnboardingTypeOK, StoreTypeOK
  <2>5. AllGenerated'
    BY <2>2, <2>3, <2>4 DEF AllGenerated, Seeded, OnboardingTypeOK, StoreTypeOK
  <2>6. NoGhosts' /\ SetupOrder' /\ Heals'
    BY <2>1, <2>2, <2>3 DEF NoGhosts, HandOver, SetupOrder, Heals, AtSetup
  <2> QED
    BY <1>0, <2>1, <2>3, <2>5, <2>6
<1>6. ASSUME NEW p \in Pins, FlashFails(p)
      PROVE  Orderly'
  <2>1. screen = "startup" /\ calls = {} /\ ~navTimer /\ ~initialising
    BY <1>6 DEF FlashFails, StartupOffers, Linked, InStep
  <2>2. UNCHANGED <<phoneVars, calls, screen, sessionVars, setupVars, navTimer,
                    legacy, shownKey>>
    BY <1>6 DEF FlashFails
  <2>3. Generated \subseteq Generated'
    BY <1>6 DEF FlashFails, Generated, OnboardingTypeOK, StoreTypeOK
  <2>4. AllGenerated' /\ NoGhosts' /\ SetupOrder' /\ Heals'
    BY <2>1, <2>2, <2>3 DEF AllGenerated, NoGhosts, SetupOrder, Heals, AtSetup
  <2> QED
    BY <1>0, <2>1, <2>2, <2>4
<1> QED
  BY <1>1, <1>2, <1>3, <1>4, <1>5, <1>6

\* So does a step of PinSetup.
LEMMA SetupStepOrder ==
    ASSUME OnboardingTypeOK, Linked, Orderly,
           \/ InitSetup \/ PinTimer \/ ConfirmPin
           \/ Prompt \/ PromptRefused \/ PromptPassed
           \/ \E p \in Pins : EnterPin(p)
    PROVE  Orderly'
<1> USE DEF storeVars, phoneVars, removalVars, driveVars, sessionVars, setupVars
<1>1. ASSUME AtSetup, AtSetup',
             UNCHANGED <<storeVars, screen, flashPubkey, navTimer, initialising, legacy,
                         shownKey, setupFailed>>
      PROVE  Orderly'
  BY <1>1 DEF Orderly, CallsOrder, OneServed, CallsKnown, CreatesFresh, RegistersActive,
     AllGenerated, Generated, SetupOrder, AtSetup, Heals, NoGhosts
<1>2. ASSUME NEW p \in Pins, Finalize(p), screen = "pin-setup", ~initialising',
             flashPubkey # None => Quiet /\ p = sealedBy[flashPubkey],
             \A c \in calls : c.seen,
             UNCHANGED <<screen, navTimer, shownKey, legacy>>
      PROVE  Orderly'
  <2>1. /\ CallsOrder' /\ AllGenerated' /\ Heals' /\ NoGhosts'
        /\ \E c \in calls' : c.by = "setup"
        /\ \A c \in calls' : c.seen
    BY <1>2, FinalizeOrder
  <2>2. SetupOrder'
    BY <1>2, <2>1 DEF SetupOrder, AtSetup
  <2> QED
    BY <2>1, <2>2 DEF Orderly
<1>3. CASE InitSetup
  <2>1. /\ initialising /\ ~initialising' /\ screen = "pin-setup" /\ Quiet
        /\ flashPin # None /\ flashPubkey # None /\ flashPin = sealedBy[flashPubkey]
        /\ UNCHANGED <<screen, navTimer, legacy, shownKey, setupFailed>>
    BY <1>3 DEF InitSetup, Linked, InStep, OneAtATime, HandedOver
  <2>2. CASE biometric
    <3>1. UNCHANGED <<storeVars, flashPubkey>>
      BY <1>3, <2>2 DEF InitSetup
    <3> QED
      BY <2>1, <3>1 DEF Orderly, CallsOrder, OneServed, CallsKnown, CreatesFresh,
         RegistersActive, AllGenerated, Generated, SetupOrder, AtSetup, Quiet, Heals, NoGhosts
  <2>3. CASE ~biometric
    <3>1. Finalize(flashPin) /\ flashPin \in Pins
      BY <1>3, <2>1, <2>3 DEF InitSetup, OnboardingTypeOK, ScreenTypeOK
    <3> QED
      BY <1>2, <2>1, <3>1 DEF Quiet
  <2> QED
    BY <2>2, <2>3
<1>4. ASSUME NEW p \in Pins, EnterPin(p)
      PROVE  Orderly'
  BY <1>1, <1>4 DEF EnterPin, PinSetupOffers, AtSetup
<1>9. CASE PinTimer
  BY <1>1, <1>9 DEF PinTimer, Linked, InStep, AtSetup
<1>5. CASE ConfirmPin
  <2>1. /\ AtSetup /\ phase = "pin-confirm" /\ savedPin # None /\ flashPubkey = None
        /\ ~biometric
        /\ UNCHANGED <<screen, initialising, navTimer, legacy, shownKey, setupFailed>>
    BY <1>5 DEF ConfirmPin, PinSetupOffers, AtSetup, Linked, InStep, HandedOver
  <2>2. Finalize(savedPin) /\ savedPin \in Pins
    BY <1>5, <2>1 DEF ConfirmPin, OnboardingTypeOK, ScreenTypeOK
  <2> QED
    BY <1>2, <2>1, <2>2 DEF AtSetup, Orderly, SetupOrder
<1>6. CASE Prompt
  BY <1>1, <1>6 DEF Prompt, PinSetupOffers, AtSetup
<1>7. CASE PromptRefused
  BY <1>1, <1>7 DEF PromptRefused, Linked, InStep, AtSetup
<1>8. CASE PromptPassed
  <2>1. /\ AtSetup /\ phase = "biometric" /\ biometric /\ savedPin # None
        /\ authenticating = "prompt"
        /\ UNCHANGED <<screen, initialising, navTimer, shownKey, legacy>>
    BY <1>8 DEF PromptPassed, Linked, InStep
  <2>2. Quiet /\ savedPin \in Pins /\ (flashPubkey # None => savedPin = sealedBy[flashPubkey])
    BY <2>1 DEF Linked, OneAtATime, HandedOver, OnboardingTypeOK, ScreenTypeOK
  <2> QED
    BY <1>2, <1>8, <2>1, <2>2 DEF PromptPassed, AtSetup, Quiet
<1> QED
  BY <1>3, <1>4, <1>5, <1>6, <1>7, <1>8, <1>9

\* And the end of PinSetup, and the home screen with its drawer.
LEMMA HomeStepOrder ==
    ASSUME OnboardingTypeOK, Linked, Orderly,
           \/ NavigateToSuccess \/ EnterColdstar \/ NewWallet
           \/ \E w \in Wallets : Switch(w) \/ Remove(w)
    PROVE  Orderly'
<1> USE StoreAssumption
<1> USE DEF storeVars, phoneVars, removalVars, driveVars, sessionVars, setupVars
<1>1. CASE NavigateToSuccess
  <2>1. /\ navTimer /\ screen' = "success" /\ LeaveScreen
        /\ ~initialising'
        /\ UNCHANGED <<phoneVars, driveVars, sessionVars, legacy, shownKey, setupFailed>>
    BY <1>1 DEF NavigateToSuccess, PinSetupState
  <2>2. ~initialising /\ \A c \in calls : c.op # "register"
    BY <2>1 DEF Linked, OneAtATime, Quiet, Orderly, CallsOrder, RegistersActive,
       OnboardingTypeOK, StoreTypeOK, Calls, Callers
  <2>3. \A c \in calls' : \E b \in calls :
          /\ c = [b EXCEPT !.seen = FALSE]
          /\ c.op = b.op /\ c.by = b.by /\ c.wallet = b.wallet /\ c.at = b.at
    BY <2>1 DEF LeaveScreen, OnboardingTypeOK, StoreTypeOK, Calls
  <2>4. OneServed' /\ CallsKnown' /\ RegistersActive'
    <3>1. OneServed'
      <4> SUFFICES ASSUME NEW c \in calls', NEW d \in calls',
                          c.at \in {"store", "hash"}, d.at \in {"store", "hash"}
                   PROVE  c = d
        BY DEF OneServed
      <4>1. PICK b \in calls : c = [b EXCEPT !.seen = FALSE] /\ c.at = b.at
        BY <2>3
      <4>2. PICK e \in calls : d = [e EXCEPT !.seen = FALSE] /\ d.at = e.at
        BY <2>3
      <4>3. b = e
        BY <4>1, <4>2 DEF Orderly, CallsOrder, OneServed
      <4> QED
        BY <4>1, <4>2, <4>3
    <3>2. CallsKnown'
      BY <2>1, <2>3 DEF Orderly, CallsOrder, CallsKnown
    <3>3. RegistersActive'
      BY <2>2, <2>3 DEF RegistersActive
    <3> QED
      BY <3>1, <3>2, <3>3
  <2>5. CreatesFresh'
    <3> SUFFICES ASSUME NEW c \in calls', c.op = "create"
                 PROVE  /\ c.by = "setup"
                        /\ c.wallet \notin registry' \cup {active', shownKey'}
                        /\ \A d \in calls' \ {c} : d.wallet # c.wallet
      BY DEF CreatesFresh
    <3>1. PICK b \in calls :
            /\ c = [b EXCEPT !.seen = FALSE]
            /\ c.op = b.op /\ c.by = b.by /\ c.wallet = b.wallet
      BY <2>3
    <3> QED
      BY <2>1, <2>3, <3>1 DEF Orderly, CallsOrder, CreatesFresh
  <2>6. AllGenerated' /\ SetupOrder' /\ Heals' /\ NoGhosts'
    BY <2>1, <2>2 DEF Orderly, AllGenerated, Generated, SetupOrder, AtSetup, Heals, NoGhosts
  <2> QED
    BY <2>4, <2>5, <2>6 DEF Orderly, CallsOrder
<1>2. CASE EnterColdstar
  <2>1. /\ screen = "success" /\ screen' = "home" /\ ~initialising
        /\ registry' = Seeded(active, meta)
        /\ UNCHANGED <<active, meta, pinHash, passphrase, removals, unremoved, sealedBy,
                       calls, flashPubkey, flashPin, setupVars, navTimer, legacy, shownKey,
                       setupFailed>>
    BY <1>2 DEF EnterColdstar, EnterHome, Linked, InStep
  <2>2. registry \subseteq registry' /\ registry' \subseteq registry \cup ({active} \ {None})
    BY <2>1 DEF Seeded, OnboardingTypeOK, StoreTypeOK
  <2>3. CallsOrder'
    BY <2>1, <2>2 DEF Orderly, CallsOrder, OneServed, CallsKnown, CreatesFresh,
       RegistersActive, OnboardingTypeOK, StoreTypeOK, Calls
  <2>4. AllGenerated' /\ NoGhosts'
    BY <2>1, <2>2 DEF Orderly, AllGenerated, Generated, NoGhosts
  <2>5. SetupOrder' /\ Heals'
    BY <2>1, <2>2 DEF Orderly, SetupOrder, AtSetup, Heals
  <2> QED
    BY <2>3, <2>4, <2>5 DEF Orderly
<1>3. CASE NewWallet
  <2>1. /\ screen = "home" /\ screen' = "startup" /\ ~initialising
        /\ UNCHANGED <<storeVars, flashPubkey, flashPin, setupVars, navTimer, legacy,
                       shownKey, setupFailed>>
    BY <1>3 DEF NewWallet, DrawerOffers, Linked, InStep
  <2> QED
    BY <2>1 DEF Orderly, CallsOrder, OneServed, CallsKnown, CreatesFresh, RegistersActive,
       AllGenerated, Generated, SetupOrder, AtSetup, Heals, NoGhosts
<1>4. ASSUME screen = "home"
      PROVE  ~initialising /\ \A c \in calls : c.op = "create"
  BY <1>4, ElsewhereNoStartupCall DEF Linked, InStep, Orderly, CallsOrder, RegistersActive,
     OnboardingTypeOK, StoreTypeOK, Calls, Callers
<1>5. ASSUME NEW w \in Wallets, Switch(w)
      PROVE  Orderly'
  <2>1. /\ screen = "home" /\ active' = w /\ shownKey' = PublicKey(w, meta)
        /\ registry' = Seeded(active, meta) /\ w \in Seeded(active, meta)
        /\ UNCHANGED <<meta, pinHash, passphrase, removals, unremoved, sealedBy, calls,
                       screen, flashPubkey, flashPin, setupVars, navTimer, legacy,
                       setupFailed>>
    BY <1>5 DEF Switch, SwitchWallet, DrawerOffers
  <2>2. registry' \subseteq registry \cup ({active} \ {None})
    BY <2>1 DEF Seeded, OnboardingTypeOK, StoreTypeOK
  <2>3. shownKey' \in {w, None}
    BY <2>1 DEF PublicKey
  <2>4. CallsOrder'
    BY <1>4, <2>1, <2>2, <2>3 DEF Orderly, CallsOrder, OneServed, CallsKnown, CreatesFresh,
       RegistersActive, OnboardingTypeOK, StoreTypeOK, Calls
  <2>5. AllGenerated' /\ NoGhosts'
    BY <2>1, <2>2, <2>3 DEF Orderly, AllGenerated, Generated, NoGhosts
  <2>6. SetupOrder' /\ Heals'
    BY <2>1 DEF Orderly, SetupOrder, AtSetup, Heals
  <2> QED
    BY <2>4, <2>5, <2>6 DEF Orderly
<1>6. ASSUME NEW w \in Wallets, Remove(w)
      PROVE  Orderly'
  <2>1. /\ screen = "home" /\ w \in registry
        /\ screen' \in {"home", "startup"}
        /\ meta' = meta \ {w}
        /\ passphrase' \in {passphrase, [passphrase EXCEPT ![w] = None]}
        /\ removals' = removals \cup {w} /\ unremoved' = unremoved
        /\ pinHash' = [pinHash EXCEPT ![w] = None]
        /\ registry' = Seeded(active, meta \ {w}) \ {w}
        /\ active' \in {active, None} \cup registry'
        /\ shownKey' = PublicKey(active', meta')
        /\ UNCHANGED <<sealedBy, calls, sessionVars, setupVars, navTimer, legacy, setupFailed>>
    BY <1>6 DEF Remove, RemoveWallet, BeginRemoval, DrawerOffers, MountStartup
  <2>2. registry' \subseteq registry \cup ({active} \ {None}) /\ shownKey' \in {active', None}
    BY <2>1 DEF Seeded, PublicKey, OnboardingTypeOK, StoreTypeOK
  <2>3. \A c \in calls : c.wallet # w /\ passphrase'[c.wallet] = passphrase[c.wallet]
    BY <1>4, <2>1 DEF Orderly, CallsOrder, CreatesFresh, OnboardingTypeOK, StoreTypeOK, Calls
  <2>4. CallsOrder'
    <3>1. OneServed'
      BY <2>1 DEF Orderly, CallsOrder, OneServed
    <3>2. CallsKnown'
      BY <2>1, <2>3 DEF Orderly, CallsOrder, CallsKnown
    <3>3. CreatesFresh'
      <4>1. registry' \cup {active', shownKey'} \subseteq registry \cup {active, None}
        BY <2>1, <2>2
      <4>2. \A c \in calls : c.wallet # None
        BY DEF OnboardingTypeOK, StoreTypeOK, Calls
      <4> QED
        BY <2>1, <4>1, <4>2 DEF Orderly, CallsOrder, CreatesFresh
    <3>4. RegistersActive'
      <4>1. calls' = calls
        BY <2>1
      <4> QED
        BY <1>4, <2>1, <4>1 DEF RegistersActive
    <3> QED
      BY <3>1, <3>2, <3>3, <3>4 DEF CallsOrder
  <2>5. AllGenerated'
    BY <2>1, <2>2 DEF Orderly, AllGenerated, Generated
  <2>6. NoGhosts'
    BY <2>1 DEF Orderly, NoGhosts, OnboardingTypeOK, StoreTypeOK
  <2>7. SetupOrder' /\ Heals'
    BY <1>4, <2>1 DEF Orderly, SetupOrder, AtSetup, Heals
  <2> QED
    BY <2>4, <2>5, <2>6, <2>7 DEF Orderly
<1> QED
  BY <1>1, <1>2, <1>3, <1>5, <1>6

\* A call that moves on keeps its turn, its wallet and its screen.
LEMMA MovesOrder ==
    ASSUME OnboardingTypeOK, CallsOrder, NEW c \in calls,
           NEW place \in {"queued", "store", "hash"}, Moves(c, place),
           place # "queued" => c.at \in {"store", "hash"} \/ ~Serving(calls),
           c.op = "register" => place # "queued",
           UNCHANGED <<active, registry, screen, navTimer, shownKey>>
    PROVE  /\ OneServed' /\ CreatesFresh' /\ RegistersActive'
           /\ \A a \in calls' : \/ a \in calls \ {c}
                                \/ a.at = place /\ a.wallet = c.wallet
           /\ (\E a \in calls : a.by = "setup") => \E a \in calls' : a.by = "setup"
           /\ (\A a \in calls : a.seen) => \A a \in calls' : a.seen
<1> DEFINE b == [c EXCEPT !.at = place]
<1>1. /\ b.op = c.op /\ b.by = c.by /\ b.wallet = c.wallet /\ b.seen = c.seen
      /\ b.at = place
  BY DEF OnboardingTypeOK, StoreTypeOK, Calls
<1>2. calls' = (calls \ {c}) \cup {b}
  BY DEF Moves
<1> HIDE DEF b
<1>3. OneServed'
  <2>1. place # "queued" => \A a \in calls \ {c} : a.at \notin {"store", "hash"}
    BY DEF CallsOrder, OneServed, Serving
  <2> QED
    BY <1>1, <1>2, <2>1 DEF CallsOrder, OneServed
<1>4. CreatesFresh'
  BY <1>1, <1>2 DEF CallsOrder, CreatesFresh
<1>5. RegistersActive'
  BY <1>1, <1>2 DEF CallsOrder, RegistersActive
<1> QED
  BY <1>1, <1>2, <1>3, <1>4, <1>5

\* A step of a call keeps the order.
LEMMA CallStepOrder ==
    ASSUME OnboardingTypeOK, Linked, Orderly, NEW c \in calls, CallStep(c)
    PROVE  Orderly'
<1> USE StoreAssumption
<1> USE DEF storeVars, phoneVars, removalVars, driveVars, sessionVars, setupVars
<1>1. /\ c.wallet \in Wallets /\ c.pin \in Pins /\ c.wallet \in Generated
      /\ screen \notin {"closed", "complete"} /\ ~initialising
      /\ c.op \in {"register", "create"}
  BY DEF OnboardingTypeOK, StoreTypeOK, Calls, Linked, CallsSealed, Generated, OneAtATime,
     Quiet, Orderly, SetupOrder
<1>2. ASSUME FinishCall(c)
      PROVE  /\ CallsOrder' /\ AllGenerated' /\ NoGhosts'
             /\ calls' = calls \ {c} /\ active' = c.wallet /\ c.wallet \in registry'
             /\ meta' = meta /\ \A a \in calls' : a.op # "register"
  <2>1. /\ c.at = "hash" /\ calls' = calls \ {c}
        /\ pinHash' = [pinHash EXCEPT ![c.wallet] = c.pin]
        /\ registry' = Seeded(active', meta) \cup {c.wallet}
        /\ UNCHANGED <<meta, passphrase, removals, unremoved, sealedBy>>
    BY <1>2 DEF FinishCall, Under
  <2>2. active' = c.wallet
    BY <1>1, <1>2 DEF FinishCall, Orderly, CallsOrder, RegistersActive
  <2>3. registry' \subseteq registry \cup {c.wallet}
    BY <2>1, <2>2 DEF Seeded
  <2>4. \A a \in calls' : a.op # "register"
    BY <2>1 DEF Orderly, CallsOrder, OneServed, RegistersActive
  <2>5. OneServed' /\ CallsKnown' /\ RegistersActive'
    BY <2>1, <2>4 DEF Orderly, CallsOrder, OneServed, CallsKnown, RegistersActive
  <2>6. CreatesFresh'
    <3>1. shownKey' = shownKey
      BY DEF CallStep, UnlockExistingEnds, UnlockExistingFails, SetupEnds, SetupFails, GoesOn
    <3> QED
      BY <2>1, <2>2, <2>3, <3>1 DEF Orderly, CallsOrder, CreatesFresh
  <2>7. AllGenerated'
    <3>1. UNCHANGED <<shownKey, legacy>>
      BY DEF CallStep, UnlockExistingEnds, UnlockExistingFails, SetupEnds, SetupFails, GoesOn
    <3> QED
      BY <1>1, <2>1, <2>2, <2>3, <3>1 DEF Orderly, AllGenerated, Generated
  <2>8. c.wallet \in meta
    BY <2>1 DEF Orderly, CallsOrder, CallsKnown
  <2>9. NoGhosts'
    BY <2>1, <2>8 DEF Orderly, NoGhosts, OnboardingTypeOK, StoreTypeOK
  <2> QED
    BY <2>1, <2>2, <2>4, <2>5, <2>6, <2>7, <2>9 DEF CallsOrder
<1>3. ASSUME CallFails(c), UNCHANGED <<screen, navTimer, legacy, shownKey>>
      PROVE  /\ CallsOrder' /\ AllGenerated' /\ Heals' /\ NoGhosts'
             /\ calls' = calls \ {c}
  <2>1. calls' = calls \ {c} /\ UNCHANGED <<phoneVars, sealedBy>>
    BY <1>3 DEF CallFails, WriteKeyFails, StoreFails
  <2>2. OneServed' /\ CallsKnown' /\ CreatesFresh' /\ RegistersActive'
    BY <1>3, <2>1
       DEF Orderly, CallsOrder, OneServed, CallsKnown, CreatesFresh, RegistersActive
  <2> QED
    BY <1>3, <2>1, <2>2 DEF Orderly, CallsOrder, AllGenerated, Generated, Heals, NoGhosts
<1>4. ASSUME c.by = "startup"
      PROVE  screen = "startup" /\ c.seen /\ ~navTimer /\ calls = {c}
  BY <1>4 DEF Linked, OneAtATime
<1>5. CASE UnlockExistingEnds(c)
  <2>1. /\ screen' = "complete" /\ HandOver(c.wallet, c.pin) /\ FinishCall(c)
        /\ calls' = {} /\ navTimer' = FALSE /\ initialising' = FALSE
    BY <1>1, <1>2, <1>4, <1>5
       DEF UnlockExistingEnds, OnboardingTypeOK, ScreenTypeOK
  <2>2. SetupOrder' /\ Heals'
    BY <1>1, <2>1 DEF HandOver, SetupOrder, Heals, AtSetup
  <2> QED
    BY <1>2, <2>1, <2>2 DEF Orderly
<1>6. CASE UnlockExistingFails(c)
  <2>1. /\ screen' = "startup" /\ initialising' = initialising /\ CallFails(c)
        /\ UNCHANGED <<screen, navTimer, legacy, shownKey>>
    BY <1>4, <1>6 DEF UnlockExistingFails
  <2>2. SetupOrder'
    BY <1>1, <2>1 DEF SetupOrder, AtSetup
  <2> QED
    BY <1>3, <2>1, <2>2 DEF Orderly
<1>7. CASE SetupEnds(c)
  <2>1. /\ FinishCall(c) /\ navTimer' = TRUE
        /\ UNCHANGED <<screen, sessionVars, initialising, legacy, shownKey, setupFailed>>
        /\ c.seen => phase' = "done"
    BY <1>7 DEF SetupEnds
  <2>2. SetupOrder'
    BY <1>1, <1>2, <2>1 DEF Orderly, SetupOrder, AtSetup
  <2>3. Heals'
    <3>1. c.wallet \in meta
      BY <2>1 DEF FinishCall, Under, Orderly, CallsOrder, CallsKnown
    <3>2. CASE c.wallet = shownKey
      BY <1>2, <2>1, <3>1, <3>2 DEF Heals, PublicKey
    <3>3. CASE c.wallet # shownKey
      BY <1>2, <2>1, <3>3 DEF Heals
    <3> QED
      BY <3>2, <3>3
  <2> QED
    BY <1>2, <2>1, <2>2, <2>3 DEF Orderly
<1>8. CASE SetupFails(c)
  <2>1. /\ CallFails(c) /\ setupFailed' = TRUE
        /\ UNCHANGED <<screen, sessionVars, initialising, phase, navTimer, legacy, shownKey>>
    BY <1>8 DEF SetupFails
  <2>2. SetupOrder'
    BY <1>1, <1>3, <2>1 DEF Orderly, SetupOrder, AtSetup
  <2> QED
    BY <1>3, <2>1, <2>2 DEF Orderly
<1>9. CASE GoesOn(c)
  <2>1. /\ UNCHANGED <<screen, sessionVars, setupVars, navTimer, legacy, shownKey,
                       setupFailed>>
        /\ UNCHANGED <<active, registry, pinHash, removals, sealedBy>>
    BY <1>9 DEF GoesOn, WriteKey, Serve, StorePassphrase
  <2>2. PICK place \in {"queued", "store", "hash"} :
          /\ Moves(c, place)
          /\ place # "queued" => c.at \in {"store", "hash"} \/ ~Serving(calls)
          /\ c.op = "register" => place # "queued"
          /\ \/ /\ place = "hash" /\ meta' = meta
                /\ passphrase' = [passphrase EXCEPT ![c.wallet] = c.pin]
                /\ unremoved' = unremoved \ {c.wallet}
                /\ c.wallet \in meta /\ c.wallet \notin removals
             \/ /\ place # "hash" /\ passphrase' = passphrase
                /\ unremoved' = unremoved
                /\ c.wallet \in meta'
                /\ \/ meta' = meta
                   \/ meta' = meta \cup {c.wallet} /\ c.op = "create"
    <3>1. CASE WriteKey(c)
      <4>1. c.at = "write" /\ c.op = "create"
        BY <1>1, <3>1 DEF WriteKey, Under, Orderly, CallsOrder, RegistersActive
      <4>2. InLine(calls) \in {"queued", "store", "hash"}
        BY DEF InLine
      <4> WITNESS InLine(calls) \in {"queued", "store", "hash"}
      <4> QED
        BY <3>1, <4>1 DEF WriteKey, InLine
    <3>2. CASE Serve(c)
      <4> WITNESS "store" \in {"queued", "store", "hash"}
      <4> QED
        BY <3>2 DEF Serve, Under, Orderly, CallsOrder, CallsKnown
    <3>3. CASE StorePassphrase(c)
      <4> WITNESS "hash" \in {"queued", "store", "hash"}
      <4> QED
        BY <3>3 DEF StorePassphrase, Under, Orderly, CallsOrder, CallsKnown
    <3> QED
      BY <1>9, <3>1, <3>2, <3>3 DEF GoesOn
  <2>3. /\ OneServed' /\ CreatesFresh' /\ RegistersActive'
        /\ \A a \in calls' : \/ a \in calls \ {c}
                             \/ a.at = place /\ a.wallet = c.wallet
        /\ (\E a \in calls : a.by = "setup") => \E a \in calls' : a.by = "setup"
        /\ (\A a \in calls : a.seen) => \A a \in calls' : a.seen
    BY <2>1, <2>2, MovesOrder DEF Orderly
  <2>4. meta \subseteq meta'
    BY <2>2
  <2>5. \A w \in Wallets : /\ passphrase[w] # None => passphrase'[w] # None
                           /\ passphrase'[w] # None => passphrase[w] # None \/ w \in meta
    BY <1>1, <2>2 DEF OnboardingTypeOK, StoreTypeOK
  <2>6. CallsKnown'
    <3>1. \A a \in calls : a.wallet \in Wallets
      BY DEF OnboardingTypeOK, StoreTypeOK, Calls
    <3>2. place = "hash" => passphrase'[c.wallet] # None
      BY <1>1, <2>2 DEF OnboardingTypeOK, StoreTypeOK
    <3> QED
      BY <2>1, <2>2, <2>3, <2>4, <2>5, <3>1, <3>2 DEF Orderly, CallsOrder, CallsKnown
  <2>7. AllGenerated'
    BY <2>1 DEF Orderly, AllGenerated, Generated
  <2>8. SetupOrder'
    BY <1>1, <2>1, <2>3 DEF Orderly, SetupOrder, AtSetup
  <2>9. Heals'
    <3>1. meta' = meta \/ (meta' = meta \cup {c.wallet} /\ c.wallet # active)
      BY <2>2 DEF Orderly, CallsOrder, CreatesFresh
    <3> QED
      BY <2>1, <3>1 DEF Orderly, Heals, PublicKey
  <2>10. NoGhosts'
    BY <2>1, <2>2, <2>4, <2>5 DEF Orderly, NoGhosts
  <2> QED
    BY <2>3, <2>6, <2>7, <2>8, <2>9, <2>10 DEF Orderly, CallsOrder
<1> QED
  BY <1>5, <1>6, <1>7, <1>8, <1>9 DEF CallStep

LEMMA OrderStep ==
    ASSUME OnboardingTypeOK, Linked, Orderly, [Next]_vars
    PROVE  Orderly'
<1> USE DEF storeVars, phoneVars, removalVars, driveVars, sessionVars, setupVars
<1>1. CASE Kill
  <2>1. /\ calls' = {} /\ navTimer' = FALSE /\ initialising' = FALSE /\ screen' = "closed"
        /\ unremoved' = unremoved \cup LeftBehind(removals)
        /\ UNCHANGED <<active, meta, pinHash, passphrase, registry, sealedBy, legacy,
                       shownKey>>
    BY <1>1 DEF Kill, LoseCalls, PinSetupState
  <2>2. CallsOrder' /\ AllGenerated' /\ NoGhosts'
    BY <2>1 DEF Orderly, CallsOrder, OneServed, CallsKnown, CreatesFresh, RegistersActive,
       AllGenerated, Generated, NoGhosts, LeftBehind
  <2>3. SetupOrder' /\ Heals'
    BY <2>1 DEF SetupOrder, AtSetup, Quiet, Heals
  <2> QED
    BY <2>2, <2>3 DEF Orderly
<1>2. ASSUME UNCHANGED <<phoneVars, sealedBy, calls, screen, sessionVars, setupVars,
                         navTimer, legacy, shownKey, setupFailed>>
      PROVE  Orderly'
  BY <1>2 DEF Orderly, CallsOrder, OneServed, CallsKnown, CreatesFresh, RegistersActive,
     AllGenerated, Generated, SetupOrder, AtSetup, Quiet, Heals, NoGhosts
<1>7. ASSUME NEW w \in removals, RemovalEnds(w)
      PROVE  Orderly'
  <2>1. /\ removals' = removals \ {w}
        /\ \/ /\ passphrase' = [passphrase EXCEPT ![w] = None]
              /\ unremoved' = unremoved \ {w}
           \/ /\ passphrase' = passphrase
              /\ unremoved' = unremoved \cup LeftBehind({w})
        /\ UNCHANGED <<active, meta, pinHash, registry, sealedBy, calls, screen,
                       sessionVars, setupVars, navTimer, legacy, shownKey, setupFailed>>
    BY <1>7 DEF RemovalEnds, RemovalDone, RemovalFails
  <2>2. \A v \in Wallets \ {w} : passphrase'[v] = passphrase[v]
    BY <2>1 DEF OnboardingTypeOK, StoreTypeOK
  <2>3. w \in Wallets /\ passphrase'[w] \in {None, passphrase[w]}
    BY <2>1 DEF OnboardingTypeOK, StoreTypeOK
  <2>4. CallsKnown'
    <3>1. \A c \in calls : c.at = "hash" => c.wallet \in Wallets \ {w}
      BY DEF Orderly, CallsOrder, CallsKnown, OnboardingTypeOK, StoreTypeOK, Calls
    <3> QED
      BY <2>1, <2>2, <3>1 DEF Orderly, CallsOrder, CallsKnown
  <2>5. OneServed' /\ CreatesFresh' /\ RegistersActive'
    BY <2>1 DEF Orderly, CallsOrder, OneServed, CreatesFresh, RegistersActive
  <2>6. NoGhosts'
    <3> SUFFICES ASSUME NEW v \in Wallets
                 PROVE  /\ pinHash'[v] # None => v \in meta'
                        /\ passphrase'[v] # None =>
                              v \in meta' \cup removals' \cup unremoved'
      BY DEF NoGhosts
    <3>1. CASE v = w
      BY <2>1, <2>3, <3>1 DEF Orderly, NoGhosts, LeftBehind, OnboardingTypeOK, StoreTypeOK
    <3>2. CASE v # w
      BY <2>1, <2>2, <3>2 DEF Orderly, NoGhosts
    <3> QED
      BY <3>1, <3>2
  <2>7. AllGenerated' /\ SetupOrder' /\ Heals'
    BY <2>1 DEF Orderly, AllGenerated, Generated, SetupOrder, AtSetup, Quiet, Heals
  <2> QED
    BY <2>4, <2>5, <2>6, <2>7 DEF Orderly, CallsOrder
<1>3. ASSUME NEW d \in Drives, Insert(d)
      PROVE  Orderly'
  BY <1>2, <1>3 DEF Insert
<1>4. CASE PullOut
  BY <1>2, <1>4 DEF PullOut
<1>5. CASE UNCHANGED vars
  BY <1>2, <1>5 DEF vars
<1>6. CASE ScreenStep
  BY <1>6, StartupStepOrder, SetupStepOrder, HomeStepOrder DEF ScreenStep
<1> QED
  BY <1>1, <1>3, <1>4, <1>5, <1>6, <1>7, CallStepOrder DEF Next

LEMMA InitOrder ==
    ASSUME OnboardingInit
    PROVE  Orderly
BY DEF OnboardingInit, Forgotten, Orderly, CallsOrder, OneServed, CallsKnown, CreatesFresh,
   RegistersActive, AllGenerated, Generated, SetupOrder, AtSetup, Quiet, Heals, NoGhosts

\* All of it holds in every state that is reached.
Ordered == OnboardingTypeOK /\ Linked /\ Orderly

THEOREM OrderedAlways == OnboardingSpec => []Ordered
<1>1. OnboardingInit => Ordered
  BY InitLinks, InitOrder DEF Ordered
<1>2. Ordered /\ [Next]_vars => Ordered'
  BY TypesStep, LinksStep, OrderStep DEF Ordered, Linked
<1> QED
  BY <1>1, <1>2, PTL DEF OnboardingSpec

\* A PIN hash or a passphrase is of a wallet that has its metadata, but for
\* the passphrase that a removal has not removed yet, or failed to: no call
\* that was under way writes either again, because the home screen is never
\* shown with a registration open, the drawer cannot name a wallet that is
\* being created, and a registration waits for a removal of before.
THEOREM NothingOutlivesItsWallet == OnboardingSpec => []NoGhosts
<1>1. Ordered => NoGhosts
  BY DEF Ordered, Orderly
<1> QED
  BY <1>1, OrderedAlways, PTL

\* Whatever wallet the home screen shows although another one is active, the
\* drawer has the active one and handleSwitch does not take it for the one
\* that is shown.
THEOREM DrawerAlwaysHeals == OnboardingSpec => []DrawerHeals
<1>1. Ordered => DrawerHeals
  BY DEF Ordered, Orderly, Heals, DrawerHeals
<1> QED
  BY <1>1, OrderedAlways, PTL

\* Only a call that has stored everything makes PinSetup say "Wallet
\* Secured", and the wallet of that call is the active one by then.
THEOREM SecuredWallets == OnboardingSpec => SecuredIsComplete
<1> USE StoreAssumption
<1>1. ASSUME Ordered, [Next]_vars
      PROVE  [phase # "done" /\ phase' = "done" =>
                 /\ active' \in meta' \cap registry'
                 /\ pinHash'[active'] # None
                 /\ passphrase'[active'] # None]_vars
  <2> SUFFICES ASSUME phase # "done", phase' = "done"
               PROVE  /\ active' \in meta' \cap registry'
                      /\ pinHash'[active'] # None
                      /\ passphrase'[active'] # None
    OBVIOUS
  <2>1. PICK c \in calls : SetupEnds(c)
    <3>1. CASE ScreenStep
      BY <3>1 DEF ScreenStep, Start, Unlock, UnlockExisting, FlashNew, FlashFails, Continue,
         PinSetupState, InitSetup, EnterPin, PinTimer, ConfirmPin, Prompt, PromptRefused,
         PromptPassed, NavigateToSuccess, EnterColdstar, Switch, Remove, NewWallet, setupVars
    <3>2. /\ ~Kill /\ ~PullOut /\ (\A d \in Drives : ~Insert(d)) /\ ~UNCHANGED vars
          /\ \A w \in removals : ~RemovalEnds(w)
      BY DEF Kill, PinSetupState, PullOut, Insert, RemovalEnds, vars, setupVars
    <3>3. \A c \in calls : CallStep(c) => SetupEnds(c)
      BY DEF CallStep, UnlockExistingEnds, UnlockExistingFails, SetupFails, GoesOn, setupVars
    <3> QED
      BY <1>1, <3>1, <3>2, <3>3 DEF Next
  <2>2. /\ c.at = "hash" /\ c.wallet \in Wallets /\ c.pin \in Pins
        /\ c.wallet \in meta /\ passphrase[c.wallet] # None
        /\ c.op = "register" => c.wallet = active
        /\ c.op \in {"register", "create"}
    BY <1>1, <2>1 DEF SetupEnds, FinishCall, Under, Ordered, Orderly, CallsOrder, CallsKnown,
       RegistersActive, OnboardingTypeOK, StoreTypeOK, Calls
  <2>3. /\ active' = c.wallet /\ meta' = meta /\ passphrase' = passphrase
        /\ c.wallet \in registry'
        /\ pinHash' = [pinHash EXCEPT ![c.wallet] = c.pin]
    BY <2>1, <2>2 DEF SetupEnds, FinishCall
  <2> QED
    BY <1>1, <2>2, <2>3 DEF Ordered, OnboardingTypeOK, StoreTypeOK
<1> QED
  BY <1>1, OrderedAlways, PTL DEF OnboardingSpec, SecuredIsComplete

\* PinSetup is never stuck with its button dead: whatever ends the call that
\* it waits for, a failure included, frees it.
THEOREM BusyDuringCalls == OnboardingSpec => []BusyOnlyDuringCall
<1>1. Ordered => BusyOnlyDuringCall
  BY DEF Ordered, Linked
<1> QED
  BY <1>1, OrderedAlways, PTL

\* PinSetup begins to create a wallet, over the key that is on the drive, only
\* after a registration it began has failed, while one is under way, or after
\* one when a late timer has brought the pad back before the app moves on:
\* StartupFlash always hands over a public key.
THEOREM CreatesAfterTrouble == OnboardingSpec => CreatesOnlyAfterTrouble
<1> USE DEF storeVars, phoneVars, removalVars, driveVars, sessionVars, setupVars
<1>1. ASSUME Ordered, [Next]_vars
      PROVE  [\A c \in calls' \ calls :
                 c.op = "create" /\ c.at = "write" =>
                     \/ setupFailed
                     \/ \E b \in calls : b.by = "setup"
                     \/ navTimer /\ phase = "pin-confirm"]_vars
  <2> SUFFICES ASSUME NEW c \in calls' \ calls, c.op = "create", c.at = "write"
               PROVE  \/ setupFailed
                      \/ \E b \in calls : b.by = "setup"
                      \/ navTimer /\ phase = "pin-confirm"
    OBVIOUS
  <2>1. ASSUME NEW p, Finalize(p), AtSetup
        PROVE  setupFailed \/ navTimer \/ \E b \in calls : b.by = "setup"
    <3>1. flashPubkey = None
      BY <2>1 DEF Finalize, BeginRegister
    <3> QED
      BY <1>1, <2>1, <3>1 DEF Ordered, Orderly, SetupOrder
  <2>2. CASE InitSetup
    <3>1. flashPin # None /\ flashPubkey # None
      BY <1>1, <2>2 DEF InitSetup, Ordered, Linked, HandedOver
    <3> QED
      BY <2>2, <3>1 DEF InitSetup, Finalize, BeginRegister
  <2>3. CASE ConfirmPin
    <3>1. AtSetup /\ phase = "pin-confirm"
      BY <2>3 DEF ConfirmPin, PinSetupOffers, AtSetup
    <3>2. CASE biometric
      BY <2>3, <3>2 DEF ConfirmPin
    <3>3. CASE ~biometric
      BY <2>1, <2>3, <3>1, <3>3 DEF ConfirmPin
    <3> QED
      BY <3>2, <3>3
  <2>4. CASE PromptPassed
    <3>1. AtSetup /\ ~navTimer
      BY <1>1, <2>4 DEF PromptPassed, Ordered, Linked, InStep, OneAtATime, Quiet
    <3> QED
      BY <2>1, <2>4, <3>1 DEF PromptPassed
  <2>5. CASE NavigateToSuccess
    <3>1. PICK b \in calls : c = [b EXCEPT !.seen = FALSE]
      BY <2>5 DEF NavigateToSuccess, LeaveScreen
    <3>2. b.op = "create"
      BY <1>1, <3>1 DEF Ordered, OnboardingTypeOK, StoreTypeOK, Calls
    <3> QED
      BY <1>1, <3>2 DEF Ordered, Orderly, CallsOrder, CreatesFresh
  <2>6. ASSUME NEW p \in Pins, UnlockExisting(p)
        PROVE  FALSE
    BY <2>6 DEF UnlockExisting, BeginRegister
  <2>7. ASSUME ScreenStep
        PROVE  \/ InitSetup \/ ConfirmPin \/ PromptPassed \/ NavigateToSuccess
               \/ \E p \in Pins : UnlockExisting(p)
    BY <2>7 DEF ScreenStep, Start, Unlock, FlashNew, FlashFails, Continue, EnterPin,
       PinTimer, Prompt, PromptRefused, EnterColdstar, Switch, SwitchWallet, Remove,
       RemoveWallet, NewWallet
  <2>8. /\ ~Kill /\ ~PullOut /\ (\A d \in Drives : ~Insert(d)) /\ ~UNCHANGED vars
        /\ \A w \in removals : ~RemovalEnds(w)
    BY DEF Kill, LoseCalls, PullOut, Insert, RemovalEnds, RemovalDone, RemovalFails, vars
  <2>9. ASSUME NEW a \in calls, CallStep(a)
        PROVE  FALSE
    <3>1. CASE GoesOn(a)
      <4>1. PICK place \in {"queued", "store", "hash"} : Moves(a, place)
        BY <3>1 DEF GoesOn, WriteKey, Serve, StorePassphrase, InLine
      <4>2. [a EXCEPT !.at = place].at = place
        BY <1>1 DEF Ordered, OnboardingTypeOK, StoreTypeOK, Calls
      <4> QED
        BY <4>1, <4>2 DEF Moves
    <3> QED
      BY <2>9, <3>1 DEF CallStep, UnlockExistingEnds, UnlockExistingFails, SetupEnds,
         SetupFails, FinishCall, CallFails, WriteKeyFails, StoreFails
  <2> QED
    BY <1>1, <2>2, <2>3, <2>4, <2>5, <2>6, <2>7, <2>8, <2>9 DEF Next
<1> QED
  BY <1>1, OrderedAlways, PTL DEF OnboardingSpec, CreatesOnlyAfterTrouble

=============================================================================
