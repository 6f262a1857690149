----------------------------- MODULE Onboarding -----------------------------
(***************************************************************************)
(* The screens that make a wallet the active one, composed with the store: *)
(* the start of the app (App.tsx), PinUnlock, the outcome of StartupFlash  *)
(* (module StartupFlash has its steps), PinSetup, Success, the drawer of   *)
(* wallets on the home screen, and the public key WalletContext keeps.     *)
(* A screen's call outlives the screen; the app may be killed at any time, *)
(* which keeps local storage, loses session storage and every call.        *)
(*                                                                         *)
(* Abstractions: the digits of a PIN are one step, the last of them; the   *)
(* timer of 300 ms after it is a step of its own.  isBiometricAvailable    *)
(* answers before the first PIN is entered; what PinSetup left behind (a   *)
(* call, the timers of 1.5 s, of which one is kept) is over before a drive *)
(* was found and a PIN typed on the next screen; a second swipe of         *)
(* "unlock" runs in step with the first (native calls are served in order) *)
(* and is left out.                                                        *)
(* Only navigation that the app itself offers happens: there is no handler *)
(* of a back button.                                                       *)
(***************************************************************************)
EXTENDS WalletStore

CONSTANT MaxPinTimers  \* bound: timers of PinSetup's first PIN at a time

ASSUME OnboardingAssumption == MaxPinTimers \in Nat

VARIABLES
    screen,        \* the route shown, or "closed"
    creatingNew,   \* session storage: coldstar_creating_new_wallet
    flashPubkey,   \* session storage: coldstar_flash_pubkey
    flashPin,      \* session storage: coldstar_flash_pin
    initialising,  \* PinSetup waits for isBiometricAvailable
    phase,         \* PinSetup: phase
    savedPin,      \* PinSetup: savedPin
    pinTimers,     \* PinSetup: timers that ask for the confirmation
    authenticating,\* PinSetup: isAuthenticating, and what it waits for
    navTimer,      \* a timer that navigates to /onboarding/success is set
    biometric,     \* the device has usable biometrics
    legacy,        \* the wallet an older version left in local storage
    shownKey,      \* WalletContext: publicKey
    setupFailed    \* history: a call of PinSetup failed in this run

sessionVars == <<creatingNew, flashPubkey, flashPin>>
setupVars == <<initialising, phase, savedPin, pinTimers, authenticating>>
vars == <<storeVars, screen, sessionVars, setupVars, navTimer, biometric,
          legacy, shownKey, setupFailed>>

Screens == {"closed", "unlock", "startup", "complete", "pin-setup", "success",
            "home"}
Phases == {"pin-enter", "pin-confirm", "biometric", "done"}

Forgotten == [w \in Wallets |-> None]

\* A phone without a wallet, or with one of an older version; the drives are
\* blank or hold a wallet that was made on another phone.
OnboardingInit ==
    /\ active = None
    /\ meta = {}
    /\ pinHash = Forgotten
    /\ passphrase = Forgotten
    /\ registry = {}
    /\ removals = {}
    /\ unremoved = {}
    /\ sealedBy \in [Wallets -> Pins \cup {None}]
    /\ legacy \in Generated \cup {None}
    /\ key \in [Drives -> Generated \cup {None}]
    /\ Generated \subseteq {key[d] : d \in Drives} \cup {legacy}
    /\ inserted = None
    /\ calls = {}
    /\ screen = "closed"
    /\ creatingNew = FALSE
    /\ flashPubkey = None
    /\ flashPin = None
    /\ initialising = FALSE
    /\ phase = "pin-enter"
    /\ savedPin = None
    /\ pinTimers = 0
    /\ authenticating = "no"
    /\ navTimer = FALSE
    /\ biometric \in BOOLEAN
    /\ shownKey = None
    /\ setupFailed = FALSE

-----------------------------------------------------------------------------
(* What the buttons of a screen do: a handler runs only while its button   *)
(* is there to be pressed.  PinSetup's pad depends on the phase alone, so  *)
(* that it is there again when a timer changes the phase after "done".     *)

StartupOffers ==
    CASE screen = "startup" /\ inserted # None /\ ~navTimer /\ calls = {} ->
              {"unlock", "flash"}
      [] screen = "complete" -> {"continue"}
      [] OTHER -> {}

PinSetupOffers ==
    IF screen # "pin-setup" \/ initialising THEN {}
    ELSE CASE phase = "pin-enter" -> {"enter"}
           [] phase = "pin-confirm" -> {"confirm"}
           [] phase = "biometric" /\ authenticating = "no" -> {"prompt"}
           [] OTHER -> {}

DrawerOffers == IF screen = "home" THEN {"switch", "remove", "new"} ELSE {}

\* The state PinSetup has when it is mounted, and none when it is not.
PinSetupState(mounted) ==
    /\ initialising' = mounted
    /\ phase' = "pin-enter"
    /\ savedPin' = None
    /\ pinTimers' = 0
    /\ authenticating' = "no"

-----------------------------------------------------------------------------
(* Starting and unlocking.                                                 *)

\* App mounts: the older storage is migrated, and an existing wallet leads
\* to PinUnlock, no wallet to StartupFlash.
Start ==
    /\ screen = "closed"
    /\ Migrate(legacy)
    /\ legacy' = None
    /\ shownKey' = PublicKey(active', meta')
    /\ screen' = IF shownKey' = None THEN "startup" ELSE "unlock"
    /\ UNCHANGED <<registry, removalVars, driveVars, calls, sessionVars,
                   setupVars, navTimer, biometric, setupFailed>>

\* WalletDrawer is part of the home screen and reads the registry when it
\* is first rendered.
EnterHome ==
    /\ screen' = "home"
    /\ registry' = Seeded(active, meta)

\* PinUnlock: biometrics, or the PIN of whatever wallet the drive holds.
CanUnlock ==
    /\ screen = "unlock"
    /\ biometric \/ (inserted # None /\ \E p \in Pins : Opens(p, inserted))

Unlock ==
    /\ CanUnlock
    /\ EnterHome
    /\ shownKey' = PublicKey(active, meta)
    /\ UNCHANGED <<active, meta, pinHash, passphrase, removalVars, driveVars,
                   calls, sessionVars, setupVars, navTimer, biometric, legacy,
                   setupFailed>>

\* The process is killed and its screens with it.
Kill ==
    /\ screen # "closed"
    /\ screen' = "closed"
    /\ LoseCalls
    /\ creatingNew' = FALSE
    /\ flashPubkey' = None
    /\ flashPin' = None
    /\ PinSetupState(FALSE)
    /\ navTimer' = FALSE
    /\ setupFailed' = FALSE
    /\ UNCHANGED <<biometric, legacy, shownKey>>

-----------------------------------------------------------------------------
(* StartupFlash, seen from outside.                                        *)

HandOverWithoutPin(w, p) ==
    /\ flashPubkey' = w
    /\ creatingNew' = FALSE
    /\ UNCHANGED flashPin

HandOverWithoutKey(w, p) ==
    /\ flashPin' = p
    /\ creatingNew' = FALSE
    /\ UNCHANGED flashPubkey

\* What StartupFlash leaves in the session for PinSetup.
HandOver(w, p) ==
    /\ flashPubkey' = w
    /\ flashPin' = p
    /\ creatingNew' = FALSE

\* handleUnlockExisting: the PIN opened the drive, the wallet is registered.
UnlockExisting(p) ==
    /\ "unlock" \in StartupOffers
    /\ Opens(p, inserted)
    /\ BeginRegister(key[inserted], p, "startup")
    /\ UNCHANGED <<screen, sessionVars, setupVars, navTimer, biometric, legacy,
                   shownKey, setupFailed>>

UnlockExistingEnds(c) ==
    /\ c.by = "startup"
    /\ FinishCall(c)
    /\ HandOver(c.wallet, c.pin)
    /\ screen' = IF c.seen THEN "complete" ELSE screen
    /\ UNCHANGED <<setupVars, navTimer, biometric, legacy, shownKey,
                   setupFailed>>

\* handleStartFlash: a new wallet on the drive, registered by its key only;
\* the drive is ejected, if that works.  It is offered whenever no wallet was
\* seen on the drive, which a failed read may be the reason for.
FlashNew(p) ==
    /\ "flash" \in StartupOffers
    /\ \E w \in Wallets \ Generated :
         /\ key' = [key EXCEPT ![inserted] = w]
         /\ sealedBy' = [sealedBy EXCEPT ![w] = p]
         /\ registry' = Seeded(active, meta) \cup {w}
         /\ HandOver(w, p)
    /\ screen' = "complete"
    /\ inserted' \in {None, inserted}
    /\ UNCHANGED <<active, meta, pinHash, passphrase, removalVars, calls,
                   setupVars, navTimer, biometric, legacy, shownKey, setupFailed>>

\* A flash that fails, or that the user pulls the drive out of.
FlashFails(p) ==
    /\ "flash" \in StartupOffers
    /\ \/ key' = [key EXCEPT ![inserted] = None] /\ UNCHANGED sealedBy
       \/ \E w \in Wallets \ Generated :
            /\ key' = [key EXCEPT ![inserted] = w]
            /\ sealedBy' = [sealedBy EXCEPT ![w] = p]
    /\ inserted' \in {None, inserted}
    /\ UNCHANGED <<phoneVars, calls, screen, sessionVars, setupVars, navTimer,
                   biometric, legacy, shownKey, setupFailed>>

\* The redirect when StartupFlash mounts.
MountStartup(new) ==
    IF HasWallet' /\ ~new THEN screen' = "home" ELSE screen' = "startup"

-----------------------------------------------------------------------------
(* PinSetup.                                                               *)

\* "Continue" mounts PinSetup, whose effect asks for biometrics.
Continue ==
    /\ "continue" \in StartupOffers
    /\ screen' = "pin-setup"
    /\ PinSetupState(TRUE)
    /\ UNCHANGED <<storeVars, sessionVars, navTimer, biometric, legacy,
                   shownKey, setupFailed>>

\* finalizeWallet: the flashed wallet is registered, if its key is still in
\* the session; otherwise a new wallet is created on the drive.
Finalize(p) ==
    IF flashPubkey # None
    THEN flashPubkey' = None /\ BeginRegister(flashPubkey, p, "setup")
    ELSE BeginCreate(p, "setup") /\ UNCHANGED flashPubkey

\* The effect goes on: the PIN of the flash is taken out of the session.
InitSetup ==
    /\ initialising
    /\ initialising' = FALSE
    /\ flashPin' = None
    /\ IF flashPin = None
       THEN UNCHANGED <<storeVars, flashPubkey, phase, savedPin, authenticating>>
       ELSE /\ savedPin' = flashPin
            /\ IF biometric
               THEN /\ phase' = "biometric"
                    /\ authenticating' = "prompt"
                    /\ UNCHANGED <<storeVars, flashPubkey>>
               ELSE /\ Finalize(flashPin)
                    /\ UNCHANGED <<phase, authenticating>>
    /\ UNCHANGED <<screen, creatingNew, pinTimers, navTimer, biometric, legacy,
                   shownKey, setupFailed>>

\* handlePinDigit, sixth digit of the PIN.  After a backspace it can be
\* typed again, which sets another timer.
EnterPin(p) ==
    /\ "enter" \in PinSetupOffers
    /\ pinTimers < MaxPinTimers
    /\ savedPin' = p
    /\ pinTimers' = pinTimers + 1
    /\ UNCHANGED <<storeVars, screen, sessionVars, initialising, phase,
                   authenticating, navTimer, biometric, legacy, shownKey,
                   setupFailed>>

\* A timer of the sixth digit fires, whatever the phase is by then.
PinTimer ==
    /\ pinTimers > 0
    /\ pinTimers' = pinTimers - 1
    /\ phase' = "pin-confirm"
    /\ UNCHANGED <<storeVars, screen, sessionVars, initialising, savedPin,
                   authenticating, navTimer, biometric, legacy, shownKey,
                   setupFailed>>

\* Sixth digit of the confirmation, equal to the PIN.  After a backspace it
\* can be typed again, also while finalizeWallet is under way.
ConfirmPin ==
    /\ "confirm" \in PinSetupOffers
    /\ IF biometric
       THEN /\ phase' = "biometric"
            /\ authenticating' = "prompt"
            /\ UNCHANGED <<storeVars, flashPubkey>>
       ELSE /\ Finalize(savedPin)
            /\ UNCHANGED <<phase, authenticating>>
    /\ UNCHANGED <<screen, creatingNew, flashPin, initialising, savedPin,
                   pinTimers, navTimer, biometric, legacy, shownKey,
                   setupFailed>>

\* triggerBiometric, and its answer.
Prompt ==
    /\ "prompt" \in PinSetupOffers
    /\ authenticating' = "prompt"
    /\ UNCHANGED <<storeVars, screen, sessionVars, initialising, phase, savedPin,
                   pinTimers, navTimer, biometric, legacy, shownKey,
                   setupFailed>>

PromptRefused ==
    /\ authenticating = "prompt"
    /\ authenticating' = "no"
    /\ UNCHANGED <<storeVars, screen, sessionVars, initialising, phase, savedPin,
                   pinTimers, navTimer, biometric, legacy, shownKey,
                   setupFailed>>

PromptPassed ==
    /\ authenticating = "prompt"
    /\ authenticating' = "finalizing"
    /\ Finalize(savedPin)
    /\ UNCHANGED <<screen, creatingNew, flashPin, initialising, phase, savedPin,
                   pinTimers, navTimer, biometric, legacy, shownKey,
                   setupFailed>>

\* finalizeWallet returns.
SetupEnds(c) ==
    /\ c.by = "setup"
    /\ FinishCall(c)
    /\ IF c.seen THEN phase' = "done" /\ authenticating' = "no"
                 ELSE UNCHANGED <<phase, authenticating>>
    /\ navTimer' = TRUE
    /\ UNCHANGED <<screen, sessionVars, initialising, savedPin, pinTimers,
                   biometric, legacy, shownKey, setupFailed>>

SetupFailsStillBusy(c) ==
    /\ c.by = "setup"
    /\ CallFails(c)
    /\ setupFailed' = TRUE
    /\ UNCHANGED <<screen, sessionVars, setupVars, navTimer, biometric, legacy,
                   shownKey>>

SetupFails(c) ==
    /\ c.by = "setup"
    /\ CallFails(c)
    /\ authenticating' = IF c.seen THEN "no" ELSE authenticating
    /\ setupFailed' = TRUE
    /\ UNCHANGED <<screen, sessionVars, initialising, phase, savedPin, pinTimers,
                   navTimer, biometric, legacy, shownKey>>

\* handleUnlockExisting reports any failure as a wrong PIN.
UnlockExistingFails(c) ==
    /\ c.by = "startup"
    /\ CallFails(c)
    /\ UNCHANGED <<screen, sessionVars, setupVars, navTimer, biometric, legacy,
                   shownKey, setupFailed>>

GoesOn(c) ==
    /\ WriteKey(c) \/ Serve(c) \/ StorePassphrase(c)
    /\ UNCHANGED <<screen, sessionVars, setupVars, navTimer, biometric, legacy,
                   shownKey, setupFailed>>

\* The timer of finalizeWallet fires, whatever screen is shown by then.  The
\* state of PinSetup goes with it, and its other timers have no effect.
NavigateToSuccess ==
    /\ navTimer
    /\ navTimer' = FALSE
    /\ screen' = "success"
    /\ PinSetupState(FALSE)
    /\ LeaveScreen
    /\ UNCHANGED <<phoneVars, driveVars, sessionVars, biometric, legacy,
                   shownKey, setupFailed>>

\* "Enter Coldstar" navigates within the app: WalletContext stays mounted.
EnterColdstar ==
    /\ screen = "success"
    /\ creatingNew' = FALSE
    /\ EnterHome
    /\ UNCHANGED <<active, meta, pinHash, passphrase, removalVars, driveVars,
                   calls, flashPubkey, flashPin, setupVars, navTimer, biometric,
                   legacy, shownKey, setupFailed>>

-----------------------------------------------------------------------------
(* WalletDrawer, through switchActiveWallet and removeActiveWallet.        *)

Switch(w) ==
    /\ "switch" \in DrawerOffers
    /\ w # shownKey
    /\ SwitchWallet(w)
    /\ shownKey' = PublicKey(w, meta)
    /\ UNCHANGED <<screen, sessionVars, setupVars, navTimer, biometric, legacy,
                   setupFailed>>

\* The second tap of handleRemove; without a wallet left, to StartupFlash.
Remove(w) ==
    /\ "remove" \in DrawerOffers
    /\ w \in registry
    /\ RemoveWallet(w)
    /\ shownKey' = PublicKey(active', meta')
    /\ IF registry = {w} THEN MountStartup(creatingNew) ELSE UNCHANGED screen
    /\ UNCHANGED <<sessionVars, setupVars, navTimer, biometric, legacy,
                   setupFailed>>

\* The secureRemove of a wallet ends, while whatever screen is shown.
RemovalEnds(w) ==
    /\ RemovalDone(w) \/ RemovalFails(w)
    /\ UNCHANGED <<screen, sessionVars, setupVars, navTimer, biometric, legacy,
                   shownKey, setupFailed>>

NewWallet ==
    /\ "new" \in DrawerOffers
    /\ creatingNew' = TRUE
    /\ screen' = "startup"
    /\ UNCHANGED <<storeVars, flashPubkey, flashPin, setupVars, navTimer,
                   biometric, legacy, shownKey, setupFailed>>

Insert(d) ==
    /\ inserted = None
    /\ inserted' = d
    /\ UNCHANGED <<phoneVars, key, sealedBy, calls, screen, sessionVars,
                   setupVars, navTimer, biometric, legacy, shownKey, setupFailed>>

PullOut ==
    /\ inserted # None
    /\ inserted' = None
    /\ UNCHANGED <<phoneVars, key, sealedBy, calls, screen, sessionVars,
                   setupVars, navTimer, biometric, legacy, shownKey, setupFailed>>

ScreenStep ==
    \/ Start
    \/ Unlock
    \/ \E p \in Pins : UnlockExisting(p)
    \/ \E p \in Pins : FlashNew(p)
    \/ \E p \in Pins : FlashFails(p)
    \/ Continue
    \/ InitSetup
    \/ \E p \in Pins : EnterPin(p)
    \/ PinTimer
    \/ ConfirmPin
    \/ Prompt
    \/ PromptRefused
    \/ PromptPassed
    \/ NavigateToSuccess
    \/ EnterColdstar
    \/ \E w \in Wallets : Switch(w)
    \/ \E w \in Wallets : Remove(w)
    \/ NewWallet

CallStep(c) ==
    \/ UnlockExistingEnds(c)
    \/ UnlockExistingFails(c)
    \/ SetupEnds(c)
    \/ SetupFails(c)
    \/ GoesOn(c)

Next ==
    \/ ScreenStep
    \/ \E c \in calls : CallStep(c)
    \/ \E w \in removals : RemovalEnds(w)
    \/ Kill
    \/ \E d \in Drives : Insert(d)
    \/ PullOut

OnboardingSpec == OnboardingInit /\ [][Next]_vars

-----------------------------------------------------------------------------
(* Properties.                                                             *)

\* The types of the store and of the screens.
StoreTypeOK ==
    /\ active \in Wallets \cup {None}
    /\ meta \in SUBSET Wallets
    /\ pinHash \in [Wallets -> Pins \cup {None}]
    /\ passphrase \in [Wallets -> Pins \cup {None}]
    /\ registry \in SUBSET Wallets
    /\ removals \in SUBSET Wallets
    /\ unremoved \in SUBSET Wallets
    /\ key \in [Drives -> Wallets \cup {None}]
    /\ sealedBy \in [Wallets -> Pins \cup {None}]
    /\ inserted \in Drives \cup {None}
    /\ calls \in SUBSET Calls

ScreenTypeOK ==
    /\ screen \in Screens
    /\ creatingNew \in BOOLEAN
    /\ flashPubkey \in Wallets \cup {None}
    /\ flashPin \in Pins \cup {None}
    /\ initialising \in BOOLEAN
    /\ phase \in Phases
    /\ savedPin \in Pins \cup {None}
    /\ pinTimers \in 0 .. MaxPinTimers
    /\ authenticating \in {"no", "prompt", "finalizing"}
    /\ navTimer \in BOOLEAN
    /\ biometric \in BOOLEAN
    /\ legacy \in Wallets \cup {None}
    /\ shownKey \in Wallets \cup {None}
    /\ setupFailed \in BOOLEAN

OnboardingTypeOK == StoreTypeOK /\ ScreenTypeOK

\* The PIN that verifyPin accepts for a wallet is the one that opens its key,
\* although the hash is stored by PinSetup, minutes after the key was sealed
\* by the flash and by way of session storage: otherwise Send takes the PIN
\* and then cannot decrypt, whatever the user types.
PinOpensKey ==
    \A w \in Wallets : /\ pinHash[w] \in {None, sealedBy[w]}
                       /\ passphrase[w] \in {None, sealedBy[w]}

\* Nothing secret of a wallet outlives it unnoticed: a PIN hash belongs to a
\* wallet that has metadata, and so does a passphrase, except while its
\* secureRemove is under way, which removeWallet does not wait for, or after
\* that was refused or lost with the app.  No call under way writes either
\* again after the wallet is gone.
NoGhosts ==
    \A w \in Wallets :
        /\ pinHash[w] # None => w \in meta
        /\ passphrase[w] # None => w \in meta \cup removals \cup unremoved

\* When PinSetup says "Wallet Secured", the active wallet has its metadata,
\* its place in the registry, its passphrase and its hash, whichever of the
\* calls that were started finished first.
SecuredIsComplete ==
    [][phase # "done" /\ phase' = "done" =>
          /\ active' \in meta' \cap registry'
          /\ pinHash'[active'] # None
          /\ passphrase'[active'] # None]_vars

\* PinSetup always follows a flash or an unlock, so that it registers the
\* wallet that is on the drive.  It creates another, over that key, only
\* after its first call failed, while that call is still under way, or in the
\* 1.5 s after "Wallet Secured", when a late timer of the first PIN has
\* brought the pad back.
CreatesOnlyAfterTrouble ==
    [][\A c \in calls' \ calls :
          c.op = "create" /\ c.at = "write" =>
              \/ setupFailed
              \/ \E b \in calls : b.by = "setup"
              \/ navTimer /\ phase = "pin-confirm"]_vars

\* WalletContext learns of an onboarding only when it is mounted again, so
\* that the home screen may show the wallet of before.  The drawer always
\* offers the way out: the active wallet is in the registry and is not the
\* one that handleSwitch takes for the active one.
DrawerHeals ==
    screen = "home" /\ shownKey # PublicKey(active, meta) =>
        active \in registry /\ active # shownKey

\* PinSetup is busy finalizing, its button dead, only while a call that it
\* waits for is under way, so that whatever ends the call frees the screen.
BusyOnlyDuringCall ==
    authenticating = "finalizing" =>
        \E c \in calls : c.by = "setup" /\ c.seen

=============================================================================
