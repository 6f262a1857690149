---------------------------- MODULE StartupFlash ----------------------------
(***************************************************************************)
(* Creating a cold wallet on Android: the StartupFlash screen              *)
(* (src/app/components/onboarding/StartupFlash.tsx) and flashColdWallet    *)
(* with its helpers (src/services/usb-flash.ts), one action per native     *)
(* call.  Between two calls the user may pull the drive out, plug another  *)
(* in, leave the screen (the flash goes on unwatched), or lose the app.    *)
(*                                                                         *)
(* Abstractions: the PIN is right or wrong; a fresh keypair is a wallet    *)
(* that no drive and no earlier flash ever had; one scan and (a bound) one *)
(* flash at a time.                                                        *)
(***************************************************************************)
EXTENDS ColdDrive

CONSTANT MaxFlashes    \* bound: flashes started in a behaviour

ASSUME FlashAssumption == MaxFlashes \in Nat

VARIABLES
    phase,        \* what the screen shows
    hasExisting,  \* the screen's hasExisting flag
    scan,         \* scanForDevices: "idle", "permission" or "checking"
    pc,           \* the call flashColdWallet makes next, "idle" when over
    watched,      \* the screen that started the flash is still there
    generated,    \* the wallet being flashed, or Absent
    readBack,     \* what verifyUSBWallet read from keypair.json, then pubkey.txt
    registry,     \* addToWalletRegistry: wallets in local storage
    flashes,      \* history: flashes started
    used,         \* history: wallets that exist, on drives or generated
    sawWallet,    \* history: the drive whose last check found a wallet
    undisturbed   \* history: no drive was pulled out during this flash

screenVars == <<phase, hasExisting, scan>>
flashVars == <<pc, watched, generated, readBack>>
historyVars == <<flashes, used, sawWallet, undisturbed>>
vars == <<driveVars, screenVars, flashVars, registry, historyVars>>

Phases == {"scanning", "detected", "pin-entry", "flashing", "complete", "error"}
Verifying == {"readKeypair", "readPubkey", "readVersion"}
Writing == KeyFiles \cup Verifying \cup {"eject"}
Calls == Writing \cup {"idle", "prepare", "format", "select", "reformat",
                      "structure", "generate"}

\* writeWalletToUSB writes the key files in this order, then verification.
AfterWrite ==
    [f \in KeyFiles |-> CASE f = "keypair" -> "pubkey"
                          [] f = "pubkey" -> "backupKeypair"
                          [] f = "backupKeypair" -> "backupPubkey"
                          [] f = "backupPubkey" -> "readKeypair"]

FlashInit ==
    /\ drives \in [Drives -> KnownDrives]
    /\ mounted = NoDrive
    /\ phase = "scanning"
    /\ hasExisting = FALSE
    /\ scan = "idle"
    /\ pc = "idle"
    /\ watched = TRUE
    /\ generated = Absent
    /\ readBack = Absent
    /\ registry = {}
    /\ flashes = 0
    /\ used = {w \in Wallets : KeyKept(w)}
    /\ sawWallet = NoDrive
    /\ undisturbed = TRUE

-----------------------------------------------------------------------------
(* The screen.                                                             *)

\* scanForDevices finds a device and asks for permission.
ScanFinds ==
    /\ phase = "scanning"
    /\ scan = "idle"
    /\ Mounted
    /\ phase' = "detected"
    /\ scan' = "permission"
    /\ UNCHANGED <<driveVars, hasExisting, flashVars, registry, historyVars>>

PermissionDenied ==
    /\ scan = "permission"
    /\ phase' = "scanning"
    /\ scan' = "idle"
    /\ UNCHANGED <<driveVars, hasExisting, flashVars, registry, historyVars>>

PermissionGranted ==
    /\ scan = "permission"
    /\ scan' = "checking"
    /\ UNCHANGED <<driveVars, phase, hasExisting, flashVars, registry, historyVars>>

\* checkExistingWallet: pubkey.txt can be read, or there is no wallet.
CheckExisting ==
    /\ scan = "checking"
    /\ \E pubkey \in ReadOutcomes("pubkey") :
         /\ hasExisting' = (hasExisting \/ pubkey # Absent)
         /\ sawWallet' = IF pubkey # Absent THEN mounted ELSE NoDrive
    /\ phase' = "pin-entry"
    /\ scan' = "idle"
    /\ UNCHANGED <<driveVars, flashVars, registry, flashes, used, undisturbed>>

\* handleUnlockExisting: the keypair is read, opened with the PIN and
\* registered; a wrong PIN or an unreadable keypair changes nothing.
UnlockExisting ==
    /\ phase = "pin-entry"
    /\ hasExisting
    /\ \E w \in ReadOutcomes("keypair") \cap Wallets :
          registry' = registry \cup {w}
    /\ phase' = "complete"
    /\ UNCHANGED <<driveVars, hasExisting, scan, flashVars, historyVars>>

\* handleStartFlash, offered only when no wallet was found.
StartFlashAnyway ==
    /\ phase = "pin-entry"
    /\ pc = "idle"
    /\ flashes < MaxFlashes
    /\ flashes' = flashes + 1
    /\ phase' = "flashing"
    /\ pc' = "prepare"
    /\ watched' = TRUE
    /\ UNCHANGED <<driveVars, hasExisting, scan, generated, readBack, registry,
                   used, sawWallet, undisturbed>>

StartFlash ==
    /\ phase = "pin-entry"
    /\ ~hasExisting
    /\ pc = "idle"
    /\ flashes < MaxFlashes
    /\ flashes' = flashes + 1
    /\ phase' = "flashing"
    /\ pc' = "prepare"
    /\ watched' = TRUE
    /\ UNCHANGED <<driveVars, hasExisting, scan, generated, readBack, registry,
                   used, sawWallet, undisturbed>>

\* A new screen: handleRetry, or StartupFlash left and opened again.
NewScreen ==
    /\ phase' = "scanning"
    /\ hasExisting' = FALSE
    /\ scan' = "idle"

Retry ==
    /\ phase = "error"
    /\ NewScreen
    /\ UNCHANGED <<driveVars, flashVars, registry, historyVars>>

Leave ==
    /\ NewScreen
    /\ watched' = FALSE
    /\ UNCHANGED <<driveVars, pc, generated, readBack, registry, historyVars>>

-----------------------------------------------------------------------------
(* flashColdWallet.                                                        *)

\* flashColdWallet returns: what it held in its variables is gone.
Returns ==
    /\ pc' = "idle"
    /\ generated' = Absent
    /\ readBack' = Absent
    /\ undisturbed' = TRUE

\* A failure reported with an error text turns the screen to "error"; one
\* reported without leaves it as it is.
FailLoudly ==
    /\ Returns
    /\ phase' = IF watched THEN "error" ELSE phase

FailQuietly ==
    /\ Returns
    /\ UNCHANGED phase

GoesTo(next) ==
    /\ pc' = next
    /\ UNCHANGED <<phase, generated, readBack, undisturbed>>

FlashFrame ==
    UNCHANGED <<mounted, hasExisting, scan, watched, flashes, sawWallet>>

Prepare ==
    /\ pc = "prepare"
    /\ GoesTo("format") \/ FailLoudly
    /\ UNCHANGED <<drives, registry, used>>
    /\ FlashFrame

\* formatUSBDrive; without a mount point the user is asked for the folder
\* and the format is tried once more.
Format ==
    /\ pc \in {"format", "reformat"}
    /\ \/ Clean /\ GoesTo("structure")
       \/ Clean /\ FailLoudly
       \/ UNCHANGED drives /\ FailLoudly
       \/ pc = "format" /\ ~Mounted /\ UNCHANGED drives /\ GoesTo("select")
    /\ UNCHANGED <<registry, used>>
    /\ FlashFrame

SelectDrive ==
    /\ pc = "select"
    /\ (Mounted /\ GoesTo("reformat")) \/ FailLoudly
    /\ UNCHANGED <<drives, registry, used>>
    /\ FlashFrame

WriteStructure ==
    /\ pc = "structure"
    /\ (StructureDone /\ GoesTo("generate")) \/ (StructureFails /\ FailQuietly)
    /\ UNCHANGED <<registry, used>>
    /\ FlashFrame

\* generateKeypairOnDevice, and encryptAndWriteWallet which only reshapes.
GenerateUnchecked ==
    /\ pc = "generate"
    /\ \/ \E w \in Wallets \ used : generated' = w /\ used' = used \cup {w}
       \/ UNCHANGED <<generated, used>>
    /\ pc' = "keypair"
    /\ UNCHANGED <<drives, phase, readBack, registry, undisturbed>>
    /\ FlashFrame

Generate ==
    /\ pc = "generate"
    /\ \/ \E w \in Wallets \ used :
            /\ generated' = w
            /\ used' = used \cup {w}
            /\ pc' = "keypair"
            /\ UNCHANGED <<phase, readBack, undisturbed>>
       \/ UNCHANGED used /\ FailQuietly
    /\ UNCHANGED <<drives, registry>>
    /\ FlashFrame

\* writeWalletToUSB: any write that throws ends the flash.
WriteWalletIgnoringErrors(f) ==
    /\ pc = f
    /\ WriteDone(f, generated) \/ WriteFails(f, generated)
    /\ GoesTo(AfterWrite[f])
    /\ UNCHANGED <<registry, used>>
    /\ FlashFrame

WriteWallet(f) ==
    /\ pc = f
    /\ \/ WriteDone(f, generated) /\ GoesTo(AfterWrite[f])
       \/ WriteFails(f, generated) /\ FailQuietly
    /\ UNCHANGED <<registry, used>>
    /\ FlashFrame

\* verifyUSBWallet: both files are read, compared with each other (not with
\* the wallet generated), and the marker must not be a newer one.
VerifyKeypair ==
    /\ pc = "readKeypair"
    /\ \E keypair \in ReadOutcomes("keypair") :
         IF keypair = Absent
         THEN FailQuietly
         ELSE /\ readBack' = keypair
              /\ pc' = "readPubkey"
              /\ UNCHANGED <<phase, generated, undisturbed>>
    /\ UNCHANGED <<drives, registry, used>>
    /\ FlashFrame

VerifyPubkey ==
    /\ pc = "readPubkey"
    /\ \E pubkey \in ReadOutcomes("pubkey") :
         IF Parses(readBack) /\ pubkey = readBack
         THEN GoesTo("readVersion") ELSE FailQuietly
    /\ UNCHANGED <<drives, registry, used>>
    /\ FlashFrame

VerifyVersion ==
    /\ pc = "readVersion"
    /\ \E version \in ReadOutcomes("version") :
         IF NewerThanApp(version) THEN FailQuietly ELSE GoesTo("eject")
    /\ UNCHANGED <<drives, registry, used>>
    /\ FlashFrame

\* handleStartFlash after success: the generated wallet is registered, the
\* drive ejected, and the screen moves on if it is still there.
RegisterAndEject ==
    /\ pc = "eject"
    /\ registry' = registry \cup {generated}
    /\ Returns
    /\ phase' = IF watched THEN "complete" ELSE phase
    /\ UNCHANGED <<drives, used>>
    /\ FlashFrame

FlashStep ==
    \/ Prepare
    \/ Format
    \/ SelectDrive
    \/ WriteStructure
    \/ Generate
    \/ \E f \in KeyFiles : WriteWallet(f)
    \/ VerifyKeypair
    \/ VerifyPubkey
    \/ VerifyVersion
    \/ RegisterAndEject

-----------------------------------------------------------------------------

PlugIn(d) ==
    /\ Plug(d)
    /\ UNCHANGED <<screenVars, flashVars, registry, historyVars>>

Unplug ==
    /\ PullOut
    /\ sawWallet' = NoDrive
    /\ undisturbed' = (pc = "idle")
    /\ UNCHANGED <<screenVars, flashVars, registry, flashes, used>>

\* The app dies: the flash and the screen are gone, local storage is not.
Crash ==
    /\ NewScreen
    /\ Returns
    /\ watched' = TRUE
    /\ UNCHANGED <<driveVars, registry, flashes, used, sawWallet>>

FlashNext ==
    \/ ScanFinds
    \/ PermissionDenied
    \/ PermissionGranted
    \/ CheckExisting
    \/ UnlockExisting
    \/ StartFlash
    \/ Retry
    \/ Leave
    \/ FlashStep
    \/ \E d \in Drives : PlugIn(d)
    \/ Unplug
    \/ Crash

FlashSpec == FlashInit /\ [][FlashNext]_vars

-----------------------------------------------------------------------------

\* Every variable keeps its type, and what is being written is a wallet.
FlashTypeOK ==
    /\ DriveTypeOK
    /\ phase \in Phases
    /\ hasExisting \in BOOLEAN
    /\ scan \in {"idle", "permission", "checking"}
    /\ pc \in Calls
    /\ watched \in BOOLEAN
    /\ generated \in Wallets \cup {Absent}
    /\ pc \in Writing => generated \in Wallets
    /\ readBack \in Contents
    /\ registry \subseteq Wallets
    /\ flashes \in 0..MaxFlashes
    /\ used \subseteq Wallets
    /\ sawWallet \in Drives \cup {NoDrive}
    /\ undisturbed \in BOOLEAN

\* A flash whose drive stayed in place succeeds only with the whole layout on
\* that drive: keypair, address, both backup copies and this app's marker.
FlashedDriveIsComplete ==
    pc = "eject" /\ undisturbed =>
        /\ Mounted
        /\ drives[mounted] = Flashed(generated, Current)

\* Whatever was unplugged, swapped, left or lost on the way, a wallet that a
\* flash registers has its key on some drive: the address shown to the user
\* can still be spent from.  verifyUSBWallet alone does not ensure this, for
\* it never compares with the wallet generated.
RegisteredKeyIsKept ==
    [][pc = "eject" /\ generated \in registry' => KeyKept(generated)]_vars

\* A drive on which the last check found a wallet, and which was not pulled
\* out since, is never offered to a flash, however the screen got there.
FoundWalletIsSpared ==
    [][pc = "idle" /\ pc' = "prepare" => sawWallet = NoDrive]_vars

\* "An app meeting a NEWER volume must refuse" (usb-flash.ts:97): no wallet is
\* unlocked and registered from a drive whose marker is a newer one.
NewerVolumeRefused ==
    [][pc = "idle" /\ registry' # registry
        => drives[mounted]["version"] # Newer]_vars

\* handleRetry, "Retry after error" (StartupFlash.tsx:233): a flash that has
\* failed can be tried again, so the screen says "flashing" only during one.
FlashingMeansRunning == phase = "flashing" => pc # "idle"
=============================================================================
