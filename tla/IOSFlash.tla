------------------------------ MODULE IOSFlash ------------------------------
(***************************************************************************)
(* Creating a cold wallet on iOS: the same screen as StartupFlash, over    *)
(* the ColdstarStorage plugin.  The app cannot list drives: the user picks *)
(* a folder once, and every call names the drive by the saved handle, so   *)
(* that it works on that drive or fails.  There is no format; one native   *)
(* call, writeContainer, writes the whole layout, file by file, each       *)
(* atomically, and the read-back is compared with the wallet generated.    *)
(*                                                                         *)
(* Abstractions: as in StartupFlash, and the picker opens only when the    *)
(* check of the saved drive is over; a folder is a drive; a bookmark       *)
(* resolves when its drive is plugged in.  An Android behaviour and an iOS *)
(* behaviour are told apart by a platform chosen once.                     *)
(***************************************************************************)
EXTENDS StartupFlash

VARIABLES
    platform,   \* Capacitor.getPlatform()
    saved,      \* coldstar_ios_drive in local storage: the drive picked last
    device,     \* the screen's device
    target,     \* the device that flashColdWalletIOS was given
    scanned     \* scanForDevices ran for this "scanning" phase: no interval

iosVars == <<platform, saved, device, target, scanned>>
platformVars == <<vars, iosVars>>

IOSInit ==
    /\ FlashInit
    /\ platform \in {"android", "ios"}
    /\ saved = NoDrive
    /\ device = NoDrive
    /\ target = NoDrive
    /\ scanned = FALSE

\* resolveForUse: a call by handle reaches its own drive or throws.
Reaches(d) == d \in Drives /\ mounted = d

\* readContainer and its parse: a marker of a supported format, and a keypair.
Container(d) ==
    IF Reaches(d) /\ drives[d]["version"] = Current
    THEN {drives[d]["keypair"]} \cap Wallets ELSE {}

-----------------------------------------------------------------------------
(* The screen.                                                             *)

\* detectUSBIOS, once per scanning phase: no drive was picked, or its volume
\* is a newer one, or the handle is of no use any more and forgotten.
ScanFindsNone ==
    /\ phase = "scanning"
    /\ scan = "idle"
    /\ ~scanned
    /\ scanned' = TRUE
    /\ \/ saved = NoDrive /\ UNCHANGED saved
       \/ /\ Reaches(saved)
          /\ NewerThanApp(drives[saved]["version"])
          /\ UNCHANGED saved
       \/ saved # NoDrive /\ saved' = NoDrive
    /\ UNCHANGED <<vars, platform, device, target>>

\* checkUSBConnection of WalletContext, every 3 s under every screen, calls
\* detectUSBIOS as well.
PollForgets ==
    /\ saved # NoDrive
    /\ saved' = NoDrive
    /\ UNCHANGED <<vars, platform, device, target, scanned>>

Selects(d) ==
    /\ device' = d
    /\ phase' = "detected"
    /\ scan' = "checking"
    /\ UNCHANGED <<driveVars, hasExisting, flashVars, registry, historyVars,
                   platform, target>>

ScanFindsSaved ==
    /\ phase = "scanning"
    /\ scan = "idle"
    /\ ~scanned
    /\ Reaches(saved)
    /\ ~NewerThanApp(drives[saved]["version"])
    /\ scanned' = TRUE
    /\ Selects(saved)
    /\ UNCHANGED saved

\* handleSelectIOSDrive; a cancelled picker changes nothing.
PickDrive(d) ==
    /\ phase = "scanning"
    /\ scan = "idle"
    /\ scanned
    /\ Reaches(d)
    /\ saved' = d
    /\ Selects(d)
    /\ UNCHANGED scanned

\* checkExistingWallet: any failure counts as no wallet, a newer volume and
\* one without a marker among them.
CheckContainer ==
    /\ scan = "checking"
    /\ \E found \in {{}, Container(device)} :
         /\ hasExisting' = (hasExisting \/ found # {})
         /\ sawWallet' = IF found # {} THEN device ELSE NoDrive
    /\ phase' = "pin-entry"
    /\ scan' = "idle"
    /\ UNCHANGED <<driveVars, flashVars, registry, flashes, used, undisturbed,
                   iosVars>>

UnlockContainer ==
    /\ phase = "pin-entry"
    /\ hasExisting
    /\ \E w \in Container(device) : registry' = registry \cup {w}
    /\ phase' = "complete"
    /\ UNCHANGED <<driveVars, hasExisting, scan, flashVars, historyVars, iosVars>>

StartIOSFlash ==
    /\ StartFlash
    /\ target' = device
    /\ UNCHANGED <<platform, saved, device, scanned>>

IOSNewScreen ==
    /\ Retry \/ Leave \/ Crash
    /\ device' = NoDrive
    /\ scanned' = FALSE
    /\ target' = IF pc' = "idle" THEN NoDrive ELSE target
    /\ UNCHANGED <<platform, saved>>

-----------------------------------------------------------------------------
(* flashColdWalletIOS.                                                     *)

\* A result without a key or one that does not parse is reported without an
\* error text, a call that throws with one.
GenerateOnPhone ==
    /\ pc = "prepare"
    /\ \/ \E w \in Wallets \ used :
            /\ generated' = w
            /\ used' = used \cup {w}
            /\ pc' = "keypair"
            /\ UNCHANGED <<phase, readBack, undisturbed>>
       \/ UNCHANGED used /\ (FailQuietly \/ FailLoudly)
    /\ UNCHANGED <<drives, registry>>
    /\ FlashFrame

\* writeContainer writes the files in the order of AfterWrite, the marker
\* after them; what failed leaves the files written before it.
ContainerWrite(f, content, next) ==
    /\ \/ Reaches(target) /\ WriteDone(f, content) /\ GoesTo(next)
       \/ UNCHANGED drives /\ FailLoudly
    /\ UNCHANGED <<registry, used>>
    /\ FlashFrame

WriteContainer ==
    \/ \E f \in KeyFiles :
         /\ pc = f
         /\ f = "keypair" /\ Reaches(target)
              => ~NewerThanApp(drives[target]["version"])
         /\ ContainerWrite(f, generated,
              IF f = "backupPubkey" THEN "structure" ELSE AfterWrite[f])
    \/ pc = "structure" /\ ContainerWrite("version", Current, "readKeypair")

\* The gate of writeContainer comes before its first write.
RefuseNewer ==
    /\ pc = "keypair"
    /\ Reaches(target)
    /\ NewerThanApp(drives[target]["version"])
    /\ FailLoudly
    /\ UNCHANGED <<drives, registry, used>>
    /\ FlashFrame

ReadBack ==
    /\ pc = "readKeypair"
    /\ \/ \E w \in Container(target) :
            /\ readBack' = w
            /\ pc' = "readVersion"
            /\ UNCHANGED <<phase, generated, undisturbed>>
       \/ FailLoudly
    /\ UNCHANGED <<drives, registry, used>>
    /\ FlashFrame

\* verifyVolume, and the comparison with the wallet generated.
VerifyVolume ==
    /\ pc = "readVersion"
    /\ \/ /\ Reaches(target)
          /\ IF readBack = generated /\ drives[target]["version"] = Current
             THEN GoesTo("eject") ELSE FailQuietly
       \/ FailLoudly
    /\ UNCHANGED <<drives, registry, used>>
    /\ FlashFrame

IOSFlashStep ==
    /\ \/ GenerateOnPhone
       \/ WriteContainer
       \/ RefuseNewer
       \/ ReadBack
       \/ VerifyVolume
       \/ RegisterAndEject
    /\ target' = IF pc' = "idle" THEN NoDrive ELSE target
    /\ UNCHANGED <<platform, saved, device, scanned>>

IOSNext ==
    \/ ScanFindsNone
    \/ ScanFindsSaved
    \/ PollForgets
    \/ \E d \in Drives : PickDrive(d)
    \/ CheckContainer
    \/ UnlockContainer
    \/ StartIOSFlash
    \/ IOSNewScreen
    \/ IOSFlashStep
    \/ (\E d \in Drives : PlugIn(d)) /\ UNCHANGED iosVars
    \/ Unplug /\ UNCHANGED iosVars

PlatformNext ==
    \/ platform = "android" /\ FlashNext /\ UNCHANGED iosVars
    \/ platform = "ios" /\ IOSNext

PlatformSpec == IOSInit /\ [][PlatformNext]_platformVars
=============================================================================
