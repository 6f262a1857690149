------------------------- MODULE StartupFlashProofs -------------------------
(***************************************************************************)
(* What creating a cold wallet guarantees for any number of drives,        *)
(* wallets and flashes, and whatever a failed format or write leaves:      *)
(* first on Android (FlashSpec), then on either platform (PlatformSpec).   *)
(***************************************************************************)
EXTENDS IOSFlash, ColdDriveProofs

-----------------------------------------------------------------------------
(* Type correctness.                                                       *)

\* What a flash step may leave of its own variables.
LEMMA EndTyped ==
    ASSUME FlashTypeOK, FailLoudly \/ FailQuietly
    PROVE  /\ phase' \in Phases
           /\ pc' = "idle"
           /\ generated' = Absent
           /\ readBack' \in Contents
           /\ undisturbed' = TRUE
BY DEF FlashTypeOK, FailLoudly, FailQuietly, Returns, Phases, Contents

LEMMA GoesToTyped ==
    ASSUME FlashTypeOK, NEW next, GoesTo(next)
    PROVE  /\ pc' = next
           /\ phase' \in Phases
           /\ generated' = generated
           /\ readBack' \in Contents
           /\ undisturbed' \in BOOLEAN
BY DEF FlashTypeOK, GoesTo

LEMMA CallFacts ==
    /\ Writing \subseteq Calls
    /\ "idle" \in Calls \ Writing
    /\ Verifying \subseteq Writing
    /\ "eject" \in Writing
    /\ KeyFiles \subseteq Writing
BY DEF Writing, Calls, Verifying, KeyFiles

LEMMA FlashTypedInit ==
    ASSUME FlashInit
    PROVE  FlashTypeOK
<1>1. KnownDrives \subseteq [Files -> Contents]
  BY DEF KnownDrives, Blank, Flashed, Legacy, Files, KeyFiles, Contents
<1>2. DriveTypeOK
  BY <1>1 DEF FlashInit, DriveTypeOK
<1>3. flashes \in 0..MaxFlashes
  BY FlashAssumption DEF FlashInit
<1> QED
  BY <1>2, <1>3, CallFacts DEF FlashInit, FlashTypeOK, Phases, Contents

LEMMA FlashTypedStep ==
    ASSUME FlashTypeOK, [FlashNext]_vars
    PROVE  FlashTypeOK'
<1>1. CASE UNCHANGED vars
  BY <1>1
  DEF FlashTypeOK, DriveTypeOK, vars, driveVars, screenVars, flashVars, historyVars
<1>2. CASE FlashStep
  <2>1. CASE Prepare \/ SelectDrive
    BY <2>1 DEF FlashTypeOK, DriveTypeOK, Prepare, SelectDrive, GoesTo, FailLoudly,
                Returns, FlashFrame, Phases, Calls, Writing, Verifying, KeyFiles,
                Contents
  <2>2. CASE Format
    <3>1. Shape'
      BY <2>2, CleanTyped, DriveTypes DEF Format, FlashTypeOK, Shape
    <3> QED
      BY <2>2, <3>1, DriveTypes, ZenonT(60)
      DEF FlashTypeOK, Format, GoesTo, FailLoudly, Returns, FlashFrame, Phases,
          Calls, Writing, Verifying, KeyFiles, Contents, Shape, DriveTypeOK
  <2>3. CASE WriteStructure
    <3>1. Shape'
      BY <2>3, WriteDoneTyped, WriteFailsTyped, DriveTypes
      DEF WriteStructure, StructureDone, StructureFails, FlashTypeOK, Files, Contents
    <3> QED
      BY <2>3, <3>1, DriveTypes
      DEF FlashTypeOK, WriteStructure, GoesTo, FailQuietly, Returns, FlashFrame,
          Phases, Calls, Writing, Verifying, KeyFiles, Contents, Shape, DriveTypeOK
  <2>4. CASE Generate
    BY <2>4 DEF FlashTypeOK, DriveTypeOK, Generate, FailQuietly, Returns, FlashFrame,
                Phases, Calls, Writing, Verifying, KeyFiles, Contents
  <2>5. ASSUME NEW f \in KeyFiles, WriteWallet(f)
        PROVE  FlashTypeOK'
    <3>1. generated \in Wallets /\ generated \in Contents /\ f \in Files
      BY <2>5 DEF WriteWallet, FlashTypeOK, Writing, Contents, Files
    <3>2. Shape'
      BY <2>5, <3>1, WriteDoneTyped, WriteFailsTyped, DriveTypes
      DEF WriteWallet, FlashTypeOK
    <3>3. AfterWrite[f] \in Writing
      BY <2>5 DEF AfterWrite, Writing, KeyFiles, Verifying
    <3> QED
      BY <2>5, <3>1, <3>2, <3>3, DriveTypes, CallFacts
      DEF FlashTypeOK, WriteWallet, GoesTo, FailQuietly, Returns, FlashFrame,
          Contents, Shape, DriveTypeOK
  <2>6. CASE VerifyKeypair
    BY <2>6, ReadTyped, DriveTypes
    DEF FlashTypeOK, DriveTypeOK, VerifyKeypair, FailQuietly, Returns, FlashFrame,
        Calls, Writing, Verifying, Files, KeyFiles, Contents
  <2>7. CASE VerifyPubkey \/ VerifyVersion
    BY <2>7, CallFacts
    DEF FlashTypeOK, DriveTypeOK, VerifyPubkey, VerifyVersion, GoesTo, FailQuietly,
        Returns, FlashFrame, Verifying, Contents
  <2>8. CASE RegisterAndEject
    BY <2>8, CallFacts
    DEF FlashTypeOK, DriveTypeOK, RegisterAndEject, Returns, FlashFrame, Phases,
        Contents
  <2> QED
    BY <1>2, <2>1, <2>2, <2>3, <2>4, <2>5, <2>6, <2>7, <2>8 DEF FlashStep
<1>3. CASE ScanFinds \/ PermissionDenied \/ PermissionGranted
  BY <1>3 DEF FlashTypeOK, DriveTypeOK, ScanFinds, PermissionDenied,
              PermissionGranted, driveVars, flashVars, historyVars, Phases
<1>4. CASE CheckExisting
  BY <1>4 DEF FlashTypeOK, DriveTypeOK, CheckExisting, driveVars, flashVars, Phases
<1>5. CASE UnlockExisting
  BY <1>5 DEF FlashTypeOK, DriveTypeOK, UnlockExisting, driveVars, flashVars,
              historyVars, Phases
<1>6. CASE StartFlash
  BY <1>6, FlashAssumption
  DEF FlashTypeOK, DriveTypeOK, StartFlash, driveVars, Phases, Calls, Writing,
      Verifying, KeyFiles
<1>7. CASE Retry \/ Leave
  BY <1>7 DEF FlashTypeOK, DriveTypeOK, Retry, Leave, NewScreen, driveVars,
              flashVars, historyVars, Phases
<1>8. CASE Unplug \/ \E d \in Drives : PlugIn(d)
  BY <1>8 DEF FlashTypeOK, DriveTypeOK, Unplug, PullOut, PlugIn, Plug, screenVars,
              flashVars, historyVars
<1>9. CASE Crash
  BY <1>9 DEF FlashTypeOK, DriveTypeOK, Crash, NewScreen, Returns, driveVars,
              Phases, Calls, Writing, Verifying, KeyFiles, Contents
<1> QED
  BY <1>1, <1>2, <1>3, <1>4, <1>5, <1>6, <1>7, <1>8, <1>9 DEF FlashNext

\* Every variable of the screen, of the flash and of the drives keeps its
\* type, and a flash that writes or verifies has a wallet to write.
THEOREM FlashTyped == FlashSpec => []FlashTypeOK
BY FlashTypedInit, FlashTypedStep, PTL DEF FlashSpec

-----------------------------------------------------------------------------
(* The inductive invariant: how far the layout has got.                    *)

FilesDone(call) ==
    CASE call \in {"generate", "keypair"} -> {"version"}
      [] call = "pubkey" -> {"version", "keypair"}
      [] call = "backupKeypair" -> {"version", "keypair", "pubkey"}
      [] call = "backupPubkey" -> Files \ {"backupPubkey"}
      [] call \in Verifying \cup {"eject"} -> Files
      [] OTHER -> {}

Intended(f) == IF f = "version" THEN Current ELSE generated

\* While the drive stays in place, the files done are on it.
LayoutDone ==
    undisturbed =>
        \A f \in FilesDone(pc) : Mounted /\ drives[mounted][f] = Intended(f)

\* Once keypair.json has been written, its key is on some drive.
KeyDone == pc \in Writing \ {"keypair"} => KeyKept(generated)

FlashInv == FlashTypeOK /\ LayoutDone /\ KeyDone

LEMMA FilesDoneFacts ==
    /\ \A call \in {"idle", "prepare", "format", "select", "reformat", "structure"} :
         FilesDone(call) = {}
    /\ FilesDone("generate") = {"version"}
    /\ FilesDone("keypair") = {"version"}
    /\ \A f \in KeyFiles : FilesDone(AfterWrite[f]) = FilesDone(f) \cup {f}
    /\ \A call \in Verifying \cup {"eject"} : FilesDone(call) = Files
    /\ \A call : FilesDone(call) \subseteq Files
BY DEF FilesDone, AfterWrite, Files, KeyFiles, Verifying

LEMMA FlashInvInit ==
    ASSUME FlashInit
    PROVE  FlashInv
BY FlashTypedInit, FilesDoneFacts, CallFacts
DEF FlashInit, FlashInv, LayoutDone, KeyDone

\* A step that leaves the drives alone, and goes no further or stops.
LEMMA NothingWritten ==
    ASSUME FlashInv, drives' = drives,
           \/ /\ pc' = pc
              /\ generated' = generated
              /\ mounted' = mounted \/ ~undisturbed' \/ ~Mounted \/ pc = "idle"
              /\ undisturbed' = undisturbed \/ ~undisturbed' \/ pc = "idle"
           \/ pc' \in {"idle", "prepare", "format", "select", "reformat", "structure"}
    PROVE  LayoutDone' /\ KeyDone'
<1>1. CASE pc' \in {"idle", "prepare", "format", "select", "reformat", "structure"}
  BY <1>1, FilesDoneFacts DEF LayoutDone, KeyDone, Writing, KeyFiles, Verifying
<1>2. CASE /\ pc' = pc
           /\ generated' = generated
           /\ pc # "idle"
           /\ mounted' = mounted \/ ~undisturbed' \/ ~Mounted
           /\ undisturbed' = undisturbed \/ ~undisturbed'
  <2>1. KeyDone'
    BY <1>2 DEF FlashInv, KeyDone, KeyKept, HoldsKey
  <2>2. LayoutDone'
    BY <1>2 DEF FlashInv, LayoutDone, FilesDone, Intended, Mounted
  <2> QED
    BY <2>1, <2>2
<1> QED
  BY <1>1, <1>2

\* A verification step reads only.
LEMMA NothingWrittenYet ==
    ASSUME FlashInv, drives' = drives, mounted' = mounted,
           pc \in Verifying, pc' \in Verifying \cup {"eject"},
           generated' = generated, undisturbed' = undisturbed
    PROVE  LayoutDone' /\ KeyDone'
<1>1. FilesDone(pc') = FilesDone(pc)
  BY FilesDoneFacts
<1>2. pc \in Writing \ {"keypair"}
  BY DEF Writing, Verifying, KeyFiles
<1> QED
  BY <1>1, <1>2 DEF FlashInv, LayoutDone, KeyDone, Intended, Mounted, KeyKept, HoldsKey

LEMMA FlashInvStep ==
    ASSUME FlashInv, [FlashNext]_vars
    PROVE  FlashInv'
<1> FlashTypeOK'
  BY FlashTypedStep DEF FlashInv
<1> SUFFICES LayoutDone' /\ KeyDone'
  BY DEF FlashInv
<1>t. Shape
  BY DriveTypes DEF FlashInv, FlashTypeOK
<1>1. CASE UNCHANGED vars
  BY <1>1, NothingWritten DEF vars, driveVars, flashVars, historyVars
<1>2. CASE FlashStep
  <2>1. CASE Prepare \/ SelectDrive
    BY <2>1, NothingWritten
    DEF Prepare, SelectDrive, GoesTo, FailLoudly, Returns, FlashFrame
  <2>2. CASE Format
    <3>1. pc' \in {"idle", "select", "structure"}
      BY <2>2 DEF Format, GoesTo, FailLoudly, Returns
    <3> QED
      BY <3>1, FilesDoneFacts DEF LayoutDone, KeyDone, Writing, KeyFiles, Verifying
  <2>3. CASE WriteStructure
    <3>1. CASE StructureDone /\ GoesTo("generate")
      <4>1. Mounted /\ drives'[mounted]["version"] = Current
        BY <3>1, <1>t, WriteDoneEffect DEF StructureDone, Files
      <4> QED
        BY <4>1, <3>1, <2>3, FilesDoneFacts
        DEF LayoutDone, KeyDone, Intended, GoesTo, WriteStructure, FlashFrame,
            Mounted, Writing, KeyFiles, Verifying
    <3>2. CASE FailQuietly
      BY <3>2, FilesDoneFacts
      DEF FailQuietly, Returns, LayoutDone, KeyDone, Writing, KeyFiles, Verifying
    <3> QED
      BY <2>3, <3>1, <3>2 DEF WriteStructure
  <2>4. CASE Generate
    <3>1. CASE pc' = "keypair" /\ undisturbed' = undisturbed
      BY <3>1, <2>4, FilesDoneFacts
      DEF Generate, FlashFrame, FlashInv, LayoutDone, KeyDone, Intended, Mounted
    <3>2. CASE FailQuietly
      BY <3>2, FilesDoneFacts
      DEF FailQuietly, Returns, LayoutDone, KeyDone, Writing, KeyFiles, Verifying
    <3> QED
      BY <2>4, <3>1, <3>2 DEF Generate
  <2>5. ASSUME NEW f \in KeyFiles, WriteWallet(f)
        PROVE  LayoutDone' /\ KeyDone'
    <3>1. CASE FailQuietly
      BY <3>1, FilesDoneFacts
      DEF FailQuietly, Returns, LayoutDone, KeyDone, Writing, KeyFiles, Verifying
    <3>2. CASE WriteDone(f, generated) /\ GoesTo(AfterWrite[f])
      <4>1. /\ pc = f
            /\ f \in Files
            /\ f # "version"
            /\ mounted' = mounted
            /\ generated' = generated
            /\ undisturbed' = undisturbed
            /\ pc' = AfterWrite[f]
        BY <3>2, <2>5 DEF WriteWallet, GoesTo, FlashFrame, Files, KeyFiles
      <4>2. /\ Mounted
            /\ drives'[mounted][f] = generated
            /\ \A g \in Files \ {f} : drives'[mounted][g] = drives[mounted][g]
        BY <3>2, <4>1, <1>t, WriteDoneEffect
      <4>3. FilesDone(pc') = FilesDone(pc) \cup {f} /\ FilesDone(pc) \subseteq Files
        BY <4>1, FilesDoneFacts
      <4>4. LayoutDone'
        BY <4>1, <4>2, <4>3 DEF FlashInv, LayoutDone, Intended, Mounted
      <4>5. KeyKept(generated)'
        <5>1. CASE f = "keypair"
          BY <5>1, <3>2, <4>1, <1>t, WriteMakesKey DEF KeyKept, HoldsKey
        <5>2. CASE f # "keypair"
          <6>1. KeyKept(generated)
            BY <5>2, <4>1, CallFacts DEF FlashInv, KeyDone
          <6> QED
            BY <6>1, <5>2, <3>2, <4>1, <1>t, WriteKeepsKey DEF KeyKept, HoldsKey
        <5> QED
          BY <5>1, <5>2
      <4> QED
        BY <4>4, <4>5 DEF KeyDone
    <3> QED
      BY <2>5, <3>1, <3>2 DEF WriteWallet
  <2>6. CASE VerifyKeypair \/ VerifyPubkey \/ VerifyVersion
    <3>1. CASE FailQuietly
      BY <3>1, FilesDoneFacts
      DEF FailQuietly, Returns, LayoutDone, KeyDone, Writing, KeyFiles, Verifying
    <3>2. CASE ~FailQuietly
      BY <3>2, <2>6, NothingWrittenYet
      DEF VerifyKeypair, VerifyPubkey, VerifyVersion, GoesTo, FlashFrame, Verifying
    <3> QED
      BY <3>1, <3>2
  <2>7. CASE RegisterAndEject
    BY <2>7, NothingWritten DEF RegisterAndEject, Returns
  <2> QED
    BY <1>2, <2>1, <2>2, <2>3, <2>4, <2>5, <2>6, <2>7 DEF FlashStep
<1>3. CASE ScanFinds \/ PermissionDenied \/ PermissionGranted \/ CheckExisting
           \/ UnlockExisting
  BY <1>3, NothingWritten
  DEF ScanFinds, PermissionDenied, PermissionGranted, CheckExisting,
      UnlockExisting, driveVars, flashVars, historyVars
<1>4. CASE StartFlash \/ Retry \/ Leave \/ Crash
  BY <1>4, NothingWritten
  DEF StartFlash, Retry, Leave, Crash, Returns, driveVars, flashVars, historyVars
<1>5. CASE Unplug \/ \E d \in Drives : PlugIn(d)
  BY <1>5, NothingWritten
  DEF Unplug, PullOut, PlugIn, Plug, screenVars, flashVars, historyVars
<1> QED
  BY <1>1, <1>2, <1>3, <1>4, <1>5 DEF FlashNext

LEMMA FlashInvHolds == FlashSpec => []FlashInv
BY FlashInvInit, FlashInvStep, PTL DEF FlashSpec

\* A flash whose drive stayed in place succeeds only with the whole layout of
\* the wallet it generated on that drive.
THEOREM FlashedDrives == FlashSpec => []FlashedDriveIsComplete
<1>1. ASSUME FlashInv
      PROVE  FlashedDriveIsComplete
  <2> SUFFICES ASSUME pc = "eject", undisturbed
               PROVE  Mounted /\ drives[mounted] = Flashed(generated, Current)
    BY DEF FlashedDriveIsComplete
  <2>1. \A f \in Files : Mounted /\ drives[mounted][f] = Intended(f)
    BY <1>1, FilesDoneFacts DEF FlashInv, LayoutDone
  <2>2. Mounted
    BY <2>1 DEF Files
  <2>3. drives[mounted] \in [Files -> Contents]
    BY <1>1, <2>2 DEF FlashInv, FlashTypeOK, DriveTypeOK, Mounted
  <2>4. \A f \in Files : Intended(f) = Flashed(generated, Current)[f]
    BY DEF Intended, Flashed, Files, KeyFiles
  <2> QED
    BY <2>1, <2>2, <2>3, <2>4 DEF Flashed
<1> QED
  BY <1>1, FlashInvHolds, PTL

\* Every wallet that a flash registers has its key on some drive, whatever
\* was pulled out, plugged in, left or lost during the flash.
THEOREM RegisteredKeys == FlashSpec => RegisteredKeyIsKept
<1>1. ASSUME FlashInv
      PROVE  [pc = "eject" /\ generated \in registry' => KeyKept(generated)]_vars
  BY <1>1, CallFacts DEF FlashInv, KeyDone, KeyFiles
<1> QED
  BY <1>1, FlashInvHolds, PTL DEF RegisteredKeyIsKept

-----------------------------------------------------------------------------
(* What the check found decides what the screen offers.                    *)

SawInv == phase = "pin-entry" /\ ~hasExisting => sawWallet = NoDrive

LEMMA SawInvStep ==
    ASSUME FlashTypeOK, SawInv, [FlashNext]_vars
    PROVE  SawInv'
<1>1. CASE UNCHANGED vars
  BY <1>1 DEF SawInv, vars, screenVars, historyVars
<1>2. CASE FlashStep
  BY <1>2
  DEF SawInv, FlashStep, Prepare, Format, SelectDrive, WriteStructure, Generate,
      WriteWallet, VerifyKeypair, VerifyPubkey, VerifyVersion, RegisterAndEject,
      GoesTo, FailLoudly, FailQuietly, Returns, FlashFrame
<1>3. CASE ScanFinds \/ PermissionDenied \/ PermissionGranted \/ CheckExisting
           \/ UnlockExisting
  BY <1>3
  DEF SawInv, FlashTypeOK, ScanFinds, PermissionDenied, PermissionGranted,
      CheckExisting, UnlockExisting, historyVars
<1>4. CASE StartFlash \/ Retry \/ Leave \/ Crash
  BY <1>4 DEF SawInv, StartFlash, Retry, Leave, Crash, NewScreen
<1>5. CASE Unplug \/ \E d \in Drives : PlugIn(d)
  BY <1>5 DEF SawInv, Unplug, PlugIn, screenVars, historyVars
<1> QED
  BY <1>1, <1>2, <1>3, <1>4, <1>5 DEF FlashNext

LEMMA StartsSpared ==
    ASSUME SawInv, [FlashNext]_vars
    PROVE  [pc = "idle" /\ pc' = "prepare" => sawWallet = NoDrive]_vars
BY DEF SawInv, FlashNext, FlashStep, ScanFinds, PermissionDenied,
       PermissionGranted, CheckExisting, UnlockExisting, StartFlash, Retry,
       Leave, Prepare, Format, SelectDrive, WriteStructure, Generate,
       WriteWallet, KeyFiles, VerifyKeypair, VerifyPubkey, VerifyVersion,
       RegisterAndEject, PlugIn, Unplug, Crash, Returns, vars, flashVars

\* A flash is never started on a drive on which the last check found a wallet.
THEOREM FoundWallets == FlashSpec => FoundWalletIsSpared
<1>1. FlashInit => SawInv
  BY DEF FlashInit, SawInv
<1>2. FlashTypeOK /\ SawInv /\ [FlashNext]_vars => SawInv'
  BY SawInvStep
<1>3. SawInv /\ [FlashNext]_vars
        => [pc = "idle" /\ pc' = "prepare" => sawWallet = NoDrive]_vars
  BY StartsSpared
<1> QED
  BY <1>1, <1>2, <1>3, FlashTyped, PTL DEF FlashSpec, FoundWalletIsSpared

-----------------------------------------------------------------------------
(* Either platform.  On iOS every file written is on the drive that the    *)
(* flash was given, whatever was pulled out meanwhile.                     *)

IOSCalls == {"idle", "prepare", "structure", "readKeypair", "readVersion",
             "eject"} \cup KeyFiles

Contained(call) ==
    CASE call = "pubkey" -> {"keypair"}
      [] call = "backupKeypair" -> {"keypair", "pubkey"}
      [] call = "backupPubkey" -> KeyFiles \ {"backupPubkey"}
      [] call = "structure" -> KeyFiles
      [] call \in {"readKeypair", "readVersion", "eject"} -> Files
      [] OTHER -> {}

ContainerCalls ==
    /\ pc \in IOSCalls
    /\ pc \notin {"idle", "prepare"} => generated \in Wallets

ContainerDone ==
    \A f \in Contained(pc) :
        /\ target \in Drives
        /\ drives[target][f] = Intended(f)
        /\ undisturbed => mounted = target

PlatformInv ==
    /\ FlashTypeOK
    /\ platform \in {"android", "ios"}
    /\ platform = "android" => LayoutDone /\ KeyDone
    /\ platform = "ios" => ContainerCalls /\ ContainerDone

LEMMA ContainedFacts ==
    /\ \A call \in {"idle", "prepare", "keypair"} : Contained(call) = {}
    /\ Contained("pubkey") = {"keypair"}
    /\ Contained("backupKeypair") = {"keypair", "pubkey"}
    /\ Contained("backupPubkey") = {"keypair", "pubkey", "backupKeypair"}
    /\ Contained("structure") = KeyFiles
    /\ \A call \in {"readKeypair", "readVersion", "eject"} : Contained(call) = Files
    /\ \A call : Contained(call) \subseteq Files
BY DEF Contained, Files, KeyFiles

\* Where writeContainer goes after a file, the files so far are contained.
LEMMA ContainedNext ==
    /\ \A f \in KeyFiles :
         LET next == IF f = "backupPubkey" THEN "structure" ELSE AfterWrite[f]
         IN  /\ next \in IOSCalls \ {"idle", "prepare", "keypair"}
             /\ Contained(next) = Contained(f) \cup {f}
    /\ Contained("readKeypair") = Contained("structure") \cup {"version"}
BY ContainedFacts DEF IOSCalls, KeyFiles, Files, AfterWrite

LEMMA PlatformInvInit ==
    ASSUME IOSInit
    PROVE  PlatformInv
<1>1. FlashInv /\ pc = "idle"
  BY FlashInvInit DEF IOSInit, FlashInit
<1> QED
  BY <1>1, ContainedFacts
  DEF IOSInit, PlatformInv, FlashInv, ContainerCalls, ContainerDone, IOSCalls

\* A step that ends the flash, or leaves it and its drive alone.
LEMMA ContainerUntouched ==
    ASSUME PlatformInv, platform = "ios",
           \/ pc' \in {"idle", "prepare"}
           \/ /\ pc' = pc
              /\ generated' = generated
              /\ drives' = drives
              /\ target' = target
              /\ mounted' = mounted \/ ~undisturbed' \/ ~Mounted
              /\ undisturbed' = undisturbed \/ ~undisturbed'
    PROVE  ContainerCalls' /\ ContainerDone'
<1>1. CASE pc' \in {"idle", "prepare"}
  BY <1>1, ContainedFacts DEF ContainerCalls, ContainerDone, IOSCalls
<1>2. CASE /\ pc' = pc
           /\ generated' = generated
           /\ drives' = drives
           /\ target' = target
           /\ mounted' = mounted \/ ~undisturbed' \/ ~Mounted
           /\ undisturbed' = undisturbed \/ ~undisturbed'
  <2>1. ContainerCalls'
    BY <1>2 DEF PlatformInv, ContainerCalls
  <2>2. ContainerDone'
    BY <1>2 DEF PlatformInv, ContainerDone, Intended, Mounted
  <2> QED
    BY <2>1, <2>2
<1> QED
  BY <1>1, <1>2

\* One file of writeContainer.
LEMMA ContainerWriteStep ==
    ASSUME PlatformInv, platform = "ios", target' = target \/ pc' = "idle",
           NEW f \in Files, pc = f \/ (pc = "structure" /\ f = "version"),
           NEW next \in IOSCalls \ {"idle", "prepare", "keypair"},
           Contained(next) = Contained(pc) \cup {f},
           ContainerWrite(f, Intended(f), next)
    PROVE  FlashTypeOK' /\ ContainerCalls' /\ ContainerDone'
<1>1. /\ FlashTypeOK
      /\ Shape
      /\ pc \in IOSCalls \ {"idle", "prepare"}
      /\ generated \in Wallets
  BY DriveTypes DEF PlatformInv, FlashTypeOK, ContainerCalls, Files, KeyFiles
<1>2. IOSCalls \subseteq Calls
  BY DEF IOSCalls, Calls, Writing, Verifying
<1>3. CASE FailLoudly
  <2>1. FlashTypeOK'
    BY <1>1, <1>3, CallFacts
    DEF ContainerWrite, FailLoudly, Returns, FlashTypeOK, DriveTypeOK, FlashFrame,
        WriteDone, Reaches, Phases, Contents, Mounted, GoesTo, IOSCalls
  <2> QED
    BY <2>1, <1>3, ContainerUntouched DEF FailLoudly, Returns
<1>4. CASE Reaches(target) /\ WriteDone(f, Intended(f)) /\ GoesTo(next)
  <2>1. Intended(f) \in Contents
    BY <1>1 DEF Intended, Contents
  <2>2. Shape'
    BY <1>1, <1>4, <2>1, WriteDoneTyped
  <2>3. /\ pc' = next
        /\ generated' = generated
        /\ mounted' = mounted
        /\ mounted = target
        /\ target \in Drives
        /\ undisturbed' = undisturbed
        /\ next # "idle"
        /\ target' = target
    BY <1>4 DEF ContainerWrite, FlashFrame, GoesTo, Reaches
  <2>4. FlashTypeOK'
    BY <1>1, <1>2, <1>4, <2>2, <2>3, DriveTypes
    DEF FlashTypeOK, ContainerWrite, FlashFrame, GoesTo, Shape, DriveTypeOK
  <2>5. ContainerCalls'
    BY <1>1, <2>3 DEF ContainerCalls
  <2>6. /\ drives'[target][f] = Intended(f)
        /\ \A g \in Files \ {f} : drives'[target][g] = drives[target][g]
    BY <1>1, <1>4, <2>1, <2>3, WriteDoneEffect
  <2>7. \A g \in Contained(pc) : g \in Files /\ drives[target][g] = Intended(g)
    BY ContainedFacts DEF PlatformInv, ContainerDone
  <2>8. ContainerDone'
    BY <2>3, <2>6, <2>7 DEF ContainerDone, Intended
  <2> QED
    BY <2>4, <2>5, <2>8
<1> QED
  BY <1>3, <1>4 DEF ContainerWrite

LEMMA ContainerFlashStep ==
    ASSUME PlatformInv, platform = "ios", IOSFlashStep
    PROVE  FlashTypeOK' /\ ContainerCalls' /\ ContainerDone'
<1>1. FlashTypeOK /\ DriveTypeOK
  BY DEF PlatformInv, FlashTypeOK
<1>2. target' = IF pc' = "idle" THEN NoDrive ELSE target
  BY DEF IOSFlashStep
<1>3. CASE GenerateOnPhone
  <2>1. FlashTypeOK'
    BY <1>1, <1>3
    DEF GenerateOnPhone, FlashTypeOK, DriveTypeOK, FailLoudly, FailQuietly, Returns, FlashFrame,
        Phases, Calls, Writing, Verifying, KeyFiles, Contents
  <2>2. ContainerCalls' /\ ContainerDone'
    BY <1>3, ContainedFacts
    DEF GenerateOnPhone, FailLoudly, FailQuietly, Returns, ContainerCalls, ContainerDone,
        IOSCalls, KeyFiles
  <2> QED
    BY <2>1, <2>2
<1>4. CASE WriteContainer
  <2>1. ASSUME NEW f \in KeyFiles, pc = f,
               ContainerWrite(f, generated,
                 IF f = "backupPubkey" THEN "structure" ELSE AfterWrite[f])
        PROVE  FlashTypeOK' /\ ContainerCalls' /\ ContainerDone'
    <3>1. f \in Files /\ Intended(f) = generated
      BY <2>1 DEF Files, KeyFiles, Intended
    <3> QED
      BY <2>1, <3>1, <1>2, ContainedNext, ContainerWriteStep
  <2>2. CASE pc = "structure" /\ ContainerWrite("version", Current, "readKeypair")
    <3>1. /\ "version" \in Files
          /\ Intended("version") = Current
          /\ "readKeypair" \in IOSCalls \ {"idle", "prepare", "keypair"}
      BY DEF Files, Intended, IOSCalls, KeyFiles
    <3> QED
      BY <2>2, <3>1, <1>2, ContainedNext, ContainerWriteStep
  <2> QED
    BY <1>4, <2>1, <2>2 DEF WriteContainer
<1>5. CASE RefuseNewer
  <2>1. FlashTypeOK'
    BY <1>1, <1>5, EndTyped, CallFacts
    DEF RefuseNewer, FlashTypeOK, DriveTypeOK, FlashFrame
  <2> QED
    BY <2>1, <1>5, ContainerUntouched DEF RefuseNewer, FailLoudly, Returns
<1>6. CASE ReadBack \/ VerifyVolume
  <2>1. FlashTypeOK'
    BY <1>1, <1>6
    DEF ReadBack, VerifyVolume, Container, FlashTypeOK, DriveTypeOK, FailLoudly,
        FailQuietly, GoesTo, Returns, FlashFrame, Phases, Calls, Writing,
        Verifying, KeyFiles, Contents
  <2>2. CASE pc' = "idle"
    BY <2>1, <2>2, ContainerUntouched
  <2>3. CASE pc' # "idle"
    <3>1. /\ pc \in {"readKeypair", "readVersion"}
          /\ pc' \in {"readVersion", "eject"}
          /\ generated' = generated
          /\ drives' = drives
          /\ mounted' = mounted
          /\ target' = target
          /\ undisturbed' = undisturbed
      BY <1>2, <1>6, <2>3
      DEF ReadBack, VerifyVolume, GoesTo, FailLoudly, FailQuietly, Returns,
          FlashFrame
    <3>2. ContainerCalls'
      BY <3>1 DEF PlatformInv, ContainerCalls, IOSCalls
    <3>3. ContainerDone'
      BY <3>1, ContainedFacts DEF PlatformInv, ContainerDone, Intended
    <3> QED
      BY <2>1, <3>2, <3>3
  <2> QED
    BY <2>2, <2>3
<1>7. CASE RegisterAndEject
  <2>1. FlashTypeOK'
    BY <1>1, <1>7, CallFacts
    DEF FlashTypeOK, DriveTypeOK, RegisterAndEject, Returns, FlashFrame, Phases,
        Contents
  <2> QED
    BY <2>1, <1>7, ContainerUntouched DEF RegisterAndEject, Returns
<1> QED
  BY <1>3, <1>4, <1>5, <1>6, <1>7 DEF IOSFlashStep

LEMMA IOSInvStep ==
    ASSUME PlatformInv, platform = "ios", IOSNext
    PROVE  FlashTypeOK' /\ ContainerCalls' /\ ContainerDone'
<1>1. FlashTypeOK /\ DriveTypeOK
  BY DEF PlatformInv, FlashTypeOK
<1>2. CASE \/ ScanFindsNone \/ ScanFindsSaved \/ PollForgets
           \/ \E d \in Drives : PickDrive(d)
  <2>1. FlashTypeOK'
    BY <1>1, <1>2
    DEF ScanFindsNone, ScanFindsSaved, PollForgets, PickDrive, Selects, FlashTypeOK,
        DriveTypeOK, vars, driveVars, screenVars, flashVars, historyVars, Phases
  <2> QED
    BY <2>1, <1>2, ContainerUntouched
    DEF ScanFindsNone, ScanFindsSaved, PollForgets, PickDrive, Selects, vars, driveVars,
        flashVars, historyVars
<1>3. CASE CheckContainer \/ UnlockContainer
  <2>1. target' = target
    BY <1>3 DEF CheckContainer, UnlockContainer, iosVars
  <2>2. FlashTypeOK'
    <3>1. CASE UnlockContainer
      BY <1>1, <3>1
      DEF UnlockContainer, Container, FlashTypeOK, DriveTypeOK, driveVars,
          flashVars, historyVars, Phases
    <3>2. CASE CheckContainer
      <4>1. sawWallet' \in Drives \cup {NoDrive}
        BY <3>2 DEF CheckContainer, Container, Reaches
      <4> QED
        BY <1>1, <3>2, <4>1
        DEF CheckContainer, FlashTypeOK, DriveTypeOK, driveVars, flashVars, Phases
    <3> QED
      BY <1>3, <3>1, <3>2
  <2> QED
    BY <2>1, <2>2, <1>3, ContainerUntouched
    DEF CheckContainer, UnlockContainer, driveVars, flashVars, historyVars
<1>4. CASE StartIOSFlash
  <2>1. FlashTypeOK'
    BY <1>1, <1>4, FlashTypedStep DEF StartIOSFlash, FlashNext
  <2> QED
    BY <2>1, <1>4, ContainerUntouched DEF StartIOSFlash, StartFlash
<1>5. CASE IOSNewScreen
  <2>1. FlashTypeOK'
    BY <1>1, <1>5, FlashTypedStep DEF IOSNewScreen, FlashNext
  <2>2. CASE pc' = "idle"
    BY <2>1, <2>2, ContainerUntouched
  <2>3. CASE pc' # "idle"
    BY <2>1, <2>3, <1>5, ContainerUntouched
    DEF IOSNewScreen, Retry, Leave, Crash, Returns, driveVars, flashVars, historyVars
  <2> QED
    BY <2>2, <2>3
<1>6. CASE IOSFlashStep
  BY <1>6, ContainerFlashStep
<1>7. CASE UNCHANGED iosVars /\ (Unplug \/ \E d \in Drives : PlugIn(d))
  <2>1. FlashTypeOK'
    BY <1>1, <1>7, FlashTypedStep DEF FlashNext
  <2>2. CASE pc = "idle"
    BY <2>1, <2>2, <1>7, ContainerUntouched DEF Unplug, PlugIn, flashVars
  <2>3. CASE pc # "idle"
    BY <2>1, <2>3, <1>7, ContainerUntouched
    DEF Unplug, PullOut, PlugIn, Plug, flashVars, historyVars, iosVars
  <2> QED
    BY <2>2, <2>3
<1> QED
  BY <1>2, <1>3, <1>4, <1>5, <1>6, <1>7 DEF IOSNext

LEMMA PlatformKept ==
    ASSUME [PlatformNext]_platformVars
    PROVE  platform' = platform
BY DEF PlatformNext, IOSNext, platformVars, iosVars, ScanFindsNone, ScanFindsSaved, PollForgets,
       PickDrive, Selects, CheckContainer, UnlockContainer, StartIOSFlash,
       IOSNewScreen, IOSFlashStep

LEMMA PlatformInvStep ==
    ASSUME PlatformInv, [PlatformNext]_platformVars
    PROVE  PlatformInv'
<1>1. platform' = platform
  BY PlatformKept
<1>2. CASE platform = "android" /\ [FlashNext]_vars
  BY <1>1, <1>2, FlashInvStep DEF PlatformInv, FlashInv
<1>3. CASE platform = "ios" /\ IOSNext
  BY <1>1, <1>3, IOSInvStep DEF PlatformInv
<1>4. CASE platform = "ios" /\ UNCHANGED platformVars
  <2>1. FlashTypeOK'
    BY <1>4, FlashTypedStep DEF PlatformInv, platformVars
  <2> QED
    BY <1>1, <1>4, <2>1, ContainerUntouched
    DEF PlatformInv, platformVars, vars, driveVars, flashVars, historyVars, iosVars
<1> QED
  BY <1>2, <1>3, <1>4 DEF PlatformNext, platformVars, PlatformInv

LEMMA PlatformInvHolds == PlatformSpec => []PlatformInv
BY PlatformInvInit, PlatformInvStep, PTL DEF PlatformSpec
-----------------------------------------------------------------------------

\* On either platform the flash keeps its types, and writes a wallet.
THEOREM PlatformTyped == PlatformSpec => []FlashTypeOK
BY PlatformInvHolds, PTL DEF PlatformInv

\* A container that flashColdWalletIOS reports as written is complete, on the
\* drive that the user picked, even if that was pulled out in between.
THEOREM WrittenContainers ==
    PlatformSpec => [](platform = "ios" /\ pc = "eject" =>
                          drives[target] = Flashed(generated, Current))
<1>1. ASSUME PlatformInv, platform = "ios", pc = "eject"
      PROVE  drives[target] = Flashed(generated, Current)
  <2>1. \A f \in Files : target \in Drives /\ drives[target][f] = Intended(f)
    BY <1>1, ContainedFacts DEF PlatformInv, ContainerDone
  <2>2. drives[target] \in [Files -> Contents]
    BY <1>1, <2>1 DEF PlatformInv, FlashTypeOK, DriveTypeOK, Files
  <2>3. \A f \in Files : Intended(f) = Flashed(generated, Current)[f]
    BY DEF Intended, Flashed, Files, KeyFiles
  <2> QED
    BY <2>1, <2>2, <2>3 DEF Flashed
<1> QED
  BY <1>1, PlatformInvHolds, PTL

\* On either platform a flash whose drive stayed in place succeeds only with
\* the whole layout on that drive.
THEOREM PlatformDrives == PlatformSpec => []FlashedDriveIsComplete
<1>1. ASSUME PlatformInv
      PROVE  FlashedDriveIsComplete
  <2> SUFFICES ASSUME pc = "eject", undisturbed
               PROVE  Mounted /\ drives[mounted] = Flashed(generated, Current)
    BY DEF FlashedDriveIsComplete
  <2>1. \A f \in Files : Mounted /\ drives[mounted][f] = Intended(f)
    <3>1. CASE platform = "android"
      BY <1>1, <3>1, FilesDoneFacts DEF PlatformInv, LayoutDone
    <3>2. CASE platform = "ios"
      BY <1>1, <3>2, ContainedFacts DEF PlatformInv, ContainerDone, Mounted
    <3> QED
      BY <1>1, <3>1, <3>2 DEF PlatformInv
  <2>2. Mounted
    BY <2>1 DEF Files
  <2>3. drives[mounted] \in [Files -> Contents]
    BY <1>1, <2>2 DEF PlatformInv, FlashTypeOK, DriveTypeOK, Mounted
  <2>4. \A f \in Files : Intended(f) = Flashed(generated, Current)[f]
    BY DEF Intended, Flashed, Files, KeyFiles
  <2> QED
    BY <2>1, <2>2, <2>3, <2>4 DEF Flashed
<1> QED
  BY <1>1, PlatformInvHolds, PTL

\* On either platform every wallet that a flash registers has its key on some
\* drive.
THEOREM PlatformKeys == PlatformSpec => RegisteredKeyIsKept
<1>1. ASSUME PlatformInv, pc = "eject"
      PROVE  KeyKept(generated)
  <2>1. CASE platform = "android"
    BY <1>1, <2>1, CallFacts DEF PlatformInv, KeyDone
  <2>2. CASE platform = "ios"
    <3>1. "keypair" \in Contained(pc)
      BY <1>1, ContainedFacts DEF Files, KeyFiles
    <3> QED
      BY <1>1, <2>2, <3>1
      DEF PlatformInv, ContainerDone, Intended, KeyKept, HoldsKey
  <2> QED
    BY <1>1, <2>1, <2>2 DEF PlatformInv
<1>2. ASSUME PlatformInv
      PROVE  [pc = "eject" /\ generated \in registry' => KeyKept(generated)]_vars
  BY <1>1, <1>2
<1> QED
  BY <1>2, PlatformInvHolds, PTL DEF RegisteredKeyIsKept

LEMMA IOSSawInvStep ==
    ASSUME FlashTypeOK, SawInv, IOSNext
    PROVE  /\ SawInv'
           /\ pc = "idle" /\ pc' = "prepare" => sawWallet = NoDrive
<1>1. CASE \/ ScanFindsNone \/ ScanFindsSaved \/ PollForgets
           \/ \E d \in Drives : PickDrive(d)
  BY <1>1
  DEF SawInv, ScanFindsNone, ScanFindsSaved, PollForgets, PickDrive, Selects, vars, screenVars,
      flashVars, historyVars
<1>2. CASE CheckContainer \/ UnlockContainer
  BY <1>2
  DEF SawInv, FlashTypeOK, CheckContainer, UnlockContainer, flashVars, historyVars
<1>3. CASE StartIOSFlash \/ IOSNewScreen
  BY <1>3, SawInvStep
  DEF StartIOSFlash, IOSNewScreen, FlashNext, SawInv, StartFlash, Retry, Leave,
      Crash, Returns, flashVars
<1>4. CASE IOSFlashStep
  BY <1>4
  DEF SawInv, IOSFlashStep, GenerateOnPhone, WriteContainer, ContainerWrite,
      RefuseNewer, ReadBack, VerifyVolume, RegisterAndEject, GoesTo, FailLoudly,
      FailQuietly, Returns, FlashFrame, KeyFiles
<1>5. CASE Unplug \/ \E d \in Drives : PlugIn(d)
  BY <1>5, SawInvStep DEF FlashNext, Unplug, PlugIn, flashVars
<1> QED
  BY <1>1, <1>2, <1>3, <1>4, <1>5 DEF IOSNext

\* On either platform a flash is never started on a drive on which the last
\* check found a wallet.
THEOREM PlatformFoundWallets == PlatformSpec => FoundWalletIsSpared
<1>1. IOSInit => SawInv
  BY DEF IOSInit, FlashInit, SawInv
<1>2. FlashTypeOK /\ SawInv /\ [PlatformNext]_platformVars
        => /\ SawInv'
           /\ [pc = "idle" /\ pc' = "prepare" => sawWallet = NoDrive]_vars
  <2> SUFFICES ASSUME FlashTypeOK, SawInv, [PlatformNext]_platformVars
               PROVE  /\ SawInv'
                      /\ [pc = "idle" /\ pc' = "prepare" => sawWallet = NoDrive]_vars
    OBVIOUS
  <2>1. CASE IOSNext
    BY <2>1, IOSSawInvStep
  <2>2. CASE [FlashNext]_vars
    BY <2>2, SawInvStep, StartsSpared
  <2> QED
    BY <2>1, <2>2 DEF PlatformNext, platformVars
<1> QED
  BY <1>1, <1>2, PlatformTyped, PTL DEF PlatformSpec, FoundWalletIsSpared
=============================================================================
