------------------------- MODULE BackupWalletProofs -------------------------
(***************************************************************************)
(* What copying a wallet guarantees for any number of drives and wallets,  *)
(* of writes and swaps, and whatever a failed format or write leaves.      *)
(***************************************************************************)
EXTENDS BackupWallet, ColdDriveProofs

-----------------------------------------------------------------------------
(* Type correctness.                                                       *)

LEMMA CallFacts ==
    /\ Writing \subseteq Calls
    /\ "idle" \in Calls \ Writing
    /\ {"prepare", "format", "select", "reformat", "structure"} \subseteq Calls \ Writing
    /\ {"readKeypair", "readPubkey", "eject"} \subseteq Writing
    /\ Files \subseteq Writing
BY DEF Writing, Calls, Files, KeyFiles

LEMMA AfterWriteFacts ==
    ASSUME NEW f \in Files
    PROVE  /\ AfterWrite(f) \in Writing \ {"keypair", "readPubkey", "eject", "idle"}
           /\ f # "keypair" => AfterWrite(f) # "pubkey"
BY DEF AfterWrite, Writing, Files, KeyFiles

LEMMA CopyTyped ==
    ASSUME copy \in [Reads -> Contents], NEW f \in Files
    PROVE  CopyOf(f) \in Contents
BY DEF CopyOf, Files, KeyFiles, Reads

LEMMA NothingTyped == Nothing \in [Reads -> Contents]
BY DEF Nothing, Contents

LEMMA BackupTypedInit ==
    ASSUME BackupInit
    PROVE  BackupTypeOK
<1>1. KnownDrives \subseteq [Files -> Contents]
  BY DEF KnownDrives, Blank, Flashed, Legacy, Files, KeyFiles, Contents
<1>2. DriveTypeOK
  BY <1>1 DEF BackupInit, DriveTypeOK
<1>3. turns \in 0..MaxTurns
  BY BackupAssumption DEF BackupInit
<1> QED
  BY <1>2, <1>3, CallFacts, NothingTyped
  DEF BackupInit, BackupTypeOK, Stages, Contents

\* What the steps of a write do to the types of what only they change.
LEMMA ReturnTyped ==
    ASSUME BackupTypeOK, FailLoudly \/ FailQuietly, JobFrame, Shape'
    PROVE  BackupTypeOK'
<1>1. DriveTypeOK'
  BY DEF BackupTypeOK, DriveTypeOK, Shape, JobFrame
<1>2. Returns /\ UNCHANGED <<stage, snapshot>> /\ writeError' \in BOOLEAN
  BY DEF BackupTypeOK, FailLoudly, FailQuietly
<1>3. /\ copy' \in [Reads -> Contents]
      /\ readBack' \in Contents
      /\ pc' = "idle" /\ pc' \in Calls
      /\ undisturbed' \in BOOLEAN
  BY <1>2, CallFacts, NothingTyped DEF Returns, Contents
<1> QED
  BY <1>1, <1>2, <1>3 DEF BackupTypeOK, JobFrame

LEMMA GoesToTyped ==
    ASSUME BackupTypeOK, NEW next \in Calls, GoesTo(next), pc # "idle", JobFrame, Shape'
    PROVE  BackupTypeOK'
<1>1. DriveTypeOK'
  BY DEF BackupTypeOK, DriveTypeOK, Shape, JobFrame
<1> QED
  BY <1>1 DEF BackupTypeOK, GoesTo, JobFrame

LEMMA WriteStepTyped ==
    ASSUME BackupTypeOK, WriteStep
    PROVE  BackupTypeOK'
<1>t. Shape
  BY DriveTypes DEF BackupTypeOK
<1>1. CASE Prepare \/ SelectDrive
  BY <1>1, <1>t, ReturnTyped, GoesToTyped, CallFacts DEF Prepare, SelectDrive, Shape
<1>2. CASE Format
  <2>1. Shape'
    BY <1>2, <1>t, CleanTyped DEF Format, Shape
  <2> QED
    BY <1>2, <2>1, ReturnTyped, GoesToTyped, CallFacts DEF Format
<1>3. CASE WriteStructure
  <2>1. Shape'
    BY <1>3, <1>t, WriteDoneTyped, WriteFailsTyped
    DEF WriteStructure, StructureDone, StructureFails, Files, Contents
  <2> QED
    BY <1>3, <2>1, ReturnTyped, GoesToTyped, CallFacts
    DEF WriteStructure, Files, KeyFiles
<1>4. ASSUME NEW f \in Files, WriteFile(f)
      PROVE  BackupTypeOK'
  <2>1. Shape'
    BY <1>4, <1>t, CopyTyped, WriteDoneTyped, WriteFailsTyped
    DEF WriteFile, BackupTypeOK
  <2>2. AfterWrite(f) \in Calls /\ pc # "idle"
    BY <1>4, AfterWriteFacts, CallFacts DEF WriteFile
  <2> QED
    BY <1>4, <2>1, <2>2, ReturnTyped, GoesToTyped DEF WriteFile
<1>5. CASE VerifyKeypair
  <2>1. Shape'
    BY <1>5, <1>t DEF VerifyKeypair, Shape
  <2>2. PICK keypair \in ReadOutcomes("keypair") :
          IF keypair = Absent
          THEN FailQuietly
          ELSE /\ readBack' = keypair
               /\ pc' = "readPubkey"
               /\ UNCHANGED <<stage, snapshot, writeError, copy, undisturbed>>
    BY <1>5 DEF VerifyKeypair
  <2>3. keypair \in Contents
    BY <1>t, ReadTyped DEF Files, KeyFiles
  <2>4. CASE FailQuietly
    BY <1>5, <2>1, <2>4, ReturnTyped DEF VerifyKeypair
  <2>5. CASE keypair # Absent
    <3>1. DriveTypeOK'
      BY <1>5, <2>1 DEF VerifyKeypair, BackupTypeOK, DriveTypeOK, Shape, JobFrame
    <3>2. pc # "idle" /\ "readPubkey" \in Calls
      BY <1>5, CallFacts DEF VerifyKeypair
    <3> QED
      BY <1>5, <2>2, <2>3, <2>5, <3>1, <3>2 DEF VerifyKeypair, BackupTypeOK, JobFrame
  <2> QED
    BY <2>2, <2>4, <2>5
<1>6. CASE VerifyPubkey
  BY <1>6, <1>t, ReturnTyped, GoesToTyped, CallFacts DEF VerifyPubkey, Shape
<1>7. CASE CompleteAndEject
  BY <1>7, CallFacts, NothingTyped
  DEF BackupTypeOK, DriveTypeOK, CompleteAndEject, Returns, JobFrame, Stages, Contents
<1> QED
  BY <1>1, <1>2, <1>3, <1>4, <1>5, <1>6, <1>7 DEF WriteStep

LEMMA BackupTypedStep ==
    ASSUME BackupTypeOK, [BackupNext]_vars
    PROVE  BackupTypeOK'
<1>1. CASE UNCHANGED vars
  BY <1>1
  DEF BackupTypeOK, DriveTypeOK, vars, driveVars, screenVars, jobVars, historyVars
<1>2. CASE WriteStep
  BY <1>2, WriteStepTyped
<1>3. CASE Authenticate \/ Poll \/ StartRead \/ Continue \/ TryAgain
  <2>1. CASE Poll
    <3>1. Mounted \in BOOLEAN
      BY DEF Mounted
    <3>2. detected' \in BOOLEAN
      BY <2>1, <3>1 DEF Poll
    <3> QED
      BY <2>1, <3>2
      DEF Poll, BackupTypeOK, DriveTypeOK, driveVars, jobVars, historyVars
  <2>3. CASE Authenticate \/ StartRead \/ Continue \/ TryAgain
    BY <2>3
    DEF BackupTypeOK, DriveTypeOK, Authenticate, StartRead, Continue, TryAgain, Stages,
        Reads, driveVars, jobVars, historyVars
  <2> QED
    BY <1>3, <2>1, <2>3
<1>4. ASSUME NEW f \in {"keypair", "pubkey"}, ReadFile(f)
      PROVE  BackupTypeOK'
  <2>1. PICK content \in ReadOutcomes(f) :
          \/ content = Absent /\ ReadFails
          \/ /\ content # Absent
             /\ snapshot' = [snapshot EXCEPT ![f] = content]
             /\ nextRead' = IF f = "keypair" THEN "pubkey" ELSE "version"
             /\ UNCHANGED stage
    BY <1>4 DEF ReadFile
  <2>2. content \in Contents
    BY ReadTyped, DriveTypes DEF BackupTypeOK, Files, KeyFiles
  <2>3. /\ snapshot' \in [Reads -> Contents]
        /\ stage' \in Stages
        /\ nextRead' \in Reads \cup {"idle"}
    BY <2>1, <2>2, NothingTyped DEF BackupTypeOK, ReadFails, Stages, Reads
  <2>4. readFrom' \in Drives \cup {NoDrive}
    BY <1>4 DEF ReadFile, BackupTypeOK, DriveTypeOK
  <2> QED
    BY <1>4, <2>3, <2>4 DEF ReadFile, BackupTypeOK, DriveTypeOK, driveVars, jobVars
<1>5. CASE ReadVersion
  <2>1. \A c \in ReadOutcomes("version") : c \in Contents
    BY ReadTyped, DriveTypes DEF BackupTypeOK, Files
  <2>2. /\ snapshot' \in [Reads -> Contents]
        /\ stage' \in Stages
        /\ nextRead' \in Reads \cup {"idle"}
        /\ detected' \in BOOLEAN
    BY <1>5, <2>1, NothingTyped DEF ReadVersion, BackupTypeOK, ReadFails, Stages
  <2> QED
    BY <1>5, <2>2
    DEF ReadVersion, BackupTypeOK, DriveTypeOK, driveVars, jobVars, historyVars
<1>6. CASE PinVerify
  <2>1. turns' \in 0..MaxTurns
    BY <1>6, BackupAssumption DEF PinVerify, BackupTypeOK
  <2>2. /\ pc' \in Calls
        /\ copy' = snapshot
        /\ copy'["keypair"] \in Wallets
        /\ stage' \in Stages
    BY <1>6 DEF PinVerify, Parses, Calls, Stages
  <2> QED
    BY <1>6, <2>1, <2>2 DEF PinVerify, BackupTypeOK, DriveTypeOK, driveVars
<1>7. CASE Leave \/ Crash
  <2>1. /\ stage' \in Stages
        /\ detected' \in BOOLEAN
        /\ snapshot' \in [Reads -> Contents]
        /\ nextRead' \in Reads \cup {"idle"}
        /\ writeError' \in BOOLEAN
        /\ readFrom' \in Drives \cup {NoDrive}
        /\ watched' \in BOOLEAN
        /\ UNCHANGED <<driveVars, turns>>
    BY <1>7, NothingTyped DEF Leave, Crash, NewScreen, Stages
  <2>2. /\ pc' \in Calls
        /\ copy' \in [Reads -> Contents]
        /\ pc' # "idle" => copy'["keypair"] \in Wallets
        /\ readBack' \in Contents
        /\ undisturbed' \in BOOLEAN
    BY <1>7, NothingTyped, CallFacts DEF Leave, Crash, Returns, BackupTypeOK, Contents
  <2> QED
    BY <2>1, <2>2 DEF BackupTypeOK, DriveTypeOK, driveVars
<1>8. CASE Unplug \/ \E d \in Drives : PlugIn(d)
  <2>1. DriveTypeOK'
    BY <1>8 DEF BackupTypeOK, DriveTypeOK, Unplug, PullOut, PlugIn, Plug
  <2>2. turns' \in 0..MaxTurns
    BY <1>8, BackupAssumption DEF BackupTypeOK, Unplug, PlugIn, historyVars
  <2>4. undisturbed' \in BOOLEAN
    BY <1>8 DEF BackupTypeOK, Unplug, PlugIn, historyVars
  <2>3. UNCHANGED <<screenVars, jobVars, readFrom>>
    BY <1>8 DEF Unplug, PlugIn, historyVars
  <2> QED
    BY <2>1, <2>2, <2>3, <2>4 DEF BackupTypeOK, screenVars, jobVars
<1> QED
  BY <1>1, <1>2, <1>3, <1>4, <1>5, <1>6, <1>7, <1>8 DEF BackupNext

\* Every variable keeps its type, and a write in progress has a wallet to
\* write, one that was opened with its PIN.
THEOREM BackupTyped == BackupSpec => []BackupTypeOK
BY BackupTypedInit, BackupTypedStep, PTL DEF BackupSpec

-----------------------------------------------------------------------------
(* The inductive invariant of a write whose drive stays in place: what the *)
(* target holds, and what was read back, for every call still to come.     *)

AfterKeypair == Writing \ {"keypair"}
AfterPubkey == Writing \ {"keypair", "pubkey"}

WriteProgress ==
    undisturbed =>
        /\ pc \in AfterKeypair => Mounted /\ drives[mounted]["keypair"] = copy["keypair"]
        /\ pc \in AfterPubkey => drives[mounted]["pubkey"] = copy["pubkey"]
        /\ pc = "readPubkey" => readBack = copy["keypair"]
        /\ pc = "eject" => copy["pubkey"] = copy["keypair"]

LEMMA CallOrder ==
    /\ {"idle", "prepare", "format", "select", "reformat", "structure", "keypair"}
          \cap AfterKeypair = {}
    /\ AfterPubkey \subseteq AfterKeypair
    /\ {"readKeypair", "readPubkey", "eject"} \subseteq AfterPubkey
    /\ \A f \in Files : /\ f # "keypair" => f \in AfterKeypair
                        /\ f \notin {"keypair", "pubkey"} => f \in AfterPubkey
                        /\ f # "keypair" => AfterWrite(f) \in AfterPubkey
                        /\ AfterWrite("keypair") = "pubkey"
                        /\ AfterWrite(f) \notin {"readPubkey", "eject"}
    /\ "pubkey" \in AfterKeypair \ AfterPubkey
BY DEF AfterKeypair, AfterPubkey, Writing, Files, KeyFiles, AfterWrite

\* A write of a snapshot file that goes on has kept what was there.
LEMMA WriteFileProgress ==
    ASSUME BackupTypeOK, WriteProgress, NEW f \in Files, WriteFile(f)
    PROVE  WriteProgress'
<1>1. CASE FailQuietly
  BY <1>1, CallOrder DEF FailQuietly, Returns, WriteProgress
<1>2. CASE GoesTo(AfterWrite(f))
  <2> SUFFICES ASSUME undisturbed'
               PROVE  WriteProgress'
    BY DEF WriteProgress
  <2>1. /\ pc = f /\ pc' = AfterWrite(f)
        /\ copy' = copy /\ undisturbed /\ mounted' = mounted
    BY <1>2 DEF WriteFile, GoesTo, JobFrame
  <2>2. Shape
    BY DriveTypes DEF BackupTypeOK
  <2>3. WriteDone(f, CopyOf(f)) \/ WriteFails(f, CopyOf(f))
    BY DEF WriteFile
  <2>4. pc' \notin {"readPubkey", "eject"}
    BY <2>1, CallOrder
  <2>5. CASE f = "keypair"
    <3>1. WriteDone("keypair", copy["keypair"])
      BY <1>2, <2>1, <2>5, CallOrder DEF WriteFile, CopyOf, FailQuietly, Returns
    <3>2. Mounted /\ drives'[mounted]["keypair"] = copy["keypair"]
      BY <2>2, <3>1, WriteDoneEffect DEF Files, KeyFiles
    <3>3. pc' \in AfterKeypair \ AfterPubkey
      BY <2>1, <2>5, CallOrder
    <3> QED
      BY <2>1, <2>4, <3>2, <3>3 DEF WriteProgress, Mounted
  <2>6. CASE f # "keypair"
    <3>1. Mounted /\ drives[mounted]["keypair"] = copy["keypair"]
      BY <2>1, <2>6, CallOrder DEF WriteProgress
    <3>2. drives'[mounted]["keypair"] = copy["keypair"]
      BY <2>2, <2>3, <2>6, <3>1, OtherFilesKept DEF Files, KeyFiles, Mounted
    <3>3. CASE f = "pubkey"
      <4>1. WriteDone("pubkey", copy["pubkey"])
        BY <1>2, <2>1, <3>3, CallOrder DEF WriteFile, CopyOf, FailQuietly, Returns
      <4>2. drives'[mounted]["pubkey"] = copy["pubkey"]
        BY <2>2, <4>1, WriteDoneEffect DEF Files, KeyFiles
      <4> QED
        BY <2>1, <2>4, <3>1, <3>2, <4>2 DEF WriteProgress, Mounted
    <3>4. CASE f # "pubkey"
      <4>1. drives[mounted]["pubkey"] = copy["pubkey"]
        BY <2>1, <2>6, <3>4, CallOrder DEF WriteProgress
      <4>2. drives'[mounted]["pubkey"] = copy["pubkey"]
        BY <2>2, <2>3, <3>1, <3>4, <4>1, OtherFilesKept DEF Files, KeyFiles, Mounted
      <4> QED
        BY <2>1, <2>4, <3>1, <3>2, <4>2 DEF WriteProgress, Mounted
    <3> QED
      BY <3>3, <3>4
  <2> QED
    BY <2>5, <2>6
<1> QED
  BY <1>1, <1>2 DEF WriteFile

LEMMA WriteProgressStep ==
    ASSUME BackupTypeOK, WriteProgress, [BackupNext]_vars
    PROVE  WriteProgress'
<1>1. CASE pc' \notin AfterKeypair
  BY <1>1, CallOrder DEF WriteProgress
<1>2. CASE UNCHANGED <<driveVars, pc, copy, readBack, undisturbed>>
  BY <1>2 DEF WriteProgress, driveVars, Mounted
<1>3. ASSUME NEW f \in Files, WriteFile(f)
      PROVE  WriteProgress'
  BY <1>3, WriteFileProgress
<1>4. CASE VerifyKeypair
  <2>1. PICK keypair \in ReadOutcomes("keypair") :
          \/ keypair = Absent /\ FailQuietly
          \/ /\ keypair # Absent
             /\ readBack' = keypair
             /\ pc' = "readPubkey"
             /\ UNCHANGED <<stage, snapshot, writeError, copy, undisturbed>>
    BY <1>4 DEF VerifyKeypair
  <2>2. CASE FailQuietly
    BY <2>2, CallOrder DEF FailQuietly, Returns, WriteProgress
  <2>3. CASE keypair # Absent
    BY <1>4, <2>1, <2>3, CallOrder
    DEF VerifyKeypair, ReadOutcomes, WriteProgress, JobFrame, Mounted
  <2> QED
    BY <2>1, <2>2, <2>3
<1>5. CASE VerifyPubkey
  <2>1. PICK pubkey \in ReadOutcomes("pubkey") :
          \/ FailQuietly \/ FailLoudly
          \/ pubkey # Absent /\ pubkey = readBack /\ GoesTo("eject")
    BY <1>5 DEF VerifyPubkey
  <2>2. CASE FailQuietly \/ FailLoudly
    BY <2>2, CallOrder DEF FailQuietly, FailLoudly, Returns, WriteProgress
  <2>3. CASE pubkey # Absent /\ pubkey = readBack /\ GoesTo("eject")
    BY <1>5, <2>1, <2>3, CallOrder
    DEF VerifyPubkey, ReadOutcomes, WriteProgress, GoesTo, JobFrame, Mounted
  <2> QED
    BY <2>1, <2>2, <2>3
<1>6. CASE Unplug
  BY <1>6, CallOrder DEF Unplug, jobVars, WriteProgress
<1>7. ASSUME NEW d \in Drives, PlugIn(d)
      PROVE  WriteProgress'
  BY <1>7, CallOrder DEF PlugIn, Plug, WriteProgress, jobVars, historyVars, Mounted
<1>8. CASE Prepare \/ Format \/ SelectDrive \/ WriteStructure \/ CompleteAndEject
  BY <1>1, <1>8, CallOrder
  DEF Prepare, Format, SelectDrive, WriteStructure, CompleteAndEject, GoesTo,
      FailLoudly, FailQuietly, Returns
<1>9. CASE PinVerify \/ Crash
  BY <1>1, <1>9, CallOrder DEF PinVerify, Crash, Returns
<1>10. CASE Authenticate \/ Poll \/ StartRead \/ ReadVersion \/ Continue \/ TryAgain \/ Leave
  BY <1>2, <1>10
  DEF Authenticate, Poll, StartRead, ReadVersion, Continue, TryAgain, Leave,
      jobVars, historyVars
<1>11. ASSUME NEW f \in {"keypair", "pubkey"}, ReadFile(f)
       PROVE  WriteProgress'
  BY <1>2, <1>11 DEF ReadFile, jobVars
<1>12. CASE UNCHANGED vars
  BY <1>2, <1>12 DEF vars, jobVars, historyVars
<1> QED
  BY <1>3, <1>4, <1>5, <1>6, <1>7, <1>8, <1>9, <1>10, <1>11, <1>12
  DEF BackupNext, WriteStep

\* A write that reaches its end on a drive that stayed in place has left that
\* drive with the key and the address of the wallet that the PIN opened.
THEOREM VerifiedBackups == BackupSpec => []VerifiedBackupIsTheWallet
<1>1. BackupInit => WriteProgress
  BY CallOrder DEF BackupInit, WriteProgress
<1>2. BackupTypeOK /\ WriteProgress /\ [BackupNext]_vars => WriteProgress'
  BY WriteProgressStep
<1>3. WriteProgress => VerifiedBackupIsTheWallet
  BY CallOrder DEF WriteProgress, VerifiedBackupIsTheWallet
<1> QED
  BY <1>1, <1>2, <1>3, BackupTyped, PTL DEF BackupSpec

-----------------------------------------------------------------------------
(* Why forgetting is safe: once keypair.json is written some drive holds   *)
(* the key, and a write that its screen still watches writes the snapshot  *)
(* that this screen holds, so that no failure of it forgets anything.      *)

Remembered ==
    /\ pc \in AfterKeypair => KeyKept(copy["keypair"])
    /\ watched /\ pc # "idle" =>
          stage = "writing" /\ snapshot = copy /\ ~writeError
    /\ nextRead # "idle" => stage = "reading"

LEMMA WriteFileKeepsKey ==
    ASSUME BackupTypeOK, Remembered, NEW f \in Files, WriteFile(f), pc' # "idle"
    PROVE  KeyKept(copy["keypair"])'
<1>1. pc = f /\ copy' = copy /\ Shape
  BY DriveTypes DEF WriteFile, FailQuietly, Returns, GoesTo, BackupTypeOK
<1>2. CASE f = "keypair"
  <2>1. WriteDone("keypair", copy["keypair"])
    BY <1>2 DEF WriteFile, CopyOf, FailQuietly, Returns
  <2> QED
    BY <1>1, <2>1, WriteMakesKey DEF KeyKept, HoldsKey
<1>3. CASE f # "keypair"
  <2>1. KeyKept(copy["keypair"])
    BY <1>1, <1>3, CallOrder DEF Remembered
  <2>2. WriteDone(f, CopyOf(f)) \/ WriteFails(f, CopyOf(f))
    BY DEF WriteFile
  <2>3. \A d \in Drives : drives'[d]["keypair"] = drives[d]["keypair"]
    BY <1>1, <1>3, <2>2, OtherFilesKept DEF Files, KeyFiles
  <2> QED
    BY <1>1, <2>1, <2>3 DEF KeyKept, HoldsKey
<1> QED
  BY <1>2, <1>3

\* While a write goes on, the screen, its snapshot and the copy stand still.
LEMMA WriteStepFrame ==
    ASSUME WriteStep
    PROVE  /\ pc # "idle" /\ nextRead' = nextRead /\ watched' = watched
           /\ pc' # "idle" =>
                UNCHANGED <<stage, snapshot, writeError, copy>>
           /\ ~CompleteAndEject => UNCHANGED <<stage, snapshot>>
<1>1. CASE Prepare \/ Format \/ SelectDrive \/ WriteStructure
  BY <1>1 DEF Prepare, Format, SelectDrive, WriteStructure, GoesTo, FailLoudly,
              FailQuietly, Returns, JobFrame
<1>2. ASSUME NEW f \in Files, WriteFile(f)
      PROVE  /\ pc # "idle" /\ nextRead' = nextRead /\ watched' = watched
             /\ pc' # "idle" => copy' = copy
             /\ UNCHANGED <<stage, snapshot, writeError>>
  BY <1>2, CallFacts DEF WriteFile, GoesTo, FailQuietly, Returns, JobFrame
<1>3. CASE VerifyKeypair
  BY <1>3 DEF VerifyKeypair, FailQuietly, Returns, JobFrame
<1>4. CASE VerifyPubkey
  BY <1>4 DEF VerifyPubkey, GoesTo, FailLoudly, FailQuietly, Returns, JobFrame
<1>5. CASE CompleteAndEject
  BY <1>5 DEF CompleteAndEject, Returns, JobFrame
<1> QED
  BY <1>1, <1>2, <1>3, <1>4, <1>5 DEF WriteStep

LEMMA RememberedStep ==
    ASSUME BackupTypeOK, Remembered, [BackupNext]_vars
    PROVE  Remembered'
<1>1. CASE WriteStep
  <2>1. pc' \in AfterKeypair => KeyKept(copy["keypair"])'
    <3>1. ASSUME NEW f \in Files, WriteFile(f)
          PROVE  pc' \in AfterKeypair => KeyKept(copy["keypair"])'
      BY <3>1, WriteFileKeepsKey, CallOrder
    <3>2. CASE VerifyKeypair \/ VerifyPubkey
      <4>1. drives' = drives /\ pc \in AfterKeypair
        BY <3>2, CallOrder DEF VerifyKeypair, VerifyPubkey
      <4>2. pc' # "idle" => copy' = copy
        BY <1>1, WriteStepFrame
      <4> QED
        BY <4>1, <4>2, CallOrder DEF Remembered, KeyKept, HoldsKey
    <3>3. CASE Prepare \/ Format \/ SelectDrive \/ WriteStructure \/ CompleteAndEject
      BY <3>3, CallOrder
      DEF Prepare, Format, SelectDrive, WriteStructure, CompleteAndEject, GoesTo,
          FailLoudly, FailQuietly, Returns
    <3> QED
      BY <1>1, <3>1, <3>2, <3>3 DEF WriteStep
  <2>2. watched' /\ pc' # "idle" =>
          stage' = "writing" /\ snapshot' = copy' /\ ~writeError'
    BY <1>1, WriteStepFrame DEF Remembered
  <2>3. nextRead' # "idle" => stage' = "reading"
    <3>1. CompleteAndEject /\ watched => nextRead = "idle"
      BY DEF CompleteAndEject, Remembered
    <3>2. CompleteAndEject /\ ~watched => stage' = stage
      BY DEF CompleteAndEject
    <3> QED
      BY <1>1, <3>1, <3>2, WriteStepFrame DEF Remembered
  <2> QED
    BY <2>1, <2>2, <2>3 DEF Remembered
<1>2. ASSUME ~WriteStep
      PROVE  pc' \in AfterKeypair => KeyKept(copy["keypair"])'
  <2>1. drives' = drives
    BY <1>2
    DEF BackupNext, Authenticate, Poll, StartRead, ReadFile, ReadVersion, Continue,
        PinVerify, TryAgain, Leave, PlugIn, Plug, Unplug, PullOut, Crash, vars, driveVars
  <2>2. pc' \in AfterKeypair => pc' = pc /\ copy' = copy
    BY <1>2, CallOrder
    DEF BackupNext, Authenticate, Poll, StartRead, ReadFile, ReadVersion, Continue,
        PinVerify, TryAgain, Leave, PlugIn, Unplug, Crash, Returns, vars, jobVars
  <2> QED
    BY <2>1, <2>2 DEF Remembered, KeyKept, HoldsKey
<1>3. ASSUME ~WriteStep
      PROVE  watched' /\ pc' # "idle" =>
               stage' = "writing" /\ snapshot' = copy' /\ ~writeError'
  <2>1. CASE UNCHANGED <<screenVars, jobVars>>
    BY <2>1 DEF Remembered, screenVars, jobVars
  <2>2. CASE PinVerify \/ Leave \/ Crash
    BY <2>2 DEF PinVerify, Leave, Crash, Returns
  <2>3. CASE Authenticate \/ Poll \/ StartRead \/ ReadVersion \/ Continue \/ TryAgain
    BY <2>3
    DEF Remembered, Authenticate, Poll, StartRead, ReadVersion, Continue, TryAgain,
        ReadFails, jobVars
  <2>4. ASSUME NEW f \in {"keypair", "pubkey"}, ReadFile(f)
        PROVE  ~(watched' /\ pc' # "idle")
    BY <2>4 DEF ReadFile, Remembered, jobVars
  <2> QED
    BY <1>3, <2>1, <2>2, <2>3, <2>4
    DEF BackupNext, PlugIn, Unplug, vars, historyVars
<1>4. ASSUME ~WriteStep
      PROVE  nextRead' # "idle" => stage' = "reading"
  <2>1. CASE Authenticate \/ Poll \/ StartRead \/ ReadVersion \/ Continue \/ PinVerify
             \/ TryAgain \/ Leave \/ Crash
    BY <2>1
    DEF Remembered, Authenticate, Poll, StartRead, ReadVersion, ReadFails, Continue,
        PinVerify, TryAgain, Leave, Crash, NewScreen
  <2>2. ASSUME NEW f \in {"keypair", "pubkey"}, ReadFile(f)
        PROVE  nextRead' # "idle" => stage' = "reading"
    BY <2>2 DEF ReadFile, ReadFails, Remembered
  <2>3. CASE UNCHANGED screenVars
    BY <2>3 DEF Remembered, screenVars
  <2> QED
    BY <1>4, <2>1, <2>2, <2>3 DEF BackupNext, PlugIn, Unplug, vars
<1> QED
  BY <1>1, <1>2, <1>3, <1>4 DEF Remembered

LEMMA ForgottenIsKept ==
    ASSUME BackupTypeOK, Remembered, [BackupNext]_vars, NEW w \in Wallets,
           InMemory(w), ~InMemory(w)', watched, stage' # "biometric"
    PROVE  KeyKept(w)'
<1>1. CASE WriteStep
  <2>1. snapshot["keypair"] = w /\ copy["keypair"] = w /\ stage = "writing"
    BY <1>1, WriteStepFrame DEF Remembered, InMemory
  <2>2. CASE CompleteAndEject
    BY <2>1, <2>2, CallOrder DEF CompleteAndEject, Remembered, KeyKept, HoldsKey
  <2>3. CASE ~CompleteAndEject
    BY <1>1, <2>1, <2>3, WriteStepFrame DEF InMemory
  <2> QED
    BY <2>2, <2>3
<1>2. CASE Authenticate \/ Poll \/ StartRead \/ ReadVersion \/ Continue \/ TryAgain
  BY <1>2
  DEF Authenticate, Poll, StartRead, ReadVersion, ReadFails, Continue, TryAgain,
      InMemory, Remembered, jobVars
<1>3. ASSUME NEW f \in {"keypair", "pubkey"}, ReadFile(f)
      PROVE  FALSE
  BY <1>3 DEF ReadFile, ReadFails, InMemory, Remembered, jobVars
<1>4. CASE PinVerify
  BY <1>4 DEF PinVerify, InMemory
<1>5. CASE UNCHANGED <<screenVars, jobVars>>
  BY <1>5 DEF InMemory, screenVars, jobVars
<1>6. CASE Leave \/ Crash
  BY <1>6 DEF Leave, Crash, NewScreen
<1> QED
  BY <1>1, <1>2, <1>3, <1>4, <1>5, <1>6
  DEF BackupNext, PlugIn, Unplug, vars, historyVars

\* Unless its user leaves or the app dies, the screen forgets a wallet that
\* it read only when some drive holds the key.
THEOREM ForgottenKeysAreKept == BackupSpec => KeyKeptWhenForgotten
<1>1. BackupInit => Remembered
  BY CallOrder DEF BackupInit, Remembered
<1>2. BackupTypeOK /\ Remembered /\ [BackupNext]_vars => Remembered'
  BY RememberedStep
<1>3. BackupTypeOK /\ Remembered /\ [BackupNext]_vars =>
        [\A w \in Wallets :
           (InMemory(w) /\ ~InMemory(w)' /\ watched /\ stage' # "biometric")
           => KeyKept(w)']_vars
  BY ForgottenIsKept
<1> QED
  BY <1>1, <1>2, <1>3, BackupTyped, PTL DEF BackupSpec, KeyKeptWhenForgotten
=============================================================================
