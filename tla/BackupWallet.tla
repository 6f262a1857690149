---------------------------- MODULE BackupWallet ----------------------------
(***************************************************************************)
(* Copying a cold wallet to a second drive on Android: the BackupWallet    *)
(* screen (src/app/components/onboarding/BackupWallet.tsx) with            *)
(* readAllWalletFiles and writeWalletSnapshot of src/services/usb-flash.ts,*)
(* one action per native call.  The write that a screen starts goes on     *)
(* when the screen is left, and a new screen can read drives meanwhile.    *)
(*                                                                         *)
(* Abstractions: the PIN is right or wrong, and only the right one counts; *)
(* one write at a time (a bound).                                          *)
(***************************************************************************)
EXTENDS ColdDrive

CONSTANT MaxTurns    \* bound: snapshot writes started and drives pulled out

ASSUME BackupAssumption == MaxTurns \in Nat

VARIABLES
    stage,        \* what the screen shows
    detected,     \* a poll of this stage found a drive
    snapshot,     \* snapshotRef: the files read from the source so far
    nextRead,     \* the file readAllWalletFiles reads next, or "idle"
    writeError,   \* an error text is shown, and with it the retry button
    pc,           \* the call writeWalletSnapshot makes next, "idle" when over
    copy,         \* the snapshot that is being written
    readBack,     \* the keypair.json read back from the target
    watched,      \* the screen that started the write is still there
    turns,        \* history: writes started and drives pulled out
    readFrom,     \* history: the drive whose keypair the snapshot holds
    undisturbed   \* history: no drive was pulled out during this write

screenVars == <<stage, detected, snapshot, nextRead, writeError>>
jobVars == <<pc, copy, readBack, watched>>
historyVars == <<turns, readFrom, undisturbed>>
vars == <<driveVars, screenVars, jobVars, historyVars>>

Stages == {"biometric", "plug-source", "reading", "swap-usb", "pin-verify",
           "writing", "complete"}
Reads == {"keypair", "pubkey", "version"}
Writing == KeyFiles \cup {"version", "readKeypair", "readPubkey", "eject"}
Calls == Writing \cup {"idle", "prepare", "format", "select", "reformat",
                       "structure"}

Nothing == [f \in Reads |-> Absent]

\* writeWalletSnapshot writes the files in this order and then reads back;
\* the format marker only when the source had one.
AfterWrite(f) ==
    CASE f = "keypair" -> "pubkey"
      [] f = "pubkey" -> "backupKeypair"
      [] f = "backupKeypair" -> "backupPubkey"
      [] f = "backupPubkey" -> IF copy["version"] = Absent THEN "readKeypair"
                                                         ELSE "version"
      [] f = "version" -> "readKeypair"

\* What the snapshot gives for a file of the target.
CopyOf(f) ==
    CASE f \in {"keypair", "backupKeypair"} -> copy["keypair"]
      [] f \in {"pubkey", "backupPubkey"} -> copy["pubkey"]
      [] f = "version" -> copy["version"]

BackupInit ==
    /\ drives \in [Drives -> KnownDrives]
    /\ mounted = NoDrive
    /\ stage = "biometric"
    /\ detected = FALSE
    /\ snapshot = Nothing
    /\ nextRead = "idle"
    /\ writeError = FALSE
    /\ pc = "idle"
    /\ copy = Nothing
    /\ readBack = Absent
    /\ watched = TRUE
    /\ turns = 0
    /\ readFrom = NoDrive
    /\ undisturbed = TRUE

-----------------------------------------------------------------------------
(* The screen.                                                             *)

\* triggerBiometric lets the user pass.
Authenticate ==
    /\ stage = "biometric"
    /\ stage' = "plug-source"
    /\ detected' = FALSE
    /\ UNCHANGED <<driveVars, snapshot, nextRead, writeError, jobVars, historyVars>>

\* The poll of the source or of the target: any drive will do.
Poll ==
    /\ stage \in {"plug-source", "swap-usb"}
    /\ detected' = Mounted
    /\ UNCHANGED <<driveVars, stage, snapshot, nextRead, writeError, jobVars, historyVars>>

\* handleReadSource calls readAllWalletFiles, which reads file by file.
StartRead ==
    /\ stage = "plug-source"
    /\ detected
    /\ stage' = "reading"
    /\ nextRead' = "keypair"
    /\ UNCHANGED <<driveVars, detected, snapshot, writeError, jobVars, historyVars>>

ReadFails ==
    /\ stage' = "plug-source"
    /\ nextRead' = "idle"
    /\ snapshot' = Nothing

ReadFile(f) ==
    /\ nextRead = f
    /\ \E content \in ReadOutcomes(f) :
         \/ content = Absent /\ ReadFails
         \/ /\ content # Absent
            /\ snapshot' = [snapshot EXCEPT ![f] = content]
            /\ nextRead' = IF f = "keypair" THEN "pubkey" ELSE "version"
            /\ UNCHANGED stage
    /\ readFrom' = IF f = "keypair" THEN mounted ELSE readFrom
    /\ UNCHANGED <<driveVars, detected, writeError, jobVars, turns, undisturbed>>

\* The marker comes last, and with it the refuse-forward gate.
ReadVersion ==
    /\ nextRead = "version"
    /\ \E version \in ReadOutcomes("version") :
         \/ /\ NewerThanApp(version)
            /\ ReadFails
            /\ UNCHANGED detected
         \/ /\ ~NewerThanApp(version)
            /\ snapshot' = [snapshot EXCEPT !["version"] = version]
            /\ nextRead' = "idle"
            /\ stage' = "swap-usb"
            /\ detected' = FALSE
    /\ UNCHANGED <<driveVars, writeError, jobVars, historyVars>>

Continue ==
    /\ stage = "swap-usb"
    /\ detected
    /\ stage' = "pin-verify"
    /\ UNCHANGED <<driveVars, detected, snapshot, nextRead, writeError, jobVars, historyVars>>

\* handlePinVerify: the PIN opens the keypair in memory, and the write of the
\* snapshot starts (handleWrite).
PinVerifyAnyPin ==
    /\ stage = "pin-verify"
    /\ pc = "idle"
    /\ turns < MaxTurns
    /\ stage' = "writing"
    /\ pc' = "prepare"
    /\ copy' = snapshot
    /\ watched' = TRUE
    /\ writeError' = FALSE
    /\ turns' = turns + 1
    /\ UNCHANGED <<driveVars, detected, snapshot, nextRead, readBack, readFrom,
                   undisturbed>>

PinVerify ==
    /\ stage = "pin-verify"
    /\ Parses(snapshot["keypair"])
    /\ pc = "idle"
    /\ turns < MaxTurns
    /\ stage' = "writing"
    /\ pc' = "prepare"
    /\ copy' = snapshot
    /\ watched' = TRUE
    /\ writeError' = FALSE
    /\ turns' = turns + 1
    /\ UNCHANGED <<driveVars, detected, snapshot, nextRead, readBack, readFrom,
                   undisturbed>>

\* "Try Again", shown only with an error text.
TryAgain ==
    /\ stage = "writing"
    /\ writeError
    /\ stage' = "pin-verify"
    /\ writeError' = FALSE
    /\ UNCHANGED <<driveVars, detected, snapshot, nextRead, jobVars, historyVars>>

\* The screen goes away and the snapshot with it; a new one may be opened.
NewScreen ==
    /\ stage' = "biometric"
    /\ readFrom' = NoDrive
    /\ detected' = FALSE
    /\ snapshot' = Nothing
    /\ nextRead' = "idle"
    /\ writeError' = FALSE

Leave ==
    /\ NewScreen
    /\ watched' = FALSE
    /\ UNCHANGED <<driveVars, pc, copy, readBack, turns, undisturbed>>

-----------------------------------------------------------------------------
(* writeWalletSnapshot.                                                    *)

GoesTo(next) ==
    /\ pc' = next
    /\ UNCHANGED <<stage, snapshot, writeError, copy, readBack, undisturbed>>

Returns ==
    /\ pc' = "idle"
    /\ copy' = Nothing
    /\ readBack' = Absent
    /\ undisturbed' = TRUE

\* A failure shows the retry button only when it was reported with an error
\* text, and to a screen that is still there.
FailLoudly ==
    /\ Returns
    /\ writeError' = IF watched THEN TRUE ELSE writeError
    /\ UNCHANGED <<stage, snapshot>>

FailQuietly ==
    /\ Returns
    /\ UNCHANGED <<stage, snapshot, writeError>>

JobFrame ==
    UNCHANGED <<mounted, detected, nextRead, watched, turns, readFrom>>

Prepare ==
    /\ pc = "prepare"
    /\ GoesTo("format") \/ FailLoudly
    /\ UNCHANGED drives
    /\ JobFrame

Format ==
    /\ pc \in {"format", "reformat"}
    /\ \/ Clean /\ GoesTo("structure")
       \/ Clean /\ FailLoudly
       \/ UNCHANGED drives /\ FailLoudly
       \/ pc = "format" /\ ~Mounted /\ UNCHANGED drives /\ GoesTo("select")
    /\ JobFrame

SelectDrive ==
    /\ pc = "select"
    /\ (Mounted /\ GoesTo("reformat")) \/ FailLoudly
    /\ UNCHANGED drives
    /\ JobFrame

WriteStructure ==
    /\ pc = "structure"
    /\ (StructureDone /\ GoesTo("keypair")) \/ (StructureFails /\ FailQuietly)
    /\ JobFrame

\* keypair.json and pubkey.txt must be written; the results of the backup
\* copies and of the marker are not looked at.
WriteFileIgnoringErrors(f) ==
    /\ pc = f
    /\ WriteDone(f, CopyOf(f)) \/ WriteFails(f, CopyOf(f))
    /\ GoesTo(AfterWrite(f))
    /\ JobFrame

WriteFile(f) ==
    /\ pc = f
    /\ \/ WriteDone(f, CopyOf(f)) /\ GoesTo(AfterWrite(f))
       \/ /\ WriteFails(f, CopyOf(f))
          /\ IF f \in {"keypair", "pubkey"} THEN FailQuietly ELSE GoesTo(AfterWrite(f))
    /\ JobFrame

VerifyKeypair ==
    /\ pc = "readKeypair"
    /\ \E keypair \in ReadOutcomes("keypair") :
         IF keypair = Absent
         THEN FailQuietly
         ELSE /\ readBack' = keypair
              /\ pc' = "readPubkey"
              /\ UNCHANGED <<stage, snapshot, writeError, copy, undisturbed>>
    /\ UNCHANGED drives
    /\ JobFrame

\* What was read back must be there, parse, and agree with itself; it is not
\* compared with the snapshot.  A keypair.json that does not parse throws.
VerifyPubkeyUnchecked ==
    /\ pc = "readPubkey"
    /\ \E pubkey \in ReadOutcomes("pubkey") :
         IF pubkey = Absent THEN FailQuietly
         ELSE IF ~Parses(readBack) THEN FailLoudly
         ELSE GoesTo("eject")
    /\ UNCHANGED drives
    /\ JobFrame

VerifyPubkey ==
    /\ pc = "readPubkey"
    /\ \E pubkey \in ReadOutcomes("pubkey") :
         IF pubkey = Absent THEN FailQuietly
         ELSE IF ~Parses(readBack) THEN FailLoudly
         ELSE IF pubkey # readBack THEN FailQuietly
         ELSE GoesTo("eject")
    /\ UNCHANGED drives
    /\ JobFrame

\* handleWrite after success: the snapshot is dropped, the screen moves on,
\* the drive is ejected.
CompleteAndEject ==
    /\ pc = "eject"
    /\ Returns
    /\ snapshot' = IF watched THEN Nothing ELSE snapshot
    /\ stage' = IF watched THEN "complete" ELSE stage
    /\ UNCHANGED <<drives, writeError>>
    /\ JobFrame

WriteStep ==
    \/ Prepare
    \/ Format
    \/ SelectDrive
    \/ WriteStructure
    \/ \E f \in Files : WriteFile(f)
    \/ VerifyKeypair
    \/ VerifyPubkey
    \/ CompleteAndEject

-----------------------------------------------------------------------------

PlugIn(d) ==
    /\ Plug(d)
    /\ UNCHANGED <<screenVars, jobVars, historyVars>>

Unplug ==
    /\ PullOut
    /\ turns < MaxTurns
    /\ turns' = turns + 1
    /\ undisturbed' = (pc = "idle")
    /\ UNCHANGED <<screenVars, jobVars, readFrom>>

\* The app dies, and with it the snapshot, which is kept in memory only.
Crash ==
    /\ NewScreen
    /\ Returns
    /\ watched' = TRUE
    /\ UNCHANGED <<driveVars, turns>>

BackupNext ==
    \/ Authenticate
    \/ Poll
    \/ StartRead
    \/ \E f \in {"keypair", "pubkey"} : ReadFile(f)
    \/ ReadVersion
    \/ Continue
    \/ PinVerify
    \/ TryAgain
    \/ Leave
    \/ WriteStep
    \/ \E d \in Drives : PlugIn(d)
    \/ Unplug
    \/ Crash

BackupSpec == BackupInit /\ [][BackupNext]_vars

-----------------------------------------------------------------------------

\* Every variable keeps its type, and a write has a wallet to write whatever
\* became of the screen that started it.
BackupTypeOK ==
    /\ DriveTypeOK
    /\ stage \in Stages
    /\ detected \in BOOLEAN
    /\ snapshot \in [Reads -> Contents]
    /\ nextRead \in Reads \cup {"idle"}
    /\ writeError \in BOOLEAN
    /\ pc \in Calls
    /\ copy \in [Reads -> Contents]
    /\ pc # "idle" => copy["keypair"] \in Wallets
    /\ readBack \in Contents
    /\ watched \in BOOLEAN
    /\ turns \in 0..MaxTurns
    /\ readFrom \in Drives \cup {NoDrive}
    /\ undisturbed \in BOOLEAN

\* A backup whose drive stayed in place succeeds only with the wallet that
\* was opened with the PIN on that drive, key and address, even when the
\* snapshot was read from two drives or the format left old files behind.
VerifiedBackupIsTheWallet ==
    pc = "eject" /\ undisturbed =>
        /\ Mounted
        /\ drives[mounted]["keypair"] = copy["keypair"]
        /\ drives[mounted]["pubkey"] = copy["keypair"]

\* "Clear sensitive data from memory now that write is verified": unless the
\* user leaves or the app dies, a wallet that was read leaves memory only
\* when some drive holds its key.  The source may have been reformatted, and
\* the drive written may be another one than the drive verified.
InMemory(w) ==
    \/ stage \in {"swap-usb", "pin-verify", "writing"} /\ snapshot["keypair"] = w
    \/ pc # "idle" /\ copy["keypair"] = w

KeyKeptWhenForgotten ==
    [][\A w \in Wallets :
         (InMemory(w) /\ ~InMemory(w)' /\ watched /\ stage' # "biometric")
         => KeyKept(w)']_vars

\* "Your wallet has been successfully duplicated to the new USB drive"
\* (BackupWallet.tsx:320): when the screen says so, the drive just written is
\* not the one the wallet was read from.
CompleteMeansDuplicated ==
    [][stage' = "complete" /\ stage # "complete" /\ undisturbed
        => mounted # readFrom]_vars
=============================================================================
