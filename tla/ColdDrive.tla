----------------------------- MODULE ColdDrive -----------------------------
(***************************************************************************)
(* USB drives, and what the native plugin does to them: ColdstarUSBPlugin  *)
(* on Android.  Every native call works on whatever drive is mounted when  *)
(* it runs (findUSBMountPoint); the deviceId that callers pass is not      *)
(* looked at, so a drive swapped between two calls goes unnoticed.         *)
(*                                                                         *)
(* A file holds a wallet (its encrypted keypair, or its address), a format *)
(* marker, or nothing usable.  A keypair.json carries its own address, so  *)
(* one wallet stands for both.  Writes are not atomic: a write that fails  *)
(* may leave the old file, no file, a torn one, or the whole new one.      *)
(***************************************************************************)
EXTENDS Naturals, FiniteSets

CONSTANTS
    Drives,
    Wallets,
    Survivors,   \* the sets of files that a format may fail to delete
    Leftovers    \* what a failed write may leave: Absent, Torn or both

VARIABLES
    drives,    \* drives[d][f]: the content of file f of drive d
    mounted    \* the drive the native calls reach, or NoDrive

driveVars == <<drives, mounted>>

NoDrive == "no drive"
Absent == "absent"      \* no file, or an empty one
Torn == "torn"          \* something that neither parses nor equals an address
Current == "current"    \* .coldstar/version.json of this app's format
Newer == "newer"        \* one of a later format

ASSUME DriveAssumption ==
    /\ NoDrive \notin Drives
    /\ Wallets \cap {Absent, Torn, Current, Newer} = {}
    /\ Leftovers \subseteq {Absent, Torn}

KeyFiles == {"keypair", "pubkey", "backupKeypair", "backupPubkey"}
Files == KeyFiles \cup {"version"}
Contents == Wallets \cup {Absent, Torn, Current, Newer}

Mounted == mounted \in Drives

\* A drive as it may first be met: blank, or a wallet flashed by this app, by
\* a later one, or in the layout without marker and backups.
Blank == [f \in Files |-> Absent]
Flashed(w, marker) == [f \in Files |-> IF f \in KeyFiles THEN w ELSE marker]
Legacy(w) ==
    [f \in Files |-> IF f \in {"keypair", "pubkey"} THEN w ELSE Absent]
KnownDrives ==
    {Blank} \cup {Flashed(w, m) : w \in Wallets, m \in {Current, Newer}}
            \cup {Legacy(w) : w \in Wallets}

HoldsKey(d, w) == drives[d]["keypair"] = w
KeyKept(w) == \E d \in Drives : HoldsKey(d, w)

-----------------------------------------------------------------------------

\* readFile as its callers see it: any failure reads as Absent.
ReadOutcomes(f) ==
    {Absent} \cup IF Mounted THEN {drives[mounted][f]} ELSE {}

\* writeFile, resolved and rejected.
WriteDone(f, c) ==
    /\ Mounted
    /\ drives' = [drives EXCEPT ![mounted][f] = c]

WriteFails(f, c) ==
    \/ drives' = drives
    \/ /\ Mounted
       /\ \E left \in Leftovers \cup {c} :
             drives' = [drives EXCEPT ![mounted][f] = left]

\* formatDrive deletes the wallet directories and ignores what could not be
\* deleted: it can resolve with files still there.
Clean ==
    /\ Mounted
    /\ \E kept \in Survivors :
         drives' = [drives EXCEPT ![mounted] =
                      [f \in Files |-> IF f \in kept THEN @[f] ELSE Absent]]

\* writeDirectoryStructure: directories, README and the format marker.
StructureDone == WriteDone("version", Current)
StructureFails == WriteFails("version", Current)

\* checkVolumeFormat, the refuse-forward gate: only a readable marker of a
\* later format is refused.
NewerThanApp(version) == version = Newer

\* keypair.json parses and has the required fields.
Parses(keypair) == keypair \in Wallets

-----------------------------------------------------------------------------

\* The user's hands.
Plug(d) == ~Mounted /\ mounted' = d /\ UNCHANGED drives
PullOut == Mounted /\ mounted' = NoDrive /\ UNCHANGED drives

DriveTypeOK ==
    /\ drives \in [Drives -> [Files -> Contents]]
    /\ mounted \in Drives \cup {NoDrive}
=============================================================================
