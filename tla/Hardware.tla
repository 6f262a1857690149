------------------------------ MODULE Hardware ------------------------------
(***************************************************************************)
(* The drive that WalletContext shows as connected: checkUSBConnection     *)
(* every 3 s, whose answers may come late and out of order, and the badge  *)
(* that ejects the drive and pauses the polling for 10 s.                  *)
(*                                                                         *)
(* Android lists what is plugged in and reads whatever drive is mounted.   *)
(* iOS asks for the one drive whose handle is saved, and forgets the       *)
(* handle when it does not resolve.                                        *)
(*                                                                         *)
(* Abstraction: the plugin looks when it is called and answers later.      *)
(***************************************************************************)
EXTENDS Naturals

CONSTANTS Drives, Nothing,
          KeyOn,     \* per drive: the wallet of wallet/pubkey.txt, or Nothing
          Newer,     \* drives with a volume of a newer format
          PollIds    \* bound: polls under way at a time

ASSUME HardwareAssumption == Nothing \notin Drives

VARIABLES
    platform,               \* "android" or "ios"
    drive,                  \* the drive that is plugged in
    saved,                  \* coldstar_ios_drive: the drive of the saved handle
    device,                 \* connectedDevice; hardwareConnected unless Nothing
    connectedWalletPubkey,
    polls,                  \* checkUSBConnection under way
    ejecting,               \* disconnectHardware under way
    cooldown,               \* before usbCooldownUntilRef
    straggling              \* history: a poll was under way when it was set

shown == <<device, connectedWalletPubkey>>
hardwareVars == <<platform, drive, saved, shown, polls, ejecting, cooldown, straggling>>

KeyOf(d) == IF d = Nothing THEN Nothing ELSE KeyOn[d]

HardwareInit ==
    /\ platform \in {"android", "ios"}
    /\ drive \in Drives \cup {Nothing}
    /\ saved \in Drives \cup {Nothing}
    /\ platform = "android" => saved = Nothing
    /\ device = Nothing
    /\ connectedWalletPubkey = Nothing
    /\ polls = [i \in PollIds |-> Nothing]
    /\ ejecting = FALSE
    /\ cooldown = FALSE
    /\ straggling = FALSE

\* The device that detectUSBDevices finds when no call fails.
Seen ==
    IF platform = "android" THEN drive
    ELSE IF saved = drive /\ drive \notin Newer THEN drive ELSE Nothing

\* verifyVolume throws: the drive of the saved handle is not plugged in.
Unresolved == platform = "ios" /\ saved \notin {Nothing, drive}

Looks(i, found, forgets) ==
    /\ polls[i] = Nothing
    /\ polls' = [polls EXCEPT ![i] = [at |-> "detect", found |-> found, forgets |-> forgets]]
    /\ UNCHANGED <<platform, drive, saved, shown, ejecting, cooldown, straggling>>

\* checkUSBConnection asks for the devices.
PollInCooldown(i) == Looks(i, Seen, Unresolved)

Poll(i) == ~cooldown /\ Looks(i, Seen, Unresolved)

\* The call is going to fail, whatever is plugged in.
PollInVain(i) == ~cooldown /\ Looks(i, Nothing, saved # Nothing)

PollAt(i, place) == polls[i] # Nothing /\ polls[i].at = place

\* A device is found, and asked for the public key of its wallet: Android
\* reads the drive that is mounted by then, iOS the drive of the handle.
Asks(i, key) ==
    /\ PollAt(i, "detect")
    /\ polls[i].found # Nothing
    /\ device' = polls[i].found
    /\ polls' = [polls EXCEPT ![i] = [at |-> "read", found |-> key, forgets |-> FALSE]]
    /\ UNCHANGED <<platform, drive, saved, connectedWalletPubkey, ejecting, cooldown,
                   straggling>>

Found(i) ==
    Asks(i, IF platform = "android" \/ drive = polls[i].found THEN KeyOf(drive) ELSE Nothing)

\* The file cannot be read: not mounted yet, no grant, no such file.
FoundUnreadable(i) == Asks(i, Nothing)


\* No device; a handle that did not resolve is removed, and with it one that
\* was saved since the poll began.
NotFound(i) ==
    /\ PollAt(i, "detect")
    /\ polls[i].found = Nothing
    /\ device' = Nothing
    /\ connectedWalletPubkey' = Nothing
    /\ saved' = IF polls[i].forgets THEN Nothing ELSE saved
    /\ polls' = [polls EXCEPT ![i] = Nothing]
    /\ UNCHANGED <<platform, drive, ejecting, cooldown, straggling>>

\* readFileFromUSB answers.
KeyRead(i) ==
    /\ PollAt(i, "read")
    /\ connectedWalletPubkey' = polls[i].found
    /\ polls' = [polls EXCEPT ![i] = Nothing]
    /\ UNCHANGED <<platform, drive, saved, device, ejecting, cooldown, straggling>>

PollAnswer(i) == Found(i) \/ FoundUnreadable(i) \/ NotFound(i) \/ KeyRead(i)

\* A native call of a poll fails although the drive is there.
CallFails(i) == PollInVain(i) \/ FoundUnreadable(i)

\* The badge, which is a button while a device is connected.  Bound: one
\* eject at a time.
Disconnect ==
    /\ device # Nothing
    /\ ~ejecting
    /\ ejecting' = TRUE
    /\ UNCHANGED <<platform, drive, saved, shown, polls, cooldown, straggling>>

\* ejectUSB answers, one way or the other; the drive stays plugged in.
Ejected ==
    /\ ejecting
    /\ ejecting' = FALSE
    /\ device' = Nothing
    /\ connectedWalletPubkey' = Nothing
    /\ cooldown' = TRUE
    /\ straggling' = \E i \in PollIds : polls[i] # Nothing
    /\ UNCHANGED <<platform, drive, saved, polls>>

CooldownOver ==
    /\ cooldown
    /\ cooldown' = FALSE
    /\ UNCHANGED <<platform, drive, saved, shown, polls, ejecting, straggling>>

\* A drive is plugged in, swapped or removed.
DriveChanges ==
    /\ drive' \in (Drives \cup {Nothing}) \ {drive}
    /\ UNCHANGED <<platform, saved, shown, polls, ejecting, cooldown, straggling>>

\* selectIOSDrive, from the screen that creates a wallet.
PickDrive ==
    /\ platform = "ios"
    /\ drive # Nothing
    /\ saved' = drive
    /\ UNCHANGED <<platform, drive, shown, polls, ejecting, cooldown, straggling>>

\* detectUSBDevices of another screen, or of getKeypair, forgets the handle.
ForgottenElsewhere ==
    /\ platform = "ios"
    /\ saved # Nothing
    /\ saved' = Nothing
    /\ UNCHANGED <<platform, drive, shown, polls, ejecting, cooldown, straggling>>

HardwareNext ==
    \/ \E i \in PollIds : Poll(i) \/ PollInVain(i) \/ PollAnswer(i)
    \/ Disconnect
    \/ Ejected
    \/ CooldownOver
    \/ DriveChanges
    \/ PickDrive
    \/ ForgottenElsewhere

=============================================================================
