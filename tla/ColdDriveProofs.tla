--------------------------- MODULE ColdDriveProofs ---------------------------
EXTENDS ColdDrive, TLAPS

(* The native calls keep the shape of the drives.                          *)

Shape == drives \in [Drives -> [Files -> Contents]]

LEMMA FilesAreContents ==
    ASSUME Shape, Mounted, NEW f \in Files
    PROVE  drives[mounted][f] \in Contents
BY DEF Shape, Mounted

LEMMA ReadTyped ==
    ASSUME Shape, NEW f \in Files, NEW c \in ReadOutcomes(f)
    PROVE  c \in Contents
BY FilesAreContents DEF ReadOutcomes, Contents

LEMMA WriteDoneTyped ==
    ASSUME Shape, NEW f \in Files, NEW c \in Contents, WriteDone(f, c)
    PROVE  Shape'
BY DEF Shape, WriteDone, Mounted

LEMMA WriteFailsTyped ==
    ASSUME Shape, NEW f \in Files, NEW c \in Contents, WriteFails(f, c)
    PROVE  Shape'
<1>1. Leftovers \cup {c} \subseteq Contents
  BY DriveAssumption DEF Contents
<1> QED
  BY <1>1 DEF Shape, WriteFails, Mounted

LEMMA CleanTyped ==
    ASSUME Shape, Clean
    PROVE  Shape'
<1>1. PICK kept \in Survivors :
        drives' = [drives EXCEPT ![mounted] =
                     [f \in Files |-> IF f \in kept THEN @[f] ELSE Absent]]
  BY DEF Clean
<1>2. [f \in Files |-> IF f \in kept THEN drives[mounted][f] ELSE Absent]
        \in [Files -> Contents]
  BY FilesAreContents DEF Clean, Contents
<1> QED
  BY <1>1, <1>2 DEF Shape, Clean, Mounted

\* A write that resolves changes one file of one drive.
LEMMA WriteDoneEffect ==
    ASSUME Shape, NEW f \in Files, NEW c, WriteDone(f, c)
    PROVE  /\ Mounted
           /\ drives'[mounted][f] = c
           /\ \A g \in Files \ {f} : drives'[mounted][g] = drives[mounted][g]
           /\ \A d \in Drives \ {mounted} : drives'[d] = drives[d]
BY DEF Shape, WriteDone, Mounted

\* It leaves every key where it is, unless it overwrites that very file.
LEMMA WriteKeepsKey ==
    ASSUME Shape, NEW f \in Files, NEW c, WriteDone(f, c), NEW w,
           f # "keypair" \/ c = w, KeyKept(w)
    PROVE  KeyKept(w)'
BY WriteDoneEffect DEF KeyKept, HoldsKey, Mounted, Files, KeyFiles

LEMMA WriteMakesKey ==
    ASSUME Shape, NEW w, WriteDone("keypair", w)
    PROVE  KeyKept(w)'
BY WriteDoneEffect DEF KeyKept, HoldsKey, Mounted, Files, KeyFiles

\* A write, done or failed, touches no other file, and no other drive.
LEMMA OtherFilesKept ==
    ASSUME Shape, NEW f \in Files, NEW c, WriteDone(f, c) \/ WriteFails(f, c),
           NEW d \in Drives, NEW g \in Files \ {f}
    PROVE  drives'[d][g] = drives[d][g]
BY DEF Shape, WriteDone, WriteFails, Mounted

LEMMA DriveTypes == DriveTypeOK <=> Shape /\ mounted \in Drives \cup {NoDrive}
BY DEF DriveTypeOK, Shape
=============================================================================
