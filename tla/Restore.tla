------------------------------- MODULE Restore -------------------------------
(***************************************************************************)
(* Golden restore on one node: the metadata that a deploy is prepared with *)
(* (recovery.py), and the program that the installer runs with it          *)
(* (restore_runtime.py): its checks, the download into memory, the two     *)
(* passes over the payload, the identity, and the way off.                 *)
(*                                                                         *)
(* Sizes are counted in chunks.  What a cell of the disk holds is the      *)
(* number of the deploy that wrote it: the blocks of the image first, then *)
(* the pieces of the identity, which live in files of block Home.  A write *)
(* is cached until it is flushed, and a power loss keeps any part of it.   *)
(***************************************************************************)
EXTENDS Naturals

CONSTANTS
    TargetSize,    \* the size of the target disk
    Pieces,        \* pieces of the identity; the marker is the last
    Home,          \* the block that holds the files of the identity
    Space,         \* the room in the installer's memory
    MaxSize,       \* bound on the sizes of images
    MaxDeploys,    \* bound on deploys
    Virtual        \* a virtual machine, checked before it is deployed

ASSUME SizesAssumption ==
    /\ TargetSize \in Nat \ {0} /\ Pieces \in Nat \ {0} /\ MaxSize \in Nat \ {0}
    /\ Home \in 1 .. TargetSize /\ Space \in Nat /\ MaxDeploys \in Nat
    /\ Virtual \in BOOLEAN

Cells == 1 .. (TargetSize + Pieces)
Marker == TargetSize + Pieces
Tokens == 0 .. MaxDeploys

\* The recorded sizes of an image, what its payload decodes to, whether the
\* frame is complete, and whether it was made for this kind of machine.
Images == [declared: 1 .. MaxSize, compressed: 1 .. MaxSize, frame: 1 .. MaxSize,
           ends: BOOLEAN, compatible: BOOLEAN]

VARIABLES
    token,     \* the deploy whose media the node boots
    image,     \* what it was prepared with
    pc,        \* where the recovery program is, "off", or "stuck"
    genuine,   \* what the server sends has the recorded checksum
    received,  \* how much of it is staged
    at,        \* how far the current pass is
    disk,      \* the disk as the installer sees it
    kept       \* and as a power loss may leave it

vars == <<token, image, pc, genuine, received, at, disk, kept>>
staged == <<genuine, received>>
target == <<disk, kept>>
Deployed == <<token, image>>

Fits == image.compatible /\ image.declared <= TargetSize

\* load_metadata refuses what does not fit a virtual machine; of a physical
\* one nothing is known yet.
Deploy ==
    /\ pc = "off" /\ token < MaxDeploys
    /\ token' = token + 1
    /\ image' \in Images
    /\ Virtual => Fits'
    /\ pc' = "checking"
    /\ UNCHANGED <<genuine, received, at, target>>

\* The node boots the same media once more.
BootAgain ==
    /\ pc = "off" /\ token > 0
    /\ pc' = "checking"
    /\ UNCHANGED <<Deployed, staged, at, target>>

Check ==
    /\ pc = "checking" /\ Fits /\ image.compressed <= Space
    /\ pc' = "staging"
    /\ genuine' \in BOOLEAN /\ received' = 0
    /\ UNCHANGED <<Deployed, at, target>>

Receive ==
    /\ pc = "staging" /\ received # image.compressed
    /\ received' = received + 1
    /\ UNCHANGED <<Deployed, pc, genuine, at, target>>

\* Mutant: only the length of what was received is compared.
IntactByLength == received = image.compressed

\* The connection ends after all that was recorded.
Intact == received = image.compressed /\ genuine
EndOfPayload ==
    /\ pc = "staging" /\ Intact
    /\ pc' = "testing" /\ at' = 0
    /\ UNCHANGED <<Deployed, staged, target>>
-----------------------------------------------------------------------------
\* decompress: /dev/null first, then the disk.

\* What block b of the image replaces: with block Home go its files.
Written(b) == [c \in Cells |-> IF c = b THEN token
                               ELSE IF b = Home /\ c > TargetSize THEN 0 ELSE disk[c]]

Decode ==
    /\ pc \in {"testing", "writing"} /\ at < image.frame /\ at # image.declared
    /\ at' = at + 1
    /\ disk' = IF pc = "writing" THEN Written(at + 1) ELSE disk
    /\ UNCHANGED <<Deployed, pc, staged, kept>>

RightFrame == image.ends /\ at = image.declared
EndOfFrame ==
    /\ pc \in {"testing", "writing"} /\ at = image.frame /\ RightFrame
    /\ pc' = IF pc = "testing" THEN "writing" ELSE "flushing"
    /\ at' = 0
    /\ UNCHANGED <<Deployed, staged, target>>

\* What raises an exception: an unfit machine; too many bytes or, where they
\* end, too few or others; a frame too long, too short or without its end.
Refused ==
    \/ pc = "checking" /\ ~(Fits /\ image.compressed <= Space)
    \/ pc = "staging"
    \/ pc \in {"testing", "writing"} /\ at = image.declared /\ at < image.frame
    \/ pc \in {"testing", "writing"} /\ at = image.frame /\ ~RightFrame

\* Anaconda stops at it, and the node stays on.
Refuse ==
    /\ Refused
    /\ pc' = "stuck"
    /\ UNCHANGED <<Deployed, staged, at, target>>

\* Mutant: the disk is not flushed before it is mounted.
FlushNothing ==
    /\ pc = "flushing"
    /\ pc' = "applying"
    /\ UNCHANGED <<Deployed, staged, at, target>>

\* blockdev --flushbufs, partprobe, mount.
Flush ==
    /\ pc = "flushing"
    /\ kept' = disk
    /\ pc' = "applying"
    /\ UNCHANGED <<Deployed, staged, at, disk>>

\* apply_identity writes one piece after the other.
Apply ==
    /\ pc = "applying" /\ at < Pieces
    /\ at' = at + 1
    /\ disk' = [disk EXCEPT ![TargetSize + at + 1] = token]
    /\ UNCHANGED <<Deployed, pc, staged, kept>>

\* Mutant: the node is switched off with its file system mounted.
LeaveMounted ==
    /\ pc = "applying" /\ at = Pieces
    /\ pc' = "leaving"
    /\ UNCHANGED <<Deployed, staged, at, target>>

\* umount, sync, poweroff.
Unmount ==
    /\ pc = "applying" /\ at = Pieces
    /\ kept' = disk
    /\ pc' = "leaving"
    /\ UNCHANGED <<Deployed, staged, at, disk>>

\* Mutant: the program waits for a poweroff that nobody requested.
Wait == pc = "leaving" /\ UNCHANGED vars

PowerOff ==
    /\ pc = "leaving"
    /\ pc' = "off"
    /\ UNCHANGED <<Deployed, staged, at, target>>

\* A command fails or times out; the root is unmounted in any case, if it can.
Fault ==
    /\ pc \notin {"off", "stuck", "leaving"}
    /\ pc' = "stuck"
    /\ kept' \in IF pc = "applying" THEN {disk, kept} ELSE {kept}
    /\ UNCHANGED <<Deployed, staged, at, disk>>

\* The power goes, or someone switches the node off.
PowerLoss ==
    /\ pc # "off"
    /\ pc' = "off"
    /\ \E lost \in SUBSET {c \in Cells : disk[c] # kept[c]} :
           disk' = [c \in Cells |-> IF c \in lost THEN kept[c] ELSE disk[c]]
    /\ kept' = disk'
    /\ UNCHANGED <<Deployed, staged, at>>

Init ==
    /\ token = 0 /\ image \in Images /\ pc = "off"
    /\ genuine = FALSE /\ received = 0 /\ at = 0
    /\ disk = [c \in Cells |-> 0] /\ kept = disk

Run == \/ Check  \/ Receive \/ EndOfPayload \/ Decode \/ EndOfFrame
       \/ Refuse \/ Flush   \/ Apply        \/ Unmount \/ PowerOff
Next == Deploy \/ BootAgain \/ Run \/ Fault \/ PowerLoss

Spec == Init /\ [][Next]_vars
\* The program runs on; what it calls has a timeout.
FairSpec == Spec /\ WF_vars(Run)
-----------------------------------------------------------------------------
TypeOK ==
    /\ token \in Tokens /\ image \in Images
    /\ pc \in {"off", "checking", "staging", "testing", "writing", "flushing",
               "applying", "leaving", "stuck"}
    /\ genuine \in BOOLEAN /\ received \in 0 .. MaxSize /\ at \in 0 .. (MaxSize + Pieces)
    /\ disk \in [Cells -> Tokens] /\ kept \in [Cells -> Tokens]

\* Everything that could be wrong with an image was looked at.
Verified ==
    /\ Fits /\ genuine /\ received = image.compressed
    /\ image.ends /\ image.frame = image.declared

\* Nothing of the target changes before the whole payload was received,
\* decoded and compared with what was recorded (restore_runtime.py:82-88,
\* 224-231; docs/troubleshooting.md:22-24, docs/golden-recovery.md:75-76).
UntouchedUntilVerified == [][disk' # disk /\ pc' # "off" => Verified]_vars

\* Whatever was interrupted, and however often, a node whose marker is the
\* one expected holds every block of that deploy's image
\* (restore_runtime.py:171-172; docs/golden-recovery.md:78-80).
MarkerMeansRestored ==
    pc = "off" /\ token > 0 /\ disk[Marker] = token
        => \A c \in 1 .. image.declared : disk[c] = token

\* A node that the program itself switches off keeps its whole identity: no
\* power loss afterwards takes a piece of it (restore_runtime.py:239-246).
LeavesComplete ==
    [][pc = "leaving" /\ pc' = "off"
        => \A c \in Cells : c <= image.declared \/ c > TargetSize => disk'[c] = token]_vars

\* A recovery that was begun comes to an end: off, or stuck with an error.
RecoveryEnds == pc = "checking" ~> pc \in {"off", "stuck"}
=============================================================================
