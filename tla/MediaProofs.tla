------------------------------ MODULE MediaProofs ------------------------------
(***************************************************************************)
(* Proofs about what the media of an installation go through.              *)
(*                                                                         *)
(* Restore, for disks, images and identities of any size and any number of *)
(* deploys, interruptions and power losses: type correctness, that nothing *)
(* is written before everything is verified, what a marker means, and what *)
(* is left when the program switches off.                                  *)
(*                                                                         *)
(* MediaBuild and MediaUpload, for any number of clients, builds, kills and*)
(* cuts: that both implement VerifiedStore, as the artifact cache does.    *)
(***************************************************************************)
EXTENDS MCMedia, TLAPS

Blocks == 1 .. image.declared
Holds(f, S) == \A c \in S : f[c] = token
PiecesTo(n) == (TargetSize + 1) .. (TargetSize + n)

\* What was verified when.
Progress ==
    /\ pc \in {"staging", "testing", "writing"} => Fits
    /\ pc \in {"testing", "writing"} => genuine /\ received = image.compressed
    /\ pc = "staging" => received <= image.compressed
    /\ pc = "testing" => at <= image.declared
    /\ pc \in {"writing", "flushing", "applying", "leaving"} => Verified
    /\ pc # "off" => token > 0

\* What was written when.
Contents ==
    /\ pc = "writing" => at <= image.declared /\ Holds(disk, 1 .. at)
    /\ pc = "flushing" => at = 0 /\ Holds(disk, Blocks)
    /\ pc \in {"applying", "leaving"} => Holds(disk, Blocks) /\ Holds(kept, Blocks)
    /\ pc = "applying" => at <= Pieces /\ Holds(disk, PiecesTo(at))
    /\ pc = "leaving" => Holds(disk, PiecesTo(Pieces)) /\ Holds(kept, PiecesTo(Pieces))

\* A new deploy finds only older tokens, and a marker of the current one only
\* over a whole image.
Older == \A c \in Cells : disk[c] <= token /\ kept[c] <= token
Marked ==
    token > 0 /\ (disk[Marker] = token \/ kept[Marker] = token)
        => image.declared <= TargetSize /\ Holds(disk, Blocks) /\ Holds(kept, Blocks)

Inv == TypeOK /\ Progress /\ Contents /\ Older /\ Marked
-----------------------------------------------------------------------------
LEMMA Places == /\ Marker \in Cells /\ Marker > TargetSize
                /\ \A n \in 0 .. Pieces : PiecesTo(n) \subseteq Cells
                /\ \A b \in 1 .. TargetSize : b \in Cells /\ b # Marker
  BY SizesAssumption DEF Cells, Marker, PiecesTo

LEMMA TypeStep ==
    ASSUME TypeOK, Progress, [Next]_vars
    PROVE  TypeOK'
<1> USE SizesAssumption DEF TypeOK, Tokens, Images, Cells, staged, target, Deployed
<1>1. CASE Deploy
  BY <1>1 DEF Deploy
<1>2. CASE BootAgain
  BY <1>2 DEF BootAgain
<1>3. CASE Check
  BY <1>3 DEF Check
<1>4. CASE Receive
  BY <1>4 DEF Receive, Progress
<1>5. CASE EndOfPayload
  BY <1>5 DEF EndOfPayload
<1>6. CASE Decode
  <2>1. Written(at + 1) \in [Cells -> Tokens]
    BY DEF Written
  <2> QED
    <3>1. disk' \in [Cells -> Tokens]
      BY <1>6, <2>1 DEF Decode
    <3>2. at' \in 0 .. (MaxSize + Pieces)
      BY <1>6 DEF Decode
    <3> QED
      BY <1>6, <3>1, <3>2 DEF Decode
<1>7. CASE EndOfFrame
  BY <1>7 DEF EndOfFrame
<1>8. CASE Flush
  BY <1>8 DEF Flush
<1>9. CASE Apply
  BY <1>9 DEF Apply
<1>10. CASE Unmount
  BY <1>10 DEF Unmount
<1>11. CASE PowerOff
  BY <1>11 DEF PowerOff
<1>12. CASE Fault
  BY <1>12 DEF Fault
<1>13. CASE PowerLoss
  BY <1>13 DEF PowerLoss
<1>14. CASE UNCHANGED vars
  BY <1>14 DEF vars
<1>15. CASE Refuse
  BY <1>15 DEF Refuse
<1> QED
  BY <1>1, <1>2, <1>3, <1>4, <1>5, <1>6, <1>7, <1>8, <1>9, <1>10, <1>11, <1>12, <1>13,
     <1>14, <1>15 DEF Next, Run

\* The steps that leave the target alone keep what is known of it.
LEMMA Untouched ==
    ASSUME Inv, TypeOK', UNCHANGED <<token, image, disk, kept>>
    PROVE  Older' /\ Marked'
  BY DEF Inv, Older, Marked, Holds, Blocks

LEMMA InvStep ==
    ASSUME Inv, [Next]_vars, TypeOK'
    PROVE  Inv'
<1> USE SizesAssumption DEF Inv, Progress, Contents, staged, target, Deployed, Fits,
       Verified, Blocks, Holds, PiecesTo
<1>1. CASE Deploy
  BY <1>1, Places DEF Deploy, Older, Marked, TypeOK, Tokens, Cells
<1>2. CASE BootAgain
  <2>1. UNCHANGED <<token, image, disk, kept>>
    BY <1>2 DEF BootAgain
  <2>2. Progress'
    BY <1>2, <2>1 DEF BootAgain, TypeOK, Images
  <2>3. Contents'
    BY <1>2, <2>1 DEF BootAgain, TypeOK, Images
  <2> QED
    BY <2>1, <2>2, <2>3, Untouched
<1>3. CASE Check
  <2>1. UNCHANGED <<token, image, disk, kept>>
    BY <1>3 DEF Check
  <2>2. Progress'
    BY <1>3, <2>1 DEF Check, TypeOK, Images
  <2>3. Contents'
    BY <1>3, <2>1 DEF Check, TypeOK, Images
  <2> QED
    BY <2>1, <2>2, <2>3, Untouched
<1>4. CASE Receive
  <2>1. UNCHANGED <<token, image, disk, kept>>
    BY <1>4 DEF Receive
  <2>2. Progress'
    BY <1>4, <2>1 DEF Receive, TypeOK, Images
  <2>3. Contents'
    BY <1>4, <2>1 DEF Receive, TypeOK, Images
  <2> QED
    BY <2>1, <2>2, <2>3, Untouched
<1>5. CASE EndOfPayload
  <2>1. UNCHANGED <<token, image, disk, kept>>
    BY <1>5 DEF EndOfPayload, Intact
  <2>2. Progress'
    BY <1>5, <2>1 DEF EndOfPayload, Intact, TypeOK, Images
  <2>3. Contents'
    BY <1>5, <2>1 DEF EndOfPayload, Intact, TypeOK, Images
  <2> QED
    BY <2>1, <2>2, <2>3, Untouched
<1>6. CASE Decode
  <2>2. CASE pc = "testing"
    BY <1>6, <2>2, Untouched DEF Decode, TypeOK, Images
  <2>3. CASE pc = "writing"
    <3>1. /\ disk' = Written(at + 1) /\ at' = at + 1
          /\ UNCHANGED <<token, image, pc, genuine, received, kept>>
      BY <1>6, <2>3 DEF Decode
    <3>2. at + 1 \in 1 .. TargetSize /\ at + 1 <= image.declared
      BY <1>6, <2>3 DEF Decode, TypeOK, Images
    <3>3. \A c \in 1 .. TargetSize : disk'[c] = IF c = at + 1 THEN token ELSE disk[c]
      BY <3>1, <3>2 DEF Written, Cells
    <3>4. \A c \in Cells : disk'[c] \in {token, 0, disk[c]}
      BY <3>1 DEF Written
    <3>5. Older'
      BY <3>1, <3>4 DEF Older, TypeOK, Tokens
    <3>6. disk'[Marker] \in {0, disk[Marker]}
      BY <3>1, <3>2, Places DEF Written
    <3>7. Marked'
      BY <2>3, <3>1, <3>2, <3>3, <3>6 DEF Marked, TypeOK, Tokens, Images
    <3>8. Holds(disk, 1 .. at)'
      BY <2>3, <3>1, <3>2, <3>3 DEF TypeOK, Images
    <3> QED
      BY <2>3, <3>1, <3>2, <3>5, <3>7, <3>8 DEF TypeOK
  <2> QED
    BY <1>6, <2>2, <2>3 DEF Decode
<1>7. CASE EndOfFrame
  <2>1. UNCHANGED <<token, image, disk, kept>>
    BY <1>7 DEF EndOfFrame, RightFrame
  <2>2. Progress'
    BY <1>7, <2>1 DEF EndOfFrame, RightFrame, TypeOK, Images
  <2>3. Contents'
    BY <1>7, <2>1 DEF EndOfFrame, RightFrame, TypeOK, Images
  <2> QED
    BY <2>1, <2>2, <2>3, Untouched
<1>8. CASE Flush
  BY <1>8 DEF Flush, Older, Marked
<1>9. CASE Apply
  <2>1. /\ disk' = [disk EXCEPT ![TargetSize + at + 1] = token] /\ at' = at + 1
        /\ UNCHANGED <<token, image, pc, genuine, received, kept>>
        /\ pc = "applying" /\ at < Pieces
    BY <1>9 DEF Apply
  <2>2. \A c \in Cells : disk'[c] \in {token, disk[c]}
    BY <2>1 DEF TypeOK
  <2>3. Holds(disk, Blocks)' /\ Holds(kept, Blocks)' /\ image.declared <= TargetSize
    BY <2>1, <2>2 DEF Cells, TypeOK, Images
  <2>4. Holds(disk, PiecesTo(at))'
    BY <2>1 DEF TypeOK, Cells
  <2>5. Older'
    BY <2>1, <2>2 DEF Older, TypeOK, Tokens
  <2> QED
    BY <2>1, <2>3, <2>4, <2>5 DEF Marked, TypeOK
<1>10. CASE Unmount
  BY <1>10 DEF Unmount, Older, Marked
<1>11. CASE PowerOff
  <2>1. UNCHANGED <<token, image, disk, kept>>
    BY <1>11 DEF PowerOff
  <2>2. Progress'
    BY <1>11, <2>1 DEF PowerOff, TypeOK, Images
  <2>3. Contents'
    BY <1>11, <2>1 DEF PowerOff, TypeOK, Images
  <2> QED
    BY <2>1, <2>2, <2>3, Untouched
<1>12. CASE Fault
  BY <1>12 DEF Fault, Older, Marked
<1>13. CASE PowerLoss
  <2>1. \A c \in Cells : disk'[c] \in {disk[c], kept[c]} /\ kept'[c] = disk'[c]
    BY <1>13 DEF PowerLoss
  <2>2. UNCHANGED <<token, image>> /\ pc' = "off"
    BY <1>13 DEF PowerLoss
  <2>3. Older'
    BY <2>1, <2>2 DEF Older
  <2>4. Marked'
    BY <2>1, <2>2, Places DEF Marked, TypeOK, Images
  <2> QED
    BY <2>2, <2>3, <2>4
<1>14. CASE UNCHANGED vars
  <2>1. UNCHANGED <<token, image, disk, kept>>
    BY <1>14 DEF vars
  <2>2. Progress'
    BY <1>14, <2>1 DEF vars, TypeOK, Images
  <2>3. Contents'
    BY <1>14, <2>1 DEF vars, TypeOK, Images
  <2> QED
    BY <2>1, <2>2, <2>3, Untouched
<1>15. CASE Refuse
  <2>1. UNCHANGED <<token, image, disk, kept>>
    BY <1>15 DEF Refuse
  <2>2. Progress'
    BY <1>15, <2>1 DEF Refuse, Refused
  <2>3. Contents'
    BY <1>15, <2>1 DEF Refuse, TypeOK, Images
  <2> QED
    BY <2>1, <2>2, <2>3, Untouched
<1> QED
  BY <1>1, <1>2, <1>3, <1>4, <1>5, <1>6, <1>7, <1>8, <1>9, <1>10, <1>11, <1>12, <1>13,
     <1>14, <1>15 DEF Next, Run
-----------------------------------------------------------------------------
LEMMA Invariant == Spec => []Inv
<1>1. Init => Inv
  <2> SUFFICES ASSUME Init PROVE Inv
    OBVIOUS
  <2>1. token = 0 /\ pc = "off" /\ \A c \in Cells : disk[c] = 0 /\ kept[c] = 0
    BY DEF Init
  <2>2. TypeOK
    <3>1. disk \in [Cells -> Tokens] /\ kept = disk
      BY SizesAssumption DEF Init, Tokens
    <3>2. image \in Images /\ genuine \in BOOLEAN
      BY Zenon DEF Init
    <3>3. 0 \in Tokens /\ 0 \in 0 .. MaxSize /\ 0 \in 0 .. (MaxSize + Pieces)
      BY SizesAssumption DEF Tokens
    <3> QED
      BY <3>1, <3>2, <3>3, Zenon DEF Init, TypeOK
  <2> QED
    BY <2>1, <2>2 DEF Inv, Progress, Contents, Older, Marked
<1>2. Inv /\ [Next]_vars => Inv'
  BY TypeStep, InvStep DEF Inv
<1> QED
  BY <1>1, <1>2, PTL DEF Spec

\* Every variable keeps its type: no count leaves its bounds.
THEOREM TypeCorrect == Spec => []TypeOK
<1>1. Inv => TypeOK
  BY DEF Inv
<1> QED
  BY <1>1, Invariant, PTL

\* A node whose marker is the expected one holds every block of the image
\* (restore_runtime.py:171-172, golden-recovery.md:78-80).
THEOREM MarkerIsProof == Spec => []MarkerMeansRestored
<1>1. Inv => MarkerMeansRestored
  BY DEF Inv, Marked, MarkerMeansRestored, Holds, Blocks
<1> QED
  BY <1>1, Invariant, PTL

\* The target changes only after the payload was received and decoded whole
\* and compared with its metadata (restore_runtime.py:82-88, 224-231).
THEOREM WritesAreVerified == Spec => UntouchedUntilVerified
<1>1. Inv /\ [Next]_vars => [disk' # disk /\ pc' # "off" => Verified]_vars
  <2> SUFFICES ASSUME Inv, Next, disk' # disk, pc' # "off"
               PROVE  Verified
    BY DEF vars
  <2>1. pc \in {"writing", "applying"}
    BY DEF Next, Run, Deploy, BootAgain, Check, Receive, EndOfPayload, Decode, EndOfFrame,
       Refuse, Flush, Apply, Unmount, PowerOff, Fault, PowerLoss, staged, target, Deployed
  <2> QED
    BY <2>1 DEF Inv, Progress
<1> QED
  BY <1>1, Invariant, PTL DEF Spec, UntouchedUntilVerified

\* What the program switches off is complete, and a power loss at that very
\* moment does not change it (restore_runtime.py:239-246).
THEOREM NothingIsLost == Spec => LeavesComplete
<1>1. Inv /\ [Next]_vars =>
          [pc = "leaving" /\ pc' = "off"
              => \A c \in Cells : c <= image.declared \/ c > TargetSize => disk'[c] = token]_vars
  <2> SUFFICES ASSUME Inv, Next, pc = "leaving", NEW c \in Cells,
                      c <= image.declared \/ c > TargetSize
               PROVE  disk'[c] = token
    BY DEF vars
  <2>1. disk[c] = token /\ kept[c] = token
    BY SizesAssumption DEF Inv, Contents, Holds, Blocks, PiecesTo, Cells, TypeOK, Images
  <2>2. disk'[c] \in {disk[c], kept[c]}
    BY DEF Next, Run, Deploy, BootAgain, Check, Receive, EndOfPayload, Decode, EndOfFrame,
       Refuse, Flush, Apply, Unmount, PowerOff, Fault, PowerLoss, staged, target, Deployed
  <2> QED
    BY <2>1, <2>2
<1> QED
  BY <1>1, Invariant, PTL DEF Spec, LeavesComplete
-----------------------------------------------------------------------------
(* Builds *)

LEMMA BuildConstants ==
    /\ Outputs \in 1 .. 2 /\ MaxBuilds \in Nat /\ MaxKills \in Nat /\ None \notin Builders
BY BuildAssumption
   DEF Build!OutputsAssumption, Build!BoundsAssumption, Build!ClientsAssumption

\* A checksum is that of its file, and is there before the builder goes on to
\* the next output.
Summed(o) == checksum[o] # 0
Builder(c) ==
    /\ place[c] \in Build!Files
    /\ building[c] \notin {"idle", "returned"} =>
           /\ buildLock = c
           /\ \A o \in Build!Files : o < place[c] => Summed(o)
    /\ building[c] = "renaming" => temporary[place[c]] # 0
    /\ building[c] = "summing" => file[place[c]] # 0
    /\ building[c] \in {"renaming", "summing"} => ~Summed(place[c])
    /\ building[c] \in {"done", "returned"} => \A o \in Build!Files : Summed(o)

BuildInv ==
    /\ file \in [Build!Files -> Nat] /\ checksum \in [Build!Files -> Nat]
    /\ temporary \in [Build!Files -> Nat] /\ builds \in Nat
    /\ place \in [Builders -> Build!Files] /\ flaws = 0
    /\ building \in [Builders -> {"idle", "probing", "renaming", "summing", "done", "returned"}]
    /\ \A o \in Build!Files : Summed(o) => checksum[o] = file[o]
    /\ \A c \in Builders : Builder(c)

LEMMA BuildInit == Build!Init => BuildInv
BY BuildConstants DEF Build!Init, BuildInv, Builder, Summed, Build!Files

\* While one builder works the others are out of the way.
LEMMA OtherBuilders ==
    ASSUME BuildInv, NEW c \in Builders, building[c] \notin {"idle", "returned"},
           NEW d \in Builders \ {c}, UNCHANGED <<building[d], place[d]>>,
           \A o \in Build!Files : Summed(o) => Summed(o)'
    PROVE  Builder(d)'
<1>1. building[d] \in {"idle", "returned"}
  BY DEF BuildInv, Builder
<1> QED
  BY <1>1 DEF BuildInv, Builder, Build!Files

\* On to the next output, when this one has its checksum.
LEMMA BuilderProceeds ==
    ASSUME BuildInv, NEW c \in Builders, building[c] \in {"probing", "summing"},
           Build!Proceed(c), checksum'[place[c]] # 0, buildLock' = buildLock,
           \A o \in Build!Files : Summed(o) => Summed(o)'
    PROVE  /\ Builder(c)' /\ \A d \in Builders \ {c} : UNCHANGED <<building[d], place[d]>>
           /\ place' \in [Builders -> Build!Files]
           /\ building' \in [Builders -> {"idle", "probing", "renaming", "summing", "done",
                                         "returned"}]
<1>a. place[c] \in Build!Files /\ buildLock = c /\ \A o \in Build!Files : o < place[c] => Summed(o)
  BY DEF BuildInv, Builder
<1>b. \A o \in Build!Files : o <= place[c] => checksum'[o] # 0
  BY <1>a, BuildConstants DEF Build!Files, Summed
<1>1. CASE place[c] < Outputs
  <2>1. /\ building' = [building EXCEPT ![c] = "probing"]
        /\ place' = [place EXCEPT ![c] = place[c] + 1] /\ place[c] + 1 \in Build!Files
    BY <1>a, <1>1, BuildConstants DEF Build!Proceed, Build!Goto, Build!Files
  <2>2. \A o \in Build!Files : o < place[c] + 1 => checksum'[o] # 0
    BY <1>a, <1>b, BuildConstants DEF Build!Files
  <2> QED
    BY <1>a, <2>1, <2>2 DEF BuildInv, Builder, Summed
<1>2. CASE ~(place[c] < Outputs)
  <2>1. building' = [building EXCEPT ![c] = "done"] /\ place' = place
    BY <1>2 DEF Build!Proceed, Build!Goto
  <2>2. \A o \in Build!Files : checksum'[o] # 0
    BY <1>a, <1>b, <1>2, BuildConstants DEF Build!Files
  <2> QED
    BY <1>a, <2>1, <2>2 DEF BuildInv, Builder, Summed
<1> QED
  BY <1>1, <1>2

LEMMA BuildInvInductive ==
    ASSUME BuildInv, [Build!Next]_buildVars
    PROVE  BuildInv' /\ (\A o \in Build!Files : Summed(o) => Summed(o)')
<1> USE BuildConstants DEF BuildInv, Summed, Builder, Build!Goto, Build!Drop, Build!media,
        Build!Files, Build!Ready, Build!Broken
<1>1. ASSUME NEW c \in Builders, Build!Lock(c)
      PROVE  BuildInv' /\ (\A o \in Build!Files : Summed(o) => Summed(o)')
  BY <1>1 DEF Build!Lock
<1>2. ASSUME NEW c \in Builders, Build!Reuse(c)
      PROVE  BuildInv' /\ (\A o \in Build!Files : Summed(o) => Summed(o)')
  <2>1. /\ building[c] = "probing" /\ Summed(place[c]) /\ Build!Proceed(c)
        /\ UNCHANGED <<file, checksum, temporary, builds, buildLock, flaws>>
    BY <1>2 DEF Build!Reuse
  <2>2. /\ Builder(c)' /\ \A d \in Builders \ {c} : UNCHANGED <<building[d], place[d]>>
        /\ place' \in [Builders -> Build!Files]
        /\ building' \in [Builders -> {"idle", "probing", "renaming", "summing", "done",
                                      "returned"}]
    BY <2>1, BuilderProceeds
  <2>3. ASSUME NEW d \in Builders \ {c} PROVE Builder(d)'
    BY <2>1, <2>2, OtherBuilders
  <2> QED
    BY <2>1, <2>2, <2>3
<1>3. ASSUME NEW c \in Builders, Build!Mismatch(c)
      PROVE  BuildInv' /\ (\A o \in Build!Files : Summed(o) => Summed(o)')
  BY <1>3 DEF Build!Mismatch
<1>4. ASSUME NEW c \in Builders, Build!Build(c)
      PROVE  BuildInv' /\ (\A o \in Build!Files : Summed(o) => Summed(o)')
  <2>1. /\ building[c] = "probing" /\ ~Summed(place[c])
        /\ builds' = builds + 1 /\ temporary' = [temporary EXCEPT ![place[c]] = builds']
        /\ building' = [building EXCEPT ![c] = "renaming"]
        /\ UNCHANGED <<file, checksum, buildLock, place, kills, flaws>>
    BY <1>4 DEF Build!Build
  <2>2. \A d \in Builders \ {c} : Builder(d)'
    BY <2>1, OtherBuilders
  <2>3. Builder(c)'
    BY <2>1
  <2> QED
    BY <2>1, <2>2, <2>3
<1>5. ASSUME NEW c \in Builders, Build!Rename(c)
      PROVE  BuildInv' /\ (\A o \in Build!Files : Summed(o) => Summed(o)')
  BY <1>5 DEF Build!Rename
<1>6. ASSUME NEW c \in Builders, Build!Sum(c)
      PROVE  BuildInv' /\ (\A o \in Build!Files : Summed(o) => Summed(o)')
  <2>1. /\ building[c] = "summing" /\ Build!Proceed(c)
        /\ checksum' = [checksum EXCEPT ![place[c]] = file[place[c]]] /\ file[place[c]] # 0
        /\ UNCHANGED <<file, temporary, builds, buildLock, flaws>>
    BY <1>6 DEF Build!Sum
  <2>2. /\ Builder(c)' /\ \A d \in Builders \ {c} : UNCHANGED <<building[d], place[d]>>
        /\ place' \in [Builders -> Build!Files]
        /\ building' \in [Builders -> {"idle", "probing", "renaming", "summing", "done",
                                      "returned"}]
    BY <2>1, BuilderProceeds
  <2>3. \A d \in Builders : Builder(d)'
    BY <2>1, <2>2, OtherBuilders
  <2> QED
    BY <2>1, <2>2, <2>3
<1>7. ASSUME NEW c \in Builders, Build!Return(c) \/ Build!Leave(c) \/ Build!Kill(c)
      PROVE  BuildInv' /\ (\A o \in Build!Files : Summed(o) => Summed(o)')
  <2>1. CASE Build!Return(c)
    BY <2>1 DEF Build!Return
  <2>2. CASE Build!Leave(c)
    BY <2>2 DEF Build!Leave
  <2>3. CASE Build!Kill(c)
    <3>1. \A d \in Builders \ {c} : Builder(d)'
      BY <2>3, OtherBuilders DEF Build!Kill
    <3> QED
      BY <2>3, <3>1 DEF Build!Kill
  <2> QED
    BY <1>7, <2>1, <2>2, <2>3
<1>8. ASSUME NEW o \in Build!Files, Build!Decay(o) \/ Build!Remove(o) PROVE FALSE
  BY <1>8 DEF Build!Decay, Build!Remove
<1>9. CASE UNCHANGED buildVars
  BY <1>9 DEF buildVars
<1> QED
  BY <1>1, <1>2, <1>3, <1>4, <1>5, <1>6, <1>7, <1>8, <1>9 DEF Build!Next, Build!Step

\* The store of the media, as the run reads it off the builds.
BuildStored == IF scenario = "build" /\ Build!Complete THEN "whole" ELSE "absent"
BuildServed == {c \in Builders : scenario = "build" /\ building[c] = "returned"}

\* Every step of a builder is a step of the store, or nothing to it.
LEMMA BuildRefines ==
    ASSUME BuildInv, [Build!Next]_buildVars, scenario = "build", scenario' = scenario
    PROVE  [BuildStore!Next]_<<BuildStored, BuildServed>>
<1>a. BuildInv' /\ \A o \in Build!Files : Summed(o) => Summed(o)'
  BY BuildInvInductive
<1>b. /\ Build!Complete <=> \A o \in Build!Files : Summed(o)
      /\ Build!Complete' <=> \A o \in Build!Files : Summed(o)'
  BY <1>a DEF BuildInv, Build!Complete, Build!Ready, Build!Broken, Summed
<1>c. BuildStored = "whole" => BuildStored' = "whole"
  BY <1>a, <1>b DEF BuildStored
<1>d. BuildStored \in {"absent", "whole"} /\ BuildStored' \in {"absent", "whole"}
  BY DEF BuildStored
<1>1. CASE BuildServed' = BuildServed
  BY <1>1, <1>c, <1>d DEF BuildStore!Next, BuildStore!Publish, BuildStored, BuildServed
<1>2. ASSUME NEW c \in Builders, Build!Return(c)
      PROVE  [BuildStore!Next]_<<BuildStored, BuildServed>>
  <2>1. BuildServed' = BuildServed \cup {c}
    BY <1>2 DEF Build!Return, Build!Goto, BuildServed, BuildInv
  <2>2. BuildStored = "whole"
    BY <1>2, <1>b DEF Build!Return, BuildStored, BuildInv, Builder
  <2> QED
    BY <2>1, <2>2, <1>c DEF BuildStore!Next, BuildStore!Serve, BuildStored, BuildServed
<1>3. ASSUME NEW c \in Builders, Build!Leave(c)
      PROVE  [BuildStore!Next]_<<BuildStored, BuildServed>>
  <2>1. c \in BuildServed /\ BuildServed' = BuildServed \ {c}
    BY <1>3 DEF Build!Leave, Build!Goto, BuildServed, BuildInv
  <2>2. BuildStored = "whole"
    BY <1>3, <1>b DEF Build!Leave, BuildStored, BuildInv, Builder
  <2> QED
    BY <2>1, <2>2, <1>c DEF BuildStore!Next, BuildStore!Leave, BuildStored, BuildServed
<1>4. ASSUME NEW c \in Builders, Build!Step(c) \/ Build!Kill(c), ~Build!Return(c), ~Build!Leave(c)
      PROVE  BuildServed' = BuildServed
  <2>1. building[c] # "returned" /\ building'[c] # "returned"
        /\ \A d \in Builders \ {c} : building'[d] = building[d]
    BY <1>4 DEF Build!Step, Build!Lock, Build!Reuse, Build!Mismatch, Build!Build, Build!Rename,
       Build!Sum, Build!Kill, Build!Proceed, Build!Drop, Build!Goto, BuildInv
  <2> QED
    BY <2>1 DEF BuildServed
<1>5. ASSUME NEW o \in Build!Files, Build!Decay(o) \/ Build!Remove(o)
      PROVE  BuildServed' = BuildServed
  BY <1>5 DEF Build!Decay, Build!Remove, BuildServed
<1>6. CASE UNCHANGED buildVars
  BY <1>6, <1>1 DEF buildVars, BuildServed
<1> QED
  BY <1>1, <1>2, <1>3, <1>4, <1>5, <1>6 DEF Build!Next

-----------------------------------------------------------------------------
(* Uploads *)

\* At most two workstations upload the file.
OnTwoDesks ==
    \A c, d, e \in Uploaders : Desk[c] = Desk[d] \/ Desk[c] = Desk[e] \/ Desk[d] = Desk[e]

UploadSteps == {"idle", "probing", "sending", "checking", "moving", "done", "returned"}
Sending == {"sending", "checking", "moving"}

\* The lock of a workstation excludes its own clients.  Whoever is about to
\* move the partial file has it whole; unless the other workstation was faster,
\* which has then published it and does not send another.
Uploader(c) ==
    /\ uploads[c] \notin {"idle", "returned"} => uploadLock[Desk[c]] = c
    /\ uploads[c] = "moving" =>
           \/ partial = Upload!Whole
           \/ /\ partial = Upload!Absent /\ published = Upload!Whole
              /\ \A d \in Uploaders \ {c} : uploads[d] \notin Sending
    /\ uploads[c] \in {"done", "returned"} => published = Upload!Whole

UploadInv ==
    /\ source = 0
    /\ published \in {Upload!Absent, Upload!Whole}
    /\ partial.all \in BOOLEAN /\ partial.all => partial = Upload!Whole
    /\ uploadLock \in [Upload!Desks -> Uploaders \cup {None}]
    /\ uploads \in [Uploaders -> UploadSteps]
    /\ \A c \in Uploaders : Uploader(c)

LEMMA UploadInit == Upload!Init => UploadInv
BY DEF Upload!Init, UploadInv, Uploader, UploadSteps, Upload!Absent

LEMMA UploadInvInductive ==
    ASSUME OnTwoDesks, UploadInv, [Upload!Next]_uploadVars
    PROVE  UploadInv'
<1>a. /\ None \notin Uploaders /\ Upload!Whole = [of |-> 0, all |-> TRUE]
      /\ Upload!Absent.all = FALSE /\ Upload!Whole.all = TRUE
      /\ \A c \in Uploaders : Desk[c] \in Upload!Desks
      /\ Upload!Absent' = Upload!Absent
  BY UploadAssumption DEF Upload!BoundsAssumption, UploadInv, Upload!Whole, Upload!Absent,
     Upload!Desks
<1> USE DEF UploadInv, Uploader, UploadSteps, Sending, Upload!Goto, Upload!Leaves
<1>1. ASSUME NEW c \in Uploaders, Upload!Lock(c) PROVE UploadInv'
  BY <1>a, <1>1 DEF Upload!Lock, Upload!Whole
<1>2. ASSUME NEW c \in Uploaders, Upload!Probe(c) PROVE UploadInv'
  BY <1>a, <1>2 DEF Upload!Probe, Upload!Present, Upload!Whole
<1>3. ASSUME NEW c \in Uploaders, Upload!Send(c) PROVE UploadInv'
  BY <1>a, <1>3 DEF Upload!Send, Upload!Sent, Upload!Whole
<1>4. ASSUME NEW c \in Uploaders, Upload!Cut(c) PROVE UploadInv'
  BY <1>a, <1>4 DEF Upload!Cut, Upload!Whole
<1>5. ASSUME NEW c \in Uploaders, Upload!Check(c) PROVE UploadInv'
  BY <1>a, <1>5 DEF Upload!Check, Upload!Right, Upload!Whole
<1>6. ASSUME NEW c \in Uploaders, Upload!Move(c) PROVE UploadInv'
  BY <1>a, <1>6 DEF Upload!Move, Upload!Whole, OnTwoDesks
<1>7. ASSUME NEW c \in Uploaders, Upload!Return(c) \/ Upload!Leave(c) PROVE UploadInv'
  BY <1>a, <1>7 DEF Upload!Return, Upload!Leave, Upload!Whole
<1>8. CASE Upload!Rebuild
  BY <1>8 DEF Upload!Rebuild
<1>9. CASE UNCHANGED uploadVars
  BY <1>a, <1>9 DEF uploadVars, Upload!Whole
<1> QED
  BY <1>1, <1>2, <1>3, <1>4, <1>5, <1>6, <1>7, <1>8, <1>9 DEF Upload!Next, Upload!Step

\* The store of uploaded media, as the run reads it off the uploads.
UploadStored ==
    IF published = Upload!Absent THEN "absent"
    ELSE IF published.all /\ Upload!Served THEN "whole" ELSE "part"
UploadServed == {c \in Uploaders : uploads[c] = "returned"}

\* What the refinement needs of either scenario.
Promised ==
    /\ uploads \in [Uploaders -> UploadSteps]
    /\ published = Upload!Absent \/ published.all
    /\ \A c \in Uploaders : uploads[c] = "done" => published = Upload!Whole
    /\ \A c \in Uploaders : uploads[c] = "returned" => published # Upload!Absent

LEMMA StoredIsWhole ==
    ASSUME Promised
    PROVE  UploadStored = IF published = Upload!Absent THEN "absent" ELSE "whole"
BY DEF Promised, UploadStored, Upload!Served

\* A step that gives no path and takes none back can only publish.
LEMMA QuietRefines ==
    ASSUME Promised, Promised', published # Upload!Absent => published' # Upload!Absent,
           \A c \in Uploaders : uploads[c] = "returned" <=> uploads'[c] = "returned"
    PROVE  [Upload!Store!Next]_<<UploadStored, UploadServed>>
<1>1. /\ UploadStored = IF published = Upload!Absent THEN "absent" ELSE "whole"
      /\ UploadStored' = IF published' = Upload!Absent THEN "absent" ELSE "whole"
  BY StoredIsWhole DEF Promised, UploadStored, Upload!Served, Upload!Absent, Upload!Whole
<1>2. UploadServed' = UploadServed
  BY DEF UploadServed
<1>3. /\ UploadStored' # UploadStored => UploadStored = "absent" /\ UploadStored' = "whole"
  BY <1>1
<1> QED
  BY <1>2, <1>3 DEF Upload!Store!Next, Upload!Store!Publish, UploadStored, UploadServed

\* Steps that change who has the path.
LEMMA GivingRefines ==
    ASSUME Promised, Promised', NEW c \in Uploaders, published' = published,
           \/ uploads[c] = "done" /\ uploads' = [uploads EXCEPT ![c] = "returned"]
           \/ uploads[c] = "returned" /\ uploads' = [uploads EXCEPT ![c] = "idle"]
    PROVE  [Upload!Store!Next]_<<UploadStored, UploadServed>>
<1>1. UploadStored = "whole" /\ UploadStored' = "whole"
  BY StoredIsWhole DEF Promised, UploadStored, Upload!Served, Upload!Absent, Upload!Whole
<1>2. CASE uploads[c] = "done"
  <2>1. UploadServed' = UploadServed \cup {c}
    BY <1>2 DEF UploadServed, Promised
  <2> QED
    BY <1>1, <2>1 DEF Upload!Store!Next, Upload!Store!Serve, UploadStored, UploadServed
<1>3. CASE uploads[c] = "returned"
  <2>1. c \in UploadServed /\ UploadServed' = UploadServed \ {c}
    BY <1>3 DEF UploadServed, Promised
  <2> QED
    BY <1>1, <2>1 DEF Upload!Store!Next, Upload!Store!Leave, UploadStored, UploadServed
<1> QED
  BY <1>2, <1>3

LEMMA UploadPromised == ASSUME UploadInv PROVE Promised
BY UploadAssumption DEF UploadInv, Uploader, Promised, Upload!BoundsAssumption, Upload!Whole,
   Upload!Absent

LEMMA UploadRefines ==
    ASSUME OnTwoDesks, UploadInv, [Upload!Next]_uploadVars
    PROVE  [Upload!Store!Next]_<<UploadStored, UploadServed>>
<1>a. UploadInv'
  BY UploadInvInductive
<1>b. Promised
  BY UploadPromised
<1>c. Promised'
  BY <1>a, UploadAssumption DEF UploadInv, Uploader, Promised, Upload!BoundsAssumption,
     Upload!Whole, Upload!Absent
<1>1. ASSUME NEW c \in Uploaders, Upload!Return(c) \/ Upload!Leave(c)
      PROVE  [Upload!Store!Next]_<<UploadStored, UploadServed>>
  BY <1>1, <1>b, <1>c, GivingRefines DEF Upload!Return, Upload!Leave, Upload!Goto
<1>2. ASSUME NEW c \in Uploaders, Upload!Step(c) \/ Upload!Cut(c),
             ~Upload!Return(c), ~Upload!Leave(c)
      PROVE  /\ published # Upload!Absent => published' # Upload!Absent
             /\ \A d \in Uploaders : uploads[d] = "returned" <=> uploads'[d] = "returned"
  BY <1>2 DEF Upload!Step, Upload!Lock, Upload!Probe, Upload!Send, Upload!Check, Upload!Move,
     Upload!Cut, Upload!Goto, UploadInv
<1>3. CASE Upload!Rebuild
  BY <1>3 DEF Upload!Rebuild, UploadInv
<1>4. CASE UNCHANGED uploadVars
  BY <1>4, <1>b, <1>c, QuietRefines DEF uploadVars
<1> QED
  BY <1>1, <1>2, <1>3, <1>4, <1>b, <1>c, QuietRefines DEF Upload!Next
-----------------------------------------------------------------------------
(* Uploads of a file that is built anew *)

\* One workstation: its lock excludes whoever else uploads, and a build too, so
\* that what was checked is of the current build when it is moved.
Remaker(c) ==
    /\ uploads[c] \notin {"idle", "returned"} => uploadLock["desk"] = c
    /\ uploads[c] = "moving" => partial = Upload!Whole
    /\ uploads[c] = "done" => published = Upload!Whole
    /\ uploads[c] = "returned" => published.all

AnewInv ==
    /\ source \in Nat
    /\ published = Upload!Absent \/ published.all
    /\ uploadLock \in [Anew!Desks -> Uploaders \cup {None}]
    /\ uploads \in [Uploaders -> UploadSteps]
    /\ \A c \in Uploaders : Remaker(c)

LEMMA AnewInit == Anew!Init => AnewInv
BY DEF Anew!Init, AnewInv, Remaker, UploadSteps, Upload!Absent, Anew!Absent

LEMMA AnewInvInductive ==
    ASSUME AnewInv, [Anew!Next]_uploadVars
    PROVE  AnewInv' /\ (published # Upload!Absent => published' # Upload!Absent)
<1>a. /\ None \notin Uploaders /\ MaxRebuilds \in Nat
      /\ \A c \in Uploaders : "desk" \in Anew!Desks /\ [d \in Uploaders |-> "desk"][c] = "desk"
  BY UploadAssumption DEF Anew!BoundsAssumption, Anew!Desks
<1> USE <1>a DEF AnewInv, Remaker, UploadSteps, Anew!Goto, Anew!Leaves, Anew!Whole, Upload!Whole,
        Anew!Absent, Upload!Absent
<1>1. ASSUME NEW c \in Uploaders, Anew!Lock(c)
      PROVE  AnewInv' /\ (published # Upload!Absent => published' # Upload!Absent)
  BY <1>1 DEF Anew!Lock
<1>2. ASSUME NEW c \in Uploaders, Anew!Probe(c)
      PROVE  AnewInv' /\ (published # Upload!Absent => published' # Upload!Absent)
  BY <1>2 DEF Anew!Probe, Anew!Present
<1>3. ASSUME NEW c \in Uploaders, Anew!Send(c)
      PROVE  AnewInv' /\ (published # Upload!Absent => published' # Upload!Absent)
  BY <1>3 DEF Anew!Send, Anew!Sent
<1>4. ASSUME NEW c \in Uploaders, Anew!Cut(c)
      PROVE  AnewInv' /\ (published # Upload!Absent => published' # Upload!Absent)
  BY <1>4 DEF Anew!Cut
<1>5. ASSUME NEW c \in Uploaders, Anew!Check(c)
      PROVE  AnewInv' /\ (published # Upload!Absent => published' # Upload!Absent)
  BY <1>5 DEF Anew!Check, Anew!Right
<1>6. ASSUME NEW c \in Uploaders, Anew!Move(c)
      PROVE  AnewInv' /\ (published # Upload!Absent => published' # Upload!Absent)
  BY <1>6 DEF Anew!Move
<1>7. ASSUME NEW c \in Uploaders, Anew!Return(c) \/ Anew!Leave(c)
      PROVE  AnewInv' /\ (published # Upload!Absent => published' # Upload!Absent)
  BY <1>7 DEF Anew!Return, Anew!Leave
<1>8. CASE Anew!Rebuild
  BY <1>8 DEF Anew!Rebuild
<1>9. CASE UNCHANGED uploadVars
  BY <1>9 DEF uploadVars
<1> QED
  BY <1>1, <1>2, <1>3, <1>4, <1>5, <1>6, <1>7, <1>8, <1>9 DEF Anew!Next, Anew!Step

LEMMA AnewRefines ==
    ASSUME AnewInv, [Anew!Next]_uploadVars
    PROVE  [Upload!Store!Next]_<<UploadStored, UploadServed>>
<1>a. AnewInv' /\ (published # Upload!Absent => published' # Upload!Absent)
  BY AnewInvInductive
<1>b. Promised
  BY DEF AnewInv, Remaker, Promised, Upload!Absent
<1>c. Promised'
  BY <1>a DEF AnewInv, Remaker, Promised, Upload!Absent
<1>1. ASSUME NEW c \in Uploaders, Anew!Return(c) \/ Anew!Leave(c)
      PROVE  [Upload!Store!Next]_<<UploadStored, UploadServed>>
  BY <1>1, <1>b, <1>c, GivingRefines DEF Anew!Return, Anew!Leave, Anew!Goto
<1>2. ASSUME NEW c \in Uploaders, Anew!Step(c) \/ Anew!Cut(c), ~Anew!Return(c), ~Anew!Leave(c)
      PROVE  \A d \in Uploaders : uploads[d] = "returned" <=> uploads'[d] = "returned"
  BY <1>2 DEF Anew!Step, Anew!Lock, Anew!Probe, Anew!Send, Anew!Check, Anew!Move, Anew!Cut,
     Anew!Goto, AnewInv
<1>3. CASE Anew!Rebuild \/ UNCHANGED uploadVars
  BY <1>3, <1>a, <1>b, <1>c, QuietRefines DEF Anew!Rebuild, uploadVars
<1> QED
  BY <1>1, <1>2, <1>3, <1>a, <1>b, <1>c, QuietRefines DEF Anew!Next
-----------------------------------------------------------------------------
(* The run *)

\* In each scenario its own component moves, and the others stand still.
StoresInv ==
    /\ scenario = "build" => BuildInv
    /\ scenario = "anew" => AnewInv
    /\ scenario # "anew" => UploadInv

LEMMA StoresInit == MCInit => StoresInv
BY BuildInit, UploadInit, AnewInit DEF MCInit, StoresInv

LEMMA StoresStep ==
    ASSUME OnTwoDesks, StoresInv, [MCNext]_mcVars
    PROVE  /\ StoresInv'
           /\ [BuildStore!Next]_<<BuildStored, BuildServed>>
           /\ [Upload!Store!Next]_<<UploadStored, UploadServed>>
<1>a. scenario' = scenario
  BY DEF MCNext, mcVars
<1>b. /\ scenario = "build" => [Build!Next]_buildVars
      /\ scenario = "anew" => [Anew!Next]_uploadVars
      /\ scenario # "anew" => [Upload!Next]_uploadVars
  BY DEF MCNext, RestoreNext, BuildNext, UploadNext, mcVars
<1>1. StoresInv'
  BY <1>a, <1>b, BuildInvInductive, UploadInvInductive, AnewInvInductive DEF StoresInv
<1>2. [BuildStore!Next]_<<BuildStored, BuildServed>>
  <2>1. CASE scenario = "build"
    BY <2>1, <1>a, <1>b, BuildRefines DEF StoresInv
  <2>2. CASE scenario # "build"
    BY <2>2, <1>a DEF BuildStored, BuildServed
  <2> QED
    BY <2>1, <2>2
<1>3. [Upload!Store!Next]_<<UploadStored, UploadServed>>
  BY <1>a, <1>b, UploadRefines, AnewRefines DEF StoresInv
<1> QED
  BY <1>1, <1>2, <1>3

\* Media are built, and copied to the bastion, like an artifact of the cache:
\* the file appears once, whole, and does not change under whoever has its path
\* (docs/bootstrap-methods.md:35), for any number of clients, kills and cuts,
\* when no bytes are lost and at most two workstations upload one file.
THEOREM StoresAreVerified == ASSUME OnTwoDesks PROVE MCSpec => StoreSpecs
<1>1. MCInit => BuildStore!Init /\ Upload!Store!Init
  BY BuildConstants DEF MCInit, BuildStore!Init, Upload!Store!Init, Build!Init, Build!Complete,
     Build!Ready, Build!Broken, Upload!Init, Anew!Init, Build!Files, Upload!Absent, Anew!Absent
<1>2. StoresInv /\ [MCNext]_mcVars => StoresInv'
  BY StoresStep
<1>3. StoresInv /\ [MCNext]_mcVars =>
          [BuildStore!Next]_<<IF scenario = "build" /\ Build!Complete THEN "whole" ELSE "absent",
                              {c \in Builders : scenario = "build" /\ building[c] = "returned"}>>
  BY StoresStep DEF BuildStored, BuildServed
<1>4. StoresInv /\ [MCNext]_mcVars =>
          [Upload!Store!Next]_<<IF published = Upload!Absent THEN "absent"
                                ELSE IF published.all /\ Upload!Served THEN "whole" ELSE "part",
                                {c \in Uploaders : uploads[c] = "returned"}>>
  BY StoresStep DEF UploadStored, UploadServed
<1> QED
  BY <1>1, <1>2, <1>3, <1>4, StoresInit, PTL
     DEF MCSpec, StoreSpecs, BuildStoreSpec, BuildStore!Spec, UploadStoreSpec, Upload!StoreSpec,
         Upload!Store!Spec
=============================================================================
