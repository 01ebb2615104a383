-------------------------------- MODULE MCMedia --------------------------------
(***************************************************************************)
(* What the media of an installation go through, for TLC: they are built,  *)
(* uploaded to the bastion, and the recovery program that the node boots   *)
(* from them restores an image.  One run has them all, each scenario in    *)
(* behaviours of its own, where the others stand still.  In "build" clients*)
(* are killed, in "rebuild" files also lose their bytes; in "upload"       *)
(* clients on several workstations send a file that has the same bytes     *)
(* everywhere, in "anew" all on one, which also builds it anew.            *)
(***************************************************************************)
EXTENDS Restore

CONSTANTS
    Builders,     \* deploys whose media have the same inputs
    Outputs,      \* how many files those are
    MaxBuilds,    \* bound on builds
    MaxKills,     \* bound on killed builders
    MaxFlaws,     \* bound on files that lose their bytes, in "rebuild"
    Uploaders,    \* clients that upload one file,
    Desk,         \* and the workstation of each
    MaxCuts,      \* bound on interrupted uploads
    MaxRebuilds,  \* bound on new builds of the file, in "anew"
    None

VARIABLES
    scenario,
    file, checksum, temporary, builds, buildLock, building, place, kills, flaws,  \* MediaBuild
    source, published, partial, uploadLock, uploads, cuts                         \* MediaUpload

Build == INSTANCE MediaBuild
    WITH Clients <- Builders, MaxFlaws <- 0,
         lock <- buildLock, pc <- building, at <- place
Rebuild == INSTANCE MediaBuild
    WITH Clients <- Builders, lock <- buildLock, pc <- building, at <- place

Upload == INSTANCE MediaUpload
    WITH Clients <- Uploaders, MaxRebuilds <- 0,
         target <- published, lock <- uploadLock, pc <- uploads
Anew == INSTANCE MediaUpload
    WITH Clients <- Uploaders, Desk <- [c \in Uploaders |-> "desk"],
         target <- published, lock <- uploadLock, pc <- uploads

\* Two workstations: that of the builders, and another.
TwoDesks == [c \in Uploaders |-> IF c \in Builders THEN "south" ELSE "north"]

ASSUME BuildAssumption ==
    /\ Build!OutputsAssumption /\ Build!BoundsAssumption /\ Build!ClientsAssumption
    /\ Rebuild!BoundsAssumption
ASSUME UploadAssumption ==
    /\ Upload!BoundsAssumption /\ Upload!RebuildAssumption
    /\ Anew!BoundsAssumption /\ Anew!RebuildAssumption

buildVars == <<file, checksum, temporary, builds, buildLock, building, place, kills, flaws>>
uploadVars == <<source, published, partial, uploadLock, uploads, cuts>>
mcVars == <<scenario, vars, buildVars, uploadVars>>

MCInit ==
    /\ scenario \in {"restore", "build", "rebuild", "upload", "anew"}
    /\ Init /\ Build!Init
    /\ IF scenario = "anew" THEN Anew!Init ELSE Upload!Init
    /\ scenario # "restore" =>
           image = [declared |-> 1, compressed |-> 1, frame |-> 1, ends |-> TRUE,
                    compatible |-> TRUE]

RestoreRun == scenario = "restore" /\ Run /\ UNCHANGED <<scenario, buildVars, uploadVars>>
ClientStep(c) ==
    /\ \/ scenario = "rebuild" /\ c \in Builders /\ Rebuild!Step(c) /\ UNCHANGED uploadVars
       \/ scenario = "upload" /\ Upload!Step(c) /\ UNCHANGED buildVars
    /\ UNCHANGED <<scenario, vars>>
ClientLock(c) ==
    /\ \/ scenario = "rebuild" /\ c \in Builders /\ Rebuild!Lock(c) /\ UNCHANGED uploadVars
       \/ scenario = "upload" /\ Upload!Lock(c) /\ UNCHANGED buildVars
    /\ UNCHANGED <<scenario, vars>>
RemoveFile(o) ==
    scenario = "rebuild" /\ Rebuild!Remove(o) /\ UNCHANGED <<scenario, vars, uploadVars>>

RestoreNext == scenario = "restore" /\ Next /\ UNCHANGED <<buildVars, uploadVars>>
BuildNext ==
    /\ \/ scenario = "build" /\ Build!Next
       \/ scenario = "rebuild" /\ Rebuild!Next
    /\ UNCHANGED <<vars, uploadVars>>
UploadNext ==
    /\ \/ scenario = "upload" /\ Upload!Next
       \/ scenario = "anew" /\ Anew!Next
    /\ UNCHANGED <<vars, buildVars>>
MCNext == (RestoreNext \/ BuildNext \/ UploadNext) /\ UNCHANGED scenario

\* The fairness of each component, in its own behaviours: the recovery program
\* runs on, and somebody deploys again and again and removes what is reported.
MCSpec ==
    /\ MCInit /\ [][MCNext]_mcVars
    /\ WF_mcVars(RestoreRun)
    /\ \A c \in Uploaders : WF_mcVars(ClientStep(c)) /\ SF_mcVars(ClientLock(c))
    /\ \A o \in 1 .. Outputs : SF_mcVars(RemoveFile(o))
-----------------------------------------------------------------------------
\* A build is an artifact like any other: what was given to a deploy has the
\* bytes of its checksum, and is not built anew under a node that boots from
\* it, whoever is killed or builds beside it (docs/bootstrap-methods.md:35).
BuildStore == INSTANCE VerifiedStore
    WITH Clients <- Builders,
         store <- IF scenario = "build" /\ Build!Complete THEN "whole" ELSE "absent",
         served <- {c \in Builders : scenario = "build" /\ building[c] = "returned"}
BuildStoreSpec == BuildStore!Spec

\* Builds recover: whatever was interrupted, removed or lost, deploying again
\* completes the media (docs/troubleshooting.md:29).
BuildsRecover == scenario = "rebuild" => Rebuild!BuildsRecover

\* The bastion's copy of an artifact is published whole, and has the bytes that
\* the upload was for, though two workstations write and move one partial file
\* (docs/bootstrap-methods.md:35).
UploadStoreSpec == Upload!StoreSpec

\* Both stores of media keep the promise of the artifact cache.
StoreSpecs == BuildStoreSpec /\ UploadStoreSpec

\* Repeating an upload gets it done, whatever was interrupted and whoever
\* else uploads (docs/troubleshooting.md:29).
UploadsSucceed == scenario = "upload" => Upload!UploadsSucceed

\* A recovery ends, and repeating a deploy gets its media ready: each of the
\* three, in its own behaviours.
WorkEnds == RecoveryEnds /\ BuildsRecover /\ UploadsSucceed
=============================================================================
