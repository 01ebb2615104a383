---------------------------- MODULE MCInstallation ----------------------------
(***************************************************************************)
(* What becomes of virtual machines, for TLC: custom preparation of their  *)
(* artifact, their installation, and the capture of golden images.  One    *)
(* run has them all, each scenario in behaviours of its own, where the     *)
(* others stand still.  In "operations" every command but the unlocked     *)
(* `verify` runs, under golden restore and with power losses; in "verify"  *)
(* that one runs beside them, and nobody destroys; in "cloud" and "golden" *)
(* somebody only repeats `up`, and nothing but the program's own calls     *)
(* fails; "local" and "bastion" are preparations, and "capture" is the     *)
(* invocations with one output, each capturing its node.                   *)
(***************************************************************************)
EXTENDS Installation

CONSTANTS
    MaxRetries,     \* bound on the deploys of one who only repeats `up`
    MaxAttempts,    \* bound on preparations, numbered from 1
    MaxRefusals,    \* bound on requests to the bastion that fail
    Nodes, NodeOf,  \* the virtual machines, and the one that each invocation captures
    MaxBreaks,      \* bound on captures that fail or are killed
    Other           \* files of somebody else's at the output of a capture

VARIABLES
    scenario,
    trial, prepares, output, remote, tool, result, orphans, broken,   \* Preparation
    record, up, finishing, woken,                                     \* Capture
    captureLock, outputLock, destination, work, captures, failures

\* A deploy that fails between its disk and its domain cannot be retried.
RetryFaults == Steps \ {"defining"}
Cloud == INSTANCE Installation
    WITH Method <- "cloud-init", Commands <- {"up"}, FaultAt <- RetryFaults,
         MaxDeploys <- MaxRetries, PowerFails <- FALSE
Golden == INSTANCE Installation
    WITH Method <- "golden-restore", Commands <- {"up"}, FaultAt <- RetryFaults,
         MaxDeploys <- MaxRetries, PowerFails <- FALSE

\* After a `destroy` beside `verify` a definition may come back (see README.md).
Unlocked == INSTANCE Installation
    WITH Commands <- {"up", "reinstall", "down", "off", "verify"}, MaxFaults <- 1

Local == INSTANCE Preparation
    WITH Execution <- "local", MaxFaults <- 0, attempt <- trial,
         pc <- prepares, command <- tool, faults <- broken
Bastion == INSTANCE Preparation
    WITH Execution <- "bastion", MaxFaults <- MaxRefusals, attempt <- trial,
         pc <- prepares, command <- tool, faults <- broken

Capture == INSTANCE Capture
    WITH Clients <- Invocations, MaxFaults <- MaxBreaks, running <- up,
         holder <- captureLock, pc <- captures, faults <- failures

\* Every invocation captures a node of its own.
OwnNode == [i \in Invocations |-> i]

ASSUME RetriesAssumption == MaxRetries \in Nat /\ MaxFaults > 0
ASSUME PreparationAssumption ==
    /\ Local!ExecutionAssumption /\ Local!BoundsAssumption
    /\ Bastion!ExecutionAssumption /\ Bastion!BoundsAssumption
ASSUME CaptureAssumption == Capture!BoundsAssumption /\ Capture!NodesAssumption

preparation == <<trial, prepares, output, remote, tool, result, orphans, broken>>
capture ==
    <<record, up, finishing, woken, captureLock, outputLock, destination, work, captures,
      failures>>
mcVars == <<scenario, vars, preparation, capture>>

Retrying == scenario \in {"cloud", "golden"}
Preparing == scenario \in {"local", "bastion"}

MCInit ==
    /\ Init /\ Local!Init /\ Capture!Init
    /\ scenario \in {"operations", "verify", "cloud", "golden", "local", "bastion", "capture"}

RetryStep(p) ==
    /\ \/ scenario = "cloud" /\ Cloud!Step(p)
       \/ scenario = "golden" /\ Golden!Step(p)
    /\ UNCHANGED <<scenario, preparation, capture>>
RetryInvoke(p) ==
    /\ \/ scenario = "cloud" /\ Cloud!Invoke(p, "up")
       \/ scenario = "golden" /\ Golden!Invoke(p, "up")
    /\ UNCHANGED <<scenario, preparation, capture>>
RetryWorld ==
    /\ \/ scenario = "cloud" /\ (Cloud!InstallerEnds \/ Cloud!GuestHalts)
       \/ scenario = "golden" /\ (Golden!InstallerEnds \/ Golden!GuestHalts)
    /\ UNCHANGED <<scenario, preparation, capture>>
PrepareStep ==
    /\ \/ scenario = "local" /\ Local!Call
       \/ scenario = "bastion" /\ Bastion!Call
    /\ UNCHANGED <<scenario, vars, capture>>
CommandEnds ==
    /\ Preparing /\ trial # 0 /\ tool[trial] \in {"running", "written"}
    /\ Local!Exit(trial)
    /\ UNCHANGED <<scenario, vars, capture>>
CaptureStep(p) ==
    scenario = "capture" /\ Capture!Step(p) /\ UNCHANGED <<scenario, vars, preparation>>

InstallationNext ==
    /\ \/ scenario = "operations" /\ Next
       \/ scenario = "verify" /\ Unlocked!Next
       \/ scenario = "cloud" /\ Cloud!Next
       \/ scenario = "golden" /\ Golden!Next
    /\ UNCHANGED <<preparation, capture>>
PreparationNext ==
    /\ \/ scenario = "local" /\ Local!Next
       \/ scenario = "bastion" /\ Bastion!Next
    /\ UNCHANGED <<vars, capture>>
CaptureNext == scenario = "capture" /\ Capture!Next /\ UNCHANGED <<vars, preparation>>

\* After the last attempt there is nothing left to do.
NoMoreAttempts ==
    Preparing /\ trial = MaxAttempts /\ prepares \in {"idle", "returned"} /\ UNCHANGED mcVars

MCNext ==
    \/ (InstallationNext \/ PreparationNext \/ CaptureNext) /\ UNCHANGED scenario
    \/ NoMoreAttempts

\* The fairness of each component, in its own behaviours: the program goes on,
\* somebody repeats `up`, guests and commands end.
MCSpec ==
    /\ MCInit /\ [][MCNext]_mcVars
    /\ \A p \in Invocations :
           /\ WF_mcVars(RetryStep(p)) /\ WF_mcVars(RetryInvoke(p))
           /\ WF_mcVars(CaptureStep(p))
    /\ WF_mcVars(RetryWorld) /\ WF_mcVars(PrepareStep) /\ WF_mcVars(CommandEnds)
-----------------------------------------------------------------------------
\* The variables of every component keep their types.
TypesOK ==
    /\ IF Retrying THEN Cloud!TypeOK ELSE TypeOK
    /\ scenario = "local" => Local!TypeOK
    /\ scenario = "bastion" => Bastion!TypeOK
    /\ Capture!TypeOK

\* Where nothing but the program's calls fails, the media stay until the
\* installation, or cloud-init, is complete (lifecycle.py:178-211;
\* docs/bootstrap-methods.md:41-43).
MediaStay ==
    [][Retrying /\ Detaches => disk.system = "whole"]_mcVars

\* Repeating `up` completes an installation that was interrupted
\* (docs/troubleshooting.md:29-30).
RetriesComplete == Retrying => RetryCompletes

\* Every attempt at a preparation ends, in its artifact or in an error
\* (core/bootstrap.py:189-231).
AttemptsEnd == Local!AttemptsEnd

\* A capture that was begun ends, and gives its node back (image.py:34-49).
CapturesEnd == Capture!CapturesEnd

\* Nothing waits for ever: each of the three, in its own behaviours.
WorkEnds == RetriesComplete /\ AttemptsEnd /\ CapturesEnd

\* What an attempt returns was written by its own command, which ended with
\* zero: no earlier output hides a failed or incomplete attempt
\* (core/bootstrap.py:131-132, 177-188, 222-231; docs/authoring.md:49-50).  On
\* the bastion it may also be what a command that outlived its own call wrote.
OutputIsOwn ==
    /\ scenario = "local" => Local!OutputIsOwn
    /\ scenario = "bastion" => Bastion!OutputIsOwn

\* A golden image is a copy of one state of a disk, though other commands want
\* the node and the copy takes minutes (image.py:34-43, golden.py:66-68): none
\* but `verify`, which takes no lock (workflow.py:332), can boot the node under
\* a capture and tear its image.
CapturedAtRest == Capture!CapturedAtRest

\* It appears at its output at once and whole, replaces nothing, and is never
\* replaced, though the output is looked at minutes before it is written
\* (golden.py:59-62, 127; docs/golden-recovery.md:15).
CapturesStay == Capture!CapturesStay
=============================================================================
