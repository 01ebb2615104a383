------------------------------ MODULE MediaBuild ------------------------------
(***************************************************************************)
(* Building the media of one set of inputs: prepare_media and cached_build,*)
(* under the lock of the build (bootstrap/media.py, iso_builder.py; on the *)
(* bastion the lock is `flock` around the same builder).  Each output is   *)
(* built beside its place, renamed into it, and only then gets the file    *)
(* with its checksum.                                                      *)
(*                                                                         *)
(* No two builds have the same bytes (an ISO holds its time of creation),  *)
(* so that the bytes of a file are the number of the build that made them. *)
(***************************************************************************)
EXTENDS Naturals

CONSTANTS
    Clients,    \* deploys whose media have these inputs
    Outputs,    \* 1 is the installer's ISO; with OEMDRV, 2 is the image
    MaxBuilds,  \* bound on builds
    MaxKills,   \* bound on killed clients
    MaxFlaws,   \* bound on outputs that lose their bytes
    None

OutputsAssumption == Outputs \in 1 .. 2
BoundsAssumption == MaxBuilds \in Nat /\ MaxKills \in Nat /\ MaxFlaws \in Nat
ClientsAssumption == None \notin Clients

Files == 1 .. Outputs
Bytes == 0 .. MaxBuilds   \* 0: there is no such file

VARIABLES
    file,      \* <key>.iso and <key>.img
    checksum,  \* and the files with their checksums
    temporary, \* <key>.partial.iso and <key>.partial.img
    builds,    \* the number of the last build
    lock,      \* <key>.build.lock
    pc, at,    \* a client's step, and the output it is at
    kills, flaws

vars == <<file, checksum, temporary, builds, lock, pc, at, kills, flaws>>
media == <<file, checksum, temporary, builds>>

Goto(c, step) == pc' = [pc EXCEPT ![c] = step]
Ready(o) == file[o] # 0 /\ checksum[o] # 0
Broken(o) == Ready(o) /\ checksum[o] # file[o]

\* To wait for the lock, and to give up after a while, is to be idle.
Lock(c) ==
    /\ pc[c] = "idle" /\ lock = None
    /\ lock' = c
    /\ at' = [at EXCEPT ![c] = 1]
    /\ Goto(c, "probing")
    /\ UNCHANGED <<media, kills, flaws>>

\* On to the next output, or to the end.
Proceed(c) ==
    IF at[c] < Outputs THEN Goto(c, "probing") /\ at' = [at EXCEPT ![c] = @ + 1]
    ELSE Goto(c, "done") /\ at' = at

\* An exception or the end of the process; the lock goes with it.
Drop(c) == Goto(c, "idle") /\ lock' = (IF lock = c THEN None ELSE lock) /\ at' = at

\* Mutant: an output that is there is taken without its checksum.
ReuseAnyhow(c) ==
    /\ pc[c] = "probing" /\ file[at[c]] # 0
    /\ Proceed(c)
    /\ UNCHANGED <<media, lock, kills, flaws>>

Reuse(c) ==
    /\ pc[c] = "probing" /\ Ready(at[c]) /\ ~Broken(at[c])
    /\ Proceed(c)
    /\ UNCHANGED <<media, lock, kills, flaws>>

Mismatch(c) ==
    /\ pc[c] = "probing" /\ Broken(at[c])
    /\ Drop(c)
    /\ UNCHANGED <<media, kills, flaws>>

\* build_iso or build_oemdrv, up to the temporary file.
Build(c) ==
    /\ pc[c] = "probing" /\ ~Ready(at[c]) /\ builds < MaxBuilds
    /\ builds' = builds + 1
    /\ temporary' = [temporary EXCEPT ![at[c]] = builds']
    /\ Goto(c, "renaming")
    /\ UNCHANGED <<file, checksum, lock, at, kills, flaws>>

Rename(c) ==
    /\ pc[c] = "renaming"
    /\ file' = [file EXCEPT ![at[c]] = temporary[at[c]]]
    /\ temporary' = [temporary EXCEPT ![at[c]] = 0]
    /\ Goto(c, "summing")
    /\ UNCHANGED <<checksum, builds, lock, at, kills, flaws>>

\* Mutant: the checksum that is there stays.
SumOnce(c) ==
    /\ pc[c] = "summing"
    /\ checksum' = [checksum EXCEPT ![at[c]] = IF @ = 0 THEN file[at[c]] ELSE @]
    /\ Proceed(c)
    /\ UNCHANGED <<file, temporary, builds, lock, kills, flaws>>

Sum(c) ==
    /\ pc[c] = "summing"
    /\ checksum' = [checksum EXCEPT ![at[c]] = file[at[c]]]
    /\ Proceed(c)
    /\ UNCHANGED <<file, temporary, builds, lock, kills, flaws>>

Return(c) ==
    /\ pc[c] = "done"
    /\ lock' = IF lock = c THEN None ELSE lock
    /\ Goto(c, "returned")
    /\ UNCHANGED <<media, at, kills, flaws>>

Leave(c) ==
    /\ pc[c] = "returned"
    /\ Goto(c, "idle")
    /\ UNCHANGED <<media, lock, at, kills, flaws>>

\* The process is killed, or a tool it calls fails.
Kill(c) ==
    /\ kills < MaxKills /\ pc[c] \notin {"idle", "returned"}
    /\ kills' = kills + 1
    /\ Drop(c)
    /\ UNCHANGED <<media, flaws>>

\* A file loses its bytes; whoever runs the program removes a file that it
\* reports.
Decay(o) ==
    /\ flaws < MaxFlaws /\ file[o] # 0 /\ lock = None
    /\ flaws' = flaws + 1
    /\ file' = [file EXCEPT ![o] = MaxBuilds + flaws']
    /\ UNCHANGED <<checksum, temporary, builds, lock, pc, at, kills>>

Remove(o) ==
    /\ Broken(o) /\ lock = None
    /\ file' = [file EXCEPT ![o] = 0]
    /\ UNCHANGED <<checksum, temporary, builds, lock, pc, at, kills, flaws>>

Init ==
    /\ file = [o \in Files |-> 0] /\ checksum = file /\ temporary = file /\ builds = 0
    /\ lock = None
    /\ pc = [c \in Clients |-> "idle"] /\ at = [c \in Clients |-> 1]
    /\ kills = 0 /\ flaws = 0

Step(c) ==
    \/ Lock(c)  \/ Reuse(c) \/ Mismatch(c) \/ Build(c)
    \/ Rename(c) \/ Sum(c) \/ Return(c)  \/ Leave(c)
Next ==
    \/ \E c \in Clients : Step(c) \/ Kill(c)
    \/ \E o \in Files : Decay(o) \/ Remove(o)

Spec == Init /\ [][Next]_vars

\* Someone deploys again and again, and removes what is reported.
FairSpec ==
    /\ Spec
    /\ \A c \in Clients : WF_vars(Step(c)) /\ SF_vars(Lock(c))
    /\ \A o \in Files : SF_vars(Remove(o))
-----------------------------------------------------------------------------
TypeOK ==
    /\ file \in [Files -> 0 .. (MaxBuilds + MaxFlaws)]
    /\ checksum \in [Files -> 0 .. (MaxBuilds + MaxFlaws)]
    /\ temporary \in [Files -> Bytes] /\ builds \in Bytes
    /\ lock \in Clients \cup {None}
    /\ pc \in [Clients -> {"idle", "probing", "renaming", "summing", "done", "returned"}]
    /\ at \in [Clients -> Files]
    /\ kills \in 0 .. MaxKills /\ flaws \in 0 .. MaxFlaws

Complete == \A o \in Files : Ready(o) /\ ~Broken(o)

\* A build is an artifact like any other: what was given to a deploy has the
\* bytes of its checksum, and is not built anew under a node that boots from
\* it, whoever is killed or builds beside it (docs/bootstrap-methods.md:35).
Store == INSTANCE VerifiedStore
    WITH store <- IF Complete THEN "whole" ELSE "absent",
         served <- {c \in Clients : pc[c] = "returned"}
StoreSpec == Store!Spec

\* Builds recover: whatever was interrupted, removed or lost, deploying again
\* completes the media (docs/troubleshooting.md:29).
BuildsRecover == []<>Complete
=============================================================================
