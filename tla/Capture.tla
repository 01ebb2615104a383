-------------------------------- MODULE Capture --------------------------------
(***************************************************************************)
(* Capturing golden images: `image capture` (commands/image.py) and        *)
(* capture (bootstrap/golden.py), by several invocations, of several nodes *)
(* and into one output directory, beside the commands that run the nodes:  *)
(* those that hold the node's lock, and `verify`, which holds none.        *)
(*                                                                         *)
(* A copy takes time, and is torn when the guest writes the disk under it. *)
(***************************************************************************)
EXTENDS Naturals

CONSTANTS
    Clients,     \* capturing invocations
    Nodes,       \* virtual machines
    NodeOf,      \* the node that each client captures
    MaxFaults,   \* bound on tools that fail and processes that are killed
    Other,       \* files of somebody else's
    None

BoundsAssumption ==
    /\ MaxFaults \in Nat
    /\ None \notin Clients /\ Other # None

NodesAssumption == NodeOf \in [Clients -> Nodes]

\* What a record may say.  One that is neither is like one that says "installing"
\* and that nobody verifies.
Phases == {"installing", "ready"}
Images == [node: Nodes, torn: BOOLEAN, woken: BOOLEAN]
NoImage == None

VARIABLES
    record,       \* a node's record ("ready" is without an error)
    running,      \* its guest runs
    finishing,    \* the nodes that a `verify` found installing and has not finished
    woken,        \* history: a `verify` booted the node since its lock was taken
    holder,       \* the client that holds its lock
    outputLock,   \* the client that holds the lock of the output
    destination,  \* the output: None, an image, or Other
    work,         \* a client's image in its own work directory
    pc, faults

vars == <<record, running, finishing, woken, holder, outputLock, destination, work, pc, faults>>
nodes == <<record, running, finishing>>
clients == <<holder, outputLock, destination, work, pc, faults>>

Mine(c) == NodeOf[c]
Goto(c, step) == pc' = [pc EXCEPT ![c] = step]
Free(n) == holder[n] = None

\* Mutant: the node's lock stays.
DropOutput(c) ==
    /\ holder' = holder
    /\ work' = [work EXCEPT ![c] = NoImage]
    /\ outputLock' = IF outputLock = c THEN None ELSE outputLock

\* Both locks go, whichever were taken.  A work directory that is left behind is
\* of no use: the next one has a name of its own.
Drop(c) ==
    /\ work' = [work EXCEPT ![c] = NoImage]
    /\ holder' = [n \in Nodes |-> IF holder[n] = c THEN None ELSE holder[n]]
    /\ outputLock' = IF outputLock = c THEN None ELSE outputLock
Raise(c) == Drop(c) /\ Goto(c, "idle") /\ UNCHANGED <<nodes, woken, destination, faults>>
Keep(c, step) ==
    Goto(c, step) /\ UNCHANGED <<nodes, woken, holder, outputLock, destination, work, faults>>

\* Mutant: the node is only looked at.
AcquireNothing(c) == pc[c] = "idle" /\ Keep(c, "inspecting")

Acquire(c) ==
    /\ pc[c] = "idle" /\ Free(Mine(c))
    /\ holder' = [holder EXCEPT ![Mine(c)] = c]
    /\ woken' = [woken EXCEPT ![Mine(c)] = FALSE]
    /\ Goto(c, "inspecting")
    /\ UNCHANGED <<nodes, outputLock, destination, work, faults>>

Fit(c) == record[Mine(c)] = "ready" /\ ~running[Mine(c)]
Inspect(c) ==
    /\ pc[c] = "inspecting"
    /\ IF Fit(c) THEN Keep(c, "waiting") ELSE Raise(c)

LockOutput(c) ==
    /\ pc[c] = "waiting" /\ outputLock = None
    /\ outputLock' = c
    /\ Goto(c, "looking")
    /\ UNCHANGED <<nodes, woken, holder, destination, work, faults>>

\* 30 minutes later.
GivesUp(c) == pc[c] = "waiting" /\ outputLock # None /\ Raise(c)

Look(c) ==
    /\ pc[c] = "looking"
    /\ IF destination # None THEN Raise(c) ELSE Keep(c, "copying")

\* qemu-img convert, from its start to its end.
Copy(c) ==
    /\ pc[c] = "copying"
    /\ work' = [work EXCEPT ![c] = [node |-> Mine(c), torn |-> running[Mine(c)],
                                    woken |-> FALSE]]
    /\ Goto(c, "converting")
    /\ UNCHANGED <<nodes, woken, holder, outputLock, destination, faults>>

Converted(c) ==
    /\ pc[c] = "converting"
    /\ work' = [work EXCEPT ![c].woken = woken[Mine(c)]]
    /\ Goto(c, "sealing")
    /\ UNCHANGED <<nodes, woken, holder, outputLock, destination, faults>>

\* Inspection, virt-sysprep, compression and metadata, all of the copy.
Seal(c) == pc[c] = "sealing" /\ Keep(c, "renaming")

\* Mutant: what is at the destination is replaced.
VacantAnyhow == TRUE

\* rename(2) refuses a directory that is not empty.
Vacant == destination = None
Rename(c) ==
    /\ pc[c] = "renaming"
    /\ \/ Vacant /\ destination' = work[c] /\ Goto(c, "done")
          /\ UNCHANGED <<nodes, woken, holder, outputLock, work, faults>>
       \/ ~Vacant /\ Raise(c)

Return(c) ==
    /\ pc[c] = "done"
    /\ Drop(c) /\ Goto(c, "returned")
    /\ UNCHANGED <<nodes, woken, destination, faults>>

\* A tool fails, or the process is killed.
Fault(c) ==
    /\ faults < MaxFaults /\ pc[c] \notin {"idle", "returned"}
    /\ faults' = faults + 1
    /\ Drop(c) /\ Goto(c, "idle")
    /\ UNCHANGED <<nodes, woken, destination>>
-----------------------------------------------------------------------------
\* Other commands on a node that nobody holds (`up`, `down`, `deploy`, `power`)
\* write its record, and start and stop it.
Command(n) ==
    /\ Free(n)
    /\ \/ /\ \E phase \in Phases : record' = [record EXCEPT ![n] = phase]
          /\ UNCHANGED running
       \/ running' = [running EXCEPT ![n] = ~@] /\ UNCHANGED record
    /\ UNCHANGED <<finishing, woken, clients>>

\* The `verify` command takes no lock, and reads the phase once, before its loop.
Verify(n) ==
    /\ record[n] = "installing" /\ n \notin finishing
    /\ finishing' = finishing \cup {n}
    /\ UNCHANGED <<record, running, woken, clients>>

\* Its post_provision shuts the guest down.
Drain(n) ==
    /\ n \in finishing /\ running[n]
    /\ running' = [running EXCEPT ![n] = FALSE]
    /\ UNCHANGED <<record, finishing, woken, clients>>

\* And, when the guest is off, boots it from its disk, whoever holds the node by
\* then.  Another `verify` of the node may go on.
Wake(n) ==
    /\ n \in finishing /\ ~running[n]
    /\ running' = [running EXCEPT ![n] = TRUE]
    /\ woken' = [woken EXCEPT ![n] = ~Free(n)]
    /\ finishing' \in {finishing, finishing \ {n}}
    /\ UNCHANGED <<record, clients>>

\* It times out, fails or is killed.
GiveUp(n) ==
    /\ n \in finishing
    /\ finishing' = finishing \ {n}
    /\ UNCHANGED <<record, running, woken, clients>>

\* A guest that runs writes its disk, and tears the copy that is being made.
Guest(c) ==
    /\ pc[c] = "converting" /\ running[Mine(c)]
    /\ work' = [work EXCEPT ![c].torn = TRUE]
    /\ UNCHANGED <<nodes, woken, holder, outputLock, destination, pc, faults>>

\* Somebody puts files of his own at the output.
Occupy ==
    /\ destination = None
    /\ destination' = Other
    /\ UNCHANGED <<nodes, woken, holder, outputLock, work, pc, faults>>

Init ==
    /\ record = [n \in Nodes |-> "installing"] /\ running = [n \in Nodes |-> TRUE]
    /\ finishing = {} /\ woken = [n \in Nodes |-> FALSE]
    /\ holder = [n \in Nodes |-> None]
    /\ outputLock = None /\ destination = None
    /\ work = [c \in Clients |-> NoImage] /\ pc = [c \in Clients |-> "idle"]
    /\ faults = 0

Step(c) ==
    \/ Acquire(c) \/ Inspect(c) \/ LockOutput(c) \/ GivesUp(c) \/ Look(c) \/ Copy(c)
    \/ Converted(c) \/ Seal(c) \/ Rename(c) \/ Return(c)
Next ==
    \/ \E c \in Clients : Step(c) \/ Fault(c) \/ Guest(c)
    \/ \E n \in Nodes : Command(n) \/ Verify(n) \/ Drain(n) \/ Wake(n) \/ GiveUp(n)
    \/ Occupy

Spec == Init /\ [][Next]_vars
FairSpec == Spec /\ \A c \in Clients : WF_vars(Step(c))
-----------------------------------------------------------------------------
TypeOK ==
    /\ record \in [Nodes -> Phases]
    /\ running \in [Nodes -> BOOLEAN]
    /\ finishing \subseteq Nodes /\ woken \in [Nodes -> BOOLEAN]
    /\ holder \in [Nodes -> Clients \cup {None}] /\ outputLock \in Clients \cup {None}
    /\ destination \in Images \cup {None, Other}
    /\ work \in [Clients -> Images \cup {NoImage}]
    /\ pc \in [Clients -> {"idle", "inspecting", "waiting", "looking", "copying",
                           "converting", "sealing", "renaming", "done", "returned"}]
    /\ faults \in 0 .. MaxFaults

\* A golden image is a copy of one state of a disk, though other commands want
\* the node and the copy takes minutes (image.py:34-43, golden.py:66-68): none
\* but `verify`, which takes no lock (workflow.py:332), can boot the node under
\* a capture and tear its image.
CapturedAtRest ==
    destination \notin {None, Other} => (destination.torn => destination.woken)

\* No image is torn (docs/golden-recovery.md:13-14).  It holds without `verify`
\* beside the capture (see README.md).
NeverTorn == destination \notin {None, Other} => ~destination.torn

\* It appears at its output at once and whole, replaces nothing, and is never
\* replaced, though the output is looked at minutes before it is written
\* (golden.py:59-62, 127; docs/golden-recovery.md:15).
CapturesStay == [][destination # None => destination' = destination]_vars

\* A capture that was begun ends, and gives its node back.
CapturesEnd == \A c \in Clients : pc[c] = "inspecting" ~> holder[Mine(c)] # c
=============================================================================
