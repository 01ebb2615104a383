------------------------------ MODULE MediaUpload ------------------------------
(***************************************************************************)
(* Uploading one file to the bastion: BastionMedia._publish_local and      *)
(* _upload_verified (bootstrap/remote.py).  The lock of an upload is a file*)
(* of the workstation it starts from; the partial file and the target are  *)
(* shared.  rsync --append-verify writes the partial file in place: it     *)
(* leaves alone one that is not shorter than its source, and otherwise     *)
(* completes or rewrites it.                                               *)
(*                                                                         *)
(* A file that is named by its checksum has the same bytes everywhere, and *)
(* workstations that write it at the same time write the same.  Media that *)
(* a workstation builds itself are named by their inputs: a new build has  *)
(* the name and the length of the old one, and other bytes.                *)
(***************************************************************************)
EXTENDS Naturals

CONSTANTS
    Clients,     \* invocations that upload the file
    Desk,        \* the workstation of each
    MaxCuts,     \* bound on interrupted uploads
    MaxRebuilds, \* bound on new builds of the file
    None

Desks == {Desk[c] : c \in Clients}

BoundsAssumption == MaxCuts \in Nat /\ MaxRebuilds \in Nat /\ None \notin Clients
RebuildAssumption == MaxRebuilds > 0 => \A c, d \in Clients : Desk[c] = Desk[d]

\* A file on the bastion: of which build, and whether it has all its bytes.
Builds == 0 .. MaxRebuilds
Absent == [of |-> None, all |-> FALSE]
Files == [of: Builds, all: BOOLEAN] \cup {Absent}

VARIABLES
    source,  \* the build that the file to upload is of
    target, partial,
    lock,    \* each workstation's upload lock
    pc,
    cuts

vars == <<source, target, partial, lock, pc, cuts>>

Whole == [of |-> source, all |-> TRUE]
Goto(c, step) == pc' = [pc EXCEPT ![c] = step]

Leaves(c) == lock' = [lock EXCEPT ![Desk[c]] = None]

Lock(c) ==
    /\ pc[c] = "idle" /\ lock[Desk[c]] = None
    /\ lock' = [lock EXCEPT ![Desk[c]] = c]
    /\ Goto(c, "probing")
    /\ UNCHANGED <<source, target, partial, cuts>>

\* The target has the right checksum.
Present(c) == target = Whole

Probe(c) ==
    /\ pc[c] = "probing"
    /\ Goto(c, IF Present(c) THEN "done" ELSE "sending")
    /\ UNCHANGED <<source, target, partial, lock, cuts>>

\* Mutant: a partial file that is there is not completed.
SentOnce(c) == IF partial # Absent THEN partial ELSE Whole

\* What rsync makes of the partial file: a whole one is as long as the source.
Sent(c) == IF partial.all THEN partial ELSE Whole

Send(c) ==
    /\ pc[c] = "sending"
    /\ partial' = Sent(c)
    /\ Goto(c, "checking")
    /\ UNCHANGED <<source, target, lock, cuts>>

\* The upload is cut short, or killed before, during or after it.
Cut(c) ==
    /\ pc[c] \notin {"idle", "returned"} /\ cuts < MaxCuts
    /\ cuts' = cuts + 1
    /\ partial' \in IF pc[c] = "sending" /\ ~partial.all
                    THEN {partial, [of |-> source, all |-> FALSE], Whole} ELSE {partial}
    /\ Leaves(c) /\ Goto(c, "idle")
    /\ UNCHANGED <<source, target>>

\* Mutant: the partial file is only looked for.
RightAnyhow(c) == partial # Absent

\* sha256sum of the partial file, which another may have moved away.
Right(c) == partial = Whole

Check(c) ==
    /\ pc[c] = "checking"
    /\ IF Right(c) THEN Goto(c, "moving") /\ lock' = lock
       ELSE Goto(c, "idle") /\ Leaves(c)
    /\ UNCHANGED <<source, target, partial, cuts>>

\* mv; it fails when another was faster.
Move(c) ==
    /\ pc[c] = "moving"
    /\ IF partial = Absent
       THEN Goto(c, "idle") /\ Leaves(c) /\ UNCHANGED <<target, partial>>
       ELSE Goto(c, "done") /\ lock' = lock /\ target' = partial /\ partial' = Absent
    /\ UNCHANGED <<source, cuts>>

Return(c) ==
    /\ pc[c] = "done"
    /\ Goto(c, "returned") /\ Leaves(c)
    /\ UNCHANGED <<source, target, partial, cuts>>

Leave(c) ==
    /\ pc[c] = "returned"
    /\ Goto(c, "idle")
    /\ UNCHANGED <<source, target, partial, lock, cuts>>

\* The media are built anew, under the lock of the build, for another deploy.
Rebuild ==
    /\ source < MaxRebuilds
    /\ \A d \in Desks : lock[d] = None
    /\ source' = source + 1
    /\ UNCHANGED <<target, partial, lock, pc, cuts>>

Init ==
    /\ source = 0
    /\ target = Absent /\ partial = Absent
    /\ lock = [d \in Desks |-> None]
    /\ pc = [c \in Clients |-> "idle"]
    /\ cuts = 0

Step(c) ==
    \/ Lock(c) \/ Probe(c)  \/ Send(c) \/ Check(c)
    \/ Move(c) \/ Return(c) \/ Leave(c)
Next == Rebuild \/ \E c \in Clients : Step(c) \/ Cut(c)

Spec == Init /\ [][Next]_vars
\* An invocation that failed is repeated.
FairSpec == Spec /\ \A c \in Clients : WF_vars(Step(c)) /\ SF_vars(Lock(c))
-----------------------------------------------------------------------------
TypeOK ==
    /\ source \in Builds
    /\ target \in Files /\ partial \in Files
    /\ lock \in [Desks -> Clients \cup {None}]
    /\ pc \in [Clients -> {"idle", "probing", "sending", "checking", "moving", "done",
                           "returned"}]
    /\ cuts \in 0 .. MaxCuts

\* The bastion's copy of an artifact is published whole, and has the bytes that
\* the upload was for, though two workstations write and move one partial file
\* (docs/bootstrap-methods.md:35).
Served == \A c \in Clients : pc[c] = "done" => target = Whole
Store == INSTANCE VerifiedStore
    WITH store <- IF target = Absent THEN "absent"
                  ELSE IF target.all /\ Served THEN "whole" ELSE "part",
         served <- {c \in Clients : pc[c] = "returned"}
StoreSpec == Store!Spec

\* Repeating an upload gets it done, whatever was interrupted and whoever
\* else uploads (docs/troubleshooting.md:29).
UploadsSucceed == \A c \in Clients : []<>(pc[c] = "returned")
=============================================================================
