------------------------------ MODULE Preparation ------------------------------
(***************************************************************************)
(* Custom preparation of one node's artifact: CustomPreparer.prepare       *)
(* (core/bootstrap.py), again and again under the lock of the node, with   *)
(* the user's command as a process on the preparation host, where it may   *)
(* outlive the call that started it.                                       *)
(*                                                                         *)
(* The output manifest artifact.json has a fixed name, in the work         *)
(* directory of this host and, for execution on the bastion, in a directory*)
(* there.  What it holds is the number of the attempt that it is from.     *)
(***************************************************************************)
EXTENDS Naturals

CONSTANTS
    Execution,    \* "local" or "bastion"
    MaxAttempts,  \* bound on attempts, numbered from 1
    MaxFaults     \* bound on requests to the bastion that fail

ExecutionAssumption == Execution \in {"local", "bastion"}
BoundsAssumption == MaxAttempts \in Nat \ {0} /\ MaxFaults \in Nat

Attempts == 1 .. MaxAttempts
Manifests == 0 .. MaxAttempts   \* 0: there is no such file

VARIABLES
    attempt,  \* the number of the last attempt
    pc,       \* its step, "idle" or "returned"
    output,   \* artifact.json of this host
    remote,   \* and of the bastion
    command,  \* each attempt's command: none, running, written, zero, failed
    result,   \* the manifest that was returned last
    orphans,  \* the attempts whose command was left running on the bastion
    faults

vars == <<attempt, pc, output, remote, command, result, orphans, faults>>
files == <<output, remote>>

Local == Execution = "local"
Goto(step) == pc' = step
Raise == Goto("idle")

\* The context is written first; an old manifest is of no use from here on.
Prepare ==
    /\ pc \in {"idle", "returned"} /\ attempt < MaxAttempts
    /\ attempt' = attempt + 1
    /\ Goto("unlinking")
    /\ UNCHANGED <<files, command, result, orphans, faults>>

\* Mutant: the manifest of the attempt before stays.
UnlinkNothing ==
    /\ pc = "unlinking"
    /\ Goto(IF Local THEN "launching" ELSE "copying")
    /\ UNCHANGED <<attempt, files, command, result, orphans, faults>>

Unlink ==
    /\ pc = "unlinking"
    /\ output' = 0
    /\ Goto(IF Local THEN "launching" ELSE "copying")
    /\ UNCHANGED <<attempt, remote, command, result, orphans, faults>>

\* mkdir, and scp of the context.
Copy ==
    /\ pc = "copying"
    /\ Goto("clearing")
    /\ UNCHANGED <<attempt, files, command, result, orphans, faults>>

\* rm -f of the bastion's manifest.
Clear ==
    /\ pc = "clearing"
    /\ remote' = 0
    /\ Goto("launching")
    /\ UNCHANGED <<attempt, output, command, result, orphans, faults>>

Launch ==
    /\ pc = "launching"
    /\ command' = [command EXCEPT ![attempt] = "running"]
    /\ Goto("running")
    /\ UNCHANGED <<attempt, files, result, orphans, faults>>

\* The command of attempt a, whoever still waits for it: it may write its
\* manifest, atomically, and it ends with zero or not.
Produce(a) ==
    /\ command[a] = "running"
    /\ command' = [command EXCEPT ![a] = "written"]
    /\ output' = IF Local THEN a ELSE output
    /\ remote' = IF Local THEN remote ELSE a
    /\ UNCHANGED <<attempt, pc, result, orphans, faults>>

Exit(a) ==
    /\ command[a] \in {"running", "written"}
    /\ \E status \in {"zero", "failed"} : command' = [command EXCEPT ![a] = status]
    /\ UNCHANGED <<attempt, pc, files, result, orphans, faults>>

\* Mutant: the call waits until the command succeeds.
CompletedWhenZero ==
    /\ pc = "running" /\ command[attempt] = "zero"
    /\ Goto(IF Local THEN "reading" ELSE "fetching")
    /\ UNCHANGED <<attempt, files, command, result, orphans, faults>>

Completed ==
    /\ pc = "running" /\ command[attempt] \in {"zero", "failed"}
    /\ IF command[attempt] = "failed" THEN Raise
       ELSE Goto(IF Local THEN "reading" ELSE "fetching")
    /\ UNCHANGED <<attempt, files, command, result, orphans, faults>>

\* The command takes too long, or the connection breaks.  subprocess.run kills
\* its child: the command itself, or only the ssh client of one that runs on
\* the bastion, which goes on.
TimesOut ==
    /\ pc = "running"
    /\ command' = [command EXCEPT ![attempt] = IF Local THEN "failed" ELSE @]
    /\ orphans' = IF Local THEN orphans ELSE orphans \cup {attempt}
    /\ Raise
    /\ UNCHANGED <<attempt, files, result, faults>>

Fetch ==
    /\ pc = "fetching"
    /\ IF remote = 0 THEN Raise /\ UNCHANGED output ELSE output' = remote /\ Goto("reading")
    /\ UNCHANGED <<attempt, remote, command, result, orphans, faults>>

\* The manifest is parsed, and its artifact has the checksum it names, or not.
Read ==
    /\ pc = "reading"
    /\ \/ output # 0 /\ result' = output /\ Goto("returned")
       \/ Raise /\ UNCHANGED result
    /\ UNCHANGED <<attempt, files, command, orphans, faults>>

\* A request to the bastion fails.
Fault ==
    /\ pc \in {"copying", "clearing", "fetching"} /\ faults < MaxFaults
    /\ faults' = faults + 1
    /\ Raise
    /\ UNCHANGED <<attempt, files, command, result, orphans>>

Init ==
    /\ attempt = 0 /\ pc = "idle" /\ output = 0 /\ remote = 0 /\ result = 0
    /\ command = [a \in Attempts |-> "none"]
    /\ orphans = {} /\ faults = 0

Call == Unlink \/ Copy \/ Clear \/ Launch \/ Completed \/ Fetch \/ Read
Next ==
    \/ Prepare \/ Call \/ TimesOut \/ Fault
    \/ \E a \in Attempts : Produce(a) \/ Exit(a)

Spec == Init /\ [][Next]_vars
\* The call goes on, and a command that never ends is timed out or ends.
FairSpec == Spec /\ WF_vars(Call) /\ \A a \in Attempts : WF_vars(Exit(a))
-----------------------------------------------------------------------------
TypeOK ==
    /\ attempt \in Manifests /\ output \in Manifests /\ remote \in Manifests
    /\ result \in Manifests
    /\ pc \in {"idle", "unlinking", "copying", "clearing", "launching", "running",
               "fetching", "reading", "returned"}
    /\ command \in [Attempts -> {"none", "running", "written", "zero", "failed"}]
    /\ orphans \subseteq Attempts /\ faults \in 0 .. MaxFaults

\* What an attempt returns was written by its own command, which ended with
\* zero: no earlier output hides a failed or incomplete attempt
\* (core/bootstrap.py:131-132, 177-188, 222-231; docs/authoring.md:49-50).  On
\* the bastion it may also be what a command that outlived its own call wrote.
OutputIsOwn ==
    pc = "returned" =>
        /\ command[attempt] = "zero"
        /\ result \in {attempt} \cup (IF Local THEN {} ELSE orphans)

\* It is always its own command's (the comment at core/bootstrap.py:131).  It
\* holds where no command outlives its call (see README.md).
AlwaysOwn == pc = "returned" => result = attempt

\* Every attempt ends.
AttemptsEnd == pc = "unlinking" ~> pc \in {"idle", "returned"}
=============================================================================
