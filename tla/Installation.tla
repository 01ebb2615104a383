---------------------------- MODULE Installation ----------------------------
(***************************************************************************)
(* One virtual machine from its definition to its acceptance: what         *)
(* Lifecycle takes for single calls of the backend, in full.  The domain's *)
(* persistent definition and its installation media, the disk, the guest   *)
(* that runs, and the calls of LibvirtProvider (provision_node,            *)
(* post_provision, teardown_node, power_on) and ProviderBackend (start,     *)
(* verify, stop, destroy) that meet on them, one step per request.         *)
(*                                                                         *)
(* Commands that change the machine hold its lock; `verify` does not.  A   *)
(* call may fail, time out or be killed at any step of FaultAt.            *)
(***************************************************************************)
EXTENDS Naturals

CONSTANTS
    Invocations, \* invocations of the program
    Method,      \* "kickstart", "golden-restore" or "cloud-init"
    Commands,    \* the commands that are invoked
    FaultAt,     \* the steps at which an invocation may fail or be killed
    MaxFaults,   \* bound on those faults
    MaxDeploys,  \* bound on deploys begun, numbered from 1
    PowerFails,  \* the host may cut the guest's power
    None

AllCommands == {"up", "reinstall", "down", "destroy", "on", "off", "restart", "verify"}
Steps == {"planning", "recording", "rendering", "guarding", "stopping", "undefining",
          "unlinking", "creating", "defining", "launching", "starting", "polling",
          "waiting", "detaching", "draining", "reading", "redefining", "booting",
          "committing", "halting", "settling", "resetting", "forgetting"}

ASSUME NoneAssumption == None \notin Invocations
ASSUME MethodAssumption == Method \in {"kickstart", "golden-restore", "cloud-init"}
ASSUME CommandsAssumption == Commands \subseteq AllCommands
ASSUME FaultAssumption == FaultAt \subseteq Steps /\ MaxFaults \in Nat
ASSUME DeploysAssumption == MaxDeploys \in Nat /\ PowerFails \in BOOLEAN

\* Every deploy has a number: the token of its identity (golden restore) and
\* the UUID libvirt gives the domain it defines.
Tokens == 0 .. MaxDeploys

\* The persistent definition: whose it is (0: none), and whether it has the
\* installation media (the ISO, the OEMDRV disk or the cloud-init seed).
Domains == [id: Tokens, media: BOOLEAN]
NoDomain == [id |-> 0, media |-> FALSE]

\* The disk: empty, half installed (for cloud-init, an overlay that is not
\* configured yet) or a whole system, and of which deploy.
Disks == [system: {"absent", "blank", "part", "whole"}, token: Tokens]
NoDisk == [system |-> "absent", token |-> 0]

\* Mutant: named after the deploy to come.
NewDiskOfNext(t) == [system |-> "blank", token |-> t + 1]

NewDisk(t) == [system |-> IF Method = "cloud-init" THEN "part" ELSE "blank", token |-> t]

VARIABLES
    phase,     \* the record's phase; "installed" is bootstrapped or ready
    attempt,   \* number of the last deploy that was recorded
    expected,  \* token in restore.json
    domain,    \* the domain's persistent definition
    disk,      \* its disk
    guest,     \* off, or running: "installer" (a first boot with its media,
               \* for cloud-init), "system", or "dead", which never answers
    asked,     \* a shutdown was requested of the running guest
    holder,    \* the invocation that holds the machine's lock
    pc,        \* where each invocation is
    command,   \* what it was asked to do
    finalized, \* post_provision is behind it, or was not needed
    xml,       \* whose definition post_provision read
    faults

vars == <<phase, attempt, expected, domain, disk, guest, asked, holder, pc, command,
          finalized, xml, faults>>
records == <<phase, attempt, expected>>
machine == <<domain, disk, guest, asked>>
control == <<holder, command, finalized, xml, faults>>

Goto(p, step) == pc' = [pc EXCEPT ![p] = step]
Deploys(p) == command[p] \in {"up", "reinstall"}
-----------------------------------------------------------------------------
\* A running guest keeps its name when its definition is gone.
Found == domain.id # 0 \/ guest # "off"
Exists == Found \/ disk.system # "absent"

\* A guest that answers ssh: the installed system, and under cloud-init the
\* first boot, whose user and key come before its last stages.
Answers == \/ guest = "system"
           \/ guest = "installer" /\ Method = "cloud-init"

\* A boot of definition d from disk s: the installer comes first and begins
\* by taking the disk; cloud-init runs once per disk, and only with its seed.
Installs(d, s) == d.media /\ ~(Method = "cloud-init" /\ s.system = "whole")
Booted(d, s) == IF Installs(d, s) THEN "installer"
                ELSE IF s.system = "whole" THEN "system" ELSE "dead"
Taken(d, s) == IF Installs(d, s) THEN [system |-> "part", token |-> d.id] ELSE s

Create ==
    /\ domain.id # 0 /\ guest = "off" /\ disk.system # "absent"
    /\ guest' = Booted(domain, disk)
    /\ disk' = Taken(domain, disk)
    /\ asked' = FALSE
    /\ UNCHANGED domain

Off ==
    /\ guest' = "off" /\ asked' = FALSE

\* A step of p that leaves the machine and the records alone.
Move(p, step) == Goto(p, step) /\ UNCHANGED <<records, machine, control>>

\* An exception leaves the call; the lock and the invocation go with it.
Raise(p) ==
    /\ Goto(p, "idle")
    /\ holder' = IF holder = p THEN None ELSE holder
    /\ UNCHANGED <<records, machine, command, finalized, xml, faults>>
Return(p) == Raise(p)

Invoke(p, c) ==
    /\ pc[p] = "idle"
    /\ command' = [command EXCEPT ![p] = c]
    /\ IF c = "verify"
       THEN holder' = holder /\ Goto(p, "polling")
       ELSE holder = None /\ holder' = p /\ Goto(p, "planning")
    /\ finalized' = [finalized EXCEPT ![p] = phase # "installing"]
    /\ UNCHANGED <<records, machine, xml, faults>>

\* Mutant: a machine that exists but is off is taken for one that runs.
UpStepForgetsPower == IF phase # "new" /\ ~Exists
                      THEN IF phase = "installing" THEN "recording" ELSE "refused"
                      ELSE IF phase = "new" THEN IF Exists THEN "refused" ELSE "recording"
                      ELSE "polling"

\* LifecycleService's plan for `up`, as the step it leads to.
UpStep == IF phase # "new" /\ ~Exists
          THEN IF phase = "installing" THEN "recording" ELSE "refused"
          ELSE IF phase = "new" THEN IF Exists THEN "refused" ELSE "recording"
          ELSE IF guest = "off" THEN "starting" ELSE "polling"

\* The step a command begins with, once it has the lock.
FirstStep(c) ==
    IF c = "up" THEN UpStep
    ELSE IF c = "reinstall" THEN "recording"
    ELSE IF c = "down" /\ ~Exists THEN "refused"
    ELSE IF c \in {"down", "off"} THEN "halting"
    ELSE IF c = "destroy" THEN IF phase # "new" /\ Exists THEN "stopping" ELSE "refused"
    ELSE IF c = "on" THEN "starting" ELSE "resetting"

\* verify, when it comes next, reads the record: `finalized`.
Plan(p) ==
    /\ pc[p] = "planning"
    /\ LET step == FirstStep(command[p]) IN
       IF step = "refused" \/ (step = "recording" /\ attempt = MaxDeploys) THEN Raise(p)
       ELSE /\ Goto(p, step)
            /\ finalized' = [finalized EXCEPT ![p] = phase # "installing"]
            /\ UNCHANGED <<records, machine, holder, command, xml, faults>>
-----------------------------------------------------------------------------
\* Deploying.

Record(p) ==
    /\ pc[p] = "recording" /\ attempt < MaxDeploys
    /\ phase' = "installing" /\ attempt' = attempt + 1
    /\ finalized' = [finalized EXCEPT ![p] = FALSE]
    /\ Goto(p, "rendering")
    /\ UNCHANGED <<expected, machine, holder, command, xml, faults>>

\* The media are prepared; render_recovery draws a new token.
Render(p) ==
    /\ pc[p] = "rendering"
    /\ expected' = attempt
    /\ Goto(p, "guarding")
    /\ UNCHANGED <<phase, attempt, machine, control>>

\* provision_node looks for itself whether the machine exists.
Guard(p) ==
    /\ pc[p] = "guarding"
    /\ IF ~Exists THEN Move(p, "creating")
       ELSE IF command[p] = "reinstall" THEN Move(p, "stopping") ELSE Raise(p)

\* Mutant: `destroy` forgets the machine when it is stopped.
StopGuestAndForget(p) ==
    /\ pc[p] = "stopping"
    /\ Off
    /\ phase' = IF Deploys(p) THEN phase ELSE "new"
    /\ Goto(p, "undefining")
    /\ UNCHANGED <<attempt, expected, domain, disk, control>>

\* teardown_node, for a reinstall and for `destroy`.
StopGuest(p) ==
    /\ pc[p] = "stopping"
    /\ Off
    /\ Goto(p, "undefining")
    /\ UNCHANGED <<records, domain, disk, control>>

Undefine(p) ==
    /\ pc[p] = "undefining"
    /\ domain' = NoDomain
    /\ Goto(p, "unlinking")
    /\ UNCHANGED <<records, disk, guest, asked, control>>

Unlink(p) ==
    /\ pc[p] = "unlinking"
    /\ disk' = NoDisk
    /\ Goto(p, IF Deploys(p) THEN "creating" ELSE "forgetting")
    /\ UNCHANGED <<records, domain, guest, asked, control>>

CreateDisk(p) ==
    /\ pc[p] = "creating"
    /\ disk' = NewDisk(attempt)
    /\ Goto(p, "defining")
    /\ UNCHANGED <<records, domain, guest, asked, control>>

\* defineXML refuses a second domain of the same name.
Define(p) ==
    /\ pc[p] = "defining"
    /\ IF Found THEN Raise(p)
       ELSE /\ domain' = [id |-> attempt, media |-> TRUE]
            /\ Goto(p, "launching")
            /\ UNCHANGED <<records, disk, guest, asked, control>>

Launch(p) ==
    /\ pc[p] = "launching"
    /\ \/ Create /\ Goto(p, "polling") /\ UNCHANGED <<records, control>>
       \/ ~(domain.id # 0 /\ guest = "off" /\ disk.system # "absent") /\ Raise(p)

\* ProviderBackend.start: power_on finds no domain, or starts a stopped one.
Start(p) ==
    /\ pc[p] = "starting"
    /\ LET next == IF Deploys(p) THEN "polling" ELSE "idle" IN
       \/ ~Found /\ Raise(p)
       \/ guest # "off" /\ IF Deploys(p) THEN Move(p, "polling") ELSE Return(p)
       \/ /\ Create /\ Goto(p, next)
          /\ holder' = IF Deploys(p) THEN holder ELSE None
          /\ UNCHANGED <<records, command, finalized, xml, faults>>
       \/ Found /\ guest = "off" /\ disk.system = "absent" /\ Raise(p)
-----------------------------------------------------------------------------
\* Verifying: the loop of ProviderBackend.verify, and post_provision.

\* Mutant: whatever does not answer has finished.
FinishedWhenSilent == guest # "system"

\* The loop takes a guest that answers, or one that is off, for finished.
Finished == Answers \/ guest = "off"

Finish(p) ==
    /\ pc[p] = "polling" /\ ~finalized[p] /\ Finished
    /\ Move(p, IF Method = "cloud-init" /\ Answers THEN "waiting" ELSE "detaching")

\* `cloud-init status --wait` over ssh: its end, or the guest's.
CloudInit(p) ==
    /\ pc[p] = "waiting"
    /\ \/ guest = "system" /\ Move(p, "detaching")
       \/ ~Answers /\ Raise(p)

Detach(p) ==
    /\ pc[p] = "detaching"
    /\ IF ~Found THEN Raise(p)
       ELSE /\ asked' = (guest # "off")
            /\ Goto(p, "draining")
            /\ UNCHANGED <<records, domain, disk, guest, control>>

Drain(p) == pc[p] = "draining" /\ guest = "off" /\ Move(p, "reading")

ReadXML(p) ==
    /\ pc[p] = "reading"
    /\ IF domain.id = 0 THEN Raise(p)
       ELSE /\ xml' = [xml EXCEPT ![p] = domain.id]
            /\ Goto(p, "redefining")
            /\ UNCHANGED <<records, machine, holder, command, finalized, faults>>

\* Mutant: the definition that is written still has the media.
RedefineAsIs(p) ==
    /\ pc[p] = "redefining"
    /\ Goto(p, "booting")
    /\ UNCHANGED <<records, machine, control>>

\* Without the media.  A definition with another UUID is refused; one that is
\* gone comes back.
Redefine(p) ==
    /\ pc[p] = "redefining"
    /\ IF domain.id \notin {0, xml[p]} THEN Raise(p)
       ELSE /\ domain' = [id |-> xml[p], media |-> FALSE]
            /\ Goto(p, "booting")
            /\ UNCHANGED <<records, disk, guest, asked, control>>

Boot(p) ==
    /\ pc[p] = "booting"
    /\ \/ /\ Create
          /\ finalized' = [finalized EXCEPT ![p] = TRUE]
          /\ Goto(p, "polling")
          /\ UNCHANGED <<records, holder, command, xml, faults>>
       \/ ~(domain.id # 0 /\ guest = "off" /\ disk.system # "absent") /\ Raise(p)

\* Mutant: golden restore accepts any system, like the other methods.
MarkerAny == TRUE

\* /var/lib/cabrita/restored.json is what restore.json expects.
MarkerMatches == Method = "golden-restore" => disk.token = expected

Accept(p) ==
    /\ pc[p] = "polling" /\ finalized[p] /\ Answers
    /\ IF ~MarkerMatches THEN Raise(p)
       ELSE IF Deploys(p) THEN Move(p, "committing") ELSE Return(p)

Commit(p) ==
    /\ pc[p] = "committing"
    /\ phase' = "installed"
    /\ holder' = None /\ Goto(p, "idle")
    /\ UNCHANGED <<attempt, expected, machine, command, finalized, xml, faults>>
-----------------------------------------------------------------------------
\* Stopping, restarting and destroying.

Halt(p) ==
    /\ pc[p] = "halting"
    /\ IF ~Found THEN Raise(p)
       ELSE /\ asked' = (guest # "off")
            /\ Goto(p, "settling")
            /\ UNCHANGED <<records, domain, disk, guest, control>>

Settle(p) == pc[p] = "settling" /\ guest = "off" /\ Return(p)

\* An orderly reboot; an installer starts over.
Reset(p) ==
    /\ pc[p] = "resetting"
    /\ IF guest = "off" THEN Raise(p)
       ELSE /\ disk' = IF guest = "installer" THEN Taken(domain, disk) ELSE disk
            /\ holder' = None /\ Goto(p, "idle")
            /\ UNCHANGED <<records, domain, guest, asked, command, finalized, xml, faults>>

Forget(p) ==
    /\ pc[p] = "forgetting"
    /\ phase' = "new"
    /\ holder' = None /\ Goto(p, "idle")
    /\ UNCHANGED <<attempt, expected, machine, command, finalized, xml, faults>>
-----------------------------------------------------------------------------
\* A call fails or times out, or the process is killed.
Fault(p) ==
    /\ pc[p] \in FaultAt /\ faults < MaxFaults
    /\ faults' = faults + 1
    /\ holder' = IF holder = p THEN None ELSE holder
    /\ Goto(p, "idle")
    /\ UNCHANGED <<records, machine, command, finalized, xml>>

\* The deadline of a wait that nothing else is about to end.
Stalled(p) ==
    \/ pc[p] = "polling" /\ guest \in {"dead"} \cup IF finalized[p] THEN {"off"} ELSE {}
    \/ pc[p] \in {"draining", "settling"} /\ guest # "off" /\ ~asked
TimesOut(p) == Stalled(p) /\ Raise(p)

\* The guest: its installer ends (the Kickstart shuts it down, cloud-init
\* leaves the system running), it obeys a shutdown, or its power is cut.
InstallerEnds ==
    /\ guest = "installer"
    /\ disk' = [disk EXCEPT !.system = "whole"]
    /\ IF Method = "cloud-init" THEN guest' = "system" /\ UNCHANGED asked ELSE Off
    /\ UNCHANGED <<records, domain, pc, control>>

GuestHalts == asked /\ Off /\ UNCHANGED <<records, domain, disk, pc, control>>

PowerLoss ==
    /\ PowerFails /\ guest # "off"
    /\ Off
    /\ UNCHANGED <<records, domain, disk, pc, control>>

Init ==
    /\ phase = "new" /\ attempt = 0 /\ expected = 0
    /\ domain = NoDomain /\ disk = NoDisk /\ guest = "off" /\ asked = FALSE
    /\ holder = None
    /\ pc = [p \in Invocations |-> "idle"]
    /\ command = [p \in Invocations |-> "verify"]
    /\ finalized = [p \in Invocations |-> FALSE]
    /\ xml = [p \in Invocations |-> 0]
    /\ faults = 0

Step(p) ==
    \/ Plan(p)    \/ Record(p)     \/ Render(p)   \/ Guard(p)   \/ StopGuest(p)
    \/ Undefine(p) \/ Unlink(p)    \/ CreateDisk(p) \/ Define(p) \/ Launch(p)
    \/ Start(p)   \/ Finish(p)     \/ CloudInit(p) \/ Detach(p) \/ Drain(p)
    \/ ReadXML(p) \/ Redefine(p)   \/ Boot(p)     \/ Accept(p)  \/ Commit(p)
    \/ Halt(p)    \/ Settle(p)     \/ Reset(p)    \/ Forget(p)  \/ TimesOut(p)

Next ==
    \/ \E p \in Invocations : Step(p) \/ Fault(p) \/ \E c \in Commands : Invoke(p, c)
    \/ InstallerEnds \/ GuestHalts \/ PowerLoss

Spec == Init /\ [][Next]_vars

\* Someone repeats `up`; calls return; installers end and guests obey.
FairSpec ==
    /\ Spec
    /\ \A p \in Invocations : WF_vars(Step(p)) /\ WF_vars(Invoke(p, "up"))
    /\ WF_vars(InstallerEnds) /\ WF_vars(GuestHalts)
-----------------------------------------------------------------------------
TypeOK ==
    /\ phase \in {"new", "installing", "installed"}
    /\ attempt \in Tokens /\ expected \in Tokens
    /\ domain \in Domains /\ disk \in Disks
    /\ guest \in {"off", "installer", "system", "dead"} /\ asked \in BOOLEAN
    /\ holder \in Invocations \cup {None}
    /\ pc \in [Invocations -> Steps \cup {"idle"}]
    /\ command \in [Invocations -> AllCommands]
    /\ finalized \in [Invocations -> BOOLEAN]
    /\ xml \in [Invocations -> Tokens]
    /\ faults \in 0 .. MaxFaults

\* A node recorded as installed never boots its installer again, which would
\* wipe it: its definition lost the media before the record was written
\* (lifecycle.py:211-213, service.py:272-277), whatever failed or ran beside.
MediaDetached == phase = "installed" => ~domain.media /\ guest # "installer"

\* Golden restore: a node becomes installed only with the whole system of the
\* deploy that was begun last, and never because an old system answers
\* (lifecycle.py:214-246; docs/golden-recovery.md:79-80).
MarkedSystemOnly ==
    [][phase = "installing" /\ phase' = "installed"
        => disk = [system |-> "whole", token |-> attempt]]_vars

Detaches == domain.media /\ ~domain'.media /\ domain'.id # 0

\* The media stay until the installation, or cloud-init, is complete
\* (lifecycle.py:178-211; docs/bootstrap-methods.md:41-43).  It holds without
\* power losses and without `verify` beside the owner (see README.md).
DetachAfterInstall == [][Detaches => disk.system = "whole"]_vars

\* A node without a record has no domain, no disk and no running guest: what
\* deploys and destroys leave half done stays managed (service.py:258-265,
\* provider.py:310-323; docs/lifecycle.md:18-19).
NewMeansNothing == phase = "new" => ~Exists

\* Repeating `up` completes an installation that was interrupted
\* (docs/troubleshooting.md:29-30).
RetryCompletes == <>(phase = "installed")
=============================================================================
