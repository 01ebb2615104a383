------------------------------ MODULE BmcMedia ------------------------------
(***************************************************************************)
(* One Helvetios node from its virtual media to its acceptance: the Redfish*)
(* requests of BMCController (mount_and_boot, eject_virtual_media, power), *)
(* one step each, under HelvetiosProvider and ProviderBackend's verify.    *)
(* Unlike a virtual machine the node is never new: its disk may hold an    *)
(* old system, and the program cannot see what it boots.                   *)
(*                                                                         *)
(* A request may fail or be lost at any step of FaultAt; a lost answer is  *)
(* a fault at the step that follows.  The node reads its media from the    *)
(* media server, which lives as long as its invocation (MediaServer).      *)
(***************************************************************************)
EXTENDS Naturals

CONSTANTS
    Invocations,   \* invocations of the program
    Golden,        \* golden restore, whose marker is checked; else Kickstart
    Commands,      \* the commands that are invoked
    FaultAt,       \* the steps at which an invocation may fail or be killed
    MaxFaults,     \* bound on those faults
    MaxDeploys,    \* bound on deploys begun, numbered from 1
    Legacy,        \* a system on the node from before: "none", "silent", or
                   \* "answers", when it accepts the user's key
    Surprises,     \* of {"power", "session"}: what breaks from outside
    None

AllCommands == {"up", "reinstall", "down", "destroy", "on", "off", "restart", "verify"}
Steps == {"planning", "opening", "recording", "rendering", "forcing", "clearing2",
          "clearing1", "inserting2", "inserting1", "overriding", "powering", "starting",
          "polling", "ejecting2", "ejecting1", "booting", "committing", "removing2",
          "removing1", "cutting", "forgetting", "halting", "settling", "resetting"}

ASSUME NoneAssumption == None \notin Invocations
ASSUME CommandsAssumption == Commands \subseteq AllCommands /\ Golden \in BOOLEAN
ASSUME FaultAssumption == FaultAt \subseteq Steps /\ MaxFaults \in Nat
ASSUME DeploysAssumption == MaxDeploys \in Nat
ASSUME WorldAssumption == Legacy \in {"none", "silent", "answers"}

\* Media and systems by the deploy that made them; 0 is nobody's.
Tokens == 0 .. MaxDeploys
Disks == [system: {"none", "part", "whole"}, token: Tokens]

VARIABLES
    phase,     \* the record's phase; "installed" is bootstrapped or ready
    attempt,   \* number of the last deploy that was recorded
    expected,  \* token in restore.json
    slot1,     \* the image in virtual media slot 1 (OEMDRV), 0 for none
    slot2,     \* and in slot 2 (the installer's ISO)
    override,  \* one-time boot from CD is set
    power,     \* "off", or what runs: "installer", "system", or "dead",
               \* which never answers
    disk,      \* the system on the target disk, and its deploy
    asked,     \* a graceful shutdown was requested
    served,    \* the media server answers
    holder,    \* the invocation that holds the node's lock
    session,   \* it has an installation session open
    pc, command,
    finalized, \* post_provision is behind it, or was not needed
    faults

vars == <<phase, attempt, expected, slot1, slot2, override, power, disk, asked, served,
          holder, session, pc, command, finalized, faults>>
records == <<phase, attempt, expected>>
slots == <<slot1, slot2>>
node == <<override, power, disk, asked>>
control == <<served, holder, session, command, finalized, faults>>

Goto(p, step) == pc' = [pc EXCEPT ![p] = step]
Deploys(p) == command[p] \in {"up", "reinstall"}
-----------------------------------------------------------------------------
\* A system that accepts the program's key: its own, or an old one that does.
Answers == power = "system" /\ (disk.token # 0 \/ Legacy = "answers")

\* A power-on: from the CD once if that is set, and otherwise from the disk,
\* where a machine without a system may still try the CD.
FromCD == slot2 # 0 /\ served /\ (override \/ disk.system # "whole")
FromDisk == ~(slot2 # 0 /\ served /\ override)
BootNode ==
    /\ \/ FromCD /\ power' = "installer" /\ disk' = [system |-> "part", token |-> slot2]
       \/ FromDisk /\ disk' = disk /\ power' = IF disk.system = "whole" THEN "system" ELSE "dead"
    /\ override' = FALSE /\ asked' = FALSE

\* "Power is on" counts as success.
PowerOn == IF power = "off" THEN BootNode ELSE UNCHANGED node
Off == power' = "off" /\ asked' = FALSE

\* The end of an invocation: its lock and its session go.
End(p) ==
    /\ Goto(p, "idle")
    /\ holder' = IF holder = p THEN None ELSE holder
    /\ session' = IF holder = p THEN FALSE ELSE session
    /\ served' = IF holder = p THEN FALSE ELSE served
Raise(p) == End(p) /\ UNCHANGED <<records, slots, node, command, finalized, faults>>
Return(p) == Raise(p)
Move(p, step) == Goto(p, step) /\ UNCHANGED <<records, slots, node, control>>

Invoke(p, c) ==
    /\ pc[p] = "idle"
    /\ command' = [command EXCEPT ![p] = c]
    /\ IF c = "verify" THEN holder' = holder /\ Goto(p, "polling")
       ELSE holder = None /\ holder' = p /\ Goto(p, "planning")
    /\ finalized' = [finalized EXCEPT ![p] = phase # "installing"]
    /\ UNCHANGED <<records, slots, node, served, session, faults>>

\* What exists is what answers or has a record; so a node whose installation
\* was begun is always resumed, and one that is silent is free to take.
Exists == Answers \/ phase # "new"

Begin(p, step) ==
    /\ Goto(p, step)
    /\ finalized' = [finalized EXCEPT ![p] = phase # "installing"]
    /\ UNCHANGED <<records, slots, node, served, holder, session, command, faults>>

PlanUp(p) ==
    \/ phase = "new" /\ Exists /\ Raise(p)
    \/ phase = "new" /\ ~Exists /\ attempt < MaxDeploys /\ Begin(p, "opening")
    \/ phase = "installing" /\ Begin(p, "opening")
    \/ phase = "installed" /\ Begin(p, IF power = "off" THEN "starting" ELSE "polling")
    \/ phase = "new" /\ attempt = MaxDeploys /\ Raise(p)

Plan(p) ==
    /\ pc[p] = "planning"
    /\ \/ command[p] = "up" /\ PlanUp(p)
       \/ command[p] = "reinstall" /\ attempt < MaxDeploys /\ Begin(p, "opening")
       \/ command[p] = "reinstall" /\ attempt = MaxDeploys /\ Raise(p)
       \/ command[p] \in {"down", "off"} /\ (Exists \/ command[p] = "off") /\ Begin(p, "halting")
       \/ command[p] = "down" /\ ~Exists /\ Return(p)
       \/ command[p] = "destroy" /\ IF phase = "new" THEN Raise(p) ELSE Begin(p, "removing2")
       \/ command[p] = "on" /\ Begin(p, "starting")
       \/ command[p] = "restart" /\ Begin(p, "resetting")

\* The installation session; resuming, the node is started if it was off.
Open(p) ==
    /\ pc[p] = "opening"
    /\ session' = TRUE /\ served' = TRUE
    /\ Goto(p, IF command[p] = "reinstall" \/ phase = "new" THEN "recording"
               ELSE IF power = "off" THEN "starting" ELSE "polling")
    /\ UNCHANGED <<records, slots, node, holder, command, finalized, faults>>
-----------------------------------------------------------------------------
\* Deploying.

Record(p) ==
    /\ pc[p] = "recording" /\ attempt < MaxDeploys
    /\ phase' = "installing" /\ attempt' = attempt + 1
    /\ finalized' = [finalized EXCEPT ![p] = FALSE]
    /\ Goto(p, "rendering")
    /\ UNCHANGED <<expected, slots, node, served, holder, session, command, faults>>

\* Mutant: the file and the script get a token each.
RenderTwice(p) ==
    /\ pc[p] = "rendering"
    /\ expected' = attempt + 1
    /\ Goto(p, "forcing")
    /\ UNCHANGED <<phase, attempt, slots, node, control>>

\* BastionMedia.prepare; a new token goes into restore.json and the script.
Render(p) ==
    /\ pc[p] = "rendering"
    /\ expected' = attempt
    /\ Goto(p, "forcing")
    /\ UNCHANGED <<phase, attempt, slots, node, control>>

\* ForceOff: before an installation, and at the end of teardown_node.
ForceOff(p) ==
    /\ pc[p] \in {"forcing", "cutting"}
    /\ Off
    /\ Goto(p, IF pc[p] = "forcing" THEN "clearing2" ELSE "forgetting")
    /\ UNCHANGED <<records, slots, override, disk, control>>

\* Mutant: teardown leaves the node running.
AfterEjectLeavesOn(step) ==
    IF step = "clearing2" THEN "clearing1" ELSE IF step = "clearing1" THEN "inserting2"
    ELSE IF step = "ejecting2" THEN "ejecting1" ELSE IF step = "ejecting1" THEN "booting"
    ELSE IF step = "removing2" THEN "removing1" ELSE "forgetting"

AfterEject(step) ==
    IF step = "clearing2" THEN "clearing1" ELSE IF step = "clearing1" THEN "inserting2"
    ELSE IF step = "ejecting2" THEN "ejecting1" ELSE IF step = "ejecting1" THEN "booting"
    ELSE IF step = "removing2" THEN "removing1" ELSE "cutting"

\* Mutant: the ISO stays in its slot.
EjectNothing2(p) ==
    /\ pc[p] \in {"clearing2", "ejecting2", "removing2"}
    /\ Goto(p, AfterEject(pc[p]))
    /\ UNCHANGED <<records, slots, node, control>>

\* eject_virtual_media: slot 2, then slot 1.
Eject2(p) ==
    /\ pc[p] \in {"clearing2", "ejecting2", "removing2"}
    /\ slot2' = 0
    /\ Goto(p, AfterEject(pc[p]))
    /\ UNCHANGED <<records, slot1, node, control>>

Eject1(p) ==
    /\ pc[p] \in {"clearing1", "ejecting1", "removing1"}
    /\ slot1' = 0
    /\ Goto(p, AfterEject(pc[p]))
    /\ UNCHANGED <<records, slot2, node, control>>

Insert2(p) ==
    /\ pc[p] = "inserting2"
    /\ slot2' = attempt
    /\ Goto(p, "inserting1")
    /\ UNCHANGED <<records, slot1, node, control>>

Insert1(p) ==
    /\ pc[p] = "inserting1"
    /\ slot1' \in {slot1, attempt}
    /\ Goto(p, "overriding")
    /\ UNCHANGED <<records, slot2, node, control>>

\* Mutant: the boot source is never set.
OverrideNot(p) ==
    /\ pc[p] = "overriding"
    /\ Goto(p, "powering")
    /\ UNCHANGED <<records, slots, node, control>>

Override(p) ==
    /\ pc[p] = "overriding"
    /\ override' = TRUE
    /\ Goto(p, "powering")
    /\ UNCHANGED <<records, slots, power, disk, asked, control>>

\* power_on, at the end of mount_and_boot and of post_provision.
Boot(p) ==
    /\ pc[p] \in {"powering", "booting"}
    /\ PowerOn
    /\ finalized' = [finalized EXCEPT ![p] = pc[p] = "booting"]
    /\ Goto(p, "polling")
    /\ UNCHANGED <<records, slots, served, holder, session, command, faults>>

Start(p) ==
    /\ pc[p] = "starting"
    /\ PowerOn
    /\ IF Deploys(p) THEN Goto(p, "polling") /\ UNCHANGED <<holder, session, served>> ELSE End(p)
    /\ UNCHANGED <<records, slots, command, finalized, faults>>
-----------------------------------------------------------------------------
\* Verifying.

Finish(p) ==
    /\ pc[p] = "polling" /\ ~finalized[p] /\ (Answers \/ power = "off")
    /\ Move(p, "ejecting2")

\* Mutant: golden restore accepts any system.
MarkerAny == TRUE

MarkerMatches == Golden => disk.token = expected

Accept(p) ==
    /\ pc[p] = "polling" /\ finalized[p] /\ Answers
    /\ IF ~MarkerMatches THEN Raise(p)
       ELSE IF Deploys(p) THEN Move(p, "committing") ELSE Return(p)

Commit(p) ==
    /\ pc[p] = "committing"
    /\ phase' = "installed"
    /\ End(p)
    /\ UNCHANGED <<attempt, expected, slots, node, command, finalized, faults>>
-----------------------------------------------------------------------------
\* Stopping, restarting and destroying.

Halt(p) ==
    /\ pc[p] = "halting"
    /\ asked' = (power # "off")
    /\ Goto(p, "settling")
    /\ UNCHANGED <<records, slots, override, power, disk, control>>

Settle(p) == pc[p] = "settling" /\ power = "off" /\ Return(p)

Reset(p) ==
    /\ pc[p] = "resetting"
    /\ IF power = "off" THEN UNCHANGED node ELSE BootNode
    /\ End(p)
    /\ UNCHANGED <<records, slots, command, finalized, faults>>

Forget(p) ==
    /\ pc[p] = "forgetting"
    /\ phase' = "new"
    /\ End(p)
    /\ UNCHANGED <<attempt, expected, slots, node, command, finalized, faults>>
-----------------------------------------------------------------------------
Fault(p) ==
    /\ pc[p] \in FaultAt /\ faults < MaxFaults
    /\ faults' = faults + 1
    /\ End(p)
    /\ UNCHANGED <<records, slots, node, command, finalized>>

\* The deadline of a wait that nothing else is about to end.
Stalled(p) ==
    \/ /\ pc[p] = "polling" /\ ~Answers
       /\ power \in {"dead", "system"} \/ (power = "off" /\ finalized[p])
    \/ pc[p] = "settling" /\ power # "off" /\ ~asked
TimesOut(p) == Stalled(p) /\ Raise(p)

InstallerEnds ==
    /\ power = "installer" /\ served
    /\ disk' = [disk EXCEPT !.system = "whole"]
    /\ Off
    /\ UNCHANGED <<records, slots, override, pc, control>>

\* An installer whose media went away may hang.
InstallerStarves ==
    /\ power = "installer" /\ ~served
    /\ power' = "dead"
    /\ UNCHANGED <<records, slots, override, disk, asked, pc, control>>

NodeHalts == asked /\ Off /\ UNCHANGED <<records, slots, override, disk, pc, control>>

PowerLoss ==
    /\ "power" \in Surprises /\ power # "off"
    /\ Off
    /\ UNCHANGED <<records, slots, override, disk, pc, control>>

\* The media server's ssh session breaks; its owner does not notice.
SessionBreaks ==
    /\ "session" \in Surprises /\ served
    /\ served' = FALSE
    /\ UNCHANGED <<records, slots, node, pc, holder, session, command, finalized, faults>>

Init ==
    /\ phase = "new" /\ attempt = 0 /\ expected = 0
    /\ slot1 = 0 /\ slot2 = 0 /\ override = FALSE /\ asked = FALSE
    /\ disk = [system |-> IF Legacy = "none" THEN "none" ELSE "whole", token |-> 0]
    /\ power \in {"off", IF Legacy = "none" THEN "dead" ELSE "system"}
    /\ served = FALSE /\ holder = None /\ session = FALSE
    /\ pc = [p \in Invocations |-> "idle"]
    /\ command = [p \in Invocations |-> "verify"]
    /\ finalized = [p \in Invocations |-> FALSE]
    /\ faults = 0

Step(p) ==
    \/ Plan(p)   \/ Open(p)    \/ Record(p)  \/ Render(p)   \/ ForceOff(p) \/ Eject2(p)
    \/ Eject1(p) \/ Insert2(p) \/ Insert1(p) \/ Override(p) \/ Boot(p)     \/ Start(p)
    \/ Finish(p) \/ Accept(p)  \/ Commit(p)  \/ Halt(p)     \/ Settle(p)   \/ Reset(p)
    \/ Forget(p) \/ TimesOut(p)

World == InstallerEnds \/ InstallerStarves \/ NodeHalts \/ PowerLoss \/ SessionBreaks

Next ==
    \/ \E p \in Invocations : Step(p) \/ Fault(p) \/ \E c \in Commands : Invoke(p, c)
    \/ World

Spec == Init /\ [][Next]_vars

\* Someone repeats `up`; calls return; installers end while they are served.
FairSpec ==
    /\ Spec
    /\ \A p \in Invocations : WF_vars(Step(p)) /\ WF_vars(Invoke(p, "up"))
    /\ WF_vars(InstallerEnds) /\ WF_vars(NodeHalts)
-----------------------------------------------------------------------------
TypeOK ==
    /\ phase \in {"new", "installing", "installed"}
    /\ attempt \in Tokens /\ expected \in Tokens
    /\ slot1 \in Tokens /\ slot2 \in Tokens
    /\ override \in BOOLEAN /\ asked \in BOOLEAN /\ served \in BOOLEAN
    /\ power \in {"off", "installer", "system", "dead"} /\ disk \in Disks
    /\ holder \in Invocations \cup {None} /\ session \in BOOLEAN
    /\ pc \in [Invocations -> Steps \cup {"idle"}]
    /\ command \in [Invocations -> AllCommands]
    /\ finalized \in [Invocations -> BOOLEAN]
    /\ faults \in 0 .. MaxFaults

\* Whatever failed before, a node that is recorded as installed, or has no
\* record, has no media of the program in its slots, from which it could boot
\* into an installer that wipes it (provider.py:169-179, lifecycle.py:211-213).
MediaDetached == phase \in {"new", "installed"} => slot1 = 0 /\ slot2 = 0

\* No node runs an installer without its record saying so, so that `up` knows
\* of it (service.py:262-265, bmc_client.py:338-371).
InstallerIsRecorded == power = "installer" => phase = "installing"

\* Golden restore accepts only the whole system of the last deploy, never an
\* old one that answers (lifecycle.py:214-246; docs/golden-recovery.md:79-80).
MarkedSystemOnly ==
    [][phase = "installing" /\ phase' = "installed"
        => disk = [system |-> "whole", token |-> attempt]]_vars

\* A system from before, that the program did not install, is not recorded as
\* installed (service.py:272-277; README.md:47).  It holds under golden restore.
NeverAdopts == [][phase' = "installed" /\ phase # "installed" => disk.token # 0]_vars

\* `up` does not stop a running system that has no record
\* (docs/lifecycle.md:11-12).  It does not hold where that system does not
\* answer the user (lifecycle.py:92-93; see README.md).
LiveProtected == [][power = "system" /\ disk.token = 0 => power' # "off"]_vars

\* Repeating `up` completes the installation (docs/troubleshooting.md:29-30).
RetryCompletes == <>(phase = "installed")
=============================================================================
