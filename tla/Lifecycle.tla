----------------------------- MODULE Lifecycle -----------------------------
(***************************************************************************)
(* LifecycleService (core/lifecycle/service.py) driving one cluster, with  *)
(* the part of ProviderBackend (lifecycle.py) that it can tell apart.      *)
(*                                                                         *)
(* Several invocations of the program ("services") work on the same state  *)
(* directory.  Each takes the locks of its targets, observes and plans     *)
(* them one after another, runs one worker per target in a thread pool,    *)
(* and then configures the targets together.  A backend call is one step   *)
(* that succeeds, fails without effect or fails half-way; an invocation    *)
(* may be killed between any two steps, a machine may lose power, and a    *)
(* virtual machine may be removed behind the program's back.               *)
(***************************************************************************)
EXTENDS Naturals, FiniteSets

CONSTANTS
    Nodes,          \* ids of the declared nodes (NodeSpec.id)
    Services,       \* concurrent invocations of the program
    Provider,       \* "libvirt" or "helvetios" (manifest.provider)
    NfsServer,      \* the node serving storage under an HPC profile, or None
    ServesMedia,    \* deploys publish media on the cluster's HTTP endpoint
    Fingerprints,   \* provisioning fingerprints of the manifest versions used
    Configurations, \* configuration fingerprints of those versions
    NoPlaybook,     \* the configurations whose profile is "none"
    Operations,     \* the operations that are invoked
    MaxWorkers,     \* access.max_workers
    Foreign,        \* nodes that may hold a system the program did not install
    Surprises,      \* of {"power", "removal"}: what befalls machines from outside
    Legacy,         \* a system the program did not install
    None            \* absent value

AllOperations == {"up", "deploy", "configure", "down", "destroy"}

ASSUME NodesAssumption == Nodes \subseteq Nat \ {0} /\ IsFiniteSet(Nodes)
ASSUME ProviderAssumption == Provider \in {"libvirt", "helvetios"}
ASSUME NfsAssumption == /\ NfsServer \in Nodes \cup {None}
                        /\ None \notin Nodes
                        /\ NfsServer # None => NoPlaybook = {}
ASSUME MediaAssumption == /\ ServesMedia \in BOOLEAN
                          /\ Provider = "helvetios" => ServesMedia
ASSUME ValueAssumption == /\ None \notin Fingerprints \cup Configurations \cup Services
                          /\ Legacy \notin Fingerprints \cup {None}
                          /\ NoPlaybook \subseteq Configurations
ASSUME OperationsAssumption == Operations \subseteq AllOperations
ASSUME WorldAssumption == Foreign \subseteq Nodes /\ Surprises \subseteq {"power", "removal"}
ASSUME WorkersAssumption == MaxWorkers \in 1 .. 8

Endpoint == 0
Keys == Nodes \cup {Endpoint}

Phases == {"new", "installing", "bootstrapped", "ready"}
Checkpoints == [phase: Phases, fingerprint: Fingerprints \cup {None},
                error: BOOLEAN, configuration: Configurations \cup {None}]
NewCheckpoint == [phase |-> "new", fingerprint |-> None,
                  error |-> FALSE, configuration |-> None]

\* What a machine is, whoever looks: `configured` is the configuration whose
\* playbook last completed on the installed system, None when there is none
\* or when a playbook stopped half-way.
Machines == [exists: BOOLEAN, running: BOOLEAN,
             system: Fingerprints \cup {Legacy, None},
             configured: Configurations \cup {None}]
NoMachine == [exists |-> FALSE, running |-> FALSE, system |-> None, configured |-> None]
BareDisk == [exists |-> TRUE, running |-> FALSE, system |-> None, configured |-> None]

\* The same with one field changed.
SwitchedOn(m) == [m EXCEPT !.running = TRUE]
SwitchedOff(m) == [m EXCEPT !.running = FALSE]
Undefined(m) == [m EXCEPT !.running = FALSE, !.system = None, !.configured = None]
Playing(m, c) == [m EXCEPT !.configured = c]
Erred(c) == [c EXCEPT !.error = TRUE]
Bootstrapped(c) == [c EXCEPT !.phase = "bootstrapped"]

Actions == {"unmanaged", "replacement-required", "unreachable", "noop", "down",
            "destroy", "configure", "reinstall", "deploy", "resume", "verify"}
Blocked == {"unmanaged", "replacement-required", "unreachable"}
Installing == {"deploy", "reinstall", "resume"}
Plans == [action: Actions, running: BOOLEAN]
Unplanned == [action |-> "noop", running |-> FALSE]

Jobs == [operation: AllOperations, targets: SUBSET Nodes, reinstall: BOOLEAN,
         fingerprint: Fingerprints \cup {None}, configuration: Configurations \cup {None}]
NoJob == [operation |-> "down", targets |-> {}, reinstall |-> FALSE,
          fingerprint |-> None, configuration |-> None]

\* Where an invocation is in execute, and a worker in its task.
ServiceSteps == {"idle", "planning", "applying", "server", "demoting",
                 "playbook", "checking", "failing", "readying", "returned", "raised"}
Active == {"recording", "deploying", "starting", "verifying", "committing",
           "stopping", "destroying", "forgetting", "failing"}
WorkerSteps == Active \cup {"out", "queued", "done", "failed"}

Hosts == [hosts: SUBSET Nodes, configuration: Configurations \cup {None}]

VARIABLES
    checkpoint,  \* node-N.json of each node (StateStore)
    machine,     \* the machines themselves
    inventory,   \* inventory.json in the cluster's work directory
    holder,      \* the invocation holding each lock, or None
    session,     \* the invocation's installation session is open
    pc,          \* where each invocation is in execute
    job,         \* its arguments and its manifest's fingerprints
    todo,        \* the targets its present loop has still to visit
    plan,        \* PlannedNode of each target
    worker,      \* where each of its workers is
    local        \* the checkpoint a worker read when it began

vars == <<checkpoint, machine, inventory, holder, session, pc, job, todo, plan, worker, local>>
durable == <<checkpoint, machine, inventory>>
-----------------------------------------------------------------------------
Idle(p) == pc[p] = "idle"
Targets(p) == job[p].targets
Goto(p, step) == pc' = [pc EXCEPT ![p] = step]

\* The loops over `nodes` visit the targets in the order of their ids.
Next1(p, n) == n \in todo[p] /\ \A m \in todo[p] : n <= m

Write(n, c) == checkpoint' = [checkpoint EXCEPT ![n] = c]

\* Mutant: the media endpoint is not locked.
LocksOfNodes(op, ns) == ns

LocksOf(op, ns) == ns \cup (IF ServesMedia /\ op \in {"up", "deploy"} THEN {Endpoint} ELSE {})

\* Mutant: a missing node is installed again, whatever its phase.
ActionReplaces(n, exists, reachable, j) ==
    LET c == checkpoint[n] IN
    IF j.operation \in {"down", "destroy"} THEN
        IF j.operation = "destroy" /\ c.phase = "new" THEN "unmanaged"
        ELSE IF exists THEN j.operation ELSE "noop"
    ELSE IF c.phase # "new" /\ c.fingerprint # j.fingerprint /\ ~j.reinstall
        THEN "replacement-required"
    ELSE IF j.operation = "configure"
        THEN IF reachable THEN "configure" ELSE "unreachable"
    ELSE IF j.reinstall THEN "reinstall"
    ELSE IF ~exists THEN "deploy"
    ELSE IF c.phase = "new" THEN "unmanaged"
    ELSE IF c.phase = "installing" THEN "resume"
    ELSE IF j.operation = "deploy" \/ c.phase = "ready" THEN "verify"
    ELSE "configure"

\* _action: what to do with a node, from its checkpoint and what was observed.
Action(n, exists, reachable, j) ==
    LET c == checkpoint[n] IN
    IF j.operation \in {"down", "destroy"} THEN
        IF j.operation = "destroy" /\ c.phase = "new" THEN "unmanaged"
        ELSE IF exists THEN j.operation ELSE "noop"
    ELSE IF c.phase # "new" /\ c.fingerprint # j.fingerprint /\ ~j.reinstall
        THEN "replacement-required"
    ELSE IF j.operation = "configure"
        THEN IF reachable THEN "configure" ELSE "unreachable"
    ELSE IF j.reinstall THEN "reinstall"
    ELSE IF c.phase = "new"
        THEN IF exists \/ reachable THEN "unmanaged" ELSE "deploy"
    ELSE IF ~exists
        THEN IF c.phase \in {"ready", "bootstrapped"} THEN "replacement-required" ELSE "deploy"
    ELSE IF c.phase = "installing" THEN "resume"
    ELSE IF j.operation = "deploy" \/ c.phase = "ready" THEN "verify"
    ELSE "configure"

\* A system that is up answers SSH, or does not (a key it does not accept,
\* a network that is down).
MayReach(n) == machine[n].running /\ machine[n].system # None

\* ProviderBackend.observe: on Helvetios a node "exists" once it is reachable
\* or managed; libvirt knows its domains and disks.
Exists(n, reachable) ==
    IF Provider = "helvetios" THEN reachable \/ checkpoint[n].phase # "new"
    ELSE machine[n].exists

\* A pool's worker for each of `ns`; the others are not part of the stage.
Pool(ns) == [n \in Nodes |-> IF n \in ns THEN "queued" ELSE "out"]
\* Mutant: a pool with a failed worker never ends.
PoolDoneAll(p) == \A n \in Nodes : worker[p][n] \in {"out", "done"}

PoolDone(p) == \A n \in Nodes : worker[p][n] \in {"out", "done", "failed"}
\* Mutant: failures are not looked at.
PoolFailedNever(p) == FALSE

PoolFailed(p) == \E n \in Nodes : worker[p][n] = "failed"

\* Clients stop before the node that serves their storage.
Ordered(p) == NfsServer # None /\ job[p].operation \in {"down", "destroy"}
FirstStage(p) == IF Ordered(p) THEN Targets(p) \ {NfsServer} ELSE Targets(p)
ServerStage(p) == Targets(p) \cap {NfsServer}
-----------------------------------------------------------------------------
(* One invocation, up to the start of its workers *)

\* execute: the locks of every target, and of the media endpoint, are taken
\* together or the invocation ends without having done anything.
Invoke(p) ==
    /\ Idle(p)
    /\ \E op \in Operations, ns \in (SUBSET Nodes) \ {{}}, r \in BOOLEAN,
          f \in Fingerprints, c \in Configurations :
         /\ r => op \in {"up", "deploy"}
         /\ \A k \in LocksOf(op, ns) : holder[k] = None
         /\ holder' = [k \in Keys |-> IF k \in LocksOf(op, ns) THEN p ELSE holder[k]]
         /\ job' = [job EXCEPT ![p] = [operation |-> op, targets |-> ns, reinstall |-> r,
                                       fingerprint |-> f, configuration |-> c]]
         /\ todo' = [todo EXCEPT ![p] = ns]
    /\ Goto(p, "planning")
    /\ UNCHANGED <<durable, session, plan, worker, local>>

\* plan: one target observed and its action decided.
Observe(p) ==
    /\ pc[p] = "planning"
    /\ \E n \in Nodes :
         /\ Next1(p, n)
         /\ \E reachable \in {FALSE, MayReach(n)} :
              plan' = [plan EXCEPT ![p][n] =
                  [action |-> Action(n, Exists(n, reachable), reachable, job[p]),
                   running |-> machine[n].running]]
         /\ todo' = [todo EXCEPT ![p] = @ \ {n}]
    /\ UNCHANGED <<durable, holder, session, pc, job, worker, local>>

\* The power state cannot be determined.
ObserveFails(p) ==
    /\ pc[p] = "planning" /\ todo[p] # {}
    /\ Goto(p, "raised")
    /\ UNCHANGED <<durable, holder, session, job, todo, plan, worker, local>>

Refused(p) == \E n \in Targets(p) : plan[p][n].action \in Blocked
NeedsSession(p) == \E n \in Targets(p) : plan[p][n].action \in Installing

Refuse(p) ==
    /\ pc[p] = "planning" /\ todo[p] = {} /\ Refused(p)
    /\ Goto(p, "raised")
    /\ UNCHANGED <<durable, holder, session, job, todo, plan, worker, local>>

StartWorkers(p) ==
    /\ pc[p] = "planning" /\ todo[p] = {} /\ ~Refused(p)
    /\ session' = [session EXCEPT ![p] = NeedsSession(p)]
    /\ worker' = [worker EXCEPT ![p] = Pool(FirstStage(p))]
    /\ Goto(p, "applying")
    /\ UNCHANGED <<durable, holder, job, todo, plan, local>>

\* The media server or the BMC transport does not come up.
SessionFails(p) ==
    /\ pc[p] = "planning" /\ todo[p] = {} /\ ~Refused(p) /\ NeedsSession(p)
    /\ Goto(p, "raised")
    /\ UNCHANGED <<durable, holder, session, job, todo, plan, worker, local>>
-----------------------------------------------------------------------------
(* A worker's task: apply(node), inside the guard of _parallel *)

Step(p, n, from, to) ==
    worker[p][n] = from /\ worker' = [worker EXCEPT ![p][n] = to]

\* The pool runs its tasks in the order they were submitted, MaxWorkers at a time.
MayBegin(p, n) ==
    /\ \A m \in Nodes : worker[p][m] = "queued" => n <= m
    /\ Cardinality({m \in Nodes : worker[p][m] \in Active}) < MaxWorkers

\* Mutant: an action without a case of its own is taken for a step.
OpeningVerbatim(entry) ==
    IF entry.action \in {"noop", "down", "destroy", "deploy", "reinstall"}
    THEN "done" ELSE entry.action

\* Mutant: the record goes before the machine.
OpeningForgets(entry) ==
    CASE entry.action = "noop"                    -> "done"
      [] entry.action = "down"                    -> "stopping"
      [] entry.action = "destroy"                 -> "forgetting"
      [] entry.action \in {"deploy", "reinstall"} -> "recording"
      [] OTHER -> IF entry.running THEN "verifying" ELSE "starting"

\* The first step of each planned action.
Opening(entry) ==
    CASE entry.action = "noop"                    -> "done"
      [] entry.action = "down"                    -> "stopping"
      [] entry.action = "destroy"                 -> "destroying"
      [] entry.action \in {"deploy", "reinstall"} -> "recording"
      [] OTHER -> IF entry.running THEN "verifying" ELSE "starting"

Begin(p, n) ==
    /\ pc[p] \in {"applying", "server"}
    /\ MayBegin(p, n)
    /\ Step(p, n, "queued", Opening(plan[p][n]))
    /\ local' = [local EXCEPT ![p][n] = checkpoint[n]]
    /\ UNCHANGED <<durable, holder, session, pc, job, todo, plan>>

\* Under `configure` the pool only verifies the nodes again.
Recheck(p, n) ==
    /\ pc[p] = "checking"
    /\ MayBegin(p, n)
    /\ Step(p, n, "queued", "verifying")
    /\ UNCHANGED <<durable, holder, session, pc, job, todo, plan, local>>

\* The installation is on record before the machine is touched.
Record(p, n) ==
    /\ Step(p, n, "recording", "deploying")
    /\ LET c == [phase |-> "installing", fingerprint |-> job[p].fingerprint,
                 error |-> FALSE, configuration |-> None]
       IN Write(n, c) /\ local' = [local EXCEPT ![p][n] = c]
    /\ UNCHANGED <<machine, inventory, holder, session, pc, job, todo, plan>>

\* The machine after a deploy that returned: it runs the new system, or an
\* installer that will not complete; on a BMC the boot override may be lost,
\* and then the old system is the one that comes up.
Deployed(n, f) ==
    {[exists |-> TRUE, running |-> TRUE, system |-> s, configured |-> None] : s \in {f, None}}
    \cup IF Provider = "helvetios" THEN {SwitchedOn(machine[n])} ELSE {}

\* libvirt's provision_node refuses to touch a domain or a disk that exists.
DeployRefused(p, n) ==
    Provider = "libvirt" /\ machine[n].exists /\ ~job[p].reinstall

Deploy(p, n) ==
    /\ Step(p, n, "deploying", "verifying")
    /\ ~DeployRefused(p, n)
    /\ \E m \in Deployed(n, job[p].fingerprint) : machine' = [machine EXCEPT ![n] = m]
    /\ UNCHANGED <<checkpoint, inventory, holder, session, pc, job, todo, plan, local>>

\* The machine after a teardown that raised or was cut short: stopped; or,
\* under libvirt, its domain undefined, or its disk gone as well.
HalfTornDown(n) ==
    {machine[n], SwitchedOff(machine[n])}
    \cup IF Provider = "libvirt" THEN {Undefined(machine[n]), NoMachine} ELSE {}

\* The machine after a deploy that raised: untouched (no media), a Helvetios
\* node forced off with its disk intact, a domain torn down so far, or a new
\* disk without its domain.
HalfDeployed(n) ==
    HalfTornDown(n) \cup IF Provider = "libvirt" THEN {BareDisk} ELSE {}

DeployFails(p, n) ==
    /\ Step(p, n, "deploying", "failing")
    /\ \E m \in (IF DeployRefused(p, n) THEN {machine[n]} ELSE HalfDeployed(n)) :
         machine' = [machine EXCEPT ![n] = m]
    /\ UNCHANGED <<checkpoint, inventory, holder, session, pc, job, todo, plan, local>>

\* power_on returned: the machine is on, or the request was accepted and it is
\* not (a domain left CRASHED is not created again).
Start(p, n) ==
    /\ Step(p, n, "starting", "verifying")
    /\ machine[n].exists
    /\ machine' = machine \/ machine' = [machine EXCEPT ![n] = SwitchedOn(@)]
    /\ UNCHANGED <<checkpoint, inventory, holder, session, pc, job, todo, plan, local>>

\* verify: the node answers SSH.  While its checkpoint says "installing" a node
\* found answering or off is finished first, and is booted from its disk.
Verify(p, n) ==
    /\ Step(p, n, "verifying", IF pc[p] = "checking" THEN "done" ELSE "committing")
    /\ machine[n].exists /\ machine[n].system # None
    /\ machine[n].running \/ checkpoint[n].phase = "installing"
    /\ machine' = [machine EXCEPT ![n] = SwitchedOn(@)]
    /\ UNCHANGED <<checkpoint, inventory, holder, session, pc, job, todo, plan, local>>

\* It does not before the deadline; a node being finished may stay off.
VerifyFails(p, n) ==
    /\ Step(p, n, "verifying", "failing")
    /\ \/ machine' = machine
       \/ /\ checkpoint[n].phase = "installing"
          /\ machine' = [machine EXCEPT ![n] = SwitchedOff(@)]
    /\ UNCHANGED <<checkpoint, inventory, holder, session, pc, job, todo, plan, local>>

\* The checkpoint read at the start is written back.
Commit(p, n) ==
    /\ Step(p, n, "committing", "done")
    /\ LET c == local[p][n] IN
       Write(n, [phase |-> IF c.phase \in {"new", "installing"} THEN "bootstrapped" ELSE c.phase,
                 fingerprint |-> job[p].fingerprint, error |-> FALSE,
                 configuration |-> c.configuration])
    /\ UNCHANGED <<machine, inventory, holder, session, pc, job, todo, plan, local>>

Stop(p, n) ==
    /\ Step(p, n, "stopping", "done")
    /\ machine[n].exists
    /\ machine' = [machine EXCEPT ![n] = SwitchedOff(@)]
    /\ UNCHANGED <<checkpoint, inventory, holder, session, pc, job, todo, plan, local>>

\* teardown_node: the domain and its files go; a physical node is only
\* powered off.
Destroy(p, n) ==
    /\ Step(p, n, "destroying", "forgetting")
    /\ machine' = [machine EXCEPT ![n] =
           IF Provider = "helvetios" THEN SwitchedOff(@) ELSE NoMachine]
    /\ UNCHANGED <<checkpoint, inventory, holder, session, pc, job, todo, plan, local>>

Forget(p, n) ==
    /\ Step(p, n, "forgetting", "done")
    /\ Write(n, NewCheckpoint)
    /\ UNCHANGED <<machine, inventory, holder, session, pc, job, todo, plan, local>>

\* A start, a stop or a teardown that raised; a guest may still have shut down
\* after the deadline.
BackendFails(p, n) ==
    /\ \/ Step(p, n, "starting", "failing") /\ machine' = machine
       \/ /\ Step(p, n, "stopping", "failing")
          /\ \E m \in {machine[n], SwitchedOff(machine[n])} : machine' = [machine EXCEPT ![n] = m]
       \/ /\ Step(p, n, "destroying", "failing")
          /\ \E m \in HalfTornDown(n) : machine' = [machine EXCEPT ![n] = m]
    /\ UNCHANGED <<checkpoint, inventory, holder, session, pc, job, todo, plan, local>>

\* Mutant: the checkpoint is not written.
RecordErrorLost(p, n) ==
    /\ Step(p, n, "failing", "failed")
    /\ UNCHANGED <<durable, holder, session, pc, job, todo, plan, local>>

\* guarded: the failure is kept on the checkpoint as it is now.
RecordError(p, n) ==
    /\ Step(p, n, "failing", "failed")
    /\ Write(n, Erred(checkpoint[n]))
    /\ UNCHANGED <<machine, inventory, holder, session, pc, job, todo, plan, local>>

Worker(p, n) ==
    \/ Begin(p, n)   \/ Recheck(p, n)     \/ Record(p, n)       \/ Deploy(p, n)
    \/ DeployFails(p, n)                  \/ Start(p, n)        \/ Verify(p, n)
    \/ VerifyFails(p, n)                  \/ Commit(p, n)       \/ Stop(p, n)
    \/ Destroy(p, n) \/ Forget(p, n)      \/ BackendFails(p, n) \/ RecordError(p, n)
-----------------------------------------------------------------------------
(* One invocation, once its workers are done *)

ApplyFails(p) ==
    /\ pc[p] \in {"applying", "server"} /\ PoolDone(p) /\ PoolFailed(p)
    /\ Goto(p, "raised")
    /\ UNCHANGED <<durable, holder, session, job, todo, plan, worker, local>>

\* Mutant: the server's turn comes although a client has failed.
ClientsDoneAnyway(p) ==
    /\ pc[p] = "applying" /\ Ordered(p) /\ PoolDone(p)
    /\ worker' = [worker EXCEPT ![p] = Pool(ServerStage(p))]
    /\ Goto(p, "server")
    /\ UNCHANGED <<durable, holder, session, job, todo, plan, local>>

ClientsDone(p) ==
    /\ pc[p] = "applying" /\ Ordered(p) /\ PoolDone(p) /\ ~PoolFailed(p)
    /\ worker' = [worker EXCEPT ![p] = Pool(ServerStage(p))]
    /\ Goto(p, "server")
    /\ UNCHANGED <<durable, holder, session, job, todo, plan, local>>

Applied(p) ==
    /\ pc[p] = "server" \/ (pc[p] = "applying" /\ ~Ordered(p))
    /\ PoolDone(p) /\ ~PoolFailed(p)

\* Mutant: one ready target is enough.
NeedsConfigurationAll(p) ==
    \/ job[p].operation = "configure"
    \/ /\ job[p].operation = "up"
       /\ \A n \in Targets(p) : \/ checkpoint[n].phase # "ready"
                                \/ checkpoint[n].configuration # job[p].configuration

NeedsConfiguration(p) ==
    \/ job[p].operation = "configure"
    \/ /\ job[p].operation = "up"
       /\ \E n \in Targets(p) : \/ checkpoint[n].phase # "ready"
                                \/ checkpoint[n].configuration # job[p].configuration

Finish(p) ==
    /\ Applied(p) /\ ~NeedsConfiguration(p)
    /\ Goto(p, "returned")
    /\ UNCHANGED <<durable, holder, session, job, todo, plan, worker, local>>

BeginConfiguration(p) ==
    /\ Applied(p) /\ NeedsConfiguration(p)
    /\ Goto(p, "demoting")
    /\ todo' = [todo EXCEPT ![p] = Targets(p)]
    /\ UNCHANGED <<durable, holder, session, job, plan, worker, local>>

\* Mutant: the phase is left as it was.
DemoteNot(p) ==
    /\ pc[p] = "demoting"
    /\ \E n \in Nodes : Next1(p, n) /\ todo' = [todo EXCEPT ![p] = @ \ {n}]
    /\ UNCHANGED <<durable, holder, session, pc, job, plan, worker, local>>

\* No target stays ready while a playbook runs over it.
Demote(p) ==
    /\ pc[p] = "demoting"
    /\ \E n \in Nodes : /\ Next1(p, n)
                        /\ Write(n, Bootstrapped(checkpoint[n]))
                        /\ todo' = [todo EXCEPT ![p] = @ \ {n}]
    /\ UNCHANGED <<machine, inventory, holder, session, pc, job, plan, worker, local>>

Demoted(p) == pc[p] = "demoting" /\ todo[p] = {}
Playbook(p) == job[p].configuration \notin NoPlaybook
AllDeclared(p) == NfsServer # None => Targets(p) = Nodes

CheckAgain(p) ==
    /\ Goto(p, "checking")
    /\ worker' = [worker EXCEPT ![p] = Pool(Targets(p))]

FailConfiguration(p) ==
    /\ Goto(p, "failing")
    /\ todo' = [todo EXCEPT ![p] = Targets(p)]

\* configure: nothing to run under the profile "none".
SkipPlaybook(p) ==
    /\ Demoted(p) /\ ~Playbook(p)
    /\ CheckAgain(p)
    /\ UNCHANGED <<durable, holder, session, job, todo, plan, local>>

\* configure: an HPC profile is applied to the whole cluster or not at all.
RefuseConfiguration(p) ==
    /\ Demoted(p) /\ Playbook(p) /\ ~AllDeclared(p)
    /\ FailConfiguration(p)
    /\ UNCHANGED <<durable, holder, session, job, plan, worker, local>>

\* configure writes the inventory, under one name for the whole cluster, and
\* then starts the playbook, which reads it.
WriteInventory(p) ==
    /\ Demoted(p) /\ Playbook(p) /\ AllDeclared(p)
    /\ inventory' = [hosts |-> Targets(p), configuration |-> job[p].configuration]
    /\ Goto(p, "playbook")
    /\ UNCHANGED <<checkpoint, machine, holder, session, job, todo, plan, worker, local>>

Configured(hosts, c) ==
    machine' = [n \in Nodes |-> IF n \in hosts THEN Playing(machine[n], c) ELSE machine[n]]

\* The playbook, from the reading of the inventory to its end on the hosts listed.
RunPlaybook(p) ==
    /\ pc[p] = "playbook"
    /\ \A n \in inventory.hosts : MayReach(n)
    /\ Configured(inventory.hosts, inventory.configuration)
    /\ CheckAgain(p)
    /\ UNCHANGED <<checkpoint, inventory, holder, session, job, todo, plan, local>>

\* The playbook stopped half-way on the hosts it could reach, or timed out.
PlaybookFails(p) ==
    /\ pc[p] = "playbook"
    /\ \E hosts \in SUBSET {n \in inventory.hosts : MayReach(n)} : Configured(hosts, None)
    /\ FailConfiguration(p)
    /\ UNCHANGED <<checkpoint, inventory, holder, session, job, plan, worker, local>>

CheckFails(p) ==
    /\ pc[p] = "checking" /\ PoolDone(p) /\ PoolFailed(p)
    /\ FailConfiguration(p)
    /\ UNCHANGED <<durable, holder, session, job, plan, worker, local>>

CheckDone(p) ==
    /\ pc[p] = "checking" /\ PoolDone(p) /\ ~PoolFailed(p)
    /\ Goto(p, "readying")
    /\ todo' = [todo EXCEPT ![p] = Targets(p)]
    /\ UNCHANGED <<durable, holder, session, job, plan, worker, local>>

\* One turn of a loop that ends the invocation after its last target.
LastLoop(p, n, end) ==
    /\ Next1(p, n)
    /\ todo' = [todo EXCEPT ![p] = @ \ {n}]
    /\ pc' = IF todo[p] = {n} THEN [pc EXCEPT ![p] = end] ELSE pc
    /\ UNCHANGED <<machine, inventory, holder, session, job, plan, worker, local>>

\* Mutant: only the first target is noted.
NoteFailureFirst(p) ==
    /\ pc[p] = "failing"
    /\ \E n \in Nodes : Next1(p, n) /\ Write(n, Erred(checkpoint[n]))
    /\ Goto(p, "raised")
    /\ UNCHANGED <<machine, inventory, holder, session, job, todo, plan, worker, local>>

NoteFailure(p) ==
    /\ pc[p] = "failing"
    /\ \E n \in Nodes : /\ LastLoop(p, n, "raised")
                        /\ Write(n, Erred(checkpoint[n]))

MarkReady(p) ==
    /\ pc[p] = "readying"
    /\ \E n \in Nodes : /\ LastLoop(p, n, "returned")
                        /\ Write(n, [phase |-> "ready", fingerprint |-> job[p].fingerprint,
                                     error |-> FALSE, configuration |-> job[p].configuration])

\* The invocation is over: its session closes, its locks are free.
Leave(p) ==
    /\ Goto(p, "idle")
    /\ holder' = [k \in Keys |-> IF holder[k] = p THEN None ELSE holder[k]]
    /\ session' = [session EXCEPT ![p] = FALSE]
    /\ job' = [job EXCEPT ![p] = NoJob]
    /\ todo' = [todo EXCEPT ![p] = {}]
    /\ plan' = [plan EXCEPT ![p] = [n \in Nodes |-> Unplanned]]
    /\ worker' = [worker EXCEPT ![p] = Pool({})]
    /\ local' = [local EXCEPT ![p] = [n \in Nodes |-> NewCheckpoint]]
    /\ UNCHANGED durable

Release(p) == pc[p] \in {"returned", "raised"} /\ Leave(p)

Service(p) ==
    \/ Observe(p)       \/ ObserveFails(p)       \/ Refuse(p)         \/ StartWorkers(p)
    \/ SessionFails(p)  \/ ApplyFails(p)         \/ ClientsDone(p)    \/ Finish(p)
    \/ BeginConfiguration(p)                     \/ Demote(p)         \/ SkipPlaybook(p)
    \/ RefuseConfiguration(p)                    \/ WriteInventory(p) \/ RunPlaybook(p)
    \/ PlaybookFails(p) \/ CheckFails(p)         \/ CheckDone(p)      \/ NoteFailure(p)
    \/ MarkReady(p)     \/ Release(p)
-----------------------------------------------------------------------------
(* What happens around the program *)

\* The process is killed; the kernel drops its locks.
Kill(p) == pc[p] \notin {"idle", "returned", "raised"} /\ Leave(p)

PowerLoss(n) ==
    /\ "power" \in Surprises /\ machine[n].running
    /\ machine' = [machine EXCEPT ![n] = SwitchedOff(@)]
    /\ UNCHANGED <<checkpoint, inventory, holder, session, pc, job, todo, plan, worker, local>>

\* A domain and its disk are removed with other tools.
Remove(n) ==
    /\ "removal" \in Surprises /\ Provider = "libvirt" /\ machine[n].exists
    /\ machine' = [machine EXCEPT ![n] = NoMachine]
    /\ UNCHANGED <<checkpoint, inventory, holder, session, pc, job, todo, plan, worker, local>>

Init ==
    /\ checkpoint = [n \in Nodes |-> NewCheckpoint]
    /\ machine \in [Nodes -> {m \in Machines :
                        /\ m.system \in {None, Legacy} /\ m.configured = None
                        /\ m.exists <=> (Provider = "helvetios" \/ m.system # None)
                        /\ m.running => m.system # None}]
    /\ \A n \in Nodes \ Foreign : machine[n].system = None
    /\ inventory = [hosts |-> {}, configuration |-> None]
    /\ holder = [k \in Keys |-> None]
    /\ session = [p \in Services |-> FALSE]
    /\ pc = [p \in Services |-> "idle"]
    /\ job = [p \in Services |-> NoJob]
    /\ todo = [p \in Services |-> {}]
    /\ plan = [p \in Services |-> [n \in Nodes |-> Unplanned]]
    /\ worker = [p \in Services |-> Pool({})]
    /\ local = [p \in Services |-> [n \in Nodes |-> NewCheckpoint]]

Progress(p) == Service(p) \/ \E n \in Nodes : Worker(p, n)

Next ==
    \/ \E p \in Services : Invoke(p) \/ Progress(p) \/ Kill(p)
    \/ \E n \in Nodes : PowerLoss(n) \/ Remove(n)

Spec == Init /\ [][Next]_vars

\* Every call to the backend ends (each has a timeout), and the pool's threads run.
FairSpec == Spec /\ \A p \in Services : WF_vars(Progress(p))
-----------------------------------------------------------------------------
TypeOK ==
    /\ checkpoint \in [Nodes -> Checkpoints]
    /\ machine \in [Nodes -> Machines]
    /\ inventory \in Hosts
    /\ holder \in [Keys -> Services \cup {None}]
    /\ session \in [Services -> BOOLEAN]
    /\ pc \in [Services -> ServiceSteps]
    /\ job \in [Services -> Jobs]
    /\ todo \in [Services -> SUBSET Nodes]
    /\ plan \in [Services -> [Nodes -> Plans]]
    /\ worker \in [Services -> [Nodes -> WorkerSteps]]
    /\ local \in [Services -> [Nodes -> Checkpoints]]

\* No two invocations work on one node, or serve media on one endpoint, at a
\* time (service.py:213-232).
Exclusive ==
    \A p, q \in Services : p # q =>
        /\ Targets(p) \cap Targets(q) = {}
        /\ ~(ServesMedia /\ session[p] /\ session[q])

\* A node recorded as ready runs the configuration on its record, whatever was
\* retried, killed or half-applied before (service.py:293-322).
ReadyIsConfigured ==
    \A n \in Nodes :
        LET c == checkpoint[n] IN
        (c.phase = "ready" /\ machine[n].system # None /\ c.configuration \notin NoPlaybook)
            => machine[n].configured = c.configuration

\* A virtual machine the program installed is never without a checkpoint: a
\* kill at any step leaves it managed (service.py:258-265).
NoOrphan ==
    Provider = "libvirt" =>
        \A n \in Nodes : machine[n].system \in Fingerprints => checkpoint[n].phase # "new"

\* A playbook starts only over targets that all came through this invocation's
\* own verification: a node's failure aborts the configuration (service.py:199-204, 292-306).
ConfigurationNeedsEveryNode ==
    \A p \in Services : pc[p] = "playbook" =>
        \A n \in Targets(p) : /\ checkpoint[n].phase = "bootstrapped"
                              /\ checkpoint[n].fingerprint = job[p].fingerprint
                              /\ ~checkpoint[n].error

\* An `up` that returns leaves every target ready, with the manifest's own
\* fingerprints and no error, whichever of its stages it could skip.
UpDelivers ==
    \A p \in Services : (pc[p] = "returned" /\ job[p].operation = "up") =>
        \A n \in Targets(p) :
            checkpoint[n] = [phase |-> "ready", fingerprint |-> job[p].fingerprint,
                             error |-> FALSE, configuration |-> job[p].configuration]

\* A failure stays on record while its invocation lives: on the node whose
\* worker failed, on each target that a failed configuration came to, and on
\* all of them when an invocation raises although every worker succeeded
\* (service.py:193-197, 308-313).
FailureIsRecorded ==
    \A p \in Services : \A n \in Targets(p) :
        (\/ worker[p][n] = "failed"
         \/ pc[p] = "failing" /\ n \notin todo[p]
         \/ pc[p] = "raised" /\ \A m \in Targets(p) : worker[p][m] = "done")
            => checkpoint[n].error

\* An operation that was asked to replace or give up installed systems works
\* on the node.
Asked(n) == \E p \in Services :
    /\ n \in Targets(p) /\ pc[p] \in {"applying", "server"}
    /\ job[p].reinstall \/ job[p].operation = "destroy"

SystemKept(n) ==
    (Provider = "libvirt" /\ machine[n].system \in Fingerprints
     /\ machine'[n].system # machine[n].system) => Asked(n) \/ Remove(n)

RecordKept(n) ==
    (checkpoint[n].phase \in {"bootstrapped", "ready"}
     /\ checkpoint'[n].phase \in {"new", "installing"}) => Asked(n)

\* What is installed is replaced or given up only by an operation that was
\* asked to, a `destroy` or `--reinstall`: neither a virtual machine's system
\* nor, on any provider, the record of an installed node (service.py:136-164,
\* provider.py:188-191).
InstalledSystemKept == [][\A n \in Nodes : SystemKept(n) /\ RecordKept(n)]_vars

ServerStopsLast(p) ==
    (NfsServer # None /\ worker[p][NfsServer] \in {"stopping", "destroying"}
     /\ machine[NfsServer].running /\ ~machine'[NfsServer].running
     /\ worker' # worker)
    => \A n \in Targets(p) \ {NfsServer} :
           plan[p][n].action = "noop" \/ ~machine[n].running

\* The storage server is stopped only when every client of the operation is
\* down (service.py:279-290).
StorageOutlivesClients == [][\A p \in Services : ServerStopsLast(p)]_vars

\* What is taken in one step here is what Locks shows of keys taken one by one
\* (service.py:213-232).
Atomic == INSTANCE AtomicLocks
    WITH Invocations <- Services, taken <- [p \in Services |-> {k \in Keys : holder[k] = p}]
AtomicSpec == Atomic!Spec

\* A system the program did not install is not replaced or removed unless
\* `--reinstall` says so (docs/lifecycle.md:11-12).
UnmanagedProtected ==
    [][\A n \in Nodes :
        (machine[n].system = Legacy /\ machine'[n].system # Legacy)
          => Remove(n) \/ \E p \in Services : n \in Targets(p) /\ job[p].reinstall]_vars

\* Every invocation ends and gives its locks back.
InvocationsEnd == \A p \in Services : pc[p] # "idle" ~> pc[p] = "idle"
=============================================================================
