--------------------------- MODULE LifecycleProofs ---------------------------
(***************************************************************************)
(* Proofs about Lifecycle for any cluster, any number of invocations and   *)
(* any manifests, in four parts: its types and the exclusion its locks     *)
(* give; what it puts on record - that a failure is recorded, that         *)
(* configuration starts only over verified nodes, that `up` delivers; how  *)
(* records relate to machines - that no installed virtual machine is       *)
(* without a record, and that a node recorded as ready runs its            *)
(* configuration where a playbook has one writer of its inventory, which   *)
(* the runs show to be needed; and what a step may never do - replace or   *)
(* give up an installed system unasked, or stop the storage server before  *)
(* its clients.                                                            *)
(***************************************************************************)
EXTENDS Lifecycle, TLAPS

-----------------------------------------------------------------------------
(* Types *)

\* A pool that starts puts its nodes in the queue and every other one out.
LEMMA PoolType == \A ns \in SUBSET Nodes : Pool(ns) \in [Nodes -> WorkerSteps]
BY DEF Pool, WorkerSteps

\* The values that a node starts from are of their types.
LEMMA ValueTypes ==
    /\ NewCheckpoint \in Checkpoints
    /\ NoMachine \in Machines
    /\ NoJob \in Jobs
    /\ BareDisk \in Machines
    /\ Unplanned \in Plans
BY DEF NewCheckpoint, Checkpoints, Phases, NoMachine, BareDisk, Machines, NoJob, Jobs, AllOperations,
       Unplanned, Plans, Actions

\* Power and removal change a machine's power and disk, and nothing else of it.
LEMMA MachineFields ==
    ASSUME NEW m \in Machines
    PROVE  /\ m.exists \in BOOLEAN /\ m.running \in BOOLEAN
           /\ m.system \in Fingerprints \cup {Legacy, None}
           /\ SwitchedOn(m) \in Machines             /\ SwitchedOff(m) \in Machines
           /\ SwitchedOn(m).running                  /\ ~SwitchedOff(m).running
           /\ SwitchedOn(m).system = m.system        /\ SwitchedOff(m).system = m.system
           /\ SwitchedOn(m).configured = m.configured
           /\ SwitchedOff(m).configured = m.configured
           /\ Undefined(m) \in Machines              /\ Undefined(m).system = None
BY DEF Machines, SwitchedOn, SwitchedOff, Undefined

\* The playbook leaves a machine's system alone.
LEMMA PlayingFields ==
    ASSUME NEW m \in Machines, NEW c \in Configurations \cup {None}
    PROVE  /\ Playing(m, c) \in Machines /\ Playing(m, c).configured = c
           /\ Playing(m, c).system = m.system
BY DEF Machines, Playing

\* A failure or a new bootstrap rewrites one field of a checkpoint.
LEMMA CheckpointFields ==
    ASSUME NEW c \in Checkpoints
    PROVE  /\ Erred(c) \in Checkpoints               /\ Bootstrapped(c) \in Checkpoints
           /\ Erred(c).phase = c.phase               /\ Bootstrapped(c).phase = "bootstrapped"
           /\ Erred(c).error                         /\ Bootstrapped(c).error = c.error
           /\ Erred(c).fingerprint = c.fingerprint
           /\ Bootstrapped(c).fingerprint = c.fingerprint
           /\ Erred(c).configuration = c.configuration
           /\ Bootstrapped(c).configuration = c.configuration
BY DEF Checkpoints, Phases, Erred, Bootstrapped

\* What is planned for a node is one of the actions.
LEMMA ActionType ==
    ASSUME NEW n, NEW exists, NEW reachable, NEW j, j.operation \in AllOperations
    PROVE  Action(n, exists, reachable, j) \in Actions
BY DEF Action, Actions, AllOperations

\* A worker starts at one of its steps.
LEMMA OpeningType ==
    ASSUME NEW entry PROVE Opening(entry) \in WorkerSteps
BY DEF Opening, WorkerSteps, Active

\* A removal that fails part of the way leaves a machine.
LEMMA HalfTornDownType ==
    ASSUME NEW n, machine[n] \in Machines PROVE HalfTornDown(n) \subseteq Machines
<1>1. {machine[n], SwitchedOff(machine[n]), Undefined(machine[n]), NoMachine} \subseteq Machines
  BY ValueTypes, MachineFields
<1> QED
  BY <1>1 DEF HalfTornDown

\* Every step of a worker keeps the types of the state it writes.
LEMMA WorkerType ==
    ASSUME TypeOK, NEW p \in Services, NEW n \in Nodes, Worker(p, n)
    PROVE  TypeOK'
<1> USE DEF TypeOK, Step, Write, durable, WorkerSteps, Active
<1>a. machine[n] \in Machines /\ checkpoint[n] \in Checkpoints
  OBVIOUS
<1>1. CASE Begin(p, n)
  BY <1>1, OpeningType DEF Begin
<1>2. CASE Recheck(p, n)
  BY <1>2 DEF Recheck
<1>3. CASE Record(p, n)
  BY <1>3 DEF Record, Checkpoints, Phases, Jobs
<1>4. CASE Deploy(p, n)
  <2>1. \A s \in {job[p].fingerprint, None} :
           [exists |-> TRUE, running |-> TRUE, system |-> s, configured |-> None] \in Machines
    BY DEF Machines, Jobs
  <2>2. SwitchedOn(machine[n]) \in Machines
    BY <1>a, MachineFields
  <2>3. Deployed(n, job[p].fingerprint) \subseteq Machines
    BY <2>1, <2>2 DEF Deployed
  <2> QED
    BY <1>4, <2>3 DEF Deploy
<1>5. CASE DeployFails(p, n)
  <2>1. HalfDeployed(n) \subseteq Machines
    BY <1>a, HalfTornDownType, ValueTypes DEF HalfDeployed
  <2>2. machine' \in [Nodes -> Machines]
    BY <1>5, <1>a, <2>1 DEF DeployFails
  <2> QED
    BY <1>5, <2>2 DEF DeployFails
<1>6. CASE Start(p, n)
  <2>1. SwitchedOn(machine[n]) \in Machines
    BY <1>a, MachineFields
  <2>2. machine' \in [Nodes -> Machines]
    BY <1>6, <2>1 DEF Start
  <2> QED
    BY <1>6, <2>2 DEF Start
<1>7. CASE Verify(p, n)
  BY <1>a, <1>7, MachineFields DEF Verify
<1>8. CASE VerifyFails(p, n)
  <2>1. SwitchedOff(machine[n]) \in Machines
    BY <1>a, MachineFields
  <2>2. machine' \in [Nodes -> Machines]
    BY <1>8, <2>1 DEF VerifyFails
  <2> QED
    BY <1>8, <2>2 DEF VerifyFails
<1>9. CASE Commit(p, n)
  BY <1>9 DEF Commit, Checkpoints, Phases, Jobs
<1>10. CASE Stop(p, n)
  BY <1>a, <1>10, MachineFields DEF Stop
<1>11. CASE Destroy(p, n)
  <2>1. (IF Provider = "helvetios" THEN SwitchedOff(machine[n]) ELSE NoMachine) \in Machines
    BY <1>a, MachineFields, ValueTypes
  <2> QED
    BY <1>11, <2>1 DEF Destroy
<1>12. CASE Forget(p, n)
  BY <1>12, ValueTypes DEF Forget
<1>13. CASE BackendFails(p, n)
  <2>1. SwitchedOff(machine[n]) \in Machines
    BY <1>a, MachineFields
  <2>2. HalfTornDown(n) \subseteq Machines
    BY <1>a, HalfTornDownType
  <2>3. PICK m \in Machines : machine' = [machine EXCEPT ![n] = m]
    <3>1. machine = [machine EXCEPT ![n] = machine[n]]
      OBVIOUS
    <3> QED
      BY <1>13, <1>a, <2>1, <2>2, <3>1 DEF BackendFails
  <2>4. machine' \in [Nodes -> Machines]
    BY <2>3
  <2>5. worker' = [worker EXCEPT ![p][n] = "failing"]
    BY <1>13 DEF BackendFails
  <2> QED
    BY <1>13, <2>4, <2>5 DEF BackendFails
<1>14. CASE RecordError(p, n)
  BY <1>a, <1>14, CheckpointFields DEF RecordError
<1> QED
  BY <1>1, <1>2, <1>3, <1>4, <1>5, <1>6, <1>7, <1>8, <1>9, <1>10, <1>11, <1>12, <1>13, <1>14
  DEF Worker

\* An invocation that ends, or is killed, leaves the state in its types.
LEMMA LeaveType ==
    ASSUME TypeOK, NEW p \in Services, Leave(p) PROVE TypeOK'
BY PoolType, ValueTypes DEF Leave, Goto, TypeOK, ServiceSteps, durable

\* Every step of an invocation itself keeps the types of the state.
LEMMA ServiceType ==
    ASSUME TypeOK, NEW p \in Services, Service(p)
    PROVE  TypeOK'
<1> USE DEF TypeOK, Goto, Write, durable, ServiceSteps
<1>1. CASE Observe(p)
  <2> PICK n \in Nodes, reachable \in BOOLEAN :
         plan' = [plan EXCEPT ![p][n] =
                    [action |-> Action(n, Exists(n, reachable), reachable, job[p]),
                     running |-> machine[n].running]]
    <3>1. \A n \in Nodes : MayReach(n) \in BOOLEAN
      BY MachineFields DEF MayReach
    <3> QED
      BY <1>1, <3>1 DEF Observe
  <2>1. [action |-> Action(n, Exists(n, reachable), reachable, job[p]),
         running |-> machine[n].running] \in Plans
    BY ActionType, MachineFields DEF Plans, Jobs
  <2> QED
    BY <1>1, <2>1 DEF Observe
<1>2. CASE ObserveFails(p) \/ Refuse(p) \/ SessionFails(p) \/ ApplyFails(p) \/ Finish(p)
  <2>1. \/ pc' = [pc EXCEPT ![p] = "raised"]
        \/ pc' = [pc EXCEPT ![p] = "returned"]
    BY <1>2 DEF ObserveFails, Refuse, SessionFails, ApplyFails, Finish
  <2>2. UNCHANGED <<durable, holder, session, job, todo, plan, worker, local>>
    BY <1>2 DEF ObserveFails, Refuse, SessionFails, ApplyFails, Finish
  <2> QED
    BY <2>1, <2>2
<1>3. CASE StartWorkers(p)
  BY <1>3, PoolType DEF StartWorkers, NeedsSession, FirstStage, Targets, Jobs
<1>4. CASE ClientsDone(p)
  BY <1>4, PoolType DEF ClientsDone, ServerStage, Targets, Jobs
<1>5. CASE BeginConfiguration(p)
  BY <1>5 DEF BeginConfiguration, Targets, Jobs
<1>6. CASE Demote(p)
  BY <1>6, CheckpointFields DEF Demote
<1>7. CASE SkipPlaybook(p)
  BY <1>7, PoolType DEF SkipPlaybook, CheckAgain, Targets, Jobs
<1>8. CASE RefuseConfiguration(p)
  BY <1>8 DEF RefuseConfiguration, FailConfiguration, Targets, Jobs
<1>9. CASE WriteInventory(p)
  BY <1>9 DEF WriteInventory, Hosts, Targets, Jobs
<1>10. CASE RunPlaybook(p)
  <2>1. machine' \in [Nodes -> Machines]
    BY <1>10, PlayingFields DEF RunPlaybook, Configured, Hosts
  <2> QED
    BY <1>10, <2>1, PoolType DEF RunPlaybook, CheckAgain, Targets, Jobs
<1>11. CASE PlaybookFails(p)
  <2>1. machine' \in [Nodes -> Machines]
    BY <1>11, PlayingFields DEF PlaybookFails, Configured
  <2> QED
    BY <1>11, <2>1 DEF PlaybookFails, FailConfiguration, Targets, Jobs
<1>12. CASE CheckFails(p)
  BY <1>12 DEF CheckFails, FailConfiguration, Targets, Jobs
<1>13. CASE CheckDone(p)
  BY <1>13 DEF CheckDone, Targets, Jobs
<1>14. CASE NoteFailure(p)
  BY <1>14, CheckpointFields DEF NoteFailure, LastLoop
<1>15. CASE MarkReady(p)
  BY <1>15 DEF MarkReady, LastLoop, Checkpoints, Phases, Jobs
<1>16. CASE Release(p)
  BY <1>16, LeaveType DEF Release
<1> QED
  BY <1>1, <1>2, <1>3, <1>4, <1>5, <1>6, <1>7, <1>8, <1>9, <1>10, <1>11, <1>12, <1>13,
     <1>14, <1>15, <1>16 DEF Service

\* Every variable keeps its type; in particular each planned action has a first
\* step in the worker's `match` (service.py:252-270).
THEOREM TypeCorrect == Spec => []TypeOK
<1>1. Init => TypeOK
  BY PoolType, ValueTypes DEF Init, TypeOK, ServiceSteps, Hosts
<1>2. TypeOK /\ [Next]_vars => TypeOK'
  <2> SUFFICES ASSUME TypeOK, [Next]_vars PROVE TypeOK'
    OBVIOUS
  <2>1. ASSUME NEW p \in Services, Invoke(p) PROVE TypeOK'
    BY <2>1, OperationsAssumption DEF Invoke, TypeOK, Goto, ServiceSteps, Jobs, durable
  <2>2. ASSUME NEW p \in Services, Progress(p) PROVE TypeOK'
    BY <2>2, WorkerType, ServiceType DEF Progress
  <2>3. ASSUME NEW p \in Services, Kill(p) PROVE TypeOK'
    BY <2>3, LeaveType DEF Kill
  <2>4. ASSUME NEW n \in Nodes, PowerLoss(n) \/ Remove(n) PROVE TypeOK'
    <3>1. \E m \in Machines : machine' = [machine EXCEPT ![n] = m]
      BY <2>4, MachineFields, ValueTypes DEF PowerLoss, Remove, TypeOK
    <3> QED
      BY <2>4, <3>1 DEF PowerLoss, Remove, TypeOK
  <2>5. CASE UNCHANGED vars
    BY <2>5 DEF vars, TypeOK
  <2> QED
    BY <2>1, <2>2, <2>3, <2>4, <2>5 DEF Next
<1> QED
  BY <1>1, <1>2, PTL DEF Spec

-----------------------------------------------------------------------------
(* What a step leaves alone *)

\* The state of an invocation, but for its locks.
Own(p) == <<session[p], pc[p], job[p], todo[p], plan[p], worker[p], local[p]>>

\* A worker's step changes its own place, and its node.
LEMMA WorkerFrame ==
    ASSUME TypeOK, NEW p \in Services, NEW n \in Nodes, Worker(p, n)
    PROVE  /\ UNCHANGED <<inventory, holder, session, pc, job, todo, plan>>
           /\ \A m \in Nodes \ {n} : /\ checkpoint'[m] = checkpoint[m]
                                     /\ machine'[m] = machine[m]
                                     /\ worker'[p][m] = worker[p][m]
                                     /\ local'[p][m] = local[p][m]
           /\ \A q \in Services \ {p} : worker'[q] = worker[q] /\ local'[q] = local[q]
<1> USE DEF TypeOK, Step, Write, durable
<1>1. CASE Begin(p, n)
  BY <1>1 DEF Begin
<1>2. CASE Recheck(p, n)
  BY <1>2 DEF Recheck
<1>3. CASE Record(p, n)
  BY <1>3 DEF Record
<1>4. CASE Deploy(p, n) \/ DeployFails(p, n)
  BY <1>4 DEF Deploy, DeployFails
<1>5. CASE Start(p, n) \/ Verify(p, n) \/ VerifyFails(p, n)
  <2>1. CASE Start(p, n)
    BY <2>1 DEF Start
  <2>2. CASE Verify(p, n)
    BY <2>2 DEF Verify
  <2>3. CASE VerifyFails(p, n)
    BY <2>3 DEF VerifyFails
  <2> QED
    BY <1>5, <2>1, <2>2, <2>3
<1>6. CASE Commit(p, n) \/ RecordError(p, n)
  BY <1>6 DEF Commit, RecordError
<1>7. CASE Stop(p, n) \/ Destroy(p, n) \/ Forget(p, n)
  <2>1. CASE Stop(p, n)
    BY <2>1 DEF Stop
  <2>2. CASE Destroy(p, n)
    BY <2>2 DEF Destroy
  <2>3. CASE Forget(p, n)
    BY <2>3 DEF Forget
  <2> QED
    BY <1>7, <2>1, <2>2, <2>3
<1>8. CASE BackendFails(p, n)
  BY <1>8 DEF BackendFails
<1> QED
  BY <1>1, <1>2, <1>3, <1>4, <1>5, <1>6, <1>7, <1>8 DEF Worker

\* Nor does a step of an invocation change what another one is at, or take a
\* lock from it.
LEMMA OthersFrame ==
    ASSUME TypeOK, NEW p \in Services, NEW q \in Services \ {p},
           Invoke(p) \/ Progress(p) \/ Kill(p)
    PROVE  Own(q)' = Own(q) /\ \A k \in Keys : holder[k] = q => holder'[k] = q
<1> USE DEF TypeOK, Own, Goto, durable
<1>a. None \notin Services
  BY ValueAssumption
<1>1. CASE Invoke(p)
  BY <1>1, <1>a DEF Invoke
<1>2. CASE \E n \in Nodes : Worker(p, n)
  BY <1>2, WorkerFrame
<1>3. CASE Leave(p)
  BY <1>3 DEF Leave
<1>4. CASE Service(p)
  <2>1. CASE Observe(p) \/ ObserveFails(p) \/ Refuse(p) \/ StartWorkers(p) \/ SessionFails(p)
    BY <2>1 DEF Observe, ObserveFails, Refuse, StartWorkers, SessionFails
  <2>2. CASE ApplyFails(p) \/ ClientsDone(p) \/ Finish(p) \/ BeginConfiguration(p)
    BY <2>2 DEF ApplyFails, ClientsDone, Finish, BeginConfiguration
  <2>3. CASE Demote(p) \/ SkipPlaybook(p) \/ RefuseConfiguration(p) \/ WriteInventory(p)
    BY <2>3 DEF Demote, SkipPlaybook, RefuseConfiguration, WriteInventory, CheckAgain,
                FailConfiguration
  <2>4. CASE RunPlaybook(p) \/ PlaybookFails(p) \/ CheckFails(p) \/ CheckDone(p)
    BY <2>4 DEF RunPlaybook, PlaybookFails, CheckFails, CheckDone, CheckAgain, FailConfiguration
  <2>5. CASE NoteFailure(p) \/ MarkReady(p)
    BY <2>5 DEF NoteFailure, MarkReady, LastLoop
  <2>6. CASE Release(p)
    BY <2>6, <1>3 DEF Release
  <2> QED
    BY <1>4, <2>1, <2>2, <2>3, <2>4, <2>5, <2>6 DEF Service
<1> QED
  BY <1>1, <1>2, <1>3, <1>4 DEF Progress, Kill

\* Until it leaves, an invocation keeps its locks and its arguments.
LEMMA ServiceFrame ==
    ASSUME TypeOK, NEW p \in Services, Service(p), ~Leave(p)
    PROVE  /\ UNCHANGED <<holder, job, local>>
           /\ pc[p] # "idle" /\ pc'[p] # "idle"
           /\ ~StartWorkers(p) => session' = session
           /\ ~Observe(p) => plan' = plan
<1> USE DEF TypeOK, Goto, durable
<1>1. CASE Observe(p) \/ ObserveFails(p) \/ Refuse(p) \/ StartWorkers(p) \/ SessionFails(p)
  BY <1>1 DEF Observe, ObserveFails, Refuse, StartWorkers, SessionFails
<1>2. CASE ApplyFails(p) \/ ClientsDone(p) \/ Finish(p) \/ BeginConfiguration(p)
  BY <1>2 DEF ApplyFails, ClientsDone, Finish, BeginConfiguration, Applied
<1>3. CASE Demote(p) \/ SkipPlaybook(p) \/ RefuseConfiguration(p) \/ WriteInventory(p)
  BY <1>3 DEF Demote, SkipPlaybook, RefuseConfiguration, WriteInventory, CheckAgain,
              FailConfiguration, Demoted
<1>4. CASE RunPlaybook(p) \/ PlaybookFails(p) \/ CheckFails(p) \/ CheckDone(p)
  BY <1>4 DEF RunPlaybook, PlaybookFails, CheckFails, CheckDone, CheckAgain, FailConfiguration
<1>5. CASE NoteFailure(p) \/ MarkReady(p)
  BY <1>5 DEF NoteFailure, MarkReady, LastLoop
<1> QED
  BY <1>1, <1>2, <1>3, <1>4, <1>5 DEF Service, Release

-----------------------------------------------------------------------------
(* Exclusion *)

\* An invocation under way holds the lock of each target, and of the endpoint
\* if it may open a session.
HoldsLocks(p) ==
    /\ pc[p] = "idle" => job[p] = NoJob /\ plan[p] = [n \in Nodes |-> Unplanned]
    /\ pc[p] # "idle" => \A k \in LocksOf(job[p].operation, Targets(p)) : holder[k] = p

Installs(p) == job[p].operation \in {"up", "deploy"}

\* Only `up` and `deploy` install, and open a session to.
SessionToInstall(p) ==
    /\ \A n \in Nodes : plan[p][n].action \in Installing => Installs(p)
    /\ session[p] => Installs(p) /\ pc[p] # "idle"

LockInv == TypeOK /\ \A p \in Services : HoldsLocks(p) /\ SessionToInstall(p)

\* Only `up` and `deploy` plan an installation.
LEMMA ActionInstalls ==
    ASSUME NEW n, NEW exists, NEW reachable, NEW j, j.operation \in AllOperations,
           Action(n, exists, reachable, j) \in Installing
    PROVE  j.operation \in {"up", "deploy"}
BY DEF Action, Installing, AllOperations

\* No step leaves an invocation without its locks, or installing unasked.
LEMMA LockInvInductive ==
    ASSUME LockInv, TypeOK', [Next]_vars
    PROVE  LockInv'
<1> USE DEF LockInv
<1>a. \A q \in Services : LocksOf(job[q].operation, Targets(q)) \subseteq Keys
  BY DEF TypeOK, LocksOf, Targets, Jobs, Keys
<1>1. ASSUME NEW p \in Services, Invoke(p) \/ Progress(p) \/ Kill(p), NEW q \in Services \ {p}
      PROVE  HoldsLocks(q)' /\ SessionToInstall(q)'
  BY <1>1, <1>a, OthersFrame DEF Own, HoldsLocks, SessionToInstall, Installs, Targets
<1>2. ASSUME NEW p \in Services, Invoke(p) PROVE HoldsLocks(p)' /\ SessionToInstall(p)'
  <2>1. \A k \in LocksOf(job[p].operation, Targets(p))' : holder'[k] = p
    BY <1>2 DEF TypeOK, Invoke, LocksOf, Targets, Keys
  <2>2. pc'[p] = "planning" /\ ~session'[p] /\ plan'[p] = [n \in Nodes |-> Unplanned]
    BY <1>2 DEF TypeOK, Invoke, Idle, Goto, HoldsLocks, SessionToInstall
  <2> QED
    BY <2>1, <2>2 DEF HoldsLocks, SessionToInstall, Unplanned, Installing
<1>3. ASSUME NEW p \in Services, NEW n \in Nodes, Worker(p, n)
      PROVE  HoldsLocks(p)' /\ SessionToInstall(p)'
  BY <1>3, WorkerFrame DEF HoldsLocks, SessionToInstall, Installs, Targets
<1>4. ASSUME NEW p \in Services, Leave(p) PROVE HoldsLocks(p)' /\ SessionToInstall(p)'
  BY <1>4 DEF TypeOK, Leave, Goto, HoldsLocks, SessionToInstall, Unplanned, Installing
<1>5. ASSUME NEW p \in Services, Service(p), ~Leave(p)
      PROVE  HoldsLocks(p)' /\ SessionToInstall(p)'
  <2>1. HoldsLocks(p)'
    BY <1>5, ServiceFrame DEF HoldsLocks, Targets
  <2>2. CASE StartWorkers(p)
    <3>1. session'[p] => Installs(p)
      BY <2>2 DEF TypeOK, StartWorkers, NeedsSession, SessionToInstall, Targets, Jobs
    <3> QED
      BY <1>5, <2>1, <2>2, <3>1, ServiceFrame DEF SessionToInstall, Installs, StartWorkers
  <2>3. CASE Observe(p)
    <3>1. \A n \in Nodes : plan'[p][n].action \in Installing => Installs(p)
      BY <2>3, ActionInstalls DEF TypeOK, Observe, SessionToInstall, Installs, Jobs, Plans
    <3> QED
      BY <1>5, <2>1, <2>3, <3>1, ServiceFrame DEF SessionToInstall, Installs, Observe
  <2>4. CASE ~StartWorkers(p) /\ ~Observe(p)
    BY <1>5, <2>1, <2>4, ServiceFrame DEF SessionToInstall, Installs
  <2> QED
    BY <2>2, <2>3, <2>4
<1>6. ASSUME NEW n \in Nodes, PowerLoss(n) \/ Remove(n), NEW q \in Services
      PROVE  HoldsLocks(q)' /\ SessionToInstall(q)'
  BY <1>6 DEF PowerLoss, Remove, HoldsLocks, SessionToInstall, Installs, Targets
<1>7. ASSUME UNCHANGED vars, NEW q \in Services PROVE HoldsLocks(q)' /\ SessionToInstall(q)'
  BY <1>7 DEF vars, HoldsLocks, SessionToInstall, Installs, Targets
<1> QED
  BY <1>1, <1>2, <1>3, <1>4, <1>5, <1>6, <1>7 DEF Next, Progress, Kill

\* From its first step to its last an invocation holds the lock of each of its
\* targets, and only one that may install has a media session open
\* (service.py:213-232).
THEOREM LocksHeld == Spec => []LockInv
<1>1. Init /\ TypeOK => LockInv
  BY DEF Init, LockInv, HoldsLocks, SessionToInstall, Unplanned, Installing
<1>2. LockInv /\ [Next]_vars /\ TypeOK' => LockInv'
  BY LockInvInductive
<1> QED
  BY <1>1, <1>2, TypeCorrect, PTL DEF Spec

\* Those who hold a lock each do not work on the same node.
LEMMA LocksExclude == LockInv => Exclusive
<1> SUFFICES ASSUME LockInv, NEW p \in Services, NEW q \in Services, p # q
             PROVE  /\ Targets(p) \cap Targets(q) = {}
                    /\ ~(ServesMedia /\ session[p] /\ session[q])
  BY DEF Exclusive
<1>1. pc[p] = "idle" => Targets(p) = {}
  BY DEF LockInv, HoldsLocks, Targets, NoJob
<1>2. pc[q] = "idle" => Targets(q) = {}
  BY DEF LockInv, HoldsLocks, Targets, NoJob
<1>3. Targets(p) \cap Targets(q) = {}
  BY <1>1, <1>2 DEF LockInv, HoldsLocks, LocksOf
<1>4. ~(ServesMedia /\ session[p] /\ session[q])
  BY DEF LockInv, HoldsLocks, SessionToInstall, Installs, LocksOf
<1> QED
  BY <1>3, <1>4

\* Two invocations never work on one node, nor serve media on one endpoint, at
\* a time, however many run and whatever they target (service.py:213-232).
THEOREM Exclusion == Spec => []Exclusive
BY LocksExclude, LocksHeld, PTL

TakenBy(p) == {k \in Keys : holder[k] = p}
Taken == [p \in Services |-> TakenBy(p)]

\* An invocation that is not under way holds nothing.
IdleHoldsNothing == \A p \in Services : pc[p] = "idle" => \A k \in Keys : holder[k] # p

LEMMA LockStepsAreAtomic ==
    ASSUME TypeOK, IdleHoldsNothing, [Next]_vars
    PROVE  IdleHoldsNothing' /\ [Atomic!Next]_Taken
<1> USE DEF TypeOK, IdleHoldsNothing
<1>1. ASSUME NEW p \in Services, Invoke(p) PROVE IdleHoldsNothing' /\ [Atomic!Next]_Taken
  <2>1. PICK keys \in SUBSET Keys :
            /\ \A k \in keys : holder[k] = None
            /\ holder' = [k \in Keys |-> IF k \in keys THEN p ELSE holder[k]]
    <3>1. \A op, ns : ns \in SUBSET Nodes => LocksOf(op, ns) \in SUBSET Keys
      BY DEF LocksOf, Keys
    <3> QED
      BY <1>1, <3>1 DEF Invoke
  <2>2. pc[p] = "idle" /\ pc' = [pc EXCEPT ![p] = "planning"]
    BY <1>1 DEF Invoke, Idle, Goto
  <2>3. IdleHoldsNothing'
    BY <2>1, <2>2
  <2>4. Taken[p] = {} /\ Taken' = [Taken EXCEPT ![p] = keys]
    <3>1. TakenBy(p) = {}
      BY <2>2 DEF TakenBy
    <3>2. TakenBy(p)' = keys
      BY <2>1, <3>1 DEF TakenBy
    <3>3. ASSUME NEW q \in Services, q # p PROVE TakenBy(q)' = TakenBy(q)
      BY <2>1, <3>3, ValueAssumption DEF TakenBy
    <3>4. Taken' = [q \in Services |-> IF q = p THEN keys ELSE Taken[q]]
      BY <3>2, <3>3 DEF Taken
    <3> QED
      BY <3>1, <3>4 DEF Taken
  <2>5. \A q \in Services : Taken[q] \cap keys = {}
    BY <2>1, ValueAssumption DEF Taken, TakenBy
  <2>6. \E ks \in SUBSET Keys : Atomic!Take(p, ks)
    BY <2>4, <2>5 DEF Atomic!Take, Taken, TakenBy
  <2> QED
    BY <2>3, <2>6 DEF Atomic!Next
<1>2. ASSUME NEW p \in Services, Leave(p) PROVE IdleHoldsNothing' /\ [Atomic!Next]_Taken
  <2>1. /\ holder' = [k \in Keys |-> IF holder[k] = p THEN None ELSE holder[k]]
        /\ pc' = [pc EXCEPT ![p] = "idle"]
    BY <1>2 DEF Leave, Goto
  <2>2. IdleHoldsNothing'
    BY <2>1, ValueAssumption
  <2>3. Taken' = [Taken EXCEPT ![p] = {}]
    BY <2>1, ValueAssumption DEF Taken, TakenBy
  <2> QED
    BY <2>2, <2>3 DEF Atomic!Next, Atomic!GiveBack, Taken, TakenBy
<1>3. ASSUME UNCHANGED holder, \A p \in Services : pc'[p] = "idle" => pc[p] = "idle"
      PROVE  IdleHoldsNothing' /\ [Atomic!Next]_Taken
  BY <1>3 DEF Taken, TakenBy
<1>4. ASSUME NEW p \in Services, NEW n \in Nodes, Worker(p, n)
      PROVE  UNCHANGED holder /\ \A q \in Services : pc'[q] = "idle" => pc[q] = "idle"
  BY <1>4, WorkerFrame
<1>5. ASSUME NEW p \in Services, Service(p), ~Leave(p)
      PROVE  UNCHANGED holder /\ \A q \in Services : pc'[q] = "idle" => pc[q] = "idle"
  BY <1>5, ServiceFrame, OthersFrame DEF Progress, Own
<1>6. ASSUME NEW n \in Nodes, PowerLoss(n) \/ Remove(n)
      PROVE  UNCHANGED <<holder, pc>>
  BY <1>6 DEF PowerLoss, Remove
<1>7. CASE UNCHANGED vars
  BY <1>7, <1>3 DEF vars
<1> QED
  BY <1>1, <1>2, <1>3, <1>4, <1>5, <1>6, <1>7 DEF Next, Progress, Kill

\* Lifecycle takes and gives back locks as AtomicLocks has it, which is what the
\* locks of this host are to the work under them: an invocation takes no lock
\* while it has some (service.py:213-232).
THEOREM LocksAreAtomic == Spec => AtomicSpec
<1>1. Init => Atomic!Init /\ IdleHoldsNothing
  BY ValueAssumption DEF Init, Atomic!Init, IdleHoldsNothing
<1>2. TypeOK /\ IdleHoldsNothing /\ [Next]_vars => IdleHoldsNothing' /\ [Atomic!Next]_Taken
  BY LockStepsAreAtomic
<1> QED
  BY <1>1, <1>2, TypeCorrect, PTL DEF Spec, AtomicSpec, Atomic!Spec, Taken, TakenBy
-----------------------------------------------------------------------------
(* How an invocation and its workers advance *)

\* The operations whose workers end in a verified, committed checkpoint.
Commits(p) == job[p].operation \in {"up", "deploy", "configure"}

\* Only targets have workers, and none while it plans; outside the three stages
\* that run a pool every worker has ended; past a pool of which none failed.
PoolShape(p) ==
    /\ todo[p] \subseteq Targets(p)
    /\ \A n \in Nodes : worker[p][n] # "out" => n \in Targets(p) /\ pc[p] # "planning"
    /\ pc[p] \notin {"applying", "server", "checking"} => PoolDone(p)
    /\ pc[p] \in {"demoting", "playbook", "readying", "returned"} => ~PoolFailed(p)
    /\ pc[p] = "checking" => \A n \in Nodes :
           worker[p][n] \in {"out", "queued", "verifying", "failing", "done", "failed"}

\* Which operations reach which stage.
Stages(p) ==
    /\ pc[p] \in {"demoting", "playbook", "checking", "failing", "readying"} =>
           job[p].operation \in {"up", "configure"}
    /\ pc[p] = "server" => ~Commits(p)
    /\ (pc[p] = "applying" /\ Commits(p)) => \A n \in Targets(p) : worker[p][n] # "out"

\* What was planned fits the operation, and so does what is being done: under
\* `up`, `deploy` and `configure` every target's worker ends by committing.
PlanFits(p) ==
    Commits(p) =>
        /\ pc[p] \notin {"idle", "raised"} =>
               \A n \in Targets(p) : \/ n \in todo[p] /\ pc[p] = "planning"
                                     \/ plan[p][n].action \notin {"noop", "down", "destroy"}
        /\ \A n \in Nodes : worker[p][n] \notin {"stopping", "destroying", "forgetting"}

Control(p) == PoolShape(p) /\ Stages(p) /\ PlanFits(p)

ControlInv == LockInv /\ \A p \in Services : Control(p)

\* Neither `up`, `deploy` nor `configure` plans to do nothing, stop or destroy.
LEMMA ActionCommits ==
    ASSUME NEW n, NEW exists, NEW reachable, NEW j, j.operation \in {"up", "deploy", "configure"}
    PROVE  Action(n, exists, reachable, j) \notin {"noop", "down", "destroy"}
BY DEF Action

\* A worker's step keeps its invocation's stages in order, and is on a target.
LEMMA WorkerControl ==
    ASSUME ControlInv, NEW p \in Services, NEW n \in Nodes, Worker(p, n)
    PROVE  Control(p)' /\ n \in Targets(p)
<1> USE DEF ControlInv, LockInv, TypeOK, Step
<1>a. Control(p) /\ worker[p] \in [Nodes -> WorkerSteps]
  OBVIOUS
<1>b. /\ UNCHANGED <<pc, job, todo, plan>>
      /\ \A m \in Nodes \ {n} : worker'[p][m] = worker[p][m]
  BY WorkerFrame
<1>c. worker[p][n] \notin {"out", "done", "failed"}
  BY DEF Worker, Begin, Recheck, Record, Deploy, DeployFails, Start, Verify, VerifyFails, Commit,
         Stop, Destroy, Forget, BackendFails, RecordError
<1>d. n \in Targets(p) /\ pc[p] \in {"applying", "server", "checking"}
  BY <1>a, <1>c DEF Control, PoolShape, PoolDone
<1>e. worker'[p][n] # "out"
  BY <1>d DEF Worker, Begin, Recheck, Record, Deploy, DeployFails, Start, Verify, VerifyFails, Commit,
         Stop, Destroy, Forget, BackendFails, RecordError, Opening
<1>f. pc[p] = "checking" => worker'[p][n] \in {"verifying", "failing", "done", "failed"}
  <2>1. CASE BackendFails(p, n)
    BY <1>a, <2>1 DEF BackendFails
  <2>2. CASE RecordError(p, n) \/ Recheck(p, n) \/ VerifyFails(p, n) \/ DeployFails(p, n)
    BY <1>a, <2>2 DEF RecordError, Recheck, VerifyFails, DeployFails
  <2>3. CASE Verify(p, n)
    BY <1>a, <2>3 DEF Verify
  <2>4. CASE Record(p, n) \/ Deploy(p, n) \/ Start(p, n) \/ Commit(p, n) \/ Stop(p, n)
             \/ Destroy(p, n) \/ Forget(p, n)
    BY <1>a, <2>4 DEF Control, PoolShape, Record, Deploy, Start, Commit, Stop, Destroy, Forget
  <2>5. CASE Begin(p, n)
    BY <2>5 DEF Begin
  <2> QED
    BY <2>1, <2>2, <2>3, <2>4, <2>5 DEF Worker
<1>g. Commits(p) => worker'[p][n] \notin {"stopping", "destroying", "forgetting"}
  <2> SUFFICES ASSUME Commits(p)
               PROVE  worker'[p][n] \notin {"stopping", "destroying", "forgetting"}
    OBVIOUS
  <2>1. plan[p][n].action \notin {"noop", "down", "destroy"}
    BY <1>a, <1>d DEF Control, PlanFits
  <2> QED
    BY <1>a, <2>1 DEF Control, PlanFits, Worker, Begin, Recheck, Record, Deploy, DeployFails, Start,
         Verify, VerifyFails, Commit, Stop, Destroy, Forget, BackendFails, RecordError, Opening
<1>1. PoolShape(p)'
  BY <1>a, <1>b, <1>d, <1>f DEF Control, PoolShape, Targets
<1>2. Stages(p)'
  <2>1. \A m \in Nodes : worker[p][m] # "out" => worker'[p][m] # "out"
    BY <1>b, <1>e
  <2>2. Targets(p) \subseteq Nodes
    BY DEF Targets, Jobs
  <2> QED
    BY <1>a, <1>b, <2>1, <2>2 DEF Control, Stages, Targets, Commits
<1>3. PlanFits(p)'
  BY <1>a, <1>b, <1>g DEF Control, PlanFits, Targets, Commits
<1> QED
  BY <1>d, <1>1, <1>2, <1>3 DEF Control

\* An invocation's own step keeps its stages in order.
LEMMA ServiceControl ==
    ASSUME ControlInv, NEW p \in Services, Service(p), ~Leave(p)
    PROVE  Control(p)'
<1> USE DEF ControlInv, LockInv, TypeOK, Goto, durable
<1>a. /\ Control(p) /\ worker[p] \in [Nodes -> WorkerSteps]
      /\ Targets(p) \subseteq Nodes
  BY DEF Targets, Jobs
<1>b. /\ job' = job /\ pc[p] # "idle" /\ pc'[p] # "idle"
      /\ ~Observe(p) => plan' = plan
  BY ServiceFrame
<1>1. CASE Observe(p)
  <2> PICK n \in Nodes, reachable \in {TRUE, FALSE} :
        /\ Next1(p, n) /\ todo' = [todo EXCEPT ![p] = @ \ {n}]
        /\ plan' = [plan EXCEPT ![p][n] =
               [action |-> Action(n, Exists(n, reachable), reachable, job[p]),
                running |-> machine[n].running]]
    BY <1>1, MachineFields DEF Observe, MayReach
  <2>1. /\ todo'[p] = todo[p] \ {n} /\ UNCHANGED <<pc, worker>>
        /\ \A m \in Nodes \ {n} : plan'[p][m] = plan[p][m]
        /\ plan'[p][n].action = Action(n, Exists(n, reachable), reachable, job[p])
    BY <1>1 DEF Observe, Plans
  <2>2. Commits(p) => plan'[p][n].action \notin {"noop", "down", "destroy"}
    BY <2>1, ActionCommits DEF Commits
  <2>3. PlanFits(p)'
    BY <1>a, <1>b, <2>1, <2>2 DEF Control, PlanFits, Targets, Commits
  <2> QED
    BY <1>a, <1>b, <2>1, <2>3 DEF Control, PoolShape, Stages, Targets, Commits, PoolDone, PoolFailed
<1>2. CASE ObserveFails(p) \/ Refuse(p) \/ SessionFails(p) \/ ApplyFails(p)
  <2>1. /\ pc'[p] = "raised" /\ PoolDone(p)
        /\ UNCHANGED <<todo, plan, worker>>
    BY <1>a, <1>2 DEF ObserveFails, Refuse, SessionFails, ApplyFails, Control, PoolShape
  <2> QED
    BY <1>a, <1>b, <2>1 DEF Control, PoolShape, Stages, PlanFits, Targets, Commits, PoolDone
<1>3. CASE StartWorkers(p)
  <2>1. /\ pc[p] = "planning" /\ pc'[p] = "applying" /\ UNCHANGED todo /\ todo[p] = {}
        /\ worker'[p] = Pool(FirstStage(p))
    BY <1>3 DEF StartWorkers
  <2>2. /\ \A n \in Nodes : /\ worker'[p][n] \in {"queued", "out"}
                            /\ worker'[p][n] = "queued" <=> n \in FirstStage(p)
        /\ FirstStage(p) \subseteq Targets(p)
        /\ Commits(p) => FirstStage(p) = Targets(p)
    BY <2>1 DEF Pool, FirstStage, Ordered, Commits
  <2>3. PoolShape(p)' /\ Stages(p)'
    BY <1>a, <1>b, <2>1, <2>2 DEF Control, PoolShape, Stages, Targets, Commits
  <2>4. plan' = plan
    BY <1>3 DEF StartWorkers
  <2>5. PlanFits(p)'
    BY <1>a, <1>b, <2>1, <2>2, <2>4 DEF Control, PlanFits, Targets, Commits
  <2> QED
    BY <2>3, <2>5 DEF Control
<1>4. CASE ClientsDone(p)
  <2>1. /\ pc'[p] = "server" /\ UNCHANGED todo /\ worker'[p] = Pool(ServerStage(p))
        /\ ~Commits(p)
    BY <1>4 DEF ClientsDone, Ordered, Commits
  <2>2. \A n \in Nodes : worker'[p][n] # "out" => n \in Targets(p)
    BY <2>1 DEF Pool, ServerStage
  <2> QED
    BY <1>a, <1>b, <2>1, <2>2 DEF Control, PoolShape, Stages, PlanFits, Targets, Commits
<1>5. CASE Finish(p)
  <2>1. /\ pc'[p] = "returned" /\ PoolDone(p) /\ ~PoolFailed(p) /\ UNCHANGED <<todo, worker>>
        /\ pc[p] \in {"applying", "server"}
    BY <1>5 DEF Finish, Applied
  <2> QED
    BY <1>a, <1>b, <1>5, <2>1 DEF Control, PoolShape, Stages, PlanFits, Targets, Commits, PoolDone,
       PoolFailed, Finish
<1>6. CASE BeginConfiguration(p)
  <2>1. /\ pc'[p] = "demoting" /\ PoolDone(p) /\ ~PoolFailed(p) /\ UNCHANGED <<plan, worker>>
        /\ todo'[p] = Targets(p) /\ job[p].operation \in {"up", "configure"}
        /\ pc[p] \in {"applying", "server"}
    BY <1>6 DEF BeginConfiguration, Applied, NeedsConfiguration
  <2> QED
    BY <1>a, <1>b, <2>1 DEF Control, PoolShape, Stages, PlanFits, Targets, Commits, PoolDone, PoolFailed
<1>7. CASE Demote(p) \/ WriteInventory(p)
  <2>1. /\ pc[p] = "demoting" /\ pc'[p] \in {"demoting", "playbook"} /\ UNCHANGED <<plan, worker>>
        /\ todo'[p] \subseteq todo[p]
    BY <1>7 DEF Demote, WriteInventory, Demoted
  <2> QED
    BY <1>a, <1>b, <2>1 DEF Control, PoolShape, Stages, PlanFits, Targets, Commits, PoolDone, PoolFailed
<1>8. CASE SkipPlaybook(p) \/ RunPlaybook(p)
  <2>1. /\ pc[p] \in {"demoting", "playbook"} /\ pc'[p] = "checking" /\ UNCHANGED <<plan, todo>>
        /\ worker'[p] = Pool(Targets(p))
    BY <1>8 DEF SkipPlaybook, RunPlaybook, CheckAgain, Demoted
  <2>2. \A n \in Nodes : /\ worker'[p][n] \in {"queued", "out"}
                         /\ worker'[p][n] = "queued" <=> n \in Targets(p)
    BY <2>1 DEF Pool
  <2> QED
    BY <1>a, <1>b, <2>1, <2>2 DEF Control, PoolShape, Stages, PlanFits, Targets, Commits
<1>9. CASE RefuseConfiguration(p) \/ PlaybookFails(p) \/ CheckFails(p)
  <2>1. /\ pc[p] \in {"demoting", "playbook", "checking"} /\ pc'[p] = "failing"
        /\ UNCHANGED <<plan, worker>> /\ todo'[p] = Targets(p) /\ PoolDone(p)
    BY <1>a, <1>9 DEF RefuseConfiguration, PlaybookFails, CheckFails, FailConfiguration, Demoted,
       Control, PoolShape
  <2> QED
    BY <1>a, <1>b, <2>1 DEF Control, PoolShape, Stages, PlanFits, Targets, Commits, PoolDone
<1>10. CASE CheckDone(p)
  <2>1. /\ pc[p] = "checking" /\ pc'[p] = "readying" /\ PoolDone(p) /\ ~PoolFailed(p)
        /\ UNCHANGED <<plan, worker>> /\ todo'[p] = Targets(p)
    BY <1>10 DEF CheckDone
  <2> QED
    BY <1>a, <1>b, <2>1 DEF Control, PoolShape, Stages, PlanFits, Targets, Commits, PoolDone, PoolFailed
<1>11. CASE NoteFailure(p)
  <2>1. /\ pc[p] = "failing" /\ pc'[p] \in {"failing", "raised"} /\ UNCHANGED <<plan, worker>>
        /\ todo'[p] \subseteq todo[p]
    BY <1>11 DEF NoteFailure, LastLoop
  <2> QED
    BY <1>a, <1>b, <2>1 DEF Control, PoolShape, Stages, PlanFits, Targets, Commits, PoolDone
<1>12. CASE MarkReady(p)
  <2>1. /\ pc[p] = "readying" /\ pc'[p] \in {"readying", "returned"} /\ UNCHANGED <<plan, worker>>
        /\ todo'[p] \subseteq todo[p]
    BY <1>12 DEF MarkReady, LastLoop
  <2> QED
    BY <1>a, <1>b, <2>1 DEF Control, PoolShape, Stages, PlanFits, Targets, Commits, PoolDone, PoolFailed
<1> QED
  BY <1>1, <1>2, <1>3, <1>4, <1>5, <1>6, <1>7, <1>8, <1>9, <1>10, <1>11, <1>12
  DEF Service, Release

\* Every step keeps the stages of every invocation in order.
LEMMA ControlInvInductive ==
    ASSUME ControlInv, LockInv', [Next]_vars
    PROVE  ControlInv'
<1> USE DEF ControlInv
<1>a. TypeOK
  BY DEF LockInv
<1> DEFINE Kept(q) == UNCHANGED <<pc[q], job[q], todo[q], plan[q], worker[q]>>
<1>b. \A q \in Services : Kept(q) => Control(q)'
  BY DEF Control, PoolShape, Stages, PlanFits, Targets, Commits, PoolDone, PoolFailed
<1>1. ASSUME NEW p \in Services, Invoke(p) \/ Progress(p) \/ Kill(p), NEW q \in Services \ {p}
      PROVE  Control(q)'
  BY <1>1, <1>a, <1>b, OthersFrame DEF Own
<1>2. ASSUME NEW p \in Services, Invoke(p) PROVE Control(p)'
  <2>1. \A n \in Nodes : worker[p][n] = "out"
    BY <1>2 DEF Control, PoolShape, LockInv, HoldsLocks, Invoke, Idle, Targets, NoJob
  <2>2. pc'[p] = "planning" /\ worker' = worker /\ todo'[p] = Targets(p)'
    BY <1>2, <1>a DEF Invoke, Goto, TypeOK, Targets
  <2>3. PoolShape(p)' /\ Stages(p)'
    BY <2>1, <2>2 DEF PoolShape, Stages, PoolDone
  <2>4. PlanFits(p)'
    BY <2>1, <2>2 DEF PlanFits
  <2> QED
    BY <2>3, <2>4 DEF Control
<1>3. ASSUME NEW p \in Services, NEW n \in Nodes, Worker(p, n) PROVE Control(p)'
  BY <1>3, WorkerControl
<1>4. ASSUME NEW p \in Services, Leave(p) PROVE Control(p)'
  <2>1. pc'[p] = "idle" /\ todo'[p] = {} /\ \A n \in Nodes : worker'[p][n] = "out"
    BY <1>4, <1>a DEF Leave, Goto, TypeOK, Pool
  <2> QED
    BY <2>1 DEF Control, PoolShape, Stages, PlanFits, PoolDone
<1>5. ASSUME NEW p \in Services, Service(p), ~Leave(p) PROVE Control(p)'
  BY <1>5, ServiceControl
<1>6. ASSUME NEW n \in Nodes, PowerLoss(n) \/ Remove(n), NEW q \in Services PROVE Control(q)'
  BY <1>6, <1>b DEF PowerLoss, Remove
<1>7. ASSUME UNCHANGED vars, NEW q \in Services PROVE Control(q)'
  BY <1>7, <1>b DEF vars
<1> QED
  BY <1>1, <1>2, <1>3, <1>4, <1>5, <1>6, <1>7 DEF Next, Progress, Kill

\* The stages of an invocation come in order: after the pool no worker still
\* runs, and configuration comes only after a pool in which none failed
\* (service.py:193-232, 287-323).
THEOREM ControlHolds == Spec => []ControlInv
<1>1. Init /\ LockInv => ControlInv
  BY DEF Init, ControlInv, Control, PoolShape, Stages, PlanFits, PoolDone, Pool, Commits, NoJob
<1>2. ControlInv /\ [Next]_vars /\ LockInv' => ControlInv'
  BY ControlInvInductive
<1> QED
  BY <1>1, <1>2, LocksHeld, PTL DEF Spec

-----------------------------------------------------------------------------
(* What is on record *)

Committed(p, n) == /\ checkpoint[n].fingerprint = job[p].fingerprint
                   /\ ~checkpoint[n].error

ReadyRecord(p) == [phase |-> "ready", fingerprint |-> job[p].fingerprint,
                   error |-> FALSE, configuration |-> job[p].configuration]

\* A worker's own copy is what is on record until it commits; the installation
\* is on record before the machine is touched, a failure afterwards.
WorkerRecords(p, n) ==
    /\ (pc[p] \in {"applying", "server"}
        /\ worker[p][n] \in {"recording", "deploying", "starting", "verifying", "committing"})
           => local[p][n] = checkpoint[n]
    /\ worker[p][n] = "deploying" => checkpoint[n].phase = "installing"
    /\ worker[p][n] = "failed" => checkpoint[n].error
    /\ (Commits(p) /\ pc[p] = "applying" /\ worker[p][n] = "done") => Committed(p, n)

\* What the stages after the pool find and leave on record.
StageRecords(p, n) ==
    /\ pc[p] \in {"demoting", "playbook"} => Committed(p, n)
    /\ (pc[p] = "demoting" /\ n \notin todo[p]) => checkpoint[n].phase = "bootstrapped"
    /\ pc[p] \in {"playbook", "checking", "failing"} => checkpoint[n].phase = "bootstrapped"
    /\ (pc[p] = "failing" /\ n \notin todo[p]) => checkpoint[n].error
    /\ (pc[p] = "raised" /\ \A m \in Targets(p) : worker[p][m] = "done") => checkpoint[n].error
    /\ (pc[p] = "readying" /\ n \notin todo[p]) => checkpoint[n] = ReadyRecord(p)
    /\ (pc[p] = "returned" /\ job[p].operation = "up") => checkpoint[n] = ReadyRecord(p)

Records(p) == \A n \in Targets(p) : WorkerRecords(p, n) /\ StageRecords(p, n)

RecordInv == ControlInv /\ \A p \in Services : Records(p)

\* An invocation writes the checkpoints of its targets only.
LEMMA WritesTargets ==
    ASSUME ControlInv, NEW p \in Services, Invoke(p) \/ Progress(p) \/ Kill(p),
           NEW n \in Nodes \ Targets(p)
    PROVE  checkpoint'[n] = checkpoint[n]
<1>a. TypeOK /\ todo[p] \subseteq Targets(p)
  BY DEF ControlInv, LockInv, Control, PoolShape
<1>1. ASSUME NEW m \in Nodes, Worker(p, m) PROVE checkpoint'[n] = checkpoint[n]
  BY <1>1, <1>a, WorkerControl, WorkerFrame
<1>2. CASE Leave(p) \/ Invoke(p)
  BY <1>2 DEF Leave, Invoke, durable
<1>3. CASE Service(p)
  <2>1. CASE Demote(p) \/ NoteFailure(p) \/ MarkReady(p)
    <3>1. \E m \in todo[p] : \E c : checkpoint' = [checkpoint EXCEPT ![m] = c]
      BY <2>1 DEF Demote, NoteFailure, MarkReady, LastLoop, Next1, Write
    <3> QED
      BY <1>a, <3>1 DEF TypeOK
  <2>2. CASE ~(Demote(p) \/ NoteFailure(p) \/ MarkReady(p))
    BY <1>2, <1>3, <2>2 DEF Service, Observe, ObserveFails, Refuse, StartWorkers, SessionFails,
       ApplyFails, ClientsDone, Finish, BeginConfiguration, SkipPlaybook, RefuseConfiguration,
       WriteInventory, RunPlaybook, PlaybookFails, CheckFails, CheckDone, Release, durable
  <2> QED
    BY <2>1, <2>2
<1> QED
  BY <1>1, <1>2, <1>3 DEF Progress, Kill

\* What is on record for an invocation stays when neither it nor its nodes'
\* checkpoints change.
LEMMA RecordsFrame ==
    ASSUME NEW p, Records(p), Own(p)' = Own(p),
           \A n \in Targets(p) : checkpoint'[n] = checkpoint[n]
    PROVE  Records(p)'
<1>1. UNCHANGED <<pc[p], job[p], todo[p], worker[p], local[p]>>
  BY DEF Own
<1> SUFFICES ASSUME NEW n \in Targets(p) PROVE WorkerRecords(p, n)' /\ StageRecords(p, n)'
  BY <1>1 DEF Records, Targets
<1>2. WorkerRecords(p, n) /\ StageRecords(p, n) /\ checkpoint'[n] = checkpoint[n]
  BY DEF Records
<1>3. WorkerRecords(p, n)'
  BY <1>1, <1>2 DEF WorkerRecords, Committed, Commits
<1>4. StageRecords(p, n)'
  BY <1>1, <1>2 DEF StageRecords, Committed, ReadyRecord, Targets
<1> QED
  BY <1>3, <1>4

\* A worker's step leaves on record what its stage promises.
LEMMA WorkerKeepsRecords ==
    ASSUME RecordInv, NEW p \in Services, NEW n \in Nodes, Worker(p, n)
    PROVE  Records(p)'
<1> USE DEF RecordInv, ControlInv, LockInv, TypeOK, Step, Write, durable
<1>a. /\ n \in Targets(p) /\ pc[p] \in {"applying", "server", "checking"}
      /\ Targets(p) \subseteq Nodes
      /\ checkpoint[n] \in Checkpoints
  <2>1. n \in Targets(p) /\ Targets(p) \subseteq Nodes
    BY WorkerControl DEF Targets, Jobs
  <2>2. worker[p][n] \notin {"out", "done", "failed"}
    BY DEF Worker, Begin, Recheck, Record, Deploy, DeployFails, Start, Verify, VerifyFails, Commit,
           Stop, Destroy, Forget, BackendFails, RecordError
  <2> QED
    BY <2>1, <2>2 DEF Control, PoolShape, PoolDone
<1>b. /\ UNCHANGED <<pc, job, todo>>
      /\ \A m \in Nodes \ {n} : /\ worker'[p][m] = worker[p][m] /\ local'[p][m] = local[p][m]
                                /\ checkpoint'[m] = checkpoint[m]
  BY WorkerFrame
<1>c. \A m \in Targets(p) \ {n} : WorkerRecords(p, m)' /\ StageRecords(p, m)'
  BY <1>a, <1>b DEF Records, WorkerRecords, StageRecords, Committed, ReadyRecord, Commits, Targets
<1>d. WorkerRecords(p, n) /\ StageRecords(p, n)
  BY <1>a DEF Records
<1>e. pc[p] = "checking" => checkpoint'[n].phase = checkpoint[n].phase
  <2> SUFFICES ASSUME pc[p] = "checking" PROVE checkpoint'[n].phase = checkpoint[n].phase
    OBVIOUS
  <2>1. worker[p][n] \notin {"recording", "committing", "forgetting"}
    BY <1>a DEF Control, PoolShape
  <2>2. CASE RecordError(p, n)
    BY <1>a, <2>2, CheckpointFields DEF RecordError
  <2>3. CASE ~RecordError(p, n)
    <3>1. checkpoint' = checkpoint
      BY <2>1, <2>3 DEF Worker, Begin, Recheck, Record, Deploy, DeployFails, Start, Verify,
         VerifyFails, Commit, Stop, Destroy, Forget, BackendFails
    <3> QED
      BY <3>1
  <2> QED
    BY <2>2, <2>3
<1>f. StageRecords(p, n)'
  BY <1>a, <1>b, <1>d, <1>e DEF StageRecords
<1>1. CASE Begin(p, n)
  <2>1. worker'[p][n] \in {"done", "stopping", "destroying", "recording", "verifying", "starting"}
        /\ local'[p][n] = checkpoint[n] /\ checkpoint' = checkpoint
    BY <1>1, <1>a DEF Begin, Opening
  <2>2. Commits(p) => worker'[p][n] # "done"
    BY <1>1, <1>a DEF Begin, Opening, Control, PlanFits
  <2> QED
    BY <1>b, <1>c, <1>f, <2>1, <2>2 DEF Records, WorkerRecords, Commits, Targets
<1>2. CASE Recheck(p, n)
  BY <1>2, <1>b, <1>c, <1>f DEF Recheck, Records, WorkerRecords, Targets
<1>3. CASE Record(p, n)
  BY <1>3, <1>b, <1>c, <1>f DEF Record, Records, WorkerRecords, Targets
<1>4. CASE Deploy(p, n) \/ Start(p, n)
  BY <1>4, <1>b, <1>c, <1>d, <1>f DEF Deploy, Start, Records, WorkerRecords, Targets
<1>5. CASE Verify(p, n)
  BY <1>5, <1>a, <1>b, <1>c, <1>d, <1>f DEF Verify, Records, WorkerRecords, Targets
<1>6. CASE DeployFails(p, n) \/ VerifyFails(p, n) \/ BackendFails(p, n)
  <2>1. worker'[p][n] = "failing"
    BY <1>6 DEF DeployFails, VerifyFails, BackendFails
  <2> QED
    BY <1>b, <1>c, <1>f, <2>1 DEF Records, WorkerRecords, Targets
<1>7. CASE Commit(p, n)
  <2>1. worker'[p][n] = "done" /\ checkpoint'[n].fingerprint = job[p].fingerprint
        /\ ~checkpoint'[n].error
    BY <1>7 DEF Commit
  <2> QED
    BY <1>b, <1>c, <1>f, <2>1 DEF Records, WorkerRecords, Committed, Targets
<1>8. CASE Stop(p, n) \/ Destroy(p, n) \/ Forget(p, n)
  <2>1. worker'[p][n] \in {"done", "forgetting"} /\ ~Commits(p)
    BY <1>8, <1>a DEF Stop, Destroy, Forget, Control, PlanFits
  <2> QED
    BY <1>b, <1>c, <1>f, <2>1 DEF Records, WorkerRecords, Commits, Targets
<1>9. CASE RecordError(p, n)
  <2>1. worker'[p][n] = "failed" /\ checkpoint'[n].error
    BY <1>9, <1>a, CheckpointFields DEF RecordError
  <2> QED
    BY <1>b, <1>c, <1>f, <2>1 DEF Records, WorkerRecords, Targets
<1> QED
  BY <1>1, <1>2, <1>3, <1>4, <1>5, <1>6, <1>7, <1>8, <1>9 DEF Worker

\* So does an invocation's own step.
LEMMA ServiceKeepsRecords ==
    ASSUME RecordInv, NEW p \in Services, Service(p), ~Leave(p), NEW n \in Targets(p)
    PROVE  WorkerRecords(p, n)' /\ StageRecords(p, n)'
<1> USE DEF RecordInv, ControlInv, LockInv, TypeOK, Goto, Write, durable
<1>a. /\ Control(p) /\ WorkerRecords(p, n) /\ StageRecords(p, n)
      /\ Targets(p) \subseteq Nodes /\ n \in Nodes
      /\ checkpoint[n] \in Checkpoints
  BY DEF Targets, Jobs, Records
<1>b. job' = job /\ local' = local
  BY ServiceFrame
<1>c. ASSUME UNCHANGED <<checkpoint, worker>>, pc'[p] \notin {"applying", "server"}
      PROVE  WorkerRecords(p, n)'
  BY <1>a, <1>b, <1>c DEF WorkerRecords
<1>d. ASSUME \E ns \in SUBSET Nodes : worker'[p] = Pool(ns)
      PROVE  WorkerRecords(p, n)'
  <2>1. worker'[p][n] \in {"queued", "out"}
    BY <1>a, <1>d DEF Pool
  <2> QED
    BY <2>1 DEF WorkerRecords
<1>e. ASSUME Applied(p), Commits(p) PROVE Committed(p, n)
  BY <1>a, <1>e DEF Applied, PoolDone, PoolFailed, Control, Stages, WorkerRecords
<1>1. CASE Observe(p) \/ ObserveFails(p) \/ Refuse(p) \/ SessionFails(p) \/ ApplyFails(p)
  <2>1. UNCHANGED <<checkpoint, worker>> /\ pc'[p] \in {"planning", "raised"}
    BY <1>1 DEF Observe, ObserveFails, Refuse, SessionFails, ApplyFails
  <2>2. \E m \in Targets(p) : worker[p][m] # "done"
    <3>1. CASE ApplyFails(p)
      BY <1>a, <3>1 DEF ApplyFails, PoolFailed, Control, PoolShape
    <3>2. CASE pc[p] = "planning"
      BY <1>a, <3>2 DEF Control, PoolShape
    <3> QED
      BY <1>1, <3>1, <3>2 DEF Observe, ObserveFails, Refuse, SessionFails
  <2>3. Targets(p)' = Targets(p)
    BY <1>b DEF Targets
  <2> QED
    BY <1>c, <2>1, <2>2, <2>3 DEF StageRecords
<1>2. CASE StartWorkers(p) \/ ClientsDone(p)
  <2>1. /\ pc'[p] \in {"applying", "server"}
        /\ worker'[p] = Pool(FirstStage(p)) \/ worker'[p] = Pool(ServerStage(p))
    BY <1>2 DEF StartWorkers, ClientsDone
  <2>2. FirstStage(p) \subseteq Nodes /\ ServerStage(p) \subseteq Nodes
    BY <1>a DEF FirstStage, ServerStage
  <2> QED
    BY <1>d, <2>1, <2>2 DEF StageRecords
<1>3. CASE Finish(p)
  <2>1. Applied(p) /\ ~NeedsConfiguration(p) /\ pc'[p] = "returned" /\ UNCHANGED <<checkpoint, worker>>
    BY <1>3 DEF Finish
  <2>2. job[p].operation = "up" => checkpoint[n] = ReadyRecord(p)
    <3> SUFFICES ASSUME job[p].operation = "up" PROVE checkpoint[n] = ReadyRecord(p)
      OBVIOUS
    <3>1. Committed(p, n)
      BY <1>e, <2>1 DEF Commits
    <3>2. checkpoint[n].phase = "ready" /\ checkpoint[n].configuration = job[p].configuration
      BY <2>1 DEF NeedsConfiguration
    <3> QED
      BY <1>a, <3>1, <3>2 DEF Committed, ReadyRecord, Checkpoints
  <2> QED
    BY <1>b, <1>c, <2>1, <2>2 DEF StageRecords, ReadyRecord
<1>4. CASE BeginConfiguration(p)
  <2>1. /\ Committed(p, n) /\ pc'[p] = "demoting" /\ todo'[p] = Targets(p)
        /\ UNCHANGED <<checkpoint, worker>>
    BY <1>4, <1>e DEF BeginConfiguration, NeedsConfiguration, Commits
  <2> QED
    BY <1>b, <1>c, <2>1 DEF StageRecords, Committed
<1>5. CASE WriteInventory(p)
  <2>1. /\ Demoted(p) /\ pc'[p] = "playbook" /\ UNCHANGED <<checkpoint, worker>>
    BY <1>5 DEF WriteInventory
  <2> QED
    BY <1>a, <1>b, <1>c, <2>1 DEF StageRecords, Committed, Demoted
<1>6. CASE SkipPlaybook(p) \/ RunPlaybook(p)
  <2>1. /\ pc'[p] = "checking" /\ checkpoint' = checkpoint /\ worker'[p] = Pool(Targets(p))
        /\ pc[p] = "playbook" \/ Demoted(p)
    BY <1>6 DEF SkipPlaybook, RunPlaybook, CheckAgain
  <2> QED
    BY <1>a, <1>d, <2>1 DEF StageRecords, Demoted
<1>7. CASE RefuseConfiguration(p) \/ PlaybookFails(p) \/ CheckFails(p)
  <2>1. /\ pc'[p] = "failing" /\ UNCHANGED <<checkpoint, worker>> /\ todo'[p] = Targets(p)
        /\ pc[p] \in {"playbook", "checking"} \/ Demoted(p)
    BY <1>7 DEF RefuseConfiguration, PlaybookFails, CheckFails, FailConfiguration
  <2> QED
    BY <1>a, <1>c, <2>1 DEF StageRecords, Demoted
<1>8. CASE CheckDone(p)
  <2>1. pc'[p] = "readying" /\ UNCHANGED <<checkpoint, worker>> /\ todo'[p] = Targets(p)
    BY <1>8 DEF CheckDone
  <2> QED
    BY <1>c, <2>1 DEF StageRecords
<1>9. CASE Demote(p)
  <2> PICK m \in Nodes : /\ Next1(p, m) /\ todo' = [todo EXCEPT ![p] = @ \ {m}]
                         /\ checkpoint' = [checkpoint EXCEPT ![m] = Bootstrapped(checkpoint[m])]
    BY <1>9 DEF Demote
  <2>1. pc[p] = "demoting" /\ pc' = pc /\ worker' = worker
    BY <1>9 DEF Demote
  <2>2. /\ n = m => /\ checkpoint'[n].phase = "bootstrapped"
                    /\ checkpoint'[n].fingerprint = checkpoint[n].fingerprint
                    /\ checkpoint'[n].error = checkpoint[n].error
        /\ n # m => checkpoint'[n] = checkpoint[n]
    BY <1>a, CheckpointFields
  <2>3. worker[p][n] \in {"out", "done"}
    BY <1>a, <2>1 DEF Control, PoolShape, PoolDone, PoolFailed
  <2>4. WorkerRecords(p, n)'
    BY <2>1, <2>3 DEF WorkerRecords
  <2>5. StageRecords(p, n)'
    BY <1>a, <1>b, <2>1, <2>2 DEF StageRecords, Committed
  <2> QED
    BY <2>4, <2>5
<1>10. CASE NoteFailure(p)
  <2> PICK m \in Nodes : /\ Next1(p, m) /\ todo' = [todo EXCEPT ![p] = @ \ {m}]
                         /\ checkpoint' = [checkpoint EXCEPT ![m] = Erred(checkpoint[m])]
    BY <1>10 DEF NoteFailure, LastLoop
  <2>1. pc[p] = "failing" /\ pc'[p] \in {"failing", "raised"} /\ worker' = worker
    BY <1>10 DEF NoteFailure, LastLoop
  <2>2. /\ n = m => checkpoint'[n].phase = checkpoint[n].phase /\ checkpoint'[n].error
        /\ n # m => checkpoint'[n] = checkpoint[n]
    BY <1>a, CheckpointFields
  <2>3. worker[p][n] \in {"out", "done", "failed"}
    BY <1>a, <2>1 DEF Control, PoolShape, PoolDone
  <2>4. WorkerRecords(p, n)'
    BY <1>a, <2>1, <2>2, <2>3 DEF WorkerRecords
  <2>5. pc'[p] = "raised" => n = m \/ n \notin todo[p]
    BY <1>10, <2>1 DEF NoteFailure, LastLoop
  <2>6. StageRecords(p, n)'
    BY <1>a, <2>1, <2>2, <2>5 DEF StageRecords
  <2> QED
    BY <2>4, <2>6
<1>11. CASE MarkReady(p)
  <2> PICK m \in Nodes : /\ Next1(p, m) /\ todo' = [todo EXCEPT ![p] = @ \ {m}]
                         /\ checkpoint' = [checkpoint EXCEPT ![m] = ReadyRecord(p)]
                         /\ pc' = IF todo[p] = {m} THEN [pc EXCEPT ![p] = "returned"] ELSE pc
    BY <1>11 DEF MarkReady, LastLoop, ReadyRecord
  <2>1. pc[p] = "readying" /\ worker' = worker
    BY <1>11 DEF MarkReady, LastLoop
  <2>2. worker[p][n] \in {"out", "done"}
    BY <1>a, <2>1 DEF Control, PoolShape, PoolDone, PoolFailed
  <2>3. pc'[p] \in {"readying", "returned"} /\ ReadyRecord(p)' = ReadyRecord(p)
    BY <1>b, <2>1 DEF ReadyRecord
  <2>4. WorkerRecords(p, n)'
    BY <2>1, <2>2, <2>3 DEF WorkerRecords
  <2>5. (n \notin todo'[p] \/ pc'[p] = "returned") => checkpoint'[n] = ReadyRecord(p)
    BY <1>a, <2>1 DEF StageRecords
  <2>6. StageRecords(p, n)'
    BY <2>3, <2>5 DEF StageRecords
  <2> QED
    BY <2>4, <2>6
<1> QED
  BY <1>1, <1>2, <1>3, <1>4, <1>5, <1>6, <1>7, <1>8, <1>9, <1>10, <1>11 DEF Service, Release

\* And so does every step of the system.
LEMMA RecordInvInductive ==
    ASSUME RecordInv, ControlInv', [Next]_vars
    PROVE  RecordInv'
<1> USE DEF RecordInv
<1>a. TypeOK /\ LockInv
  BY DEF ControlInv, LockInv
<1>1. ASSUME NEW p \in Services, Invoke(p) \/ Progress(p) \/ Kill(p), NEW q \in Services \ {p}
      PROVE  Records(q)'
  <2>1. \A n \in Targets(q) : n \in Nodes \ Targets(p)
    BY <1>a, LocksExclude DEF Exclusive, TypeOK, Targets, Jobs
  <2>2. \A n \in Targets(q) : checkpoint'[n] = checkpoint[n]
    BY <1>1, <2>1, WritesTargets
  <2>3. Own(q)' = Own(q)
    BY <1>1, <1>a, OthersFrame
  <2> QED
    BY <2>2, <2>3, RecordsFrame
<1>2. ASSUME NEW p \in Services, Invoke(p) PROVE Records(p)'
  <2>1. \A n \in Nodes : worker[p][n] = "out"
    BY <1>2 DEF ControlInv, Control, PoolShape, LockInv, HoldsLocks, Invoke, Idle, Targets, NoJob
  <2>2. pc'[p] = "planning" /\ worker' = worker /\ Targets(p)' \subseteq Nodes
    BY <1>2, <1>a DEF Invoke, Goto, TypeOK, Targets
  <2> QED
    BY <2>1, <2>2 DEF Records, WorkerRecords, StageRecords
<1>3. ASSUME NEW p \in Services, NEW n \in Nodes, Worker(p, n) PROVE Records(p)'
  BY <1>3, WorkerKeepsRecords
<1>4. ASSUME NEW p \in Services, Leave(p) PROVE Records(p)'
  BY <1>4, <1>a DEF Leave, TypeOK, Targets, NoJob, Records
<1>5. ASSUME NEW p \in Services, Service(p), ~Leave(p) PROVE Records(p)'
  <2>1. Targets(p)' = Targets(p)
    BY <1>5, <1>a, ServiceFrame DEF Targets
  <2> QED
    BY <1>5, <2>1, ServiceKeepsRecords DEF Records
<1>6. ASSUME NEW n \in Nodes, PowerLoss(n) \/ Remove(n), NEW q \in Services PROVE Records(q)'
  <2>1. Own(q)' = Own(q) /\ checkpoint' = checkpoint
    BY <1>6 DEF PowerLoss, Remove, Own
  <2> QED
    BY <2>1, RecordsFrame
<1>7. ASSUME UNCHANGED vars, NEW q \in Services PROVE Records(q)'
  <2>1. Own(q)' = Own(q) /\ checkpoint' = checkpoint
    BY <1>7 DEF vars, Own
  <2> QED
    BY <2>1, RecordsFrame
<1> QED
  BY <1>1, <1>2, <1>3, <1>4, <1>5, <1>6, <1>7 DEF Next, Progress, Kill

\* At each stage of an invocation its targets' checkpoints say so: `installing`
\* before a machine is touched, an error after a failure, a verified node once
\* its worker ends, `bootstrapped` while the playbook runs (service.py:246-323).
THEOREM RecordsHold == Spec => []RecordInv
<1>1. Init /\ ControlInv => RecordInv
  BY DEF Init, RecordInv, Records, Targets, NoJob
<1>2. RecordInv /\ [Next]_vars /\ ControlInv' => RecordInv'
  BY RecordInvInductive
<1> QED
  BY <1>1, <1>2, ControlHolds, PTL DEF Spec

\* A failure stays on record while its invocation lives, whatever else the
\* invocation and the others do (service.py:193-197, 308-313).
THEOREM FailuresRecorded == Spec => []FailureIsRecorded
<1>1. RecordInv => FailureIsRecorded
  BY DEF RecordInv, Records, WorkerRecords, StageRecords, FailureIsRecorded
<1> QED
  BY <1>1, RecordsHold, PTL

\* A playbook starts only over targets this invocation has verified, all of
\* them (service.py:199-204, 292-306).
THEOREM ConfigurationWaits == Spec => []ConfigurationNeedsEveryNode
<1>1. RecordInv => ConfigurationNeedsEveryNode
  BY DEF RecordInv, Records, StageRecords, Committed, ConfigurationNeedsEveryNode
<1> QED
  BY <1>1, RecordsHold, PTL

\* An `up` that returns has every target on record as ready, with the
\* fingerprints of its own manifest (service.py:293-323).
THEOREM UpIsDelivered == Spec => []UpDelivers
<1>1. RecordInv => UpDelivers
  BY DEF RecordInv, Records, StageRecords, ReadyRecord, UpDelivers
<1> QED
  BY <1>1, RecordsHold, PTL
-----------------------------------------------------------------------------
(* What a step does to the machines *)

\* A machine keeps its system and what was configured on it, or loses its system.
Undisturbed(n) ==
    \/ /\ machine'[n].system = machine[n].system
       /\ machine'[n].configured = machine[n].configured
    \/ machine'[n].system = None

\* Of a worker's steps only a deploy changes a system into another one.
LEMMA WorkerMachine ==
    ASSUME TypeOK, NEW p \in Services, NEW n \in Nodes, Worker(p, n)
    PROVE  \/ Undisturbed(n)
           \/ worker[p][n] = "deploying" /\ checkpoint' = checkpoint
<1> USE DEF TypeOK, durable, Step
<1>a. machine[n] \in Machines
  OBVIOUS
<1>1. CASE Begin(p, n) \/ Recheck(p, n) \/ Record(p, n) \/ Commit(p, n) \/ Forget(p, n)
           \/ RecordError(p, n)
  <2>1. machine' = machine
    BY <1>1 DEF Begin, Recheck, Record, Commit, Forget, RecordError
  <2> QED
    BY <2>1 DEF Undisturbed
<1>2. CASE Deploy(p, n) \/ DeployFails(p, n)
  BY <1>2 DEF Deploy, DeployFails
<1>3. CASE Start(p, n) \/ Verify(p, n) \/ VerifyFails(p, n) \/ Stop(p, n)
  <2>1. machine'[n] \in {machine[n], SwitchedOn(machine[n]), SwitchedOff(machine[n])}
    BY <1>3 DEF Start, Verify, VerifyFails, Stop
  <2>2. CASE machine'[n] = machine[n]
    BY <2>2 DEF Undisturbed
  <2>3. CASE machine'[n] = SwitchedOn(machine[n])
    BY <1>a, <2>3, MachineFields DEF Undisturbed
  <2>4. CASE machine'[n] = SwitchedOff(machine[n])
    BY <1>a, <2>4, MachineFields DEF Undisturbed
  <2> QED
    BY <2>1, <2>2, <2>3, <2>4
<1>4. CASE BackendFails(p, n)
  <2>1. machine'[n] \in {machine[n], SwitchedOff(machine[n]), Undefined(machine[n]), NoMachine}
    BY <1>4 DEF BackendFails, HalfTornDown
  <2>2. CASE machine'[n] \in {machine[n], SwitchedOff(machine[n])}
    BY <1>a, <2>2, MachineFields DEF Undisturbed
  <2>3. CASE machine'[n] = Undefined(machine[n])
    BY <1>a, <2>3, MachineFields DEF Undisturbed
  <2>4. CASE machine'[n] = NoMachine
    BY <2>4 DEF Undisturbed, NoMachine
  <2> QED
    BY <2>1, <2>2, <2>3, <2>4
<1>5. CASE Destroy(p, n)
  <2>1. machine'[n] \in {SwitchedOff(machine[n]), NoMachine}
    BY <1>5 DEF Destroy
  <2>2. CASE machine'[n] = SwitchedOff(machine[n])
    BY <1>a, <2>2, MachineFields DEF Undisturbed
  <2>3. CASE machine'[n] = NoMachine
    BY <2>3 DEF Undisturbed, NoMachine
  <2> QED
    BY <2>1, <2>2, <2>3
<1> QED
  BY <1>1, <1>2, <1>3, <1>4, <1>5 DEF Worker

\* The steps outside the workers leave the systems alone; the playbook's leave
\* everything alone but what is configured on the inventory's hosts.
LEMMA ServiceMachine ==
    ASSUME TypeOK, NEW p \in Services, Service(p) \/ Invoke(p) \/ Kill(p), NEW n \in Nodes
    PROVE  /\ machine'[n].system = machine[n].system
           /\ ~(n \in inventory.hosts /\ (RunPlaybook(p) \/ PlaybookFails(p)))
                => machine'[n] = machine[n]
<1> USE DEF TypeOK, durable
<1>1. CASE RunPlaybook(p)
  BY <1>1, PlayingFields DEF RunPlaybook, Configured, Hosts
<1>2. CASE PlaybookFails(p)
  <2>1. PICK hosts \in SUBSET inventory.hosts : Configured(hosts, None)
    BY <1>2 DEF PlaybookFails
  <2> QED
    BY <1>2, <2>1, PlayingFields DEF Configured
<1>3. CASE ~(RunPlaybook(p) \/ PlaybookFails(p))
  <2>1. machine' = machine
    BY <1>3 DEF Service, Invoke, Kill, Leave, Observe, ObserveFails, Refuse, StartWorkers,
       SessionFails, ApplyFails, ClientsDone, Finish, BeginConfiguration, Demote, SkipPlaybook,
       RefuseConfiguration, WriteInventory, CheckFails, CheckDone, NoteFailure, MarkReady,
       LastLoop, Release
  <2> QED
    BY <2>1
<1> QED
  BY <1>1, <1>2, <1>3

\* Nor do they put a worker anywhere but in a queue, or out.
LEMMA ServiceWorkers ==
    ASSUME TypeOK, NEW p \in Services, Service(p) \/ Invoke(p) \/ Kill(p)
    PROVE  \A q \in Services, n \in Nodes :
               worker'[q][n] \in {worker[q][n], "queued", "out"}
<1> USE DEF TypeOK, durable
<1>1. CASE StartWorkers(p) \/ ClientsDone(p) \/ SkipPlaybook(p) \/ RunPlaybook(p) \/ Leave(p)
  <2>1. PICK ns : worker' = [worker EXCEPT ![p] = Pool(ns)]
    BY <1>1 DEF StartWorkers, ClientsDone, SkipPlaybook, RunPlaybook, Leave, CheckAgain
  <2> QED
    BY <2>1 DEF Pool
<1>2. CASE ~(StartWorkers(p) \/ ClientsDone(p) \/ SkipPlaybook(p) \/ RunPlaybook(p) \/ Leave(p))
  <2>1. worker' = worker
    BY <1>2 DEF Service, Invoke, Kill, Observe, ObserveFails, Refuse, SessionFails, ApplyFails,
       Finish, BeginConfiguration, Demote, RefuseConfiguration, FailConfiguration, WriteInventory,
       PlaybookFails, CheckFails, CheckDone, NoteFailure, MarkReady, LastLoop, Release
  <2> QED
    BY <2>1
<1> QED
  BY <1>1, <1>2

\* The checkpoint a service's step leaves is the one before, or that of a stage.
LEMMA ServiceCheckpoint ==
    ASSUME TypeOK, NEW p \in Services, Service(p) \/ Invoke(p) \/ Kill(p), NEW n \in Nodes
    PROVE  \/ checkpoint'[n] = checkpoint[n]
           \/ checkpoint'[n].phase = "bootstrapped"
           \/ /\ checkpoint'[n].phase = checkpoint[n].phase
              /\ checkpoint'[n].configuration = checkpoint[n].configuration
           \/ /\ MarkReady(p) /\ n \in todo[p] /\ checkpoint'[n] = ReadyRecord(p)
<1> USE DEF TypeOK, durable, Write
<1>a. checkpoint[n] \in Checkpoints
  OBVIOUS
<1>1. CASE Demote(p)
  <2>1. checkpoint'[n] \in {checkpoint[n], Bootstrapped(checkpoint[n])}
    BY <1>1 DEF Demote
  <2> QED
    BY <1>a, <2>1, CheckpointFields
<1>2. CASE NoteFailure(p)
  <2>1. checkpoint'[n] \in {checkpoint[n], Erred(checkpoint[n])}
    BY <1>2 DEF NoteFailure
  <2> QED
    BY <1>a, <2>1, CheckpointFields
<1>3. CASE MarkReady(p)
  BY <1>3 DEF MarkReady, LastLoop, Next1, ReadyRecord
<1>4. CASE ~(Demote(p) \/ NoteFailure(p) \/ MarkReady(p))
  <2>1. checkpoint' = checkpoint
    BY <1>4 DEF Service, Invoke, Kill, Leave, Observe, ObserveFails, Refuse, StartWorkers,
       SessionFails, ApplyFails, ClientsDone, Finish, BeginConfiguration, SkipPlaybook,
       RefuseConfiguration, WriteInventory, RunPlaybook, PlaybookFails, CheckFails, CheckDone,
       Release
  <2> QED
    BY <2>1
<1> QED
  BY <1>1, <1>2, <1>3, <1>4

-----------------------------------------------------------------------------
(* Installed machines have a record *)

\* A worker about to forget a node has removed its machine.
ForgetsNothing(p, n) ==
    (Provider = "libvirt" /\ worker[p][n] = "forgetting") => machine[n].system = None

OrphanInv ==
    RecordInv /\ NoOrphan /\ \A p \in Services, n \in Nodes : ForgetsNothing(p, n)

\* No step under libvirt leaves an installed machine without a record.
LEMMA OrphanInvInductive ==
    ASSUME OrphanInv, RecordInv', [Next]_vars, Provider = "libvirt"
    PROVE  OrphanInv'
<1> USE DEF OrphanInv
<1>a. TypeOK /\ ControlInv /\ None \notin Fingerprints /\ Legacy \notin Fingerprints
  BY ValueAssumption DEF RecordInv, ControlInv, LockInv
<1>b. \A n \in Nodes : machine[n].system \in Fingerprints => checkpoint[n].phase # "new"
  BY DEF NoOrphan
<1>1. ASSUME NEW p \in Services, NEW n \in Nodes, Worker(p, n)
      PROVE  NoOrphan' /\ \A q \in Services, m \in Nodes : ForgetsNothing(q, m)'
  <2>a. /\ n \in Targets(p)
        /\ \A m \in Nodes \ {n} : /\ checkpoint'[m] = checkpoint[m] /\ machine'[m] = machine[m]
                                  /\ worker'[p][m] = worker[p][m]
        /\ \A q \in Services \ {p} : worker'[q] = worker[q]
    BY <1>1, <1>a, WorkerFrame, WorkerControl
  <2>b. checkpoint[n] \in Checkpoints /\ WorkerRecords(p, n)
    BY <1>a, <2>a DEF TypeOK, RecordInv, Records
  <2>c. \A q \in Services \ {p} : worker[q][n] = "out"
    BY <1>a, <2>a, LocksExclude DEF Exclusive, ControlInv, Control, PoolShape
  <2>1. machine'[n].system \in Fingerprints => checkpoint'[n].phase # "new"
    <3>1. CASE worker[p][n] = "deploying" /\ checkpoint' = checkpoint
      BY <2>b, <3>1 DEF WorkerRecords
    <3>2. CASE Undisturbed(n)
      <4>1. machine'[n].system \in Fingerprints => machine'[n].system = machine[n].system
        BY <1>a, <3>2 DEF Undisturbed
      <4>2. CASE Forget(p, n)
        BY <1>a, <4>1, <4>2 DEF Forget, Step, ForgetsNothing
      <4>3. CASE ~Forget(p, n)
        <5>1. checkpoint'[n].phase # "new" \/ checkpoint'[n].phase = checkpoint[n].phase
          BY <1>1, <1>a, <2>b, <4>3, CheckpointFields DEF TypeOK, Worker, Begin, Recheck, Record,
             Deploy, DeployFails, Start, Verify, VerifyFails, Commit, Stop, Destroy, BackendFails,
             RecordError, Write, durable
        <5> QED
          BY <1>b, <4>1, <5>1
      <4> QED
        BY <4>2, <4>3
    <3> QED
      BY <1>1, <1>a, <3>1, <3>2, WorkerMachine
  <2>2. ForgetsNothing(p, n)'
    <3> SUFFICES ASSUME worker'[p][n] = "forgetting" PROVE machine'[n].system = None
      BY DEF ForgetsNothing
    <3>1. Destroy(p, n)
      BY <1>1, <1>a DEF TypeOK, Worker, Begin, Recheck, Record, Deploy, DeployFails, Start, Verify,
         VerifyFails, Commit, Stop, Forget, BackendFails, RecordError, Step, Opening
    <3> QED
      BY <1>a, <3>1 DEF Destroy, NoMachine, TypeOK
  <2>3. \A m \in Nodes \ {n} : ForgetsNothing(p, m)'
    BY <2>a DEF ForgetsNothing
  <2>4. \A q \in Services \ {p}, m \in Nodes : ForgetsNothing(q, m)'
    BY <2>a, <2>c DEF ForgetsNothing
  <2>5. NoOrphan'
    BY <1>b, <2>a, <2>1 DEF NoOrphan
  <2> QED
    BY <2>2, <2>3, <2>4, <2>5
<1>2. ASSUME NEW p \in Services, Service(p) \/ Invoke(p) \/ Kill(p)
      PROVE  NoOrphan' /\ \A q \in Services, m \in Nodes : ForgetsNothing(q, m)'
  <2>1. \A n \in Nodes : machine'[n].system = machine[n].system
    BY <1>2, <1>a, ServiceMachine
  <2>2. \A n \in Nodes : checkpoint'[n].phase = "new" => checkpoint[n].phase = "new"
    <3> SUFFICES ASSUME NEW n \in Nodes, checkpoint'[n].phase = "new"
                 PROVE  checkpoint[n].phase = "new"
      OBVIOUS
    <3>1. ReadyRecord(p).phase = "ready"
      BY DEF ReadyRecord
    <3> QED
      BY <1>2, <1>a, <3>1, ServiceCheckpoint
  <2>3. \A q \in Services, n \in Nodes : worker'[q][n] = "forgetting" => worker[q][n] = "forgetting"
    BY <1>2, <1>a, ServiceWorkers
  <2> QED
    BY <1>b, <2>1, <2>2, <2>3 DEF NoOrphan, ForgetsNothing
<1>3. ASSUME NEW n \in Nodes, PowerLoss(n) \/ Remove(n)
      PROVE  NoOrphan' /\ \A q \in Services, m \in Nodes : ForgetsNothing(q, m)'
  <2>1. \A m \in Nodes : machine'[m].system \in {machine[m].system, None}
    <3> TAKE m \in Nodes
    <3>1. machine'[m] \in {machine[m], SwitchedOff(machine[m]), NoMachine}
      BY <1>3, <1>a DEF PowerLoss, Remove, TypeOK
    <3>2. SwitchedOff(machine[m]).system = machine[m].system
      BY <1>a, MachineFields DEF TypeOK
    <3>3. NoMachine.system = None
      BY DEF NoMachine
    <3> QED
      BY <3>1, <3>2, <3>3
  <2>2. UNCHANGED <<checkpoint, worker>>
    BY <1>3 DEF PowerLoss, Remove
  <2> QED
    BY <1>a, <1>b, <2>1, <2>2 DEF NoOrphan, ForgetsNothing
<1>4. ASSUME UNCHANGED vars
      PROVE  NoOrphan' /\ \A q \in Services, m \in Nodes : ForgetsNothing(q, m)'
  BY <1>4, <1>b DEF vars, NoOrphan, ForgetsNothing
<1> QED
  BY <1>1, <1>2, <1>3, <1>4 DEF Next, Progress

\* A virtual machine the program installed always has a record, wherever an
\* invocation is killed (service.py:258-265).
THEOREM NoneOrphaned == Spec => []NoOrphan
<1>1. Init /\ RecordInv => OrphanInv
  BY ValueAssumption DEF Init, OrphanInv, NoOrphan, ForgetsNothing, Pool
<1>2. OrphanInv /\ [Next]_vars /\ RecordInv' /\ Provider = "libvirt" => OrphanInv'
  BY OrphanInvInductive
<1>3. OrphanInv => NoOrphan
  BY DEF OrphanInv
<1>4. Provider # "libvirt" => NoOrphan
  BY DEF NoOrphan
<1>5. CASE Provider = "libvirt"
  BY <1>1, <1>2, <1>3, <1>5, RecordsHold, PTL DEF Spec
<1>6. CASE Provider # "libvirt"
  BY <1>4, <1>6, PTL DEF Spec
<1> QED
  BY <1>5, <1>6

-----------------------------------------------------------------------------
(* Ready nodes are configured *)

\* The cluster's inventory has one writer at a time: an HPC profile is applied
\* to all nodes, whose locks exclude a second one; or one invocation runs alone.
OneWriter == NfsServer # None \/ \A p, q \in Services : p = q

\* The playbook reads the inventory its own invocation wrote.
OwnInventory(p) ==
    /\ pc[p] # "idle" => Targets(p) # {}
    /\ pc[p] = "playbook" =>
           inventory = [hosts |-> Targets(p), configuration |-> job[p].configuration]

\* After the playbook the targets run the configuration, until they are ready.
PlaybookHeld(p) ==
    (pc[p] \in {"checking", "readying"} /\ job[p].configuration \notin NoPlaybook) =>
        \A n \in Targets(p) : machine[n].system = None
                               \/ machine[n].configured = job[p].configuration

NodeConfigured(n) ==
    (checkpoint[n].phase = "ready" /\ machine[n].system # None
     /\ checkpoint[n].configuration \notin NoPlaybook)
        => machine[n].configured = checkpoint[n].configuration

ConfigInv ==
    /\ RecordInv
    /\ \A p \in Services : OwnInventory(p) /\ PlaybookHeld(p)
    /\ \A n \in Nodes : NodeConfigured(n)

\* A ready node whose machine is left alone stays configured.
LEMMA UndisturbedStaysConfigured ==
    ASSUME NEW n, NodeConfigured(n), Undisturbed(n),
           \/ checkpoint'[n].phase # "ready"
           \/ /\ checkpoint'[n].phase = checkpoint[n].phase
              /\ checkpoint'[n].configuration = checkpoint[n].configuration
    PROVE  NodeConfigured(n)'
BY DEF NodeConfigured, Undisturbed

\* An invocation whose inventory and machines are left alone keeps its part.
LEMMA HeldFrame ==
    ASSUME NEW q, OwnInventory(q), PlaybookHeld(q), UNCHANGED <<pc[q], job[q]>>,
           pc[q] = "playbook" => inventory' = inventory,
           pc[q] \in {"checking", "readying"} => \A n \in Targets(q) : Undisturbed(n)
    PROVE  OwnInventory(q)' /\ PlaybookHeld(q)'
BY DEF OwnInventory, PlaybookHeld, Undisturbed, Targets

\* A worker's step leaves ready nodes configured.
LEMMA WorkerKeepsConfigured ==
    ASSUME ConfigInv, NEW p \in Services, NEW n \in Nodes, Worker(p, n)
    PROVE  /\ \A m \in Nodes : NodeConfigured(m)'
           /\ \A q \in Services : OwnInventory(q)' /\ PlaybookHeld(q)'
<1> USE DEF ConfigInv
<1>a. TypeOK /\ ControlInv /\ Control(p) /\ n \in Targets(p)
  BY WorkerControl DEF RecordInv, ControlInv, LockInv
<1>b. /\ UNCHANGED <<inventory, pc, job>>
      /\ \A m \in Nodes \ {n} : checkpoint'[m] = checkpoint[m] /\ machine'[m] = machine[m]
  BY <1>a, WorkerFrame
<1>c. WorkerRecords(p, n) /\ checkpoint[n] \in Checkpoints
  BY <1>a DEF RecordInv, Records, TypeOK
<1>d. pc[p] \in {"applying", "server"} \/ (pc[p] = "checking" /\ worker[p][n] # "deploying")
  <2>1. worker[p][n] \notin {"out", "done", "failed"}
    BY DEF Step, Worker, Begin, Recheck, Record, Deploy, DeployFails, Start, Verify, VerifyFails,
       Commit, Stop, Destroy, Forget, BackendFails, RecordError
  <2> QED
    BY <1>a, <2>1 DEF Control, PoolShape, PoolDone
<1>e. \A q \in Services \ {p} : n \notin Targets(q)
  BY <1>a, LocksExclude DEF Exclusive, ControlInv
<1>1. NodeConfigured(n)'
  <2>1. CASE worker[p][n] = "deploying" /\ checkpoint' = checkpoint
    BY <1>c, <2>1 DEF WorkerRecords, NodeConfigured
  <2>2. CASE Undisturbed(n)
    <3>1. \/ checkpoint'[n].phase # "ready"
          \/ /\ checkpoint'[n].phase = checkpoint[n].phase
             /\ checkpoint'[n].configuration = checkpoint[n].configuration
      <4>1. CASE Commit(p, n)
        <5>1. pc[p] \in {"applying", "server"}
          BY <1>a, <1>d, <4>1 DEF Commit, Step, Control, PoolShape
        <5>2. local[p][n] = checkpoint[n]
          BY <1>c, <4>1, <5>1 DEF Commit, Step, WorkerRecords
        <5> QED
          BY <1>a, <4>1, <5>2 DEF Commit, Write, TypeOK
      <4>2. CASE RecordError(p, n)
        BY <1>a, <1>c, <4>2, CheckpointFields DEF RecordError, Write, TypeOK
      <4>3. CASE Record(p, n) \/ Forget(p, n)
        BY <1>a, <4>3 DEF Record, Forget, Write, TypeOK, NewCheckpoint
      <4>4. CASE ~(Commit(p, n) \/ RecordError(p, n) \/ Record(p, n) \/ Forget(p, n))
        BY <4>4 DEF Worker, Begin, Recheck, Deploy, DeployFails, Start, Verify, VerifyFails, Stop,
           Destroy, BackendFails, durable
      <4> QED
        BY <4>1, <4>2, <4>3, <4>4
    <3> QED
      BY <2>2, <3>1, UndisturbedStaysConfigured
  <2> QED
    BY <1>a, <2>1, <2>2, WorkerMachine
<1>2. \A m \in Nodes \ {n} : NodeConfigured(m)'
  BY <1>b DEF NodeConfigured
<1>3. \A m \in Nodes \ {n} : Undisturbed(m)
  BY <1>b DEF Undisturbed
<1>4. ASSUME NEW q \in Services PROVE OwnInventory(q)' /\ PlaybookHeld(q)'
  <2>1. Targets(q) \subseteq Nodes
    BY <1>a DEF TypeOK, Targets, Jobs
  <2>2. pc[q] \in {"checking", "readying"} => \A m \in Targets(q) : Undisturbed(m)
    BY <1>a, <1>d, <1>e, <1>3, <2>1, WorkerMachine
  <2> QED
    BY <1>b, <2>2, HeldFrame
<1> QED
  BY <1>1, <1>2, <1>4

\* So does an invocation's own step, where one inventory has one writer.
LEMMA ServiceKeepsConfigured ==
    ASSUME OneWriter, ConfigInv, NEW p \in Services, Service(p) \/ Invoke(p) \/ Kill(p)
    PROVE  /\ \A m \in Nodes : NodeConfigured(m)'
           /\ \A q \in Services : OwnInventory(q)' /\ PlaybookHeld(q)'
<1> USE DEF ConfigInv
<1>a. TypeOK /\ LockInv /\ Control(p) /\ Targets(p) \subseteq Nodes
  BY DEF RecordInv, ControlInv, LockInv, TypeOK, Targets, Jobs
<1>b. ASSUME RunPlaybook(p) \/ PlaybookFails(p) PROVE inventory.hosts = Targets(p)
  BY <1>b DEF OwnInventory, RunPlaybook, PlaybookFails
<1>c. \A n \in Nodes \ Targets(p) : machine'[n] = machine[n]
  BY <1>a, <1>b, ServiceMachine
<1>1. ASSUME NEW n \in Nodes PROVE NodeConfigured(n)'
  <2>a. (n \in todo[p] => n \in Targets(p)) /\ checkpoint[n] \in Checkpoints
    BY <1>a DEF Control, PoolShape, TypeOK
  <2>1. CASE RunPlaybook(p) \/ PlaybookFails(p)
    <3>1. checkpoint' = checkpoint
      BY <2>1 DEF RunPlaybook, PlaybookFails
    <3>2. CASE n \in Targets(p)
      <4>1. checkpoint[n].phase = "bootstrapped"
        BY <2>1, <3>2 DEF RecordInv, Records, StageRecords, RunPlaybook, PlaybookFails
      <4> QED
        BY <3>1, <4>1 DEF NodeConfigured
    <3>3. CASE n \notin Targets(p)
      BY <1>c, <3>1, <3>3 DEF NodeConfigured
    <3> QED
      BY <3>2, <3>3
  <2>2. CASE MarkReady(p) /\ n \in todo[p] /\ checkpoint'[n] = ReadyRecord(p)
    <3>1. machine' = machine /\ pc[p] = "readying"
      BY <2>2 DEF MarkReady, LastLoop
    <3>2. job[p].configuration \in NoPlaybook \/ machine[n].system = None
          \/ machine[n].configured = job[p].configuration
      BY <2>2, <2>a, <3>1 DEF PlaybookHeld
    <3> QED
      BY <2>2, <3>1, <3>2 DEF NodeConfigured, ReadyRecord
  <2>3. CASE ~(RunPlaybook(p) \/ PlaybookFails(p))
             /\ ~(MarkReady(p) /\ n \in todo[p] /\ checkpoint'[n] = ReadyRecord(p))
    <3>1. machine'[n] = machine[n]
      BY <1>a, <2>3, ServiceMachine
    <3>2. \/ checkpoint'[n].phase # "ready"
          \/ /\ checkpoint'[n].phase = checkpoint[n].phase
             /\ checkpoint'[n].configuration = checkpoint[n].configuration
      BY <1>a, <2>3, ServiceCheckpoint
    <3> QED
      BY <3>1, <3>2, UndisturbedStaysConfigured DEF Undisturbed
  <2> QED
    BY <2>1, <2>2, <2>3
<1>2. ASSUME NEW q \in Services \ {p} PROVE OwnInventory(q)' /\ PlaybookHeld(q)'
  <2>1. UNCHANGED <<pc[q], job[q]>>
    BY <1>a, OthersFrame DEF Own, Progress
  <2>2. \A n \in Targets(q) : n \in Nodes \ Targets(p)
    BY <1>a, LocksExclude DEF Exclusive, TypeOK, Targets, Jobs
  <2>3. pc[q] = "playbook" => inventory' = inventory
    <3>1. ASSUME WriteInventory(p) PROVE pc[q] # "playbook"
      <4>1. Targets(p) = Nodes
        BY <3>1 DEF WriteInventory, AllDeclared, OneWriter
      <4> QED
        BY <2>2, <4>1 DEF OwnInventory
    <3>2. ASSUME ~WriteInventory(p) PROVE inventory' = inventory
      BY <3>2 DEF Service, Invoke, Kill, Leave, Observe, ObserveFails, Refuse, StartWorkers,
         SessionFails, ApplyFails, ClientsDone, Finish, BeginConfiguration, Demote, SkipPlaybook,
         RefuseConfiguration, RunPlaybook, PlaybookFails, CheckFails, CheckDone, NoteFailure,
         MarkReady, LastLoop, Release, durable
    <3> QED
      BY <3>1, <3>2
  <2>4. \A n \in Targets(q) : Undisturbed(n)
    BY <1>c, <2>2 DEF Undisturbed
  <2> QED
    BY <2>1, <2>3, <2>4, HeldFrame
<1>3. OwnInventory(p)'
  <2>1. pc'[p] # "idle" => Targets(p)' # {}
    <3>1. CASE Invoke(p)
      BY <1>a, <3>1 DEF Invoke, TypeOK, Targets
    <3>2. CASE Leave(p)
      BY <1>a, <3>2 DEF Leave, Goto, TypeOK
    <3>3. CASE Service(p) /\ ~Leave(p)
      BY <1>a, <3>3, ServiceFrame DEF OwnInventory, Targets
    <3> QED
      BY <3>1, <3>2, <3>3 DEF Kill
  <2>2. ASSUME pc'[p] = "playbook"
        PROVE  inventory' = [hosts |-> Targets(p), configuration |-> job[p].configuration]
               /\ job' = job
    <3>1. WriteInventory(p)
      BY <1>a, <2>2 DEF TypeOK, Goto, Service, Invoke, Kill, Leave, Observe, ObserveFails, Refuse,
         StartWorkers, SessionFails, ApplyFails, ClientsDone, Finish, BeginConfiguration, Demote,
         SkipPlaybook, RefuseConfiguration, RunPlaybook, PlaybookFails, CheckFails, CheckDone,
         NoteFailure, MarkReady, LastLoop, Release, CheckAgain, FailConfiguration
    <3> QED
      BY <3>1 DEF WriteInventory
  <2> QED
    BY <2>1, <2>2 DEF OwnInventory, Targets
<1>4. PlaybookHeld(p)'
  <2> SUFFICES ASSUME pc'[p] \in {"checking", "readying"}, job'[p].configuration \notin NoPlaybook,
                      NEW n \in Targets(p)'
               PROVE  machine'[n].system = None \/ machine'[n].configured = job'[p].configuration
    BY DEF PlaybookHeld
  <2>1. \/ SkipPlaybook(p) \/ RunPlaybook(p)
        \/ CheckDone(p) \/ (MarkReady(p) /\ pc[p] = "readying")
    BY <1>a DEF TypeOK, Goto, Service, Invoke, Kill, Leave, Observe, ObserveFails, Refuse,
       StartWorkers, SessionFails, ApplyFails, ClientsDone, Finish, BeginConfiguration, Demote,
       WriteInventory, RefuseConfiguration, PlaybookFails, CheckFails,
       NoteFailure, MarkReady, LastLoop, Release, FailConfiguration
  <2>2. job' = job /\ n \in Targets(p)
    BY <2>1 DEF SkipPlaybook, RunPlaybook, CheckDone, MarkReady, LastLoop, Targets
  <2>3. CASE RunPlaybook(p)
    <3>1. n \in Nodes /\ machine[n] \in Machines /\ job[p].configuration \in Configurations \cup {None}
      BY <1>a, <2>2 DEF TypeOK, Jobs
    <3>2. machine'[n] = Playing(machine[n], job[p].configuration)
      BY <2>2, <2>3, <3>1 DEF RunPlaybook, Configured, OwnInventory
    <3> QED
      BY <2>2, <3>1, <3>2, PlayingFields
  <2>4. CASE CheckDone(p) \/ (MarkReady(p) /\ pc[p] = "readying")
    BY <2>2, <2>4 DEF CheckDone, MarkReady, LastLoop, PlaybookHeld, durable
  <2>5. ~SkipPlaybook(p)
    BY <2>2 DEF SkipPlaybook, Playbook
  <2> QED
    BY <2>1, <2>3, <2>4, <2>5
<1> QED
  BY <1>1, <1>2, <1>3, <1>4

\* And so does every step of the system, where one inventory has one writer.
LEMMA ConfigInvInductive ==
    ASSUME OneWriter, ConfigInv, RecordInv', [Next]_vars
    PROVE  ConfigInv'
<1>1. ASSUME NEW n \in Nodes, PowerLoss(n) \/ Remove(n) PROVE ConfigInv'
  <2>a. TypeOK
    BY DEF ConfigInv, RecordInv, ControlInv, LockInv
  <2>1. ASSUME NEW m \in Nodes PROVE Undisturbed(m)
    <3>1. machine'[m] \in {machine[m], SwitchedOff(machine[m]), NoMachine}
      BY <1>1, <2>a DEF PowerLoss, Remove, TypeOK
    <3>2. /\ SwitchedOff(machine[m]).system = machine[m].system
          /\ SwitchedOff(machine[m]).configured = machine[m].configured
      BY <2>a, MachineFields DEF TypeOK
    <3>3. NoMachine.system = None
      BY DEF NoMachine
    <3> QED
      BY <3>1, <3>2, <3>3 DEF Undisturbed
  <2>2. UNCHANGED <<checkpoint, inventory, pc, job>>
    BY <1>1 DEF PowerLoss, Remove
  <2>3. ASSUME NEW q \in Services PROVE OwnInventory(q)' /\ PlaybookHeld(q)'
    <3>1. Targets(q) \subseteq Nodes
      BY <2>a DEF TypeOK, Targets, Jobs
    <3> QED
      BY <2>1, <2>2, <3>1, HeldFrame DEF ConfigInv
  <2>4. ASSUME NEW m \in Nodes PROVE NodeConfigured(m)'
    BY <2>1, <2>2, UndisturbedStaysConfigured DEF ConfigInv
  <2> QED
    BY <2>3, <2>4 DEF ConfigInv
<1>2. CASE UNCHANGED vars
  BY <1>2 DEF vars, ConfigInv, OwnInventory, PlaybookHeld, NodeConfigured, Targets
<1>3. ASSUME NEW p \in Services, NEW n \in Nodes, Worker(p, n) PROVE ConfigInv'
  BY <1>3, WorkerKeepsConfigured DEF ConfigInv
<1>4. ASSUME NEW p \in Services, Service(p) \/ Invoke(p) \/ Kill(p) PROVE ConfigInv'
  BY <1>4, ServiceKeepsConfigured DEF ConfigInv
<1> QED
  BY <1>1, <1>2, <1>3, <1>4 DEF Next, Progress

\* Where a playbook has one writer of its inventory, a node recorded as ready
\* runs the configuration on its record (service.py:293-322).
THEOREM ReadyMeansConfigured == OneWriter => (Spec => []ReadyIsConfigured)
<1> SUFFICES ASSUME OneWriter PROVE Spec => []ReadyIsConfigured
  OBVIOUS
<1>1. Init /\ RecordInv => ConfigInv
  BY DEF Init, ConfigInv, OwnInventory, PlaybookHeld, NodeConfigured, NewCheckpoint
<1>2. ConfigInv /\ [Next]_vars /\ RecordInv' => ConfigInv'
  BY ConfigInvInductive
<1>3. ConfigInv => ReadyIsConfigured
  BY DEF ConfigInv, NodeConfigured, ReadyIsConfigured
<1> QED
  BY <1>1, <1>2, <1>3, RecordsHold, PTL DEF Spec

-----------------------------------------------------------------------------
(* Installed systems are kept *)

\* Only what was asked to takes an installed system, or its record, away.
Purposes(p) ==
    \A n \in Nodes :
        /\ plan[p][n].action = "destroy" \/ worker[p][n] \in {"destroying", "forgetting"}
               => job[p].operation = "destroy"
        /\ plan[p][n].action = "reinstall" => job[p].reinstall

\* A worker that installs unasked found, and finds, no installed node on record.
Uninstalled(n) == checkpoint[n].phase \in {"new", "installing"}
Fresh(p, n) ==
    /\ plan[p][n].action = "deploy"
       /\ (pc[p] = "planning" \/ (pc[p] = "applying" /\ worker[p][n] = "queued"))
           => job[p].reinstall \/ Uninstalled(n)
    /\ worker[p][n] = "recording" => job[p].reinstall \/ Uninstalled(n)

\* A virtual machine's system is on its disk.
Housed(n) == Provider = "libvirt" /\ ~machine[n].exists => machine[n].system = None

KeptInv == /\ RecordInv
           /\ \A p \in Services : Purposes(p) /\ \A n \in Targets(p) : Fresh(p, n)
           /\ \A n \in Nodes : Housed(n)

\* What _action decides is what was asked for.
LEMMA ActionAsked ==
    ASSUME NEW n, NEW exists, NEW reachable, NEW j, j.operation \in AllOperations
    PROVE  /\ Action(n, exists, reachable, j) = "destroy" => j.operation = "destroy"
           /\ Action(n, exists, reachable, j) = "reinstall" => j.reinstall
           /\ Action(n, exists, reachable, j) = "deploy" /\ ~j.reinstall
                  => checkpoint[n].phase \notin {"bootstrapped", "ready"}
BY DEF Action, AllOperations

\* The fields of the machines that calls of the backend leave.
LEMMA MachineExists ==
    ASSUME NEW m \in Machines
    PROVE  /\ SwitchedOn(m).exists = m.exists /\ SwitchedOff(m).exists = m.exists
           /\ \A c \in Configurations \cup {None} :
                  Playing(m, c).exists = m.exists /\ Playing(m, c).running = m.running
           /\ Undefined(m).exists = m.exists /\ ~Undefined(m).running
           /\ ~NoMachine.running /\ NoMachine.system = None
           /\ BareDisk.exists /\ ~BareDisk.running /\ BareDisk.system = None
BY DEF Machines, SwitchedOn, SwitchedOff, Playing, Undefined, NoMachine, BareDisk

\* A worker at a step of its task is on a target, in a stage that runs a pool.
LEMMA WorkerAt ==
    ASSUME ControlInv, NEW p \in Services, NEW n \in Nodes,
           worker[p][n] \notin {"out", "done", "failed"}
    PROVE  /\ n \in Targets(p) /\ pc[p] \in {"applying", "server", "checking"}
           /\ worker[p][n] \notin {"queued", "verifying", "failing"} => pc[p] # "checking"
           /\ worker[p][n] = "queued" \/ worker[p][n] \in Active
BY DEF ControlInv, LockInv, Control, PoolShape, PoolDone, TypeOK, WorkerSteps

\* What a worker's step makes of its machine, unless it was asked to more.
LEMMA WorkerSystem ==
    ASSUME KeptInv, NEW p \in Services, NEW n \in Nodes, Worker(p, n), Provider = "libvirt"
    PROVE  /\ Housed(n)'
           /\ machine[n].system \in Fingerprints /\ machine'[n].system # machine[n].system
                  => /\ worker[p][n] \in {"deploying", "destroying"}
                     /\ job[p].reinstall \/ job[p].operation = "destroy"
<1> USE DEF KeptInv, RecordInv, ControlInv, LockInv, TypeOK, Step, durable
<1>a. machine[n] \in Machines /\ Housed(n) /\ Purposes(p) /\ None \notin Fingerprints
  BY ValueAssumption
<1>b. /\ SwitchedOn(machine[n]).system = machine[n].system
      /\ SwitchedOn(machine[n]).exists = machine[n].exists
      /\ SwitchedOff(machine[n]).system = machine[n].system
      /\ SwitchedOff(machine[n]).exists = machine[n].exists
      /\ Undefined(machine[n]).system = None /\ NoMachine.system = None
      /\ BareDisk.system = None
  BY <1>a, MachineFields, MachineExists
<1>1. CASE machine'[n] \in {machine[n], SwitchedOn(machine[n]), SwitchedOff(machine[n])}
  BY <1>a, <1>b, <1>1 DEF Housed
<1>2. CASE Deploy(p, n)
  <2>1. machine'[n].exists
    BY <1>2, <1>a, ProviderAssumption DEF Deploy, Deployed
  <2>2. worker[p][n] = "deploying" /\ (machine[n].exists => job[p].reinstall)
    BY <1>2 DEF Deploy, DeployRefused
  <2> QED
    BY <1>a, <2>1, <2>2 DEF Housed
<1>3. CASE DeployFails(p, n) /\ ~DeployRefused(p, n)
  <2>1. machine'[n] \in {machine[n], SwitchedOff(machine[n]), Undefined(machine[n]), NoMachine,
                         BareDisk}
    BY <1>3, <1>a DEF DeployFails, HalfDeployed, HalfTornDown
  <2>2. worker[p][n] = "deploying" /\ (machine[n].exists => job[p].reinstall)
    BY <1>3 DEF DeployFails, DeployRefused
  <2> QED
    BY <1>1, <1>a, <1>b, <2>1, <2>2 DEF Housed
<1>4. CASE worker[p][n] = "destroying" /\ (Destroy(p, n) \/ BackendFails(p, n))
  <2>1. machine'[n] \in {machine[n], SwitchedOff(machine[n]), Undefined(machine[n]), NoMachine}
    BY <1>4, <1>a DEF Destroy, BackendFails, HalfTornDown
  <2>2. job[p].operation = "destroy"
    BY <1>4, <1>a DEF Purposes
  <2> QED
    BY <1>1, <1>4, <1>a, <1>b, <2>1, <2>2 DEF Housed
<1>5. CASE ~(\/ Deploy(p, n) \/ (DeployFails(p, n) /\ ~DeployRefused(p, n))
             \/ worker[p][n] = "destroying" /\ (Destroy(p, n) \/ BackendFails(p, n)))
  <2>1. machine'[n] \in {machine[n], SwitchedOn(machine[n]), SwitchedOff(machine[n])}
    BY <1>5, <1>a DEF Worker, Begin, Recheck, Record, DeployFails, Start, Verify, VerifyFails,
       Commit, Stop, Destroy, Forget, BackendFails, RecordError
  <2> QED
    BY <1>1, <2>1
<1> QED
  BY <1>2, <1>3, <1>4, <1>5

\* And of the record of its node.
LEMMA WorkerRecord ==
    ASSUME KeptInv, NEW p \in Services, NEW n \in Nodes, Worker(p, n),
           ~Uninstalled(n), Uninstalled(n)'
    PROVE  /\ pc[p] \in {"applying", "server"}
           /\ job[p].reinstall \/ job[p].operation = "destroy"
<1> USE DEF KeptInv, RecordInv, ControlInv, LockInv, TypeOK, Step, Write, durable
<1>a. checkpoint[n] \in Checkpoints /\ Purposes(p)
  OBVIOUS
<1>1. Record(p, n) \/ Forget(p, n)
  <2>1. CASE RecordError(p, n)
    BY <1>a, <2>1, CheckpointFields DEF RecordError, Uninstalled
  <2>2. CASE Commit(p, n)
    <3>1. local[p][n] \in Checkpoints
      OBVIOUS
    <3>2. checkpoint'[n].phase \in {"bootstrapped", "ready"}
      BY <2>2, <3>1 DEF Commit, Checkpoints, Phases
    <3> QED
      BY <3>2 DEF Uninstalled
  <2>3. CASE ~(RecordError(p, n) \/ Commit(p, n) \/ Record(p, n) \/ Forget(p, n))
    <3>1. checkpoint' = checkpoint
      BY <2>3 DEF Worker, Begin, Recheck, Deploy, DeployFails, Start, Verify, VerifyFails, Stop,
         Destroy, BackendFails
    <3> QED
      BY <3>1 DEF Uninstalled
  <2> QED
    BY <2>1, <2>2, <2>3
<1>2. worker[p][n] \in {"recording", "forgetting"}
  BY <1>1 DEF Record, Forget
<1>3. n \in Targets(p) /\ pc[p] \in {"applying", "server"}
  BY <1>2, WorkerAt
<1>4. Fresh(p, n)
  BY <1>3
<1> QED
  BY <1>a, <1>2, <1>3, <1>4 DEF Fresh, Purposes

\* The steps outside the workers switch no machine on or off.
LEMMA ServicePower ==
    ASSUME TypeOK, NEW p \in Services, Service(p) \/ Invoke(p) \/ Kill(p), NEW n \in Nodes
    PROVE  /\ machine'[n].exists = machine[n].exists
           /\ machine'[n].running = machine[n].running
<1> USE DEF TypeOK
<1>1. CASE RunPlaybook(p)
  BY <1>1, MachineExists DEF RunPlaybook, Configured, Hosts
<1>2. CASE PlaybookFails(p)
  <2>1. PICK hosts \in SUBSET inventory.hosts : Configured(hosts, None)
    BY <1>2 DEF PlaybookFails
  <2> QED
    BY <1>2, <2>1, MachineExists DEF Configured
<1>3. CASE ~(RunPlaybook(p) \/ PlaybookFails(p))
  BY <1>3, ServiceMachine
<1> QED
  BY <1>1, <1>2, <1>3

\* A worker's step is one of its invocation's, as it was planned.
LEMMA WorkerKeepsPurpose ==
    ASSUME KeptInv, NEW p \in Services, NEW n \in Nodes, Worker(p, n)
    PROVE  Purposes(p)' /\ \A m \in Targets(p) : Fresh(p, m)'
<1> USE DEF KeptInv, RecordInv, ControlInv, LockInv, TypeOK
<1>a. /\ UNCHANGED <<pc, job, plan>>
      /\ \A m \in Nodes \ {n} : /\ checkpoint'[m] = checkpoint[m]
                                /\ worker'[p][m] = worker[p][m]
  BY WorkerFrame
<1>b. Purposes(p) /\ Control(p) /\ SessionToInstall(p)
  OBVIOUS
<1>c. \A m \in Targets(p) : Fresh(p, m) /\ m \in Nodes
  BY DEF Targets, Jobs
<1>1. CASE Begin(p, n)
  <2>a. /\ worker[p][n] = "queued" /\ pc[p] \in {"applying", "server"}
        /\ checkpoint' = checkpoint /\ worker'[p][n] = Opening(plan[p][n])
    BY <1>1 DEF Begin, Step, durable
  <2>b. n \in Targets(p)
    BY <2>a, WorkerAt
  <2>1. /\ worker[p][n] = "queued" /\ pc[p] \in {"applying", "server"} /\ n \in Targets(p)
        /\ checkpoint' = checkpoint /\ worker'[p][n] = Opening(plan[p][n])
    BY <2>a, <2>b
  <2>2. worker'[p][n] \in {"destroying", "forgetting"} => job[p].operation = "destroy"
    BY <1>b, <2>1 DEF Opening, Purposes
  <2>3. worker'[p][n] = "recording" => job[p].reinstall \/ Uninstalled(n)
    <3> SUFFICES ASSUME plan[p][n].action = "deploy" PROVE job[p].reinstall \/ Uninstalled(n)
      BY <1>b, <2>1 DEF Opening, Purposes
    <3>1. pc[p] # "server"
      BY <1>b DEF Control, Stages, Commits, SessionToInstall, Installs, Installing
    <3> QED
      BY <1>c, <2>1, <3>1 DEF Fresh
  <2>4. worker'[p][n] # "queued"
    BY <2>1 DEF Opening
  <2> QED
    BY <1>a, <1>b, <1>c, <2>1, <2>2, <2>3, <2>4 DEF Purposes, Fresh, Uninstalled
<1>2. CASE ~Begin(p, n)
  <2>1. /\ worker'[p][n] \notin {"queued", "recording", "destroying"}
        /\ worker'[p][n] = "forgetting" => worker[p][n] = "destroying"
    BY <1>2 DEF Worker, Recheck, Record, Deploy, DeployFails, Start, Verify, VerifyFails,
       Commit, Stop, Destroy, Forget, BackendFails, RecordError, Step
  <2>2. Purposes(p)'
    BY <1>a, <1>b, <2>1 DEF Purposes
  <2>3. pc[p] # "planning"
    BY WorkerControl DEF Worker, Begin, Recheck, Record, Deploy, DeployFails, Start, Verify,
       VerifyFails, Commit, Stop, Destroy, Forget, BackendFails, RecordError, Step, Control,
       PoolShape, PoolDone
  <2> QED
    BY <1>a, <1>c, <2>1, <2>2, <2>3 DEF Fresh, Uninstalled
<1> QED
  BY <1>1, <1>2

\* Nor does an invocation's own step plan anything that was not asked for.
LEMMA ServiceKeepsPurpose ==
    ASSUME KeptInv, NEW p \in Services, Service(p), ~Leave(p)
    PROVE  Purposes(p)' /\ \A m \in Targets(p) : Fresh(p, m)'
<1> USE DEF KeptInv, RecordInv, ControlInv, LockInv, TypeOK
<1>a. Purposes(p) /\ Control(p) /\ job' = job
  BY ServiceFrame
<1>b. \A m \in Targets(p) : Fresh(p, m) /\ m \in Nodes
  BY DEF Targets, Jobs
<1>c. \A m \in Nodes : worker[p][m] \in {"out", "done", "failed"}
  BY <1>a DEF Control, PoolShape, PoolDone, Service, Observe, ObserveFails, Refuse,
     StartWorkers, SessionFails, ApplyFails, ClientsDone, Finish, BeginConfiguration, Demote,
     SkipPlaybook, RefuseConfiguration, WriteInventory, RunPlaybook, PlaybookFails,
     CheckFails, CheckDone, NoteFailure, MarkReady, Release, Applied, Demoted
<1>d. \A m \in Nodes : worker'[p][m] \in {"out", "done", "failed", "queued"}
  BY <1>c, ServiceWorkers
<1>1. CASE Observe(p)
  <2>a. /\ UNCHANGED <<checkpoint, worker, pc>>
        /\ \E n \in Nodes : \E reachable :
              plan' = [plan EXCEPT ![p][n] =
                  [action |-> Action(n, Exists(n, reachable), reachable, job[p]),
                   running |-> machine[n].running]]
    BY <1>1 DEF Observe, durable
  <2>b. PICK n \in Nodes : \E reachable :
            plan' = [plan EXCEPT ![p][n] =
                [action |-> Action(n, Exists(n, reachable), reachable, job[p]),
                 running |-> machine[n].running]]
    BY <2>a
  <2>1. PICK reachable :
            plan' = [plan EXCEPT ![p][n] =
                [action |-> Action(n, Exists(n, reachable), reachable, job[p]),
                 running |-> machine[n].running]]
    BY <2>b
  <2>2. \A m \in Nodes \ {n} : plan'[p][m] = plan[p][m]
    BY <2>a, <2>1
  <2>3. plan'[p][n].action = Action(n, Exists(n, reachable), reachable, job[p])
    BY <2>a, <2>1
  <2>4. job[p].operation \in AllOperations /\ checkpoint[n].phase \in Phases
    BY DEF Jobs, Checkpoints
  <2>5. Purposes(p)'
    BY <1>a, <2>a, <2>1, <2>2, <2>3, <2>4, ActionAsked DEF Purposes
  <2>6. plan'[p][n].action = "deploy" => job[p].reinstall \/ Uninstalled(n)
    <3>1. Action(n, Exists(n, reachable), reachable, job[p]) = "deploy" /\ ~job[p].reinstall
              => checkpoint[n].phase \notin {"bootstrapped", "ready"}
      BY <2>4, ActionAsked
    <3>2. checkpoint[n].phase \notin {"bootstrapped", "ready"} => Uninstalled(n)
      BY <2>4 DEF Uninstalled, Phases
    <3> QED
      BY <2>3, <3>1, <3>2
  <2> QED
    BY <1>a, <1>b, <1>c, <2>a, <2>1, <2>2, <2>5, <2>6 DEF Fresh, Uninstalled
<1>2. CASE StartWorkers(p)
  <2>1. pc[p] = "planning" /\ UNCHANGED <<checkpoint, plan>>
    BY <1>2 DEF StartWorkers, durable
  <2> QED
    BY <1>a, <1>b, <1>d, <2>1 DEF Purposes, Fresh, Uninstalled
<1>3. CASE ~Observe(p) /\ ~StartWorkers(p)
  <2>1. plan' = plan
    BY <1>3, ServiceFrame
  <2>2. pc'[p] \notin {"planning", "applying"}
    BY <1>3 DEF Service, ObserveFails, Refuse, SessionFails, ApplyFails, ClientsDone, Finish,
       BeginConfiguration, Demote, SkipPlaybook, RefuseConfiguration, WriteInventory,
       RunPlaybook, PlaybookFails, CheckFails, CheckDone, NoteFailure, MarkReady, Release,
       LastLoop, Goto, CheckAgain, FailConfiguration
  <2>3. Purposes(p)'
    BY <1>a, <1>d, <2>1 DEF Purposes
  <2> QED
    BY <1>b, <1>d, <2>2, <2>3 DEF Fresh
<1> QED
  BY <1>1, <1>2, <1>3

\* Every step of the system keeps what was asked for, and where systems are.
LEMMA KeptInvInductive ==
    ASSUME KeptInv, RecordInv', [Next]_vars
    PROVE  KeptInv'
<1> USE DEF KeptInv
<1>a. TypeOK /\ LockInv /\ ControlInv /\ \A q \in Services : Targets(q) \subseteq Nodes
  BY DEF RecordInv, ControlInv, LockInv, TypeOK, Targets, Jobs
<1>1. ASSUME NEW p \in Services, Invoke(p) \/ Progress(p) \/ Kill(p), NEW q \in Services \ {p}
      PROVE  Purposes(q)' /\ \A n \in Targets(q)' : Fresh(q, n)'
  <2>1. Own(q)' = Own(q)
    BY <1>a, <1>1, OthersFrame
  <2>2. UNCHANGED <<pc[q], job[q], plan[q], worker[q]>>
    BY <2>1 DEF Own
  <2>3. \A n \in Targets(q) : checkpoint'[n] = checkpoint[n]
    <3> TAKE n \in Targets(q)
    <3>1. n \in Nodes \ Targets(p)
      BY <1>a, LocksExclude DEF Exclusive
    <3> QED
      BY <1>a, <1>1, <3>1, WritesTargets
  <2> QED
    BY <2>2, <2>3 DEF Purposes, Fresh, Uninstalled, Targets
<1>2. ASSUME NEW p \in Services, Invoke(p) \/ Leave(p)
      PROVE  Purposes(p)' /\ \A n \in Targets(p)' : Fresh(p, n)'
  <2>1. \A n \in Nodes : plan'[p][n] = Unplanned /\ worker'[p][n] \in {"out", "done", "failed"}
    <3>1. CASE Invoke(p)
      <4>1. plan[p] = [n \in Nodes |-> Unplanned] /\ UNCHANGED <<plan, worker>>
        BY <1>a, <3>1 DEF Invoke, Idle, LockInv, HoldsLocks
      <4>2. PoolDone(p)
        BY <1>a, <3>1 DEF Invoke, Idle, ControlInv, Control, PoolShape
      <4> QED
        BY <4>1, <4>2 DEF PoolDone
    <3>2. CASE Leave(p)
      BY <1>a, <3>2 DEF Leave, TypeOK, Pool
    <3> QED
      BY <1>2, <3>1, <3>2
  <2>2. \A n \in Targets(p)' : n \in Nodes
    BY DEF RecordInv, ControlInv, LockInv, TypeOK, Targets, Jobs
  <2> QED
    BY <2>1, <2>2 DEF Purposes, Fresh, Unplanned
<1>3. ASSUME NEW p \in Services, Service(p), ~Leave(p)
      PROVE  Purposes(p)' /\ \A n \in Targets(p)' : Fresh(p, n)'
  <2>1. Targets(p)' = Targets(p)
    BY <1>a, <1>3, ServiceFrame DEF Targets
  <2> QED
    BY <1>3, <2>1, ServiceKeepsPurpose
<1>4. ASSUME NEW p \in Services, NEW n \in Nodes, Worker(p, n)
      PROVE  Purposes(p)' /\ \A m \in Targets(p)' : Fresh(p, m)'
  <2>1. Targets(p)' = Targets(p)
    BY <1>a, <1>4, WorkerFrame DEF Targets
  <2> QED
    BY <1>4, <2>1, WorkerKeepsPurpose
<1>5. ASSUME NEW p \in Services, Service(p) \/ Invoke(p) \/ Kill(p), NEW n \in Nodes
      PROVE  Housed(n)'
  <2>1. machine'[n].system = machine[n].system /\ machine'[n].exists = machine[n].exists
    BY <1>a, <1>5, ServiceMachine, ServicePower
  <2> QED
    BY <2>1 DEF Housed
<1>6. ASSUME NEW p \in Services, NEW n \in Nodes, Worker(p, n), NEW m \in Nodes
      PROVE  Housed(m)'
  <2>1. CASE m = n
    BY <1>6, <2>1, WorkerSystem DEF Housed
  <2>2. CASE m # n
    BY <1>a, <1>6, <2>2, WorkerFrame DEF Housed
  <2> QED
    BY <2>1, <2>2
<1>7. ASSUME NEW n \in Nodes, PowerLoss(n) \/ Remove(n) PROVE KeptInv'
  <2>1. UNCHANGED <<checkpoint, pc, job, plan, worker>>
    BY <1>7 DEF PowerLoss, Remove
  <2>2. ASSUME NEW m \in Nodes PROVE Housed(m)'
    <3>1. machine'[m] \in {machine[m], SwitchedOff(machine[m]), NoMachine}
      BY <1>a, <1>7 DEF PowerLoss, Remove, TypeOK
    <3>2. /\ SwitchedOff(machine[m]).system = machine[m].system
          /\ SwitchedOff(machine[m]).exists = machine[m].exists /\ NoMachine.system = None
      BY <1>a, MachineFields, MachineExists DEF TypeOK
    <3> QED
      BY <3>1, <3>2 DEF Housed
  <2> QED
    BY <2>1, <2>2 DEF Purposes, Fresh, Uninstalled, Targets
<1>8. CASE UNCHANGED vars
  BY <1>8 DEF vars, Purposes, Fresh, Uninstalled, Targets, Housed
<1>9. CASE \E p \in Services : Invoke(p) \/ Progress(p) \/ Kill(p)
  <2>1. PICK p \in Services : Invoke(p) \/ Progress(p) \/ Kill(p)
    BY <1>9
  <2>2. Purposes(p)' /\ \A n \in Targets(p)' : Fresh(p, n)'
    BY <2>1, <1>2, <1>3, <1>4 DEF Progress, Kill
  <2>3. \A n \in Nodes : Housed(n)'
    BY <2>1, <1>5, <1>6 DEF Progress
  <2> QED
    BY <2>1, <2>2, <2>3, <1>1
<1> QED
  BY <1>7, <1>8, <1>9 DEF Next

\* What was installed, and the record of it, are kept from one state to the next.
LEMMA StepKeeps ==
    ASSUME KeptInv, [Next]_vars
    PROVE  [\A n \in Nodes : SystemKept(n) /\ RecordKept(n)]_vars
<1> USE DEF SystemKept, RecordKept
<1>a. TypeOK /\ ControlInv
  BY DEF KeptInv, RecordInv, ControlInv, LockInv
<1>1. ASSUME NEW p \in Services, NEW n \in Nodes, Worker(p, n), NEW m \in Nodes
      PROVE  SystemKept(m) /\ RecordKept(m)
  <2>1. CASE m # n
    BY <1>a, <1>1, <2>1, WorkerFrame
  <2>2. CASE m = n
    <3>1. SystemKept(n)
      <4> SUFFICES ASSUME Provider = "libvirt", machine[n].system \in Fingerprints,
                          machine'[n].system # machine[n].system
                   PROVE  Asked(n)
        OBVIOUS
      <4>1. worker[p][n] = "deploying" \/ worker[p][n] = "destroying"
        BY <1>1, WorkerSystem
      <4>2. job[p].reinstall \/ job[p].operation = "destroy"
        BY <1>1, WorkerSystem
      <4>3. n \in Targets(p) /\ pc[p] \in {"applying", "server"}
        BY <1>a, <4>1, WorkerAt
      <4> QED
        BY <4>2, <4>3 DEF Asked
    <3>2. RecordKept(n)
      <4> SUFFICES ASSUME checkpoint[n].phase \in {"bootstrapped", "ready"},
                          checkpoint'[n].phase \in {"new", "installing"}
                   PROVE  Asked(n)
        OBVIOUS
      <4>1. ~Uninstalled(n) /\ Uninstalled(n)'
        BY DEF Uninstalled
      <4> QED
        BY <1>a, <1>1, <4>1, WorkerRecord, WorkerControl DEF Asked
    <3> QED
      BY <2>2, <3>1, <3>2
  <2> QED
    BY <2>1, <2>2
<1>2. ASSUME NEW p \in Services, Service(p) \/ Invoke(p) \/ Kill(p), NEW m \in Nodes
      PROVE  SystemKept(m) /\ RecordKept(m)
  <2>1. checkpoint'[m].phase \in {checkpoint[m].phase, "bootstrapped", "ready"}
    <3>1. ReadyRecord(p).phase = "ready"
      BY DEF ReadyRecord
    <3> QED
      BY <1>a, <1>2, <3>1, ServiceCheckpoint
  <2>2. machine'[m].system = machine[m].system
    BY <1>a, <1>2, ServiceMachine
  <2> QED
    BY <2>1, <2>2
<1>3. ASSUME NEW n \in Nodes, PowerLoss(n) \/ Remove(n), NEW m \in Nodes
      PROVE  SystemKept(m) /\ RecordKept(m)
  <2>1. checkpoint' = checkpoint
    BY <1>3 DEF PowerLoss, Remove
  <2>2. CASE Remove(n) /\ m = n
    BY <2>1, <2>2
  <2>3. CASE ~(Remove(n) /\ m = n)
    <3>1. machine'[m] \in {machine[m], SwitchedOff(machine[m])}
      BY <1>a, <1>3, <2>3 DEF PowerLoss, Remove, TypeOK
    <3>2. SwitchedOff(machine[m]).system = machine[m].system
      BY <1>a, MachineFields DEF TypeOK
    <3> QED
      BY <2>1, <3>1, <3>2
  <2> QED
    BY <2>2, <2>3
<1>4. Next => \A n \in Nodes : SystemKept(n) /\ RecordKept(n)
  BY <1>1, <1>2, <1>3 DEF Next, Progress
<1> QED
  BY <1>4

\* Only a `destroy` or a `--reinstall` replaces or gives up what is installed
\* (service.py:136-164, provider.py:188-191).
THEOREM InstalledIsKept == Spec => InstalledSystemKept
<1>1. Init /\ RecordInv => KeptInv
  <2> SUFFICES ASSUME Init, RecordInv PROVE KeptInv
    OBVIOUS
  <2>1. \A p \in Services, n \in Nodes :
            plan[p][n] = Unplanned /\ worker[p][n] = "out"
    BY DEF Init, Pool
  <2>2. \A p \in Services : Targets(p) = {}
    BY DEF Init, Targets, NoJob
  <2>3. \A n \in Nodes : Housed(n)
    BY DEF Init, Housed
  <2> QED
    BY <2>1, <2>2, <2>3 DEF KeptInv, Purposes, Unplanned
<1>2. KeptInv /\ [Next]_vars /\ RecordInv' => KeptInv'
  BY KeptInvInductive
<1>3. KeptInv /\ [Next]_vars => [\A n \in Nodes : SystemKept(n) /\ RecordKept(n)]_vars
  BY StepKeeps
<1> QED
  BY <1>1, <1>2, <1>3, RecordsHold, PTL DEF Spec, InstalledSystemKept
-----------------------------------------------------------------------------
(* Storage outlives its clients *)

Halting(p) == job[p].operation \in {"down", "destroy"}

\* Whatever state its record is in, a node's task starts with an empty pool.
PoolAwaitsPlan(p) == pc[p] = "planning" => \A n \in Nodes : worker[p][n] = "out"

\* An operation that halts nodes plans nothing else, and its workers start none.
HaltsOnly(p) ==
    /\ \A n \in Nodes : /\ plan[p][n].action \in {"noop", "down", "destroy", "unmanaged"}
                        /\ worker[p][n] \in {"out", "queued", "stopping", "destroying",
                                             "forgetting", "failing", "done", "failed"}
    /\ pc[p] \in {"applying", "server"} => ~Refused(p)

\* Each target it is through with is off, unless it was not there.
HaltedOff(p) ==
    \A n \in Targets(p) :
        worker[p][n] = "forgetting" \/ (worker[p][n] = "done" /\ plan[p][n].action # "noop")
            => ~machine[n].running

\* The clients come first, every one of them, and the server when they are off.
ClientsFirst(p) ==
    NfsServer # None =>
        /\ pc[p] = "applying" =>
               /\ worker[p][NfsServer] = "out"
               /\ \A n \in Targets(p) \ {NfsServer} : worker[p][n] # "out"
        /\ pc[p] = "server" => \A n \in Targets(p) \ {NfsServer} :
                                   plan[p][n].action = "noop" \/ ~machine[n].running

HaltInv == /\ ControlInv
           /\ \A p \in Services :
                  /\ PoolAwaitsPlan(p)
                  /\ Halting(p) => HaltsOnly(p) /\ HaltedOff(p) /\ ClientsFirst(p)

\* What is decided for an operation that halts nodes.
LEMMA ActionHalts ==
    ASSUME NEW n, NEW exists, NEW reachable, NEW j, j.operation \in {"down", "destroy"}
    PROVE  Action(n, exists, reachable, j) \in {"noop", "down", "destroy", "unmanaged"}
BY DEF Action

\* A worker's step switches its machine on in three places only, and leaves it
\* off where the node is halted.
LEMMA WorkerPower ==
    ASSUME TypeOK, NEW p \in Services, NEW n \in Nodes, Worker(p, n),
           worker[p][n] \notin {"deploying", "starting", "verifying"}
    PROVE  /\ machine'[n].running => machine[n].running
           /\ Stop(p, n) \/ Destroy(p, n) => ~machine'[n].running
<1> USE DEF TypeOK, durable, Step
<1>a. machine[n] \in Machines
  OBVIOUS
<1>b. /\ ~SwitchedOff(machine[n]).running /\ ~Undefined(machine[n]).running
      /\ ~NoMachine.running
  BY <1>a, MachineFields, MachineExists
<1>1. Stop(p, n) \/ Destroy(p, n) => ~machine'[n].running
  BY <1>a, <1>b DEF Stop, Destroy
<1>2. BackendFails(p, n) => (machine'[n].running => machine[n].running)
  <2> SUFFICES ASSUME BackendFails(p, n) PROVE machine'[n].running => machine[n].running
    OBVIOUS
  <2>1. machine'[n] \in {machine[n], SwitchedOff(machine[n]), Undefined(machine[n]), NoMachine}
    BY <1>a DEF BackendFails, HalfTornDown
  <2> QED
    BY <1>b, <2>1
<1>3. ~(Stop(p, n) \/ Destroy(p, n) \/ BackendFails(p, n)) => machine' = machine
  BY DEF Worker, Begin, Recheck, Record, Deploy, DeployFails, Start, Verify, VerifyFails, Commit,
     Forget, RecordError
<1> QED
  BY <1>1, <1>2, <1>3

\* An invocation's part stays while no step is its own and none starts a machine.
LEMMA HaltsFrame ==
    ASSUME NEW q, PoolAwaitsPlan(q), Halting(q) => HaltsOnly(q) /\ HaltedOff(q) /\ ClientsFirst(q),
           UNCHANGED <<pc[q], job[q], plan[q], worker[q]>>,
           \A n \in Targets(q) : machine'[n].running => machine[n].running
    PROVE  /\ PoolAwaitsPlan(q)'
           /\ Halting(q)' => HaltsOnly(q)' /\ HaltedOff(q)' /\ ClientsFirst(q)'
<1>1. PoolAwaitsPlan(q)' /\ (HaltsOnly(q) => HaltsOnly(q)')
  BY DEF PoolAwaitsPlan, HaltsOnly, Refused, Targets
<1>2. HaltedOff(q) => HaltedOff(q)'
  BY DEF HaltedOff, Targets
<1>3. ClientsFirst(q) => ClientsFirst(q)'
  BY DEF ClientsFirst, Targets
<1> QED
  BY <1>1, <1>2, <1>3 DEF Halting

\* A worker's own step: one that halts its node leaves it off.
LEMMA WorkerHalts ==
    ASSUME HaltInv, NEW p \in Services, NEW n \in Nodes, Worker(p, n)
    PROVE  /\ PoolAwaitsPlan(p)'
           /\ Halting(p)' => HaltsOnly(p)' /\ HaltedOff(p)' /\ ClientsFirst(p)'
<1> USE DEF HaltInv, ControlInv, LockInv, TypeOK
<1>a. /\ UNCHANGED <<pc, job, plan>>
      /\ \A m \in Nodes \ {n} : worker'[p][m] = worker[p][m] /\ machine'[m] = machine[m]
  BY WorkerFrame
<1>b. n \in Targets(p) /\ Control(p) /\ Targets(p) \subseteq Nodes
  BY WorkerControl DEF Targets, Jobs
<1>c. worker[p][n] \notin {"out", "done", "failed"} /\ worker'[p][n] # "out"
  <2>1. worker[p][n] \notin {"out", "done", "failed"}
    BY DEF Worker, Begin, Recheck, Record, Deploy, DeployFails, Start, Verify, VerifyFails, Commit,
       Stop, Destroy, Forget, BackendFails, RecordError, Step
  <2>2. worker'[p][n] # "out"
    BY DEF Worker, Begin, Recheck, Record, Deploy, DeployFails, Start, Verify, VerifyFails, Commit,
       Stop, Destroy, Forget, BackendFails, RecordError, Step, Opening
  <2> QED
    BY <2>1, <2>2
<1>d. pc[p] \in {"applying", "server", "checking"}
  BY <1>c, WorkerAt
<1>1. PoolAwaitsPlan(p)'
  BY <1>a, <1>d DEF PoolAwaitsPlan
<1> SUFFICES ASSUME Halting(p) PROVE HaltsOnly(p)' /\ HaltedOff(p)' /\ ClientsFirst(p)'
  BY <1>1, <1>a DEF Halting
<1>e. HaltsOnly(p) /\ HaltedOff(p) /\ ClientsFirst(p) /\ pc[p] \in {"applying", "server"}
  BY <1>b, <1>d DEF Control, Stages, Halting
<1>f. plan[p][n].action \in {"noop", "down", "destroy"}
  BY <1>b, <1>e DEF HaltsOnly, Refused, Blocked
<1>g. worker[p][n] \in {"queued", "stopping", "destroying", "forgetting", "failing"}
  BY <1>c, <1>e DEF HaltsOnly
<1>2. \/ /\ Begin(p, n) /\ worker'[p][n] = Opening(plan[p][n]) /\ machine' = machine
      \/ Stop(p, n) /\ worker'[p][n] = "done"
      \/ Destroy(p, n) /\ worker'[p][n] = "forgetting"
      \/ /\ worker[p][n] = "forgetting" /\ worker'[p][n] = "done" /\ machine' = machine
      \/ worker'[p][n] \in {"failing", "failed"}
  BY <1>g, <1>e DEF Worker, Begin, Recheck, Record, Deploy, DeployFails, Start, Verify, VerifyFails,
     Commit, Stop, Destroy, Forget, BackendFails, RecordError, Step, durable
<1>3. machine'[n].running => machine[n].running
  BY <1>g, WorkerPower
<1>4. HaltsOnly(p)'
  <2>1. worker'[p][n] \in {"stopping", "destroying", "forgetting", "failing", "done", "failed"}
    BY <1>2, <1>f DEF Opening
  <2> QED
    BY <1>a, <1>e, <2>1 DEF HaltsOnly, Refused, Targets
<1>5. HaltedOff(p)'
  <2>1. worker'[p][n] = "forgetting" \/ (worker'[p][n] = "done" /\ plan[p][n].action # "noop")
            => ~machine'[n].running
    <3>1. Stop(p, n) \/ Destroy(p, n) => ~machine'[n].running
      BY <1>g, WorkerPower
    <3>2. worker'[p][n] = Opening(plan[p][n]) => worker'[p][n] # "forgetting"
              /\ (worker'[p][n] = "done" => plan[p][n].action = "noop")
      BY <1>f DEF Opening
    <3>3. worker[p][n] = "forgetting" => ~machine[n].running
      BY <1>b, <1>e DEF HaltedOff
    <3> QED
      BY <1>2, <3>1, <3>2, <3>3
  <2> QED
    BY <1>a, <1>b, <1>e, <2>1 DEF HaltedOff, Targets
<1>6. ClientsFirst(p)'
  <2> SUFFICES ASSUME NfsServer # None PROVE ClientsFirst(p)'
    BY DEF ClientsFirst
  <2>0. NfsServer \in Nodes
    BY NfsAssumption
  <2>1. pc[p] = "applying" => n # NfsServer
    BY <1>c, <1>e DEF ClientsFirst
  <2>2. pc'[p] = "applying" => worker'[p][NfsServer] = "out"
    BY <1>a, <1>e, <2>0, <2>1 DEF ClientsFirst
  <2>3. pc'[p] = "applying" => \A m \in Targets(p) \ {NfsServer} : worker'[p][m] # "out"
    BY <1>a, <1>b, <1>c, <1>e DEF ClientsFirst
  <2>4. pc'[p] = "server" => \A m \in Targets(p) \ {NfsServer} :
                                 plan'[p][m].action = "noop" \/ ~machine'[m].running
    BY <1>a, <1>b, <1>e, <1>3 DEF ClientsFirst
  <2> QED
    BY <1>a, <2>2, <2>3, <2>4 DEF ClientsFirst, Targets
<1> QED
  BY <1>4, <1>5, <1>6

\* An invocation's own step: the server's turn comes when its clients are off.
LEMMA ServiceHalts ==
    ASSUME HaltInv, NEW p \in Services, Service(p), ~Leave(p)
    PROVE  /\ PoolAwaitsPlan(p)'
           /\ Halting(p)' => HaltsOnly(p)' /\ HaltedOff(p)' /\ ClientsFirst(p)'
<1> USE DEF HaltInv, ControlInv, LockInv, TypeOK
<1>a. /\ job' = job /\ Control(p) /\ Targets(p) \subseteq Nodes /\ Targets(p)' = Targets(p)
      /\ ~Observe(p) => plan' = plan
  BY ServiceFrame DEF Targets, Jobs
<1>b. \A n \in Nodes : machine'[n].running = machine[n].running
  BY ServicePower
<1>1. CASE Observe(p)
  <2>1. pc[p] = "planning" /\ UNCHANGED <<pc, worker>>
    BY <1>1 DEF Observe
  <2>2. \A n \in Nodes : worker'[p][n] = "out"
    BY <2>1 DEF PoolAwaitsPlan
  <2>3. ASSUME Halting(p)
        PROVE  \A n \in Nodes : plan'[p][n].action \in {"noop", "down", "destroy", "unmanaged"}
    <3>a. PICK n \in Nodes : \E reachable :
              plan' = [plan EXCEPT ![p][n] =
                  [action |-> Action(n, Exists(n, reachable), reachable, job[p]),
                   running |-> machine[n].running]]
      BY <1>1 DEF Observe
    <3>1. PICK reachable :
              plan' = [plan EXCEPT ![p][n] =
                  [action |-> Action(n, Exists(n, reachable), reachable, job[p]),
                   running |-> machine[n].running]]
      BY <3>a
    <3>2. Action(n, Exists(n, reachable), reachable, job[p]) \in {"noop", "down", "destroy", "unmanaged"}
      BY <2>3, ActionHalts DEF Halting
    <3> QED
      BY <2>3, <3>1, <3>2 DEF HaltsOnly
  <2> QED
    BY <1>a, <2>1, <2>2, <2>3, NfsAssumption
       DEF PoolAwaitsPlan, Halting, HaltsOnly, HaltedOff, ClientsFirst
<1>2. CASE StartWorkers(p)
  <2>1. /\ pc'[p] = "applying" /\ ~Refused(p) /\ worker'[p] = Pool(FirstStage(p)) /\ plan' = plan
    BY <1>2 DEF StartWorkers, Goto
  <2>2. \A n \in Nodes : /\ worker'[p][n] \in {"out", "queued"}
                         /\ worker'[p][n] = "queued" <=> n \in FirstStage(p)
    BY <2>1 DEF Pool
  <2>3. Halting(p) /\ NfsServer # None => FirstStage(p) = Targets(p) \ {NfsServer}
    BY DEF FirstStage, Ordered, Halting
  <2>4. PoolAwaitsPlan(p)' /\ HaltedOff(p)'
    BY <1>a, <2>1, <2>2 DEF PoolAwaitsPlan, HaltedOff
  <2>5. Halting(p) => HaltsOnly(p)'
    BY <1>a, <2>1, <2>2 DEF HaltsOnly, Refused
  <2>6. Halting(p) => ClientsFirst(p)'
    BY <1>a, <2>1, <2>2, <2>3, NfsAssumption DEF ClientsFirst
  <2> QED
    BY <1>a, <2>4, <2>5, <2>6 DEF Halting
<1>3. CASE ClientsDone(p)
  <2>1. /\ pc[p] = "applying" /\ pc'[p] = "server" /\ worker'[p] = Pool(ServerStage(p))
        /\ plan' = plan /\ PoolDone(p) /\ ~PoolFailed(p)
    BY <1>3 DEF ClientsDone, Goto
  <2>2. \A n \in Nodes : worker'[p][n] \in {"out", "queued"} /\ worker[p][n] \in {"out", "done"}
    BY <2>1 DEF Pool, PoolDone, PoolFailed
  <2>3. PoolAwaitsPlan(p)' /\ HaltedOff(p)'
    BY <1>a, <2>1, <2>2 DEF PoolAwaitsPlan, HaltedOff
  <2>4. Halting(p) => HaltsOnly(p)'
    BY <1>a, <2>1, <2>2 DEF HaltsOnly, Refused
  <2>5. ASSUME Halting(p), NfsServer # None, NEW n \in Targets(p) \ {NfsServer}
        PROVE  plan[p][n].action = "noop" \/ ~machine[n].running
    <3>1. worker[p][n] = "done"
      BY <1>a, <2>1, <2>2, <2>5 DEF ClientsFirst
    <3> QED
      BY <2>5, <3>1 DEF HaltedOff
  <2>6. Halting(p) => ClientsFirst(p)'
    BY <1>a, <1>b, <2>1, <2>5 DEF ClientsFirst
  <2> QED
    BY <1>a, <2>3, <2>4, <2>6 DEF Halting
<1>4. CASE SkipPlaybook(p) \/ RunPlaybook(p)
  <2>1. pc[p] \in {"demoting", "playbook"} /\ pc'[p] = "checking"
    BY <1>4 DEF SkipPlaybook, RunPlaybook, CheckAgain, Goto, Demoted
  <2>2. ~Halting(p)
    BY <1>a, <2>1 DEF Control, Stages, Halting
  <2> QED
    BY <1>a, <2>1, <2>2 DEF PoolAwaitsPlan, Halting
<1>5. CASE ~(\/ Observe(p) \/ StartWorkers(p) \/ ClientsDone(p) \/ SkipPlaybook(p)
             \/ RunPlaybook(p))
  <2>1. worker' = worker /\ pc'[p] \notin {"planning", "applying", "server"}
    BY <1>5 DEF Service, ObserveFails, Refuse, SessionFails, ApplyFails,
       Finish, BeginConfiguration, Demote, RefuseConfiguration, FailConfiguration, WriteInventory,
       PlaybookFails, CheckFails, CheckDone, NoteFailure, MarkReady, LastLoop, Release, Goto
  <2>2. PoolAwaitsPlan(p)' /\ ClientsFirst(p)'
    BY <2>1 DEF PoolAwaitsPlan, ClientsFirst
  <2>3. Halting(p) => HaltsOnly(p)' /\ HaltedOff(p)'
    <3>1. plan' = plan
      BY <1>5, <1>a
    <3>2. HaltsOnly(p) => HaltsOnly(p)'
      BY <2>1, <3>1 DEF HaltsOnly
    <3>3. HaltedOff(p) => HaltedOff(p)'
      BY <1>a, <1>b, <2>1, <3>1 DEF HaltedOff
    <3> QED
      BY <3>2, <3>3
  <2> QED
    BY <1>a, <2>2, <2>3 DEF Halting
<1> QED
  BY <1>1, <1>2, <1>3, <1>4, <1>5

\* So does every step of the system.
LEMMA HaltInvInductive ==
    ASSUME HaltInv, ControlInv', [Next]_vars
    PROVE  HaltInv'
<1> DEFINE Halts(q) == /\ PoolAwaitsPlan(q)
                       /\ Halting(q) => HaltsOnly(q) /\ HaltedOff(q) /\ ClientsFirst(q)
<1>a. TypeOK /\ LockInv /\ ControlInv /\ \A q \in Services : Targets(q) \subseteq Nodes
  BY DEF HaltInv, ControlInv, LockInv, TypeOK, Targets, Jobs
<1>b. \A q \in Services : Halts(q)
  BY DEF HaltInv
<1> SUFFICES \A q \in Services : Halts(q)'
  BY DEF HaltInv
<1>1. ASSUME NEW p \in Services, Invoke(p) \/ Progress(p) \/ Kill(p), NEW q \in Services \ {p}
      PROVE  Halts(q)'
  <2>1. UNCHANGED <<pc[q], job[q], plan[q], worker[q]>>
    BY <1>a, <1>1, OthersFrame DEF Own
  <2>2. \A n \in Targets(q) : machine'[n].running => machine[n].running
    <3> TAKE n \in Targets(q)
    <3>1. n \in Nodes \ Targets(p)
      BY <1>a, LocksExclude DEF Exclusive
    <3>2. CASE \E m \in Nodes : Worker(p, m)
      BY <1>a, <3>1, <3>2, WorkerFrame, WorkerControl
    <3>3. CASE Service(p) \/ Invoke(p) \/ Kill(p)
      BY <1>a, <3>1, <3>3, ServicePower
    <3> QED
      BY <1>1, <3>2, <3>3 DEF Progress
  <2> QED
    BY <1>b, <2>1, <2>2, HaltsFrame
<1>2. ASSUME NEW p \in Services, Invoke(p) PROVE Halts(p)'
  <2>1. /\ pc[p] = "idle" /\ pc'[p] = "planning" /\ UNCHANGED <<plan, worker>>
    BY <1>a, <1>2 DEF Invoke, Idle, Goto, TypeOK
  <2>2. \A n \in Nodes : plan[p][n] = Unplanned /\ worker[p][n] = "out"
    BY <1>a, <2>1 DEF LockInv, HoldsLocks, ControlInv, Control, PoolShape, Targets, NoJob
  <2>3. Targets(p)' \subseteq Nodes
    BY <1>a, <1>2 DEF Invoke, TypeOK, Targets
  <2>4. PoolAwaitsPlan(p)' /\ ClientsFirst(p)'
    BY <2>1, <2>2 DEF PoolAwaitsPlan, ClientsFirst
  <2>5. HaltsOnly(p)' /\ HaltedOff(p)'
    BY <2>1, <2>2, <2>3 DEF HaltsOnly, HaltedOff, Unplanned
  <2> QED
    BY <2>4, <2>5
<1>3. ASSUME NEW p \in Services, Leave(p) PROVE Halts(p)'
  <2>1. /\ pc'[p] = "idle" /\ job'[p] = NoJob
        /\ \A n \in Nodes : plan'[p][n] = Unplanned /\ worker'[p][n] = "out"
    BY <1>a, <1>3 DEF Leave, Goto, TypeOK, Pool
  <2> QED
    BY <2>1 DEF PoolAwaitsPlan, HaltsOnly, HaltedOff, ClientsFirst, Unplanned, Targets, NoJob
<1>4. ASSUME NEW n \in Nodes, PowerLoss(n) \/ Remove(n), NEW q \in Services PROVE Halts(q)'
  <2>1. UNCHANGED <<pc, job, plan, worker>>
    BY <1>4 DEF PowerLoss, Remove
  <2>2. ASSUME NEW m \in Nodes PROVE machine'[m].running => machine[m].running
    <3>1. machine'[m] \in {machine[m], SwitchedOff(machine[m]), NoMachine}
      BY <1>a, <1>4 DEF PowerLoss, Remove, TypeOK
    <3>2. ~SwitchedOff(machine[m]).running /\ ~NoMachine.running
      BY <1>a, MachineFields, MachineExists DEF TypeOK
    <3> QED
      BY <3>1, <3>2
  <2> QED
    BY <1>a, <1>b, <2>1, <2>2, HaltsFrame
<1>5. ASSUME UNCHANGED vars, NEW q \in Services PROVE Halts(q)'
  BY <1>5, <1>b, HaltsFrame DEF vars
<1>6. ASSUME NEW p \in Services, Invoke(p) \/ Progress(p) \/ Kill(p) PROVE Halts(p)'
  BY <1>6, <1>2, <1>3, WorkerHalts, ServiceHalts DEF Progress, Kill
<1> QED
  BY <1>1, <1>4, <1>5, <1>6 DEF Next

\* The storage server is stopped only when every client of the operation is
\* down (service.py:279-290).
THEOREM StorageIsLast == Spec => StorageOutlivesClients
<1>1. Init /\ ControlInv => HaltInv
  BY DEF Init, HaltInv, PoolAwaitsPlan, HaltsOnly, HaltedOff, ClientsFirst, Unplanned, Targets,
     NoJob, Pool
<1>2. HaltInv /\ [Next]_vars /\ ControlInv' => HaltInv'
  BY HaltInvInductive
<1>3. HaltInv => \A p \in Services : ServerStopsLast(p)
  <2> SUFFICES ASSUME HaltInv, NEW p \in Services, NfsServer # None,
                      worker[p][NfsServer] \in {"stopping", "destroying"}
               PROVE  \A n \in Targets(p) \ {NfsServer} :
                          plan[p][n].action = "noop" \/ ~machine[n].running
    BY DEF ServerStopsLast
  <2>a. NfsServer \in Nodes /\ ControlInv /\ Control(p) /\ job[p].operation \in AllOperations
    BY NfsAssumption DEF HaltInv, ControlInv, LockInv, TypeOK, Jobs
  <2>1. Halting(p)
    BY <2>a DEF Control, PlanFits, Commits, Halting, AllOperations
  <2>2. pc[p] \in {"applying", "server"}
    BY <2>a, WorkerAt
  <2> QED
    BY <2>1, <2>2 DEF HaltInv, ClientsFirst
<1> QED
  BY <1>1, <1>2, <1>3, ControlHolds, PTL DEF Spec, StorageOutlivesClients
=============================================================================
