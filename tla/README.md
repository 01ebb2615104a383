# Cabrita in TLA+

Cabrita (`cabritactl`) installs, configures, stops and removes the nodes of a small
cluster, either virtual machines under libvirt or physical Helvetios nodes behind their
BMCs. This directory holds a specification of it: TLA+ modules for the parts whose
behaviour is decided by the order of events, TLC runs on small instances, and theorems
about every instance. Paths below are relative to `src/src/cabritactl/` unless they begin
with `docs/` or `README.md`, which are in `src/`. `PROJECT.json` lists, for every
definition, the lines of the program it stands for.

## The system

| Component | State it keeps | Operations | What makes it correct |
|---|---|---|---|
| Lifecycle orchestration, `core/lifecycle/service.py` | `node-N.json` per node: phase, provisioning fingerprint, configuration fingerprint, error | `plan`, `execute` for `up`, `deploy`, `configure`, `down`, `destroy` | a record and its machine never disagree in the dangerous direction; nothing installed is replaced unasked; failures are recorded; success means success |
| Provider backend, `lifecycle.py` | `inventory.json`, `restore.json` and logs in the cluster's work directory | `observe`, `deploy`, `start`, `verify`, `configure`, `stop`, `destroy` | an installation is accepted only when it is the one that was started |
| Locks, `core/lifecycle/service.py`, `core/lifecycle/remote_locks.py` | flocks on this host, or leases on the bastion held by ssh sessions | `acquire` (sorted, without waiting) | work is covered by locks; locks come back; contention has a winner |
| Artifact cache, `bootstrap/artifacts.py` | `<sha256>.<format>`, its `.partial` and its `.lock` | `materialize` | published once, whole, immutable; retry works |
| Bastion media, `bootstrap/remote.py` | the same files on the bastion, uploaded media | `prepare` | as above, over ssh |
| Libvirt provider, `providers/libvirt_backend/` | domains and their disks | provision, power, teardown | refuses to overwrite |
| Helvetios provider, `providers/helvetios/` | virtual media slots, boot override, power, a SOCKS tunnel | mount and boot, eject, power | no node boots an installer it should not |
| Media server, `bootstrap/http_server.py`, `bootstrap/range_server.py` | a subprocess that lives as long as its standard input | start, stop, byte ranges | is up before it is used, and gone with its owner |
| Installation media, `bootstrap/iso_builder.py`, `bootstrap/media.py` | built images and their checksums | `cached_build` | only verified builds are reused |
| Golden images, `bootstrap/golden.py`, `bootstrap/recovery.py`, `bootstrap/restore_runtime.py` | captures, the payload, the completion marker | capture, restore | nothing is written before everything is checked; the marker comes last |
| Custom preparation, `core/bootstrap.py` | `context.json`, `artifact.json` | `prepare` | a stale output never stands for a new one |
| HPC settings, `core/hpc.py` | none | `resolve` | the process grid fits the ranks |
| Commands, `commands/` | none | the CLI; power, BIOS and locks | locks before mutations |
| Ansible roles, `ansible/` | the nodes | the playbook | outside the program |

How they interact. A command builds a `LifecycleService`, plans once to show the plan,
and calls `execute`. `execute` takes one lock per target, and one for the HTTP endpoint
that serves media; plans again under the locks; refuses the whole operation when a target
is blocked; opens an installation session (media server, BMC transport) when something
is to be installed; and runs one task per target in a thread pool. A task calls the
backend, which calls a provider, the artifact cache and the media server. After the pool,
`up` and `configure` run one playbook over all targets and verify them again. The state
shared by invocations is on disk: the checkpoints, the inventory, the caches, the locks.

What is hard: several invocations at once on one state directory; a thread pool some of
whose workers fail; a process killed between any two effects on disk, on a machine and on
the bastion; ssh sessions that break while they hold a lock; backend calls that fail
half-way; machines that lose power or are removed from outside; manifests that change
between two invocations. `PROJECT.json` lists these hazards at their lines, with the
properties that cover them, or the reason why none does.

## The modules

| Module | Models | Extends / uses |
|---|---|---|
| `Lifecycle` | `service.py` with the part of `lifecycle.py` and the providers that it can tell apart | `AtomicLocks`, by refinement |
| `LifecycleProofs` | its theorems: who holds which lock, what the records say, records against machines, what a step may never do | `Lifecycle` |
| `MCLifecycle` | symmetry for TLC | `Lifecycle` |
| `AtomicLocks` | what locks are to the work under them | |
| `Locks` | `ResourceLocks`, `BastionLocks` | `AtomicLocks`, by refinement |
| `LocksProofs` | its theorems | `Locks` |
| `MCLocks` | symmetry for TLC | `Locks` |
| `Installation` | one virtual machine, request by request: `LibvirtProvider` under `ProviderBackend` and the commands | |
| `InstallationProofs` | its theorems | `Installation` |
| `BmcMedia` | one physical node, request by request: `BMCController` and `HelvetiosProvider` under the same | |
| `BmcMediaProofs` | its theorems | `BmcMedia` |
| `Tunnel` | `SSHSocksTunnel` and `_ensure_transport` | |
| `MediaServer` | `EphemeralRangeHTTPServer`, its process on the bastion, and the port | |
| `Ranges` | one request to it: `RangeHandler` | |
| `VerifiedStore` | what a store of verified artifacts promises | |
| `ArtifactCache` | `materialize`, here and on the bastion | `VerifiedStore`, by refinement |
| `ArtifactCacheProofs` | the refinement, proved | `ArtifactCache` |
| `MediaBuild` | `prepare_media`, `cached_build` | `VerifiedStore`, by refinement |
| `MediaUpload` | `_publish_local`, `_upload_verified` | `VerifiedStore`, by refinement |
| `Preparation` | `CustomPreparer.prepare` | |
| `Capture` | `image capture`, beside the commands that run the node | |
| `Restore` | `load_metadata`, and the program that the installer runs | |
| `MCInstallation` | what becomes of a virtual machine, for TLC | `Installation`; `Preparation`, `Capture` |
| `MCInstallationProofs` | the theorems of `Preparation` and `Capture`, and of the composition | `MCInstallation`, `InstallationProofs` |
| `MCHelvetios` | what an installation of a physical node consists of, for TLC | `BmcMedia`; `Tunnel`, `MediaServer`, `Ranges` |
| `MCHelvetiosProofs` | the theorems of `Tunnel`, `MediaServer` and `Ranges`, and of the composition | `MCHelvetios`, `BmcMediaProofs` |
| `MCMedia` | what media go through, for TLC | `Restore`; `MediaBuild`, `MediaUpload`, `VerifiedStore` |
| `MediaProofs` | the theorems of `Restore`, `MediaBuild` and `MediaUpload` | `MCMedia` |

The modules meet as the components do. `Lifecycle` takes a call of the backend for one
step with a few outcomes; `Installation` and `BmcMedia` take those calls apart and look at
the lifecycle of one node only as far as it decides which call comes next. `Installation`
and `BmcMedia` take the lock of a node for granted, which `Locks` is about. `BmcMedia`
takes the media server for a Boolean that ends with its session, which is what
`MediaServer` shows of it, and a restored disk for one step, which is what `Restore` shows
of it. What a node boots comes from `MediaBuild`, goes through `MediaUpload`, and is built
on what `ArtifactCache` fetched.

### Lifecycle

`checkpoint`, `machine` and `inventory` outlive a process; `holder`, `session`, `pc`,
`job`, `todo`, `plan`, `worker` and `local` are those of the running invocations.
`checkpoint[n]` is `node-N.json`; an error is kept as a Boolean, a fingerprint as a model
value. `machine[n]` is the truth about a machine, whoever looks: whether it exists (a
domain or a disk for libvirt), runs, which system is on its disk (a fingerprint, `Legacy`
for one the program did not install, `None` for none that boots), and the configuration
whose playbook last completed on it.

An invocation goes through `planning` (one target observed at a time), `applying` (the
pool), `server` (the second pool of an ordered shutdown), `demoting`, `playbook`,
`checking` (the pool that verifies again), `readying` or `failing`, and ends `returned` or
`raised`. Each pass of a loop over targets that writes a checkpoint is a step. A worker
goes through the calls of `apply` one by one, so that kills, power losses and the other
invocation's steps fall between them; a backend call is one step, with one action for
success and one for failure, and the failing ones leave the machine untouched or half
changed: a domain stopped, undefined, or gone with its disk, a disk without its domain, a
node forced off.

What is read when matters and is kept: the plan is made from observations before the
workers start; a worker reads its checkpoint once when it begins (`local`) and writes
that copy back in `Commit`; `RecordError` reads it again; the playbook reads the
inventory after it was written, and another invocation may have written it in between.

Choices. `Kill` ends an invocation with its children and its locks, at any step. A kill
in the middle of a backend call is a failed call followed by a kill before the error is
recorded. `StateStore.write` is one step because it writes a temporary file and renames.
`MayReach` is an upper bound on ssh: a system that is up may answer or not. `Verify`
accepts any system that boots, which is what the code does for every method but golden
restore; `Installation` and `BmcMedia` have its marker. Starting a machine that has a
disk but no domain may succeed here and never does in the program; the node then fails
its verification instead of its start. `Invoke` takes all its locks at once, and `Locks`
one by one: both implement `AtomicLocks`, which is what the work under them sees of either.

### Locks

`lease[k]` is the truth on the lock's host, `held[p]` what an invocation believes,
`dropped` the leases the bastion gave up under a live invocation, and `noticed` those
whose ssh process has ended here. With `Bastion = FALSE` leases are flocks of this host.
`AcquireTimesOut` is the 15-second wait for `LOCKED`, `Release` the end of a session,
also when it does not end within 10 seconds, `Expire` the moment the bastion sees it.

### ArtifactCache and VerifiedStore

The bytes of a file are what its checksum can tell: absent, a part of the right ones, all
of them, or wrong ones. `Cut` and `Complete` say what a transfer leaves behind, given what
was there (curl continues, `copyfile` starts over) and what the source serves. `Site`
chooses between this host and the bastion, which differ in what they do with a partial
file whose checksum is wrong. `Kill` ends the transfer with its process; a transfer that
outlives its process is a hazard listed and not modelled.
`VerifiedStore` is the promise: absent, then whole, for ever; clients are served a whole
file. The refinement maps `store` to `target` and `served` to the clients that returned.

### Installation

`domain` is libvirt's persistent definition, of which only two things matter: which deploy
defined it (its UUID) and whether it still has installation media. `disk` says how far the
system on it got and of which deploy it is, `guest` what runs: the installer, a whole
system, or something that never answers. A guest keeps running when its definition is
gone, and a definition that is written again comes back: both are libvirt's ways, and the
reasons for `Found` and `Redefine`. `attempt`, `phase` and `expected` are the record and
the token of `restore.json`.

An invocation goes through the requests of its command one at a time (`pc`); `Fault` ends
it at any step in `FaultAt`, with the same effect for an exception, a timeout and a kill:
nothing of these calls cleans up. `verify` alone comes without the lock. `Raise` frees the
lock. `TimesOut` is the deadline of a wait that nothing else is about to end; waits that
something will end are left to fairness.

### BmcMedia and Tunnel

`slot1`, `slot2`, `override` and `power` are the BMC's; `served` is the media server, up to
its end. A physical node is never new: `Legacy` says whether its disk holds a system from
before, and whether that system accepts the user's key. `End` ends an invocation with its
session. `FaultAt` works as in `Installation`; a request that was carried out and whose
answer was lost is a fault at the next step.

`Tunnel` has the port that every invocation begins with, the free port it may fall back
to, and ssh as a process of its own, which goes on without a port when its port is taken.

### MediaServer and Ranges

`owner`, `server`, `input`, `heard` and `port` are the two ends of one session and what
connects them: the server lives as long as its input is open, and the owner goes on only
when it has read `READY`. A listener that is somebody else's is never ended.

`Ranges` identifies a byte with its offset and runs the handler's loop for every file size
and every header within its bounds; `Asked` is what HTTP defines.

### MediaBuild and MediaUpload

In `MediaBuild` the bytes of a file are the number of the build that made them, because no
two builds have the same bytes; a checksum file holds such a number. `Decay` and `Remove`
are outputs that lose their bytes and the operator who removes what the error names.
In `MediaUpload` the locks are those of the workstations and the files those of the
bastion. `Sent` is what rsync --append-verify makes of a partial file: one that is as long
as the source is left alone. Both are mapped to `VerifiedStore` as `ArtifactCache` is.

### Preparation

The number in `output` and `remote` is that of the attempt whose command wrote them. A
command is a process: `subprocess.run` kills it at a timeout here, and only its ssh client
when it runs on the bastion. `orphans` are the attempts whose command was left running
there: their output, and nobody else's, may be taken for a later attempt's.

### Capture and Restore

In `Capture` a copy lasts from `Copy` to `Converted` and is torn when the guest runs at its
start or writes meanwhile (`Guest`). `Command` is every command that holds the node's lock;
it moves a record or the power of a node that nobody holds. `verify` holds no lock: it finds
the record at `installing` once (`Verify`, `lifecycle.py:174`), shuts the guest down
(`Drain`), and boots it whenever it is off (`Wake`, `provider.py:308`), though by then a
capture may hold the node. `woken` remembers that it did. QEMU's own image locks are left
out, since the program neither asks for them nor relies on them: where the file system of
the host has them, the copy or the boot fails instead. In `Restore` a cell of the disk holds
the number of the deploy that wrote it: the blocks of the image, then the pieces of the
identity with the marker as the last. `kept` is what a power loss may leave of what was
written since the last flush: any part of it. The identity's files live in one of the
image's blocks (`Home`), so that the image must be whole for them to be found. A power loss
between the marker and the unmount may keep the marker and lose other pieces of the
identity; `MarkerMeansRestored` is therefore about the image only, and `LeavesComplete`
about a node that the program itself switches off.

## Runs

| Run | Expected | Shows |
|---|---|---|
| `lifecycle_node` | pass | one virtual machine, two invocations, all operations, two fingerprints, a profile with a playbook and one without, power loss, removal, a foreign system: `ReadyIsConfigured`, `NoOrphan`, `InstalledSystemKept`, `InvocationsEnd` |
| `lifecycle_hpc` | pass | two physical nodes, one the NFS server, concurrent `up` and `down`: `Exclusive`, `ConfigurationNeedsEveryNode`, `UpDelivers`, `FailureIsRecorded`, `StorageOutlivesClients` |
| `inventory_race` | violation | `ReadyIsConfigured` fails for two invocations on disjoint nodes |
| `unmanaged_adopted` | violation | `UnmanagedProtected` fails: `configure` adopts, `destroy` removes |
| `locks_bastion` | pass | two invocations, two keys, leases over ssh: `WorkIsCovered`, `ContentionHasAWinner`, `LossIsReported`, `LeasesReturn` |
| `locks_local` | pass | the same with files of this host: `AtomicSpec` (the refinement) |
| `lease_lost` | violation | `Exclusive` fails when a session breaks under an invocation at work |
| `artifact_local` | pass | `StoreSpec` (the refinement) and `RetrySucceeds` on this host |
| `artifact_bastion` | violation | `RetrySucceeds` fails on the bastion |
| `installation` | pass | `operations`, `verify`: `MediaDetached`, `MarkedSystemOnly`, `NewMeansNothing`; `cloud`, `golden`: `MediaStay`; `local`, `bastion`: `OutputIsOwn`; `capture`: `CapturedAtRest`, `CapturesStay`; `TypesOK` and `WorkEnds` of all |
| `helvetios` | pass | `node`: `MediaDetached`, `InstallerIsRecorded`, `MarkedSystemOnly`; `tunnel`: `TunnelsEnd`; `server`: `OpenIsServed`, `ServesWhileOwned`; `request`: `Slices`; `TypesOK` and `WorkEnds` of all |
| `media` | pass | `restore`: `UntouchedUntilVerified`, `MarkerMeansRestored`, `LeavesComplete`; `build`, `upload`, `anew`: `StoreSpecs` (two refinements); `WorkEnds` of `restore`, `rebuild`, `upload` |

The last three runs hold several components each. They do not compose them: the initial
state chooses one scenario (in `MCHelvetios`, a `subject`), whose component moves while the
variables of the others stand still, so that the states of the scenarios add up and do not
multiply. Fairness is that of the scenario's own component, and a liveness property is
claimed of the scenarios in which its fairness is assumed. `WorkEnds` is the conjunction of
these properties, one mutant for each: `RetriesComplete`, `AttemptsEnd` and `CapturesEnd`;
`RetriesComplete`, `StartsEnd`, `ServersStop` and `Answered`; `RecoveryEnds`, `BuildsRecover`
and `UploadsSucceed`. `StoreSpecs` is `BuildStoreSpec` and `UploadStoreSpec`. The scenarios are:

- `operations`: one virtual machine under golden restore, two invocations of every command
  but `verify`, two failures at any step but the rendering, power losses. `verify`: the same
  with the unlocked `verify`, one failure and without `destroy`, `on` and `restart`. `cloud`
  and `golden`: somebody repeats `up` after two failures anywhere but between the disk and
  the domain.
- `local`, `bastion`: three attempts at a custom preparation, whose commands may exceed
  their time, with two failed requests on the bastion. `capture`: two invocations with one
  output and a node each, beside the commands that start nodes, the unlocked `verify`, and
  guests that write.
- `node`: a physical node with an old system, two invocations of every command, failures
  between any two requests, power losses, broken sessions. `retry`: `up` repeated after
  failures outside the preparation of media. `tunnel`: two invocations and a stranger on the
  default port, with ssh processes that fail or hang. `server`: two sessions and a stranger
  want one port. `request`: every header on every small file.
- `restore`: images of every size and flaw, two deploys, power losses anywhere. `build`: two
  clients and two outputs, three kills. `rebuild`: the same with two outputs that lose their
  bytes. `upload`: three clients on two workstations, three interruptions. `anew`: three
  clients on one workstation, and two new builds.

`OutputIsOwn` and `CapturedAtRest` say who alone can spoil a result: on the bastion a command
that outlived its call, and of a golden image a `verify` that booted the node. That these two
do spoil it is listed below.

Every property of a passing run is broken by a mutant: a copy of one definition with a
plausible bug (a dropped guard, a missing reset, a swapped order), placed before the
definition it replaces and listed in `PROJECT.json`.

The four runs that expect a violation show disagreements between the code and its
documentation:

1. *Shared inventory.* `lifecycle.py:268` names one `inventory.json` for the cluster, the
   locks are per node. `up` on node 1 writes it, `up` on node 2 writes it, both playbooks
   run over node 2, and node 1 is recorded ready with nothing run on it.
2. *Adoption.* `service.py:146-147` answers `configure` for a reachable node without a
   record before it looks for unmanaged ones; from then on the node is managed and
   `destroy` removes it, which `docs/lifecycle.md:11` and `README.md:47` exclude.
3. *Lost lease.* The bastion frees a lock when the ssh session breaks
   (`remote_locks.py:52-54`), against `docs/lifecycle.md:34-35`.
4. *Poisoned partial file.* `remote.py:115` never removes a partial file whose checksum is
   wrong, so that retrying (`docs/troubleshooting.md:29`) fails for ever.

### What the passing runs leave out

In these instances a property of the passing runs, or one stated beside it, does not hold,
because the program does otherwise. Each was seen with TLC; the instance that shows it
differs from that of the run in the constant named here.

- *Stale token.* A reinstall that fails before `render_recovery` (`recovery.py:79`) leaves
  the old token in `restore.json` beside a record that says `installing`; the next `up`
  accepts the old system, against `docs/golden-recovery.md:79-80`. `Installation` with
  "rendering" in `FaultAt` violates `MarkedSystemOnly`.
- *Lost seed.* A cloud-init machine that is off is taken for finished (`lifecycle.py:179`),
  against `docs/bootstrap-methods.md:42-43`. `Installation` with `Method` "cloud-init" and
  `PowerFails` violates `DetachAfterInstall`.
- *Unlocked verify.* `verify` (`workflow.py:332`) detaches the media of a machine that is
  defined and not launched yet, against `docs/bootstrap-methods.md:41-42`. `Installation`
  with "verify" in `Commands` violates `DetachAfterInstall`.
- *Definition back from the dead.* `verify` beside `destroy` writes back the definition
  that was removed (`provider.py:307`), against `docs/lifecycle.md:18`. `Installation` with
  both in `Commands` violates `NewMeansNothing`.
- *Disk without a domain.* `node_exists` is true for it (`provider.py:110`); `up` resumes
  and fails for ever, against `docs/troubleshooting.md:29`. `Installation` with "defining"
  in `FaultAt` violates `RetryCompletes`.
- *Resume of nothing.* A Helvetios deploy that fails while its media are prepared is
  resumed by every later `up` (`lifecycle.py:93`), against the same line. `BmcMedia` with
  "rendering" in `FaultAt` and `Legacy` "silent" violates `RetryCompletes`.
- *Adoption by resume.* After such a failure a node whose old system answers is recorded
  as installed, against `README.md:47`. The same without `Golden` and with `Legacy`
  "answers" violates `NeverAdopts`.
- *Live node wiped.* A running system that does not accept the user's key is reinstalled
  by a plain `up` (`lifecycle.py:92`), against `docs/lifecycle.md:11`. `BmcMedia` with
  `Legacy` "silent" violates `LiveProtected`.
- *Stuck upload.* A whole partial file of an older build is never replaced
  (`remote.py:77`), against `docs/troubleshooting.md:29`. `MediaUpload` with one
  interruption and one new build violates `UploadsSucceed`.
- *Unchecked upload.* With three workstations, one of them may move away the partial file
  that a second has checked and not moved yet, and a third begin it anew (its own look at
  the target came before): the second then moves a part over the whole target
  (`remote.py:77-81`), against `docs/bootstrap-methods.md:35`. `MediaUpload` with a
  workstation per client violates `StoreSpec`.
- *Orphaned command.* A command on the bastion that timed out writes into the next
  attempt (`core/bootstrap.py:189`), against the comment at line 131. `Preparation` with
  `Execution` "bastion" violates `AlwaysOwn`.
- *Boot under a capture.* A `verify` (`workflow.py:332`) that began while the node was being
  installed still waits for its guest to go off (`provider.py:287`) when `up` has recorded
  it ready, `down` has stopped it, and `image capture` holds its lock and copies its disk
  (`golden.py:66`); it then boots the node (`provider.py:308`), against
  `docs/golden-recovery.md:13`. `Capture` violates `NeverTorn`; the same without `verify` is
  the theorem `LockedCapturesWhole`.
- *Borrowed tunnel.* Two invocations that start together share one tunnel
  (`bmc_client.py:55`), against the docstring at line 22. `Tunnel` violates `TransportIsOwn`.

### Bounds

One node is enough for the consistency of a record with its machine, because a worker
touches no other node; two invocations are enough for every race on a node, because its
lock admits one and the second contributes what it did before and after. Two fingerprints
and two configurations distinguish "the manifest's" from "another". Two nodes and two
invocations are the least in which one node's failure meets another's success, targets are
disjoint, and a client and a server are stopped in order. The Helvetios run has no
surprises from outside: power loss is covered by `lifecycle_node`, and the theorems have no
such bound. `FailureIsRecorded` is in that run because with one node a failed configuration
has no other target to forget. `MaxWorkers = 2` lets workers overlap. Two keys are the
least that can be taken in two orders. `MaxKills = 2` in `ArtifactCache` bounds the kills,
which would otherwise never let a transfer finish; the proof holds for any bound.

In `Installation` and `BmcMedia` two invocations are one that holds the lock and one that
verifies without it, or two commands in any order. `MaxDeploys` of two is the least with
an old system and a new one, `MaxFaults` of two the least in which a fault meets a
recovery from another; where `up` is repeated on a virtual machine there is one deploy more
than faults, so that the bound on deploys never stands in for the program. `FaultAt` leaves
out the steps after which the program does otherwise (see above): "rendering" for
`MarkedSystemOnly`, "defining" for `RetriesComplete` of a virtual machine, and, for that of
a physical node, the steps from "rendering" to "polling". `MediaServer`: two sessions and a
stranger are all who can meet on a port; two losses break both, or one twice. `Restore`:
two blocks, two pieces and two deploys give every order of a block, a flush, a piece and a
marker against an older deploy's; sizes up to three are those below, at and beyond the
disk. `MediaBuild`: two outputs, and builds enough that neither kills nor flaws exhaust
them. `MediaUpload`: three clients on two workstations are two that exclude each other and
one that does not; with a third workstation the store does not hold (see above). When media
are built anew, three clients of one workstation build and upload them.
The theorems have no such bounds, but for the two workstations.
`Preparation`: a third attempt may find what the first left, or what its command still
writes; timeouts have no bound but the attempts. `Capture`: one fault, and any number of
commands and `verify`. `Ranges`: seven bytes in chunks of three
have first, middle and short last chunks. `Tunnel` has no bound.

### Fairness

`Lifecycle`: each invocation's own steps are weakly fair: every backend call has a
timeout, and the pool's threads are scheduled. Nothing is assumed of invocations, kills,
power or which way a call ends, so `InvocationsEnd` holds however often calls fail.
`Locks`: an invocation's steps and the bastion's notice of a closed session are weakly
fair; `Notice`, the local end of a broken session, is not, because a half-open connection
may hang. `ArtifactCache`: a client that failed is run again, and of the transfers and
attempts at the lock that are possible again and again some succeed (strong fairness):
`RetrySucceeds` is about an operator who retries over a network that works at times.

`Installation` and `BmcMedia`, where `up` is repeated: steps of an invocation, its repetition,
installers and guests. Nothing is assumed of power and faults; the bound on faults is what
ends them. `MediaServer`: the processes on the bastion and the calls of the owner.
`Restore`, `Capture`, `Tunnel`, `Ranges`: the process itself goes on, because what it calls
has a timeout. `MediaBuild`: builds, the lock (strongly, since it is wanted again and
again), and the removal of an output that is reported broken. `MediaUpload`: an interrupted
upload is repeated and gets its turn. `Preparation`: the call, and the end of a command,
which its timeout brings about.

## Proofs

The theorems hold for every set of nodes, invocations, keys and clients, and every bound,
allowed by the named assumptions of the modules. Every invariant and every action property
that a passing run checks is the subject of one. A hypothesis beyond those assumptions is
in the theorem's own ASSUME, and each one is needed: TLC has the counterexample without it.

- `LocksProofs`: `TypeCorrect`; `Invariance` of `IInv`, from which `CoverageHolds`,
  `LossReported` and `LocalExclusion` follow; `SomeoneWins`, by the greatest key that is
  held: whoever holds it wants only greater ones, and those are free. `TakenAtOnce`: with
  the locks of this host, the step that takes the last key is the one that takes them all,
  and every other step but the end of the work stutters, so that `AtomicLocks` is
  implemented. `IInv` gives it that no key of the newcomer is under anybody's work.
- `LifecycleProofs`, a chain of invariants each of which needs the one before:
  - `TypeCorrect`; `LocksHeld`, that an invocation that is not idle holds the locks of its
    targets and its endpoint, from which `Exclusion` follows; `LocksAreAtomic`, the
    refinement of `AtomicLocks`, which needs that an invocation that is idle holds nothing.
  - `ControlHolds` (`ControlInv`: what a place in `execute` implies for the pool, the
    stages and the plan), then `RecordsHold` (`RecordInv`: what the checkpoints of an
    invocation's targets say at each place). Exclusion is what makes them inductive: nobody
    else writes these checkpoints. `FailuresRecorded`, `ConfigurationWaits` and
    `UpIsDelivered` follow.
  - `NoneOrphaned`, with the strengthening that a worker about to forget a node has already
    removed it and that an installed system's node is recorded; `ReadyMeansConfigured`,
    with the strengthening that at `checking` and `readying` the targets run the
    configuration of the job. Its hypothesis `OneWriter` says that a playbook's inventory
    has one writer: an HPC profile, whose playbooks need every node and so exclude each
    other, or a single invocation. `inventory_race` is the counterexample without it.
  - `InstalledIsKept`, from `KeptInv`: what takes an installed system away was asked for
    (`Purposes`), and a worker that installs unasked was planned over a record without an
    installed node, which is still so when it begins (`Fresh`). The plan is made before the
    pool and used after it; exclusion keeps it valid in between.
  - `StorageIsLast`, from `HaltInv`: an operation that halts nodes starts every client's
    worker in the first pool and the server's in the second (`ClientsFirst`), and a client's
    worker that is through leaves it off (`HaltedOff`); nobody else who holds its lock
    switches it on.
- `ArtifactCacheProofs`: `StoreHolds` (`StoreInv`: whoever works on the partial file has
  the lock and has found no target; what is published is whole), and `Refinement`.
- `InstallationProofs`: `Invariant` of `Inv`: who holds the lock where (`Locked`), what the
  record and the invocation's memory of it say (`Recorded`, `Routed`), and that the media
  are gone once post_provision is behind a deploy (`Finalized`). `MediaDetached` alone is
  not inductive: `verify` may detach, and an older `up` may boot, between the steps of the
  owner. `GoldenAcceptsItsOwn` has the hypothesis that no deploy fails between its record
  and its token, `ForgottenIsGone` that nobody runs `verify` beside the owner (what
  happens otherwise is listed under Runs); its invariant `Gone` follows a teardown piece by
  piece. `MediaStayUntilInstalled` adds `Installed`: a guest that is off or asked to go off
  under a wait has been installed, and a definition without media is one of an installed
  disk. It needs that nothing halts an installer: no `down` or `off`, and no power loss,
  after which a cloud-init machine that is off is taken for finished.
- `MCInstallationProofs`: `OutputsAreOwn`, from `OneCommand` (besides those that outlived
  their calls one command runs at a time, that of the attempt under way) and, of each site,
  where the manifest of an earlier attempt is gone; on this host no command outlives its
  call, on the bastion what is left of an earlier attempt is an orphan's. `ImagesAtRest` and
  `ImagesStay`, from `CaptureInv`: who holds the node's lock and the output's where, and that
  from its inspection to the end of the copy the node is off or was booted by a `verify`.
  `LockedCapturesWhole`, with `Unwoken`, has the hypothesis that no `verify` runs.
  `RetriesKeepMedia` and `TypesHold` take the step lemmas of `InstallationProofs` through
  an INSTANCE with the constants of each scenario: an instance's assumptions are proved
  first (`CloudConstants` and the like), then its steps are those of the scenario
  (`CloudIsCloud`), whose commands are `up` alone.
- `BmcMediaProofs`: `Invariant` of `Inv`, of the same kind as that of `InstallationProofs`:
  `Ejected` says after which request which slot is known to be empty, from which
  `SlotsAreEmpty` and `InstallersAreRecorded` follow. A session that broke, a lost answer
  and a power loss are steps like any other.
- `MCHelvetiosProofs`: `TunnelsHaveEnded`, with `TunnelInv`: an ssh is there only between
  its start and the end of its transport. `OpenSessionsAreServed` and `PortsAreKept`, with
  `ServerInv`: a process has the port from its bind to its end, prints READY only then, and
  ends only when its input has. `RequestsAreSlices`, with `RequestInv`, the loop's
  invariant: what was sent are the bytes before the position, what remains ends with the
  range. `TypesHold` of all.
- `MediaProofs`:
  - of `Restore`: `Progress` (what was verified when), `Contents` (what was written when,
    and flushed), and `Marked`: a marker of the current deploy, on the disk or in what a
    power loss may keep, stands over a whole image on both. The last holds because the flush
    comes between the blocks and the identity.
  - `StoresAreVerified`, two refinements of `VerifiedStore`. `BuildInv`: a builder at work
    has the lock, and every output before its place has its checksum; checksums are written
    last and never go, so that the media stay complete. `UploadInv`: whoever is about to move
    the partial file has it whole, or finds it gone because the other workstation has just
    published it and sends no other; `AnewInv`: on one workstation the lock excludes the
    others and the build. The hypothesis `OnTwoDesks` says that at most two workstations
    upload one file; with three a part is published (see above).

The three runs with several components have their theorems stated of the composition
(`MCSpec`) where the component has none of its own, and of the component (`Spec`) where it
is the module the composition extends. `Outputs` is one or two, as in the code: an ISO, or
an ISO and a FAT image.

Only model-checked is everything under fairness (`InvocationsEnd`, `LeasesReturn`,
`RetrySucceeds`, and what `WorkEnds` consists of): the prover treats neither liveness nor
ENABLED. The runs that expect a violation have nothing to prove.

## What is not modelled

The text of manifests, templates, kickstarts, domain definitions and inventories, and their
validation: pure functions of their input. The process grid of HPL (`core/hpc.py`): a
search over divisors, likewise. Ansible roles and external tools (qemu-img, virt-sysprep,
xorriso, zstd): processes that succeed or fail. BIOS settings and power metrics: single
requests that no other part reads. `lock list`: it takes and frees each lock, as `Locks`
has it. Showing a plan and asking for confirmation: `execute` plans again. Plumbing
(dependency injection, paths, ssh options) keeps no state.

A process of a killed invocation that lives on (`curl`, `ansible-playbook`) is listed as a
hazard and has no property; commands on the bastion that live on are in `Preparation`, and
servers in `MediaServer`.

## Order of work

`Locks` and `Lifecycle` came first, then `VerifiedStore` with `ArtifactCache`, then the two
node modules that take the backend apart, `MediaServer`, `Restore` and the other media
modules, each with its proofs once its runs passed. What is left, in this order: that
`Installation` and `BmcMedia` implement a backend call of `Lifecycle`; and `NeverAdopts` of
`BmcMedia` under golden restore.
