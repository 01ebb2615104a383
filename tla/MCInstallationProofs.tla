-------------------------- MODULE MCInstallationProofs --------------------------
(***************************************************************************)
(* Proofs about MCInstallation, for any number of invocations, deploys,    *)
(* attempts and nodes: that a preparation returns what its own command     *)
(* wrote, or on the bastion one that outlived its call; that only the      *)
(* unlocked `verify` tears a golden image, which stays; that whoever only  *)
(* repeats `up` keeps the media until the system is installed; and that    *)
(* every variable keeps its type.  The first two are proved of their       *)
(* components before the composition; the others follow from the lemmas    *)
(* of InstallationProofs, under the constants of each scenario.            *)
(***************************************************************************)
EXTENDS MCInstallation, InstallationProofs

-----------------------------------------------------------------------------
(* Custom preparation *)

Over == {"none", "zero", "failed"}

\* The variables of a preparation but for its bounded counter.
PreparationTypes ==
    /\ trial \in 0 .. MaxAttempts /\ output \in 0 .. MaxAttempts
    /\ remote \in 0 .. MaxAttempts /\ result \in 0 .. MaxAttempts
    /\ prepares \in {"idle", "unlinking", "copying", "clearing", "launching", "running",
                     "fetching", "reading", "returned"}
    /\ tool \in [1 .. MaxAttempts -> {"none", "running", "written", "zero", "failed"}]
    /\ orphans \subseteq 1 .. MaxAttempts

\* Besides those that outlived their calls one command runs at a time, that of
\* the attempt under way, while its call waits for it; what is read comes after
\* one that ended with zero.
OneCommand ==
    /\ PreparationTypes
    /\ prepares # "idle" => trial # 0
    /\ \A a \in 1 .. MaxAttempts :
           /\ a > trial => tool[a] = "none"
           /\ a < trial \/ prepares # "running" => tool[a] \in Over \/ a \in orphans
    /\ prepares \in {"unlinking", "copying", "clearing", "launching"} => tool[trial] = "none"
    /\ prepares \in {"fetching", "reading", "returned"} => tool[trial] = "zero"
    /\ prepares = "returned" => result \in {trial} \cup orphans

\* On this host no command outlives its call, and from the removal of the old
\* manifest on there is none but the attempt's own.
LocalInv ==
    /\ OneCommand
    /\ orphans = {} /\ broken = 0
    /\ prepares \notin {"copying", "clearing", "fetching"}
    /\ prepares = "launching" => output = 0
    /\ prepares \in {"running", "reading"} => output \in {0, trial}

\* On the bastion the one that is removed is the bastion's, and the local one
\* is written from it; a command that was left running may write its own anew.
BastionInv ==
    /\ OneCommand
    /\ broken \in 0 .. MaxRefusals
    /\ prepares = "launching" => remote \in {0} \cup orphans
    /\ prepares \in {"running", "fetching"} => remote \in {0, trial} \cup orphans
    /\ prepares = "reading" => output \in {trial} \cup orphans

LEMMA PreparationBounds == MaxAttempts \in Nat /\ MaxRefusals \in Nat
BY PreparationAssumption DEF Local!BoundsAssumption, Bastion!BoundsAssumption

\* A local attempt kills its command when it times out, and keeps to its own output.
LEMMA LocalInvInductive ==
    ASSUME LocalInv, [Local!Next]_preparation
    PROVE  LocalInv'
<1> USE PreparationBounds DEF LocalInv, OneCommand, PreparationTypes, Over, Local!Local, Local!Goto, Local!Raise,
            Local!files, Local!Attempts
<1>1. CASE Local!Prepare
  BY <1>1 DEF Local!Prepare
<1>2. CASE Local!Unlink \/ Local!Copy \/ Local!Clear
  BY <1>2 DEF Local!Unlink, Local!Copy, Local!Clear
<1>3. CASE Local!Launch
  BY <1>3 DEF Local!Launch
<1>4. CASE Local!Completed \/ Local!TimesOut
  BY <1>4 DEF Local!Completed, Local!TimesOut
<1>5. CASE Local!Fetch \/ Local!Read \/ Local!Fault
  BY <1>5 DEF Local!Fetch, Local!Read, Local!Fault
<1>6. ASSUME NEW a \in 1 .. MaxAttempts, Local!Produce(a) \/ Local!Exit(a) PROVE LocalInv'
  <2>1. a = trial /\ prepares = "running"
    BY <1>6 DEF Local!Produce, Local!Exit
  <2> QED
    BY <1>6, <2>1 DEF Local!Produce, Local!Exit
<1>7. CASE UNCHANGED preparation
  BY <1>7 DEF preparation
<1> QED
  BY <1>1, <1>2, <1>3, <1>4, <1>5, <1>6, <1>7 DEF Local!Next, Local!Call

\* One on the bastion leaves its command behind, whose output may be taken for
\* a later one's, and that of no other command.
LEMMA BastionInvInductive ==
    ASSUME BastionInv, [Bastion!Next]_preparation
    PROVE  BastionInv'
<1> USE PreparationBounds DEF BastionInv, OneCommand, PreparationTypes, Over, Bastion!Local,
            Bastion!Goto, Bastion!Raise, Bastion!files, Bastion!Attempts
<1>1. CASE Bastion!Prepare
  BY <1>1 DEF Bastion!Prepare
<1>2. CASE Bastion!Unlink
  BY <1>2 DEF Bastion!Unlink
<1>3. CASE Bastion!Copy
  BY <1>3 DEF Bastion!Copy
<1>4. CASE Bastion!Clear
  BY <1>4 DEF Bastion!Clear
<1>5. CASE Bastion!Launch
  BY <1>5 DEF Bastion!Launch
<1>6. CASE Bastion!Completed
  BY <1>6 DEF Bastion!Completed
<1>7. CASE Bastion!TimesOut
  BY <1>7 DEF Bastion!TimesOut
<1>8. CASE Bastion!Fetch
  BY <1>8 DEF Bastion!Fetch
<1>9. CASE Bastion!Read
  BY <1>9 DEF Bastion!Read
<1>10. CASE Bastion!Fault
  BY <1>10 DEF Bastion!Fault
<1>11. ASSUME NEW a \in 1 .. MaxAttempts, Bastion!Produce(a) PROVE BastionInv'
  <2>1. (a = trial /\ prepares = "running") \/ a \in orphans
    BY <1>11 DEF Bastion!Produce
  <2>2. /\ tool' = [tool EXCEPT ![a] = "written"] /\ remote' = a
        /\ UNCHANGED <<trial, prepares, output, result, orphans, broken>>
    BY <1>11 DEF Bastion!Produce
  <2>3. OneCommand'
    BY <1>11, <2>1, <2>2 DEF Bastion!Produce
  <2> QED
    BY <2>1, <2>2, <2>3
<1>12. ASSUME NEW a \in 1 .. MaxAttempts, Bastion!Exit(a) PROVE BastionInv'
  <2>1. /\ tool[a] \in {"running", "written"}
        /\ \E status \in {"zero", "failed"} : tool' = [tool EXCEPT ![a] = status]
        /\ UNCHANGED <<trial, prepares, output, remote, result, orphans, broken>>
    BY <1>12 DEF Bastion!Exit
  <2> QED
    BY <2>1
<1>13. CASE UNCHANGED preparation
  BY <1>13 DEF preparation
<1> QED
  BY <1>1, <1>2, <1>3, <1>4, <1>5, <1>6, <1>7, <1>8, <1>9, <1>10, <1>11, <1>12, <1>13
     DEF Bastion!Next, Bastion!Call

LEMMA PreparationInit == Local!Init => LocalInv /\ BastionInv
BY PreparationBounds DEF Local!Init, LocalInv, BastionInv, OneCommand, PreparationTypes, Over, Local!Attempts

\* A preparation run on this host returns the output of its own command, which
\* ended with zero, whatever timed out before (core/bootstrap.py:177-188).
THEOREM LocalOutputIsOwn == Local!Spec => []Local!OutputIsOwn
<1>1. Local!Init => LocalInv
  BY PreparationInit
<1>2. LocalInv /\ [Local!Next]_(Local!vars) => LocalInv'
  BY LocalInvInductive DEF Local!vars, preparation
<1>3. LocalInv => Local!OutputIsOwn
  BY DEF LocalInv, OneCommand, Local!OutputIsOwn, Local!Local
<1> QED
  BY <1>1, <1>2, <1>3, PTL DEF Local!Spec

\* One run on the bastion returns that of its own command, or of one that was
\* left running there (core/bootstrap.py:189-231).
THEOREM BastionOutputIsOwn == Bastion!Spec => []Bastion!OutputIsOwn
<1>1. Bastion!Init => BastionInv
  BY PreparationInit DEF Local!Init, Bastion!Init, Local!Attempts, Bastion!Attempts
<1>2. BastionInv /\ [Bastion!Next]_(Bastion!vars) => BastionInv'
  BY BastionInvInductive DEF Bastion!vars, preparation
<1>3. BastionInv => Bastion!OutputIsOwn
  BY DEF BastionInv, OneCommand, Bastion!OutputIsOwn, Bastion!Local
<1> QED
  BY <1>1, <1>2, <1>3, PTL DEF Bastion!Spec

\* In the composition each scenario keeps its own invariant.
PreparationInv ==
    /\ scenario = "local" => LocalInv
    /\ scenario = "bastion" => BastionInv
    /\ ~Preparing => prepares = "idle"

LEMMA PreparationInvariant == MCSpec => []PreparationInv
<1>1. MCInit => PreparationInv
  BY PreparationInit DEF MCInit, PreparationInv, Local!Init
<1>2. PreparationInv /\ [MCNext]_mcVars => PreparationInv'
  <2> SUFFICES ASSUME PreparationInv, [MCNext]_mcVars PROVE PreparationInv'
    OBVIOUS
  <2>1. /\ scenario' = scenario
        /\ \/ scenario = "local" /\ Local!Next
           \/ scenario = "bastion" /\ Bastion!Next
           \/ UNCHANGED preparation
    BY DEF MCNext, InstallationNext, PreparationNext, CaptureNext, NoMoreAttempts, mcVars
  <2>2. CASE scenario = "local"
    <3>1. LocalInv'
      BY <2>1, <2>2, LocalInvInductive DEF PreparationInv
    <3> QED
      BY <2>1, <2>2, <3>1 DEF PreparationInv, Preparing
  <2>3. CASE scenario = "bastion"
    <3>1. BastionInv'
      BY <2>1, <2>3, BastionInvInductive DEF PreparationInv
    <3> QED
      BY <2>1, <2>3, <3>1 DEF PreparationInv, Preparing
  <2>4. CASE ~Preparing
    BY <2>1, <2>4 DEF PreparationInv, Preparing, preparation
  <2> QED
    BY <2>2, <2>3, <2>4 DEF Preparing
<1> QED
  BY <1>1, <1>2, PTL DEF MCSpec

\* What an attempt returns was written by its own command, which ended with
\* zero, or on the bastion by one that outlived its own call, whatever timed out
\* or was refused (core/bootstrap.py:131-132, 177-188, 222-231;
\* docs/authoring.md:49-50).
THEOREM OutputsAreOwn == MCSpec => []OutputIsOwn
<1>1. PreparationInv => OutputIsOwn
  BY DEF PreparationInv, LocalInv, BastionInv, OneCommand, OutputIsOwn, Local!OutputIsOwn,
     Local!Local, Bastion!OutputIsOwn, Bastion!Local
<1> QED
  BY <1>1, PreparationInvariant, PTL

-----------------------------------------------------------------------------
(* Golden captures *)

Holding == {"inspecting", "waiting", "looking", "copying", "converting", "sealing", "renaming",
            "done"}

\* A client holds its node's lock until it ends; from the time the node was
\* inspected to the end of the copy it is off unless a `verify` booted it, and
\* only then is the copy torn.
CaptureOf(c) ==
    /\ captures[c] \in Holding => captureLock[NodeOf[c]] = c
    /\ captures[c] \in {"looking", "copying", "converting", "sealing", "renaming", "done"}
           => outputLock = c
    /\ captures[c] \in {"waiting", "looking", "copying", "converting"}
           => (up[NodeOf[c]] => woken[NodeOf[c]])
    /\ captures[c] \in {"converting", "sealing", "renaming"} => work[c] \in Capture!Images
    /\ captures[c] = "converting" => (work[c].torn => woken[NodeOf[c]])
    /\ captures[c] \in {"sealing", "renaming"} => (work[c].torn => work[c].woken)

CaptureInv ==
    /\ Capture!TypeOK
    /\ \A c \in Invocations : CaptureOf(c)
    /\ CapturedAtRest

\* What the assumptions say of a capture's constants.
LEMMA CaptureConstants ==
    /\ MaxBreaks \in Nat /\ None \notin Invocations /\ Other # None
    /\ \A c \in Invocations : NodeOf[c] \in Nodes
BY CaptureAssumption DEF Capture!BoundsAssumption, Capture!NodesAssumption

\* A client that is not the one stepping keeps what it has.
LEMMA CaptureFrame ==
    ASSUME NEW c \in Invocations, CaptureOf(c),
           UNCHANGED <<captures[c], work[c], up[NodeOf[c]]>>,
           captureLock[NodeOf[c]] = c => captureLock'[NodeOf[c]] = c
                                         /\ woken'[NodeOf[c]] = woken[NodeOf[c]],
           outputLock = c => outputLock' = c
    PROVE  CaptureOf(c)'
BY DEF CaptureOf, Holding

\* The steps of a client.
LEMMA ClientKeepsCapture ==
    ASSUME CaptureInv, NEW p \in Invocations, Capture!Step(p) \/ Capture!Fault(p)
    PROVE  CaptureInv'
<1> USE CaptureConstants
    DEF CaptureInv, Capture!TypeOK, Capture!Mine, Capture!Goto, Capture!nodes
<1>a. CaptureOf(p) /\ NodeOf[p] \in Nodes
  OBVIOUS
<1>1. ASSUME NEW c \in Invocations \ {p} PROVE CaptureOf(c)'
  <2>a. /\ captureLock[NodeOf[c]] = c => captureLock'[NodeOf[c]] = c
                                         /\ woken'[NodeOf[c]] = woken[NodeOf[c]]
        /\ outputLock = c => outputLock' = c
        /\ UNCHANGED <<up, captures[c], work[c]>>
    <3>1. CASE Capture!Acquire(p)
      BY <3>1 DEF Capture!Acquire, Capture!Free
    <3>2. CASE Capture!LockOutput(p)
      BY <3>2 DEF Capture!LockOutput
    <3>3. CASE Capture!Raise(p) \/ Capture!Return(p) \/ Capture!Fault(p)
      BY <3>3 DEF Capture!Raise, Capture!Return, Capture!Fault, Capture!Drop
    <3>4. CASE \E step : Capture!Keep(p, step)
      BY <3>4 DEF Capture!Keep
    <3>5. CASE Capture!Copy(p) \/ Capture!Converted(p)
      BY <3>5 DEF Capture!Copy, Capture!Converted
    <3>6. CASE Capture!Rename(p) /\ ~Capture!Raise(p)
      BY <3>6 DEF Capture!Rename
    <3> QED
      BY <3>1, <3>2, <3>3, <3>4, <3>5, <3>6
         DEF Capture!Step, Capture!Inspect, Capture!GivesUp, Capture!Look, Capture!Seal,
             Capture!Rename
  <2> QED
    BY <2>a, CaptureFrame
<1>2. Capture!TypeOK' /\ CaptureOf(p)' /\ CapturedAtRest'
  <2> USE DEF CaptureOf, Holding, CapturedAtRest, Capture!CapturedAtRest, Capture!Images
  <2>1. CASE Capture!Acquire(p)
    BY <1>a, <2>1 DEF Capture!Acquire
  <2>2. CASE Capture!LockOutput(p)
    BY <1>a, <2>2 DEF Capture!LockOutput
  <2>3. CASE Capture!Raise(p) \/ Capture!Return(p) \/ Capture!Fault(p)
    BY <1>a, <2>3 DEF Capture!Raise, Capture!Return, Capture!Fault, Capture!Drop
  <2>4. CASE Capture!Inspect(p) /\ Capture!Fit(p)
    BY <1>a, <2>4 DEF Capture!Inspect, Capture!Fit, Capture!Keep
  <2>5. CASE Capture!Look(p) /\ ~Capture!Raise(p)
    BY <1>a, <2>5 DEF Capture!Look, Capture!Keep
  <2>6. CASE Capture!Copy(p)
    BY <1>a, <2>6 DEF Capture!Copy
  <2>7. CASE Capture!Converted(p)
    BY <1>a, <2>7 DEF Capture!Converted
  <2>8. CASE Capture!Seal(p)
    BY <1>a, <2>8 DEF Capture!Seal, Capture!Keep
  <2>9. CASE Capture!Rename(p) /\ ~Capture!Raise(p)
    BY <1>a, <2>9 DEF Capture!Rename
  <2> QED
    BY <2>1, <2>2, <2>3, <2>4, <2>5, <2>6, <2>7, <2>8, <2>9
       DEF Capture!Step, Capture!Inspect, Capture!GivesUp
<1> QED
  BY <1>1, <1>2

\* Every step of the component, the other commands' and the guests' included.
LEMMA CaptureInvInductive ==
    ASSUME CaptureInv, [Capture!Next]_capture
    PROVE  CaptureInv'
<1> USE CaptureConstants DEF CaptureInv, Capture!TypeOK
<1>1. ASSUME NEW n \in Nodes, Capture!Command(n) PROVE CaptureInv'
  <2>1. /\ \A c \in Invocations : NodeOf[c] = n => captures[c] \notin Holding
        /\ \A m \in Nodes \ {n} : up'[m] = up[m]
        /\ UNCHANGED <<woken, captureLock, outputLock, destination, work, captures, failures>>
    BY <1>1 DEF Capture!Command, Capture!Free, Capture!clients, CaptureOf
  <2>2. \A c \in Invocations : CaptureOf(c)'
    BY <2>1 DEF CaptureOf, Holding
  <2>3. Capture!TypeOK'
    BY <1>1 DEF Capture!Command, Capture!Phases, Capture!clients
  <2> QED
    BY <2>1, <2>2, <2>3 DEF CapturedAtRest, Capture!CapturedAtRest
<1>2. ASSUME NEW n \in Nodes, Capture!Verify(n) \/ Capture!Drain(n) \/ Capture!GiveUp(n)
      PROVE  CaptureInv'
  <2>1. /\ \A m \in Nodes : up'[m] => up[m]
        /\ UNCHANGED <<woken, captureLock, outputLock, destination, work, captures, failures>>
    BY <1>2 DEF Capture!Verify, Capture!Drain, Capture!GiveUp, Capture!clients
  <2>2. \A c \in Invocations : CaptureOf(c)'
    BY <2>1 DEF CaptureOf, Holding
  <2>3. Capture!TypeOK'
    BY <1>2 DEF Capture!Verify, Capture!Drain, Capture!GiveUp, Capture!clients
  <2> QED
    BY <2>1, <2>2, <2>3 DEF CapturedAtRest, Capture!CapturedAtRest
<1>3. ASSUME NEW n \in Nodes, Capture!Wake(n) PROVE CaptureInv'
  <2>1. /\ \A m \in Nodes \ {n} : up'[m] = up[m] /\ woken'[m] = woken[m]
        /\ captureLock[n] # None => woken'[n]
        /\ UNCHANGED <<captureLock, outputLock, destination, work, captures, failures>>
    BY <1>3 DEF Capture!Wake, Capture!Free, Capture!clients
  <2>2. \A c \in Invocations : CaptureOf(c)'
    BY <2>1 DEF CaptureOf, Holding
  <2>3. Capture!TypeOK'
    BY <1>3 DEF Capture!Wake, Capture!Free, Capture!clients
  <2> QED
    BY <2>1, <2>2, <2>3 DEF CapturedAtRest, Capture!CapturedAtRest
<1>4. ASSUME NEW p \in Invocations, Capture!Guest(p) PROVE CaptureInv'
  <2>1. /\ captures[p] = "converting" /\ up[NodeOf[p]]
        /\ work' = [work EXCEPT ![p].torn = TRUE]
        /\ UNCHANGED <<up, woken, captureLock, outputLock, destination, captures, failures>>
    BY <1>4 DEF Capture!Guest, Capture!Mine, Capture!nodes
  <2>2. woken[NodeOf[p]] /\ work[p] \in Capture!Images
    BY <2>1 DEF CaptureOf
  <2>3. work'[p] \in Capture!Images /\ \A c \in Invocations \ {p} : work'[c] = work[c]
    BY <2>1, <2>2 DEF Capture!Images
  <2>4. \A c \in Invocations : CaptureOf(c)'
    BY <2>1, <2>2, <2>3 DEF CaptureOf, Holding
  <2>5. Capture!TypeOK'
    BY <1>4, <2>1, <2>3 DEF Capture!Guest, Capture!nodes
  <2> QED
    BY <2>1, <2>4, <2>5 DEF CapturedAtRest, Capture!CapturedAtRest
<1>5. CASE Capture!Occupy
  BY <1>5 DEF Capture!Occupy, Capture!nodes, CaptureOf, CapturedAtRest, Capture!CapturedAtRest
<1>6. CASE UNCHANGED capture
  BY <1>6 DEF capture, CaptureOf, CapturedAtRest, Capture!CapturedAtRest
<1> QED
  BY <1>1, <1>2, <1>3, <1>4, <1>5, <1>6, ClientKeepsCapture DEF Capture!Next

LEMMA CaptureInit == Capture!Init => CaptureInv
BY CaptureConstants
   DEF Capture!Init, CaptureInv, Capture!TypeOK, Capture!Phases, Capture!NoImage, CaptureOf,
       Holding, CapturedAtRest, Capture!CapturedAtRest

\* What is at the output stays there.
LEMMA CaptureStays ==
    ASSUME [Capture!Next]_capture, destination # None
    PROVE  destination' = destination
BY DEF Capture!Next, Capture!Step, Capture!Acquire, Capture!Inspect, Capture!LockOutput,
       Capture!GivesUp, Capture!Look, Capture!Copy, Capture!Converted, Capture!Seal,
       Capture!Rename, Capture!Return, Capture!Fault, Capture!Raise, Capture!Keep,
       Capture!Command, Capture!Verify, Capture!Drain, Capture!Wake, Capture!GiveUp,
       Capture!clients, Capture!Guest, Capture!Occupy, Capture!Vacant, capture

\* Of captures, of whichever nodes and however many, only a `verify` that boots
\* the node meanwhile tears the image (image.py:34-43, golden.py:66-68).
THEOREM CapturesAtRest == Capture!Spec => []Capture!CapturedAtRest
<1>1. CaptureInv /\ [Capture!Next]_(Capture!vars) => CaptureInv'
  BY CaptureInvInductive DEF Capture!vars, capture
<1>2. CaptureInv => Capture!CapturedAtRest
  BY DEF CaptureInv, CapturedAtRest
<1> QED
  BY <1>1, <1>2, CaptureInit, PTL DEF Capture!Spec

\* No node that is being captured was booted.
Unwoken ==
    /\ \A n \in Nodes : ~woken[n]
    /\ \A c \in Invocations :
           captures[c] \in {"converting", "sealing", "renaming"} => ~work[c].woken
    /\ destination \notin {None, Other} => ~destination.woken

LEMMA UnwokenStep ==
    ASSUME CaptureInv, Unwoken, finishing = {}, [Capture!Next]_capture
    PROVE  Unwoken'
<1> USE CaptureConstants DEF CaptureInv, Capture!TypeOK, Capture!Mine, Capture!Goto, Unwoken
<1>1. ASSUME NEW p \in Invocations, Capture!Step(p) \/ Capture!Fault(p) PROVE Unwoken'
  <2>1. CASE Capture!Acquire(p)
    BY <2>1 DEF Capture!Acquire
  <2>2. CASE Capture!LockOutput(p)
    BY <2>2 DEF Capture!LockOutput
  <2>3. CASE Capture!Raise(p) \/ Capture!Return(p) \/ Capture!Fault(p)
    BY <2>3 DEF Capture!Raise, Capture!Return, Capture!Fault, Capture!Drop
  <2>4. CASE Capture!Keep(p, "waiting") \/ Capture!Keep(p, "copying")
    BY <2>4 DEF Capture!Keep
  <2>5. CASE Capture!Copy(p)
    BY <2>5 DEF Capture!Copy
  <2>6. CASE Capture!Converted(p)
    BY <2>6 DEF Capture!Converted, CaptureOf, Capture!Images
  <2>7. CASE Capture!Seal(p)
    BY <2>7 DEF Capture!Seal, Capture!Keep
  <2>8. CASE Capture!Rename(p) /\ ~Capture!Raise(p)
    BY <2>8 DEF Capture!Rename
  <2> QED
    BY <1>1, <2>1, <2>2, <2>3, <2>4, <2>5, <2>6, <2>7, <2>8
       DEF Capture!Step, Capture!Inspect, Capture!GivesUp, Capture!Look
<1>2. ASSUME NEW n \in Nodes,
             Capture!Command(n) \/ Capture!Verify(n) \/ Capture!Drain(n) \/ Capture!Wake(n)
             \/ Capture!GiveUp(n)
      PROVE  Unwoken'
  BY <1>2 DEF Capture!Command, Capture!Verify, Capture!Drain, Capture!Wake, Capture!GiveUp,
     Capture!clients
<1>3. ASSUME NEW p \in Invocations, Capture!Guest(p) PROVE Unwoken'
  BY <1>3 DEF Capture!Guest, CaptureOf, Capture!Images
<1>4. CASE Capture!Occupy
  BY <1>4 DEF Capture!Occupy
<1>5. CASE UNCHANGED capture
  BY <1>5 DEF capture
<1> QED
  BY <1>1, <1>2, <1>3, <1>4, <1>5 DEF Capture!Next

\* Where no `verify` runs beside the captures, no image is torn: the node's lock
\* keeps all the other commands off (image.py:34-43).
THEOREM LockedCapturesWhole ==
    Capture!Spec /\ [](finishing = {}) => []Capture!NeverTorn
<1>1. Capture!Init => Unwoken
  BY DEF Capture!Init, Unwoken
<1>2. CaptureInv /\ [Capture!Next]_(Capture!vars) => CaptureInv'
  BY CaptureInvInductive DEF Capture!vars, capture
<1>3. CaptureInv /\ Unwoken /\ finishing = {} /\ [Capture!Next]_(Capture!vars) => Unwoken'
  BY UnwokenStep DEF Capture!vars, capture
<1>4. CaptureInv /\ Unwoken => Capture!NeverTorn
  BY DEF CaptureInv, CapturedAtRest, Capture!CapturedAtRest, Unwoken, Capture!NeverTorn
<1> QED
  BY <1>1, <1>2, <1>3, <1>4, CaptureInit, PTL DEF Capture!Spec

\* The steps of the composition are steps of captures, or leave them alone.
LEMMA CompositionCaptures ==
    ASSUME [MCNext]_mcVars PROVE [Capture!Next]_capture
BY DEF MCNext, InstallationNext, PreparationNext, CaptureNext, NoMoreAttempts, mcVars

LEMMA CaptureInvariant == MCSpec => []CaptureInv
<1>1. MCInit => CaptureInv
  BY CaptureInit DEF MCInit
<1>2. CaptureInv /\ [MCNext]_mcVars => CaptureInv'
  BY CaptureInvInductive, CompositionCaptures
<1> QED
  BY <1>1, <1>2, PTL DEF MCSpec

\* A golden image is a copy of one state of a disk, though other commands want
\* the node and the copy takes minutes (image.py:34-43, golden.py:66-68): none
\* but the unlocked `verify` can tear it (workflow.py:332).
THEOREM ImagesAtRest == MCSpec => []CapturedAtRest
<1>1. CaptureInv => CapturedAtRest
  BY DEF CaptureInv
<1> QED
  BY <1>1, CaptureInvariant, PTL

\* It appears at its output at once and whole, replaces nothing, and is never
\* replaced (golden.py:59-62, 127; docs/golden-recovery.md:15).
THEOREM ImagesStay == MCSpec => CapturesStay
<1>1. [MCNext]_mcVars => [destination # None => destination' = destination]_(Capture!vars)
  BY CaptureStays, CompositionCaptures DEF Capture!vars
<1> QED
  BY <1>1, PTL DEF MCSpec, CapturesStay, Capture!CapturesStay

-----------------------------------------------------------------------------
(* Installations *)

\* The proofs about an Installation, of each one that is run under constants of
\* its own.
CloudProofs == INSTANCE InstallationProofs
    WITH Method <- "cloud-init", Commands <- {"up"}, FaultAt <- RetryFaults,
         MaxDeploys <- MaxRetries, PowerFails <- FALSE
GoldenProofs == INSTANCE InstallationProofs
    WITH Method <- "golden-restore", Commands <- {"up"}, FaultAt <- RetryFaults,
         MaxDeploys <- MaxRetries, PowerFails <- FALSE
UnlockedProofs == INSTANCE InstallationProofs
    WITH Commands <- {"up", "reinstall", "down", "off", "verify"}, MaxFaults <- 1

\* Their constants are as those proofs assume.
LEMMA CloudConstants ==
    /\ None \notin Invocations /\ MaxFaults \in Nat /\ MaxRetries \in Nat /\ FALSE \in BOOLEAN
    /\ "cloud-init" \in {"kickstart", "golden-restore", "cloud-init"}
    /\ {"up"} \subseteq CloudProofs!AllCommands /\ RetryFaults \subseteq CloudProofs!Steps
BY NoneAssumption, FaultAssumption, RetriesAssumption
   DEF CloudProofs!AllCommands, CloudProofs!Steps, RetryFaults, Steps

LEMMA GoldenConstants ==
    /\ None \notin Invocations /\ MaxFaults \in Nat /\ MaxRetries \in Nat /\ FALSE \in BOOLEAN
    /\ "golden-restore" \in {"kickstart", "golden-restore", "cloud-init"}
    /\ {"up"} \subseteq GoldenProofs!AllCommands /\ RetryFaults \subseteq GoldenProofs!Steps
BY NoneAssumption, FaultAssumption, RetriesAssumption
   DEF GoldenProofs!AllCommands, GoldenProofs!Steps, RetryFaults, Steps

LEMMA UnlockedConstants ==
    /\ None \notin Invocations /\ 1 \in Nat /\ MaxDeploys \in Nat /\ PowerFails \in BOOLEAN
    /\ Method \in {"kickstart", "golden-restore", "cloud-init"}
    /\ {"up", "reinstall", "down", "off", "verify"} \subseteq UnlockedProofs!AllCommands
    /\ FaultAt \subseteq UnlockedProofs!Steps
BY NoneAssumption, MethodAssumption, FaultAssumption, DeploysAssumption
   DEF UnlockedProofs!AllCommands, UnlockedProofs!Steps, Steps

\* The instances of the component and those of its proofs say the same.
LEMMA CloudIsCloud == CloudProofs!Next <=> Cloud!Next
BY DEF
   CloudProofs!AllCommands, Cloud!AllCommands, CloudProofs!Steps, Cloud!Steps,
   CloudProofs!Tokens, Cloud!Tokens, CloudProofs!Domains, Cloud!Domains, CloudProofs!NoDomain,
   Cloud!NoDomain, CloudProofs!Disks, Cloud!Disks, CloudProofs!NoDisk, Cloud!NoDisk,
   CloudProofs!NewDisk, Cloud!NewDisk, CloudProofs!vars, Cloud!vars, CloudProofs!records,
   Cloud!records, CloudProofs!machine, Cloud!machine, CloudProofs!control, Cloud!control,
   CloudProofs!Goto, Cloud!Goto, CloudProofs!Deploys, Cloud!Deploys, CloudProofs!Found,
   Cloud!Found, CloudProofs!Exists, Cloud!Exists, CloudProofs!Answers, Cloud!Answers,
   CloudProofs!Installs, Cloud!Installs, CloudProofs!Booted, Cloud!Booted, CloudProofs!Taken,
   Cloud!Taken, CloudProofs!Create, Cloud!Create, CloudProofs!Off, Cloud!Off, CloudProofs!Move,
   Cloud!Move, CloudProofs!Raise, Cloud!Raise, CloudProofs!Return, Cloud!Return,
   CloudProofs!Invoke, Cloud!Invoke, CloudProofs!UpStep, Cloud!UpStep, CloudProofs!FirstStep,
   Cloud!FirstStep, CloudProofs!Plan, Cloud!Plan, CloudProofs!Record, Cloud!Record,
   CloudProofs!Render, Cloud!Render, CloudProofs!Guard, Cloud!Guard, CloudProofs!StopGuest,
   Cloud!StopGuest, CloudProofs!Undefine, Cloud!Undefine, CloudProofs!Unlink, Cloud!Unlink,
   CloudProofs!CreateDisk, Cloud!CreateDisk, CloudProofs!Define, Cloud!Define,
   CloudProofs!Launch, Cloud!Launch, CloudProofs!Start, Cloud!Start, CloudProofs!Finished,
   Cloud!Finished, CloudProofs!Finish, Cloud!Finish, CloudProofs!CloudInit, Cloud!CloudInit,
   CloudProofs!Detach, Cloud!Detach, CloudProofs!Drain, Cloud!Drain, CloudProofs!ReadXML,
   Cloud!ReadXML, CloudProofs!Redefine, Cloud!Redefine, CloudProofs!Boot, Cloud!Boot,
   CloudProofs!MarkerMatches, Cloud!MarkerMatches, CloudProofs!Accept, Cloud!Accept,
   CloudProofs!Commit, Cloud!Commit, CloudProofs!Halt, Cloud!Halt, CloudProofs!Settle,
   Cloud!Settle, CloudProofs!Reset, Cloud!Reset, CloudProofs!Forget, Cloud!Forget,
   CloudProofs!Fault, Cloud!Fault, CloudProofs!Stalled, Cloud!Stalled, CloudProofs!TimesOut,
   Cloud!TimesOut, CloudProofs!InstallerEnds, Cloud!InstallerEnds, CloudProofs!GuestHalts,
   Cloud!GuestHalts, CloudProofs!PowerLoss, Cloud!PowerLoss, CloudProofs!Step, Cloud!Step,
   CloudProofs!Next, Cloud!Next

LEMMA GoldenIsGolden == GoldenProofs!Next <=> Golden!Next
BY DEF
   GoldenProofs!AllCommands, Golden!AllCommands, GoldenProofs!Steps, Golden!Steps,
   GoldenProofs!Tokens, Golden!Tokens, GoldenProofs!Domains, Golden!Domains,
   GoldenProofs!NoDomain, Golden!NoDomain, GoldenProofs!Disks, Golden!Disks,
   GoldenProofs!NoDisk, Golden!NoDisk, GoldenProofs!NewDisk, Golden!NewDisk, GoldenProofs!vars,
   Golden!vars, GoldenProofs!records, Golden!records, GoldenProofs!machine, Golden!machine,
   GoldenProofs!control, Golden!control, GoldenProofs!Goto, Golden!Goto, GoldenProofs!Deploys,
   Golden!Deploys, GoldenProofs!Found, Golden!Found, GoldenProofs!Exists, Golden!Exists,
   GoldenProofs!Answers, Golden!Answers, GoldenProofs!Installs, Golden!Installs,
   GoldenProofs!Booted, Golden!Booted, GoldenProofs!Taken, Golden!Taken, GoldenProofs!Create,
   Golden!Create, GoldenProofs!Off, Golden!Off, GoldenProofs!Move, Golden!Move,
   GoldenProofs!Raise, Golden!Raise, GoldenProofs!Return, Golden!Return, GoldenProofs!Invoke,
   Golden!Invoke, GoldenProofs!UpStep, Golden!UpStep, GoldenProofs!FirstStep, Golden!FirstStep,
   GoldenProofs!Plan, Golden!Plan, GoldenProofs!Record, Golden!Record, GoldenProofs!Render,
   Golden!Render, GoldenProofs!Guard, Golden!Guard, GoldenProofs!StopGuest, Golden!StopGuest,
   GoldenProofs!Undefine, Golden!Undefine, GoldenProofs!Unlink, Golden!Unlink,
   GoldenProofs!CreateDisk, Golden!CreateDisk, GoldenProofs!Define, Golden!Define,
   GoldenProofs!Launch, Golden!Launch, GoldenProofs!Start, Golden!Start, GoldenProofs!Finished,
   Golden!Finished, GoldenProofs!Finish, Golden!Finish, GoldenProofs!CloudInit,
   Golden!CloudInit, GoldenProofs!Detach, Golden!Detach, GoldenProofs!Drain, Golden!Drain,
   GoldenProofs!ReadXML, Golden!ReadXML, GoldenProofs!Redefine, Golden!Redefine,
   GoldenProofs!Boot, Golden!Boot, GoldenProofs!MarkerMatches, Golden!MarkerMatches,
   GoldenProofs!Accept, Golden!Accept, GoldenProofs!Commit, Golden!Commit, GoldenProofs!Halt,
   Golden!Halt, GoldenProofs!Settle, Golden!Settle, GoldenProofs!Reset, Golden!Reset,
   GoldenProofs!Forget, Golden!Forget, GoldenProofs!Fault, Golden!Fault, GoldenProofs!Stalled,
   Golden!Stalled, GoldenProofs!TimesOut, Golden!TimesOut, GoldenProofs!InstallerEnds,
   Golden!InstallerEnds, GoldenProofs!GuestHalts, Golden!GuestHalts, GoldenProofs!PowerLoss,
   Golden!PowerLoss, GoldenProofs!Step, Golden!Step, GoldenProofs!Next, Golden!Next

LEMMA UnlockedIsUnlocked == UnlockedProofs!Next <=> Unlocked!Next
BY DEF
   UnlockedProofs!AllCommands, Unlocked!AllCommands, UnlockedProofs!Steps, Unlocked!Steps,
   UnlockedProofs!Tokens, Unlocked!Tokens, UnlockedProofs!Domains, Unlocked!Domains,
   UnlockedProofs!NoDomain, Unlocked!NoDomain, UnlockedProofs!Disks, Unlocked!Disks,
   UnlockedProofs!NoDisk, Unlocked!NoDisk, UnlockedProofs!NewDisk, Unlocked!NewDisk,
   UnlockedProofs!vars, Unlocked!vars, UnlockedProofs!records, Unlocked!records,
   UnlockedProofs!machine, Unlocked!machine, UnlockedProofs!control, Unlocked!control,
   UnlockedProofs!Goto, Unlocked!Goto, UnlockedProofs!Deploys, Unlocked!Deploys,
   UnlockedProofs!Found, Unlocked!Found, UnlockedProofs!Exists, Unlocked!Exists,
   UnlockedProofs!Answers, Unlocked!Answers, UnlockedProofs!Installs, Unlocked!Installs,
   UnlockedProofs!Booted, Unlocked!Booted, UnlockedProofs!Taken, Unlocked!Taken,
   UnlockedProofs!Create, Unlocked!Create, UnlockedProofs!Off, Unlocked!Off,
   UnlockedProofs!Move, Unlocked!Move, UnlockedProofs!Raise, Unlocked!Raise,
   UnlockedProofs!Return, Unlocked!Return, UnlockedProofs!Invoke, Unlocked!Invoke,
   UnlockedProofs!UpStep, Unlocked!UpStep, UnlockedProofs!FirstStep, Unlocked!FirstStep,
   UnlockedProofs!Plan, Unlocked!Plan, UnlockedProofs!Record, Unlocked!Record,
   UnlockedProofs!Render, Unlocked!Render, UnlockedProofs!Guard, Unlocked!Guard,
   UnlockedProofs!StopGuest, Unlocked!StopGuest, UnlockedProofs!Undefine, Unlocked!Undefine,
   UnlockedProofs!Unlink, Unlocked!Unlink, UnlockedProofs!CreateDisk, Unlocked!CreateDisk,
   UnlockedProofs!Define, Unlocked!Define, UnlockedProofs!Launch, Unlocked!Launch,
   UnlockedProofs!Start, Unlocked!Start, UnlockedProofs!Finished, Unlocked!Finished,
   UnlockedProofs!Finish, Unlocked!Finish, UnlockedProofs!CloudInit, Unlocked!CloudInit,
   UnlockedProofs!Detach, Unlocked!Detach, UnlockedProofs!Drain, Unlocked!Drain,
   UnlockedProofs!ReadXML, Unlocked!ReadXML, UnlockedProofs!Redefine, Unlocked!Redefine,
   UnlockedProofs!Boot, Unlocked!Boot, UnlockedProofs!MarkerMatches, Unlocked!MarkerMatches,
   UnlockedProofs!Accept, Unlocked!Accept, UnlockedProofs!Commit, Unlocked!Commit,
   UnlockedProofs!Halt, Unlocked!Halt, UnlockedProofs!Settle, Unlocked!Settle,
   UnlockedProofs!Reset, Unlocked!Reset, UnlockedProofs!Forget, Unlocked!Forget,
   UnlockedProofs!Fault, Unlocked!Fault, UnlockedProofs!Stalled, Unlocked!Stalled,
   UnlockedProofs!TimesOut, Unlocked!TimesOut, UnlockedProofs!InstallerEnds,
   Unlocked!InstallerEnds, UnlockedProofs!GuestHalts, Unlocked!GuestHalts,
   UnlockedProofs!PowerLoss, Unlocked!PowerLoss, UnlockedProofs!Step, Unlocked!Step,
   UnlockedProofs!Next, Unlocked!Next
LEMMA CloudInits == Init => CloudProofs!Init
BY DEF Init, CloudProofs!Init, NoDomain, NoDisk, CloudProofs!NoDomain, CloudProofs!NoDisk

LEMMA GoldenInits == Init => GoldenProofs!Init
BY DEF Init, GoldenProofs!Init, NoDomain, NoDisk, GoldenProofs!NoDomain, GoldenProofs!NoDisk

\* The invariants of those who only repeat `up`.
CloudInv == CloudProofs!Inv /\ CloudProofs!Gone /\ CloudProofs!Installed
GoldenInv == GoldenProofs!Inv /\ GoldenProofs!Gone /\ GoldenProofs!Installed

LEMMA CloudInvInit == Init => CloudInv
<1>1. CloudProofs!Init => CloudProofs!TypeOK
  BY CloudConstants, CloudProofs!InitType
<1>2. CloudProofs!Init => CloudInv
  BY <1>1 DEF CloudProofs!Init, CloudInv, CloudProofs!Inv, CloudProofs!MediaDetached,
     CloudProofs!Latest, CloudProofs!Locked, CloudProofs!Recorded, CloudProofs!Routed,
     CloudProofs!Finalized, CloudProofs!Verifying, CloudProofs!Deploying,
     CloudProofs!Destroying, CloudProofs!Gone, CloudProofs!Unverified,
     CloudProofs!NewMeansNothing, CloudProofs!Torn, CloudProofs!Exists, CloudProofs!Found,
     CloudProofs!NoDomain, CloudProofs!NoDisk, CloudProofs!Installed, CloudProofs!Sound,
     CloudProofs!Whole, CloudProofs!Undisturbed
<1> QED
  BY <1>2, CloudInits

LEMMA GoldenInvInit == Init => GoldenInv
<1>1. GoldenProofs!Init => GoldenProofs!TypeOK
  BY GoldenConstants, GoldenProofs!InitType
<1>2. GoldenProofs!Init => GoldenInv
  BY <1>1 DEF GoldenProofs!Init, GoldenInv, GoldenProofs!Inv, GoldenProofs!MediaDetached,
     GoldenProofs!Latest, GoldenProofs!Locked, GoldenProofs!Recorded, GoldenProofs!Routed,
     GoldenProofs!Finalized, GoldenProofs!Verifying, GoldenProofs!Deploying,
     GoldenProofs!Destroying, GoldenProofs!Gone, GoldenProofs!Unverified,
     GoldenProofs!NewMeansNothing, GoldenProofs!Torn, GoldenProofs!Exists,
     GoldenProofs!Found, GoldenProofs!NoDomain, GoldenProofs!NoDisk, GoldenProofs!Installed,
     GoldenProofs!Sound, GoldenProofs!Whole, GoldenProofs!Undisturbed
<1> QED
  BY <1>2, GoldenInits

\* A step of the composition is a step of its scenario's installation.
LEMMA CompositionInstalls ==
    ASSUME [MCNext]_mcVars
    PROVE  /\ scenario' = scenario
           /\ scenario = "operations" => [Next]_vars
           /\ scenario = "verify" => [UnlockedProofs!Next]_(UnlockedProofs!vars)
           /\ scenario = "cloud" => [CloudProofs!Next]_(CloudProofs!vars)
           /\ scenario = "golden" => [GoldenProofs!Next]_(GoldenProofs!vars)
           /\ scenario \notin {"operations", "verify", "cloud", "golden"} => UNCHANGED vars
BY CloudIsCloud, GoldenIsGolden, UnlockedIsUnlocked
   DEF MCNext, InstallationNext, PreparationNext, CaptureNext, NoMoreAttempts, mcVars, vars,
       Preparing, CloudProofs!vars, GoldenProofs!vars, UnlockedProofs!vars

LEMMA CloudInvInductive ==
    ASSUME CloudInv, [CloudProofs!Next]_(CloudProofs!vars)
    PROVE  CloudInv'
<1> USE DEF CloudInv
<1>1. CloudProofs!TypeOK'
  BY CloudConstants, CloudProofs!TypeStep DEF CloudProofs!Inv
<1>2. CloudProofs!Latest'
  BY CloudConstants, CloudProofs!LatestStep
<1>3. CloudProofs!Inv'
  BY <1>1, <1>2, CloudConstants, CloudProofs!InvStep
<1>4. CloudProofs!Gone'
  BY <1>3, CloudConstants, CloudProofs!GoneStep
<1>5. CloudProofs!Installed'
  BY <1>1, CloudConstants, CloudProofs!InstalledStep
<1> QED
  BY <1>3, <1>4, <1>5

LEMMA GoldenInvInductive ==
    ASSUME GoldenInv, [GoldenProofs!Next]_(GoldenProofs!vars)
    PROVE  GoldenInv'
<1> USE DEF GoldenInv
<1>1. GoldenProofs!TypeOK'
  BY GoldenConstants, GoldenProofs!TypeStep DEF GoldenProofs!Inv
<1>2. GoldenProofs!Latest'
  BY GoldenConstants, GoldenProofs!LatestStep
<1>3. GoldenProofs!Inv'
  BY <1>1, <1>2, GoldenConstants, GoldenProofs!InvStep
<1>4. GoldenProofs!Gone'
  BY <1>3, GoldenConstants, GoldenProofs!GoneStep
<1>5. GoldenProofs!Installed'
  BY <1>1, GoldenConstants, GoldenProofs!InstalledStep
<1> QED
  BY <1>3, <1>4, <1>5

RetryInv ==
    /\ scenario = "cloud" => CloudInv
    /\ scenario = "golden" => GoldenInv

LEMMA RetryInvariant == MCSpec => []RetryInv
<1>1. MCInit => RetryInv
  BY CloudInvInit, GoldenInvInit DEF MCInit, RetryInv
<1>2. RetryInv /\ [MCNext]_mcVars => RetryInv'
  BY CompositionInstalls, CloudInvInductive, GoldenInvInductive DEF RetryInv
<1> QED
  BY <1>1, <1>2, PTL DEF MCSpec

\* Where nothing but the program's calls fails and somebody repeats `up`, the
\* media stay until the installation, or cloud-init, is complete
\* (lifecycle.py:178-211; docs/bootstrap-methods.md:41-43).
THEOREM RetriesKeepMedia == MCSpec => MediaStay
<1>1. RetryInv /\ [MCNext]_mcVars =>
          [Retrying /\ Detaches => disk.system = "whole"]_mcVars
  <2> SUFFICES ASSUME RetryInv, [MCNext]_mcVars, Retrying, Detaches
               PROVE  disk.system = "whole"
    OBVIOUS
  <2>1. CASE scenario = "cloud"
    <3>1. PICK p \in Invocations : CloudProofs!Redefine(p)
      BY <2>1, CompositionInstalls, CloudConstants, CloudProofs!RedefineOnly
         DEF Detaches, CloudProofs!Detaches
    <3> QED
      BY <2>1, <3>1 DEF RetryInv, CloudInv, CloudProofs!Redefine, CloudProofs!Installed,
         CloudProofs!Undisturbed, CloudProofs!Whole
  <2>2. CASE scenario = "golden"
    <3>1. PICK p \in Invocations : GoldenProofs!Redefine(p)
      BY <2>2, CompositionInstalls, GoldenConstants, GoldenProofs!RedefineOnly
         DEF Detaches, GoldenProofs!Detaches
    <3> QED
      BY <2>2, <3>1 DEF RetryInv, GoldenInv, GoldenProofs!Redefine, GoldenProofs!Installed,
         GoldenProofs!Undisturbed, GoldenProofs!Whole
  <2> QED
    BY <2>1, <2>2 DEF Retrying
<1> QED
  BY <1>1, RetryInvariant, PTL DEF MCSpec, MediaStay

-----------------------------------------------------------------------------
(* The types of all of them *)

\* The scenarios' types differ in their bounds only.
LEMMA TypesAgree ==
    /\ CloudProofs!TypeOK => Cloud!TypeOK
    /\ GoldenProofs!TypeOK => Cloud!TypeOK
    /\ UnlockedProofs!TypeOK => TypeOK
<1>1. CloudProofs!TypeOK => Cloud!TypeOK
  BY DEF CloudProofs!TypeOK, CloudProofs!Tokens, CloudProofs!Domains, CloudProofs!Disks,
     CloudProofs!Steps, CloudProofs!AllCommands, Cloud!TypeOK, Cloud!Tokens, Cloud!Domains,
     Cloud!Disks, Cloud!Steps, Cloud!AllCommands
<1>2. GoldenProofs!TypeOK => Cloud!TypeOK
  BY DEF GoldenProofs!TypeOK, GoldenProofs!Tokens, GoldenProofs!Domains, GoldenProofs!Disks,
     GoldenProofs!Steps, GoldenProofs!AllCommands, Cloud!TypeOK, Cloud!Tokens, Cloud!Domains,
     Cloud!Disks, Cloud!Steps, Cloud!AllCommands
<1>3. UnlockedProofs!TypeOK => TypeOK
  <2>1. 0 .. 1 \subseteq 0 .. MaxFaults
    BY FaultAssumption, RetriesAssumption
  <2> QED
    BY <2>1 DEF UnlockedProofs!TypeOK, UnlockedProofs!Tokens, UnlockedProofs!Domains,
       UnlockedProofs!Disks, UnlockedProofs!Steps, UnlockedProofs!AllCommands, TypeOK, Tokens,
       Domains, Disks, Steps, AllCommands
<1> QED
  BY <1>1, <1>2, <1>3

LEMMA UnlockedInits == Init => UnlockedProofs!TypeOK
<1>1. Init => UnlockedProofs!Init
  BY DEF Init, UnlockedProofs!Init, NoDomain, NoDisk, UnlockedProofs!NoDomain,
     UnlockedProofs!NoDisk
<1> QED
  BY <1>1, UnlockedConstants, UnlockedProofs!InitType

\* Where nobody installs, the machine stays as it was at first.
InstallationTypes ==
    /\ scenario = "verify" => UnlockedProofs!TypeOK
    /\ scenario \notin {"cloud", "golden", "verify"} => TypeOK

LEMMA InstallationTypesInvariant == MCSpec => []InstallationTypes
<1>1. MCInit => InstallationTypes
  BY InitType, UnlockedInits DEF MCInit, InstallationTypes
<1>2. InstallationTypes /\ [MCNext]_mcVars => InstallationTypes'
  <2> SUFFICES ASSUME InstallationTypes, [MCNext]_mcVars PROVE InstallationTypes'
    OBVIOUS
  <2>1. CASE scenario = "verify"
    BY <2>1, CompositionInstalls, UnlockedConstants, UnlockedProofs!TypeStep
       DEF InstallationTypes
  <2>2. CASE scenario \notin {"cloud", "golden", "verify"}
    BY <2>2, CompositionInstalls, TypeStep DEF InstallationTypes
  <2>3. CASE scenario \in {"cloud", "golden"}
    BY <2>3, CompositionInstalls DEF InstallationTypes
  <2> QED
    BY <2>1, <2>2, <2>3
<1> QED
  BY <1>1, <1>2, PTL DEF MCSpec

\* Every variable of every component keeps its type.
THEOREM TypesHold == MCSpec => []TypesOK
<1>1. RetryInv /\ InstallationTypes => IF Retrying THEN Cloud!TypeOK ELSE TypeOK
  BY TypesAgree DEF RetryInv, CloudInv, GoldenInv, CloudProofs!Inv, GoldenProofs!Inv,
     InstallationTypes, Retrying
<1>2. PreparationInv => /\ scenario = "local" => Local!TypeOK
                        /\ scenario = "bastion" => Bastion!TypeOK
  BY PreparationBounds DEF PreparationInv, LocalInv, BastionInv, OneCommand, PreparationTypes,
     Local!TypeOK, Bastion!TypeOK, Local!Attempts, Bastion!Attempts, Local!Manifests,
     Bastion!Manifests
<1>3. CaptureInv => Capture!TypeOK
  BY DEF CaptureInv
<1>4. RetryInv /\ InstallationTypes /\ PreparationInv /\ CaptureInv => TypesOK
  BY <1>1, <1>2, <1>3 DEF TypesOK
<1> QED
  BY <1>4, RetryInvariant, InstallationTypesInvariant, PreparationInvariant, CaptureInvariant,
     PTL
=============================================================================
