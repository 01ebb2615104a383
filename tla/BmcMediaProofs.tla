--------------------------- MODULE BmcMediaProofs ---------------------------
(***************************************************************************)
(* Proofs about BmcMedia, for any number of invocations, deploys and       *)
(* faults, with the unlocked `verify`, power losses and broken sessions:   *)
(* type correctness, where the media may be, that no installer runs        *)
(* unrecorded, and that golden restore accepts its own system only.        *)
(***************************************************************************)
EXTENDS BmcMedia, TLAPS

\* No deploy fails between its record and its new token.
Rendered == "rendering" \notin FaultAt

Verifying == {"polling", "ejecting2", "ejecting1", "booting"}
Deploying == {"rendering", "forcing", "clearing2", "clearing1", "inserting2", "inserting1",
              "overriding", "powering"}
Empty == slot1 = 0 /\ slot2 = 0

\* An invocation that may change the node holds its lock; `verify` goes
\* through the steps of verifying without it.
Locked(p) ==
    /\ pc[p] \notin Verifying \cup {"idle"} => holder = p /\ command[p] # "verify"
    /\ pc[p] \in Verifying /\ command[p] # "verify" => holder = p /\ Deploys(p) /\ phase # "new"

\* While a deploy prepares and mounts its media the record says so, and what
\* the invocation remembers of the record is right.
Recorded(p) ==
    /\ pc[p] \in Deploying => phase = "installing" /\ ~finalized[p]
    /\ pc[p] \in {"opening", "recording", "committing"} \cup Deploying => Deploys(p)
    /\ pc[p] = "opening" /\ command[p] = "up" => phase # "installed"
    /\ pc[p] = "opening" => (finalized[p] <=> phase # "installing")
    /\ pc[p] = "starting" /\ Deploys(p) =>
           phase # "new" /\ (finalized[p] => phase = "installed")

\* Where the slots are known to be empty.
Ejected(p) ==
    /\ pc[p] \in {"removing1", "cutting", "forgetting"} => slot2 = 0
    /\ pc[p] \in {"cutting", "forgetting", "committing"} => Empty
    /\ pc[p] \in {"forgetting", "committing"} => power # "installer"
    /\ pc[p] = "ejecting1" /\ Deploys(p) => slot2 = 0
    /\ pc[p] = "booting" /\ Deploys(p) => Empty
    /\ pc[p] = "polling" /\ Deploys(p) /\ finalized[p] => Empty
    /\ pc[p] = "committing" /\ Golden /\ Rendered /\ phase = "installing"
           => disk = [system |-> "whole", token |-> attempt]

\* Between the record of a deploy and render_recovery, and after a failure
\* there, restore.json still holds the token of the deploy before.
Latest == Rendered => expected = attempt \/ \E q \in Invocations : pc[q] = "rendering"

\* What answers is whole.
SystemIsWhole == power = "system" => disk.system = "whole"

Inv == /\ TypeOK /\ MediaDetached /\ InstallerIsRecorded /\ Latest /\ SystemIsWhole
       /\ \A p \in Invocations : Locked(p) /\ Recorded(p) /\ Ejected(p)
-----------------------------------------------------------------------------
LEMMA InitType == Init => TypeOK
<1> SUFFICES ASSUME Init PROVE TypeOK
  OBVIOUS
<1>1. 0 \in Tokens /\ 0 \in 0 .. MaxFaults
  BY DeploysAssumption, FaultAssumption DEF Tokens
<1>2. disk \in Disks
  BY <1>1 DEF Init, Disks
<1> QED
  BY <1>1, <1>2 DEF Init, TypeOK, AllCommands

\* What the end of an invocation, and a power-on, do.
LEMMA EndFacts ==
    ASSUME TypeOK, NEW p \in Invocations, End(p)
    PROVE  /\ pc' = [pc EXCEPT ![p] = "idle"]
           /\ (holder = p /\ holder' = None) \/ (holder # p /\ holder' = holder)
           /\ session' \in BOOLEAN /\ served' \in BOOLEAN
  BY DEF TypeOK, End, Goto

LEMMA PowerFacts ==
    ASSUME TypeOK, BootNode \/ PowerOn
    PROVE  /\ disk' \in Disks /\ override' \in BOOLEAN /\ asked' \in BOOLEAN
           /\ power' \in {"off", "installer", "system", "dead"}
           /\ SystemIsWhole /\ power' = "system" => disk'.system = "whole"
           /\ power' = "installer" => power = "installer" \/ slot2 # 0
           /\ disk' = disk \/ slot2 # 0
<1>1. CASE BootNode
  <2>1. override' \in BOOLEAN /\ asked' \in BOOLEAN
    BY <1>1 DEF BootNode
  <2>2. CASE FromCD /\ power' = "installer" /\ disk' = [system |-> "part", token |-> slot2]
    BY <2>1, <2>2 DEF TypeOK, FromCD, Disks
  <2>3. CASE disk' = disk /\ power' = IF disk.system = "whole" THEN "system" ELSE "dead"
    BY <2>1, <2>3 DEF TypeOK
  <2> QED
    BY <1>1, <2>2, <2>3 DEF BootNode
<1>2. CASE UNCHANGED node
  BY <1>2 DEF TypeOK, node, SystemIsWhole
<1> QED
  BY <1>1, <1>2 DEF PowerOn

LEMMA TypeStep ==
    ASSUME TypeOK, [Next]_vars
    PROVE  TypeOK'
<1> USE DeploysAssumption, NoneAssumption, CommandsAssumption, FaultAssumption DEF
   TypeOK, Goto, records, slots, node, control, Tokens, Disks, AllCommands, Steps
<1>1. ASSUME NEW p \in Invocations, Plan(p) PROVE TypeOK'
  <2>1. CASE Raise(p)
    BY <2>1, EndFacts DEF Raise
  <2>2. CASE \E step \in Steps : Begin(p, step)
    BY <2>2 DEF Begin
  <2> QED
    BY <1>1, <2>1, <2>2 DEF Plan, PlanUp, Return
<1>2. ASSUME NEW p \in Invocations, Open(p) PROVE TypeOK'
  BY <1>2 DEF Open
<1>3. ASSUME NEW p \in Invocations, Record(p) PROVE TypeOK'
  BY <1>3 DEF Record
<1>4. ASSUME NEW p \in Invocations, Render(p) PROVE TypeOK'
  BY <1>4 DEF Render
<1>5. ASSUME NEW p \in Invocations, ForceOff(p) PROVE TypeOK'
  BY <1>5 DEF ForceOff, Off
<1>6. ASSUME NEW p \in Invocations, Eject2(p) PROVE TypeOK'
  BY <1>6 DEF Eject2, AfterEject
<1>7. ASSUME NEW p \in Invocations, Eject1(p) PROVE TypeOK'
  BY <1>7 DEF Eject1, AfterEject
<1>8. ASSUME NEW p \in Invocations, Insert2(p) PROVE TypeOK'
  BY <1>8 DEF Insert2
<1>9. ASSUME NEW p \in Invocations, Insert1(p) PROVE TypeOK'
  BY <1>9 DEF Insert1
<1>10. ASSUME NEW p \in Invocations, Override(p) PROVE TypeOK'
  BY <1>10 DEF Override
<1>11. ASSUME NEW p \in Invocations, Boot(p) PROVE TypeOK'
  BY <1>11, PowerFacts DEF Boot
<1>12. ASSUME NEW p \in Invocations, Start(p) PROVE TypeOK'
  BY <1>12, EndFacts, PowerFacts DEF Start
<1>13. ASSUME NEW p \in Invocations, Finish(p) PROVE TypeOK'
  BY <1>13 DEF Finish, Move
<1>14. ASSUME NEW p \in Invocations, Accept(p) PROVE TypeOK'
  BY <1>14, EndFacts DEF Accept, Move, Raise, Return
<1>15. ASSUME NEW p \in Invocations, Commit(p) PROVE TypeOK'
  BY <1>15, EndFacts DEF Commit
<1>16. ASSUME NEW p \in Invocations, Halt(p) PROVE TypeOK'
  BY <1>16 DEF Halt
<1>17. ASSUME NEW p \in Invocations, Settle(p) PROVE TypeOK'
  BY <1>17, EndFacts DEF Settle, Raise, Return
<1>18. ASSUME NEW p \in Invocations, Reset(p) PROVE TypeOK'
  BY <1>18, EndFacts, PowerFacts DEF Reset
<1>19. ASSUME NEW p \in Invocations, Forget(p) PROVE TypeOK'
  BY <1>19, EndFacts DEF Forget
<1>20. ASSUME NEW p \in Invocations, TimesOut(p) PROVE TypeOK'
  BY <1>20, EndFacts DEF TimesOut, Raise
<1>21. ASSUME NEW p \in Invocations, Fault(p) PROVE TypeOK'
  BY <1>21, EndFacts DEF Fault
<1>22. ASSUME NEW p \in Invocations, NEW c \in Commands, Invoke(p, c) PROVE TypeOK'
  BY <1>22 DEF Invoke
<1>23. CASE InstallerEnds
  BY <1>23 DEF InstallerEnds, Off
<1>24. CASE InstallerStarves
  BY <1>24 DEF InstallerStarves
<1>25. CASE NodeHalts
  BY <1>25 DEF NodeHalts, Off
<1>26. CASE PowerLoss
  BY <1>26 DEF PowerLoss, Off
<1>27. CASE SessionBreaks
  BY <1>27 DEF SessionBreaks
<1>28. CASE UNCHANGED vars
  BY <1>28 DEF vars
<1> QED
  BY <1>1, <1>2, <1>3, <1>4, <1>5, <1>6, <1>7, <1>8, <1>9, <1>10, <1>11, <1>12, <1>13,
     <1>14, <1>15, <1>16, <1>17, <1>18, <1>19, <1>20, <1>21, <1>22, <1>23, <1>24, <1>25,
     <1>26, <1>27, <1>28 DEF Next, Step, World

\* Only Render leaves "rendering" when nothing fails there.
LEMMA LatestStep ==
    ASSUME Inv, [Next]_vars
    PROVE  Latest'
<1> SUFFICES ASSUME Rendered PROVE (expected = attempt \/ \E q \in Invocations : pc[q] = "rendering")'
  BY DEF Latest
<1> USE DEF Rendered, Inv, TypeOK, Latest, Goto
<1>1. ASSUME NEW p \in Invocations, Record(p) PROVE Latest'
  BY <1>1 DEF Record
<1>2. ASSUME NEW p \in Invocations, Render(p) PROVE Latest'
  BY <1>2 DEF Render
<1>3. ASSUME NEW p \in Invocations, Step(p), ~Record(p), ~Render(p)
      PROVE  UNCHANGED <<attempt, expected>> /\ pc[p] # "rendering"
                 /\ \E step \in Steps \cup {"idle"} : pc' = [pc EXCEPT ![p] = step]
  BY <1>3, EndFacts DEF Step, records, Forget, Move, Raise, Return, Plan, PlanUp, Begin,
     Open,
     ForceOff, Eject2, Eject1, AfterEject, Insert2, Insert1, Override, Boot, Start, Finish,
     Accept, Halt, Settle, Reset, TimesOut, Stalled, Commit, Steps
<1>4. ASSUME NEW p \in Invocations, Fault(p) \/ \E c \in Commands : Invoke(p, c)
      PROVE  UNCHANGED <<attempt, expected>> /\ pc[p] # "rendering"
                 /\ \E step \in Steps \cup {"idle"} : pc' = [pc EXCEPT ![p] = step]
  BY <1>4, EndFacts DEF Fault, Invoke, records, Steps
<1>5. ASSUME NEW p \in Invocations, UNCHANGED <<attempt, expected>>, pc[p] # "rendering",
             \E step \in Steps \cup {"idle"} : pc' = [pc EXCEPT ![p] = step]
      PROVE  Latest'
  BY <1>5
<1>6. CASE World \/ UNCHANGED vars
  BY <1>6 DEF World, InstallerEnds, InstallerStarves, NodeHalts, PowerLoss, SessionBreaks,
     vars, records
<1> QED
  BY <1>1, <1>2, <1>3, <1>4, <1>5, <1>6 DEF Next

LEMMA InvStep ==
    ASSUME Inv, [Next]_vars, TypeOK', Latest'
    PROVE  Inv'
<1> USE DeploysAssumption, NoneAssumption, CommandsAssumption DEF Inv, TypeOK,
   MediaDetached, InstallerIsRecorded, Rendered, SystemIsWhole, Locked, Recorded, Ejected,
   Empty, Deploys, Verifying, Deploying, Goto, records, slots, node, control, Tokens,
   Disks, AllCommands, Steps
<1>1. ASSUME NEW p \in Invocations, Plan(p) PROVE Inv'
  BY <1>1, EndFacts DEF Plan, PlanUp, Begin, Raise, Return
<1>2. ASSUME NEW p \in Invocations, Open(p) PROVE Inv'
  BY <1>2 DEF Open
<1>3. ASSUME NEW p \in Invocations, Record(p) PROVE Inv'
  BY <1>3 DEF Record
<1>4. ASSUME NEW p \in Invocations, Render(p) PROVE Inv'
  BY <1>4 DEF Render
<1>5. ASSUME NEW p \in Invocations, ForceOff(p) PROVE Inv'
  BY <1>5 DEF ForceOff, Off
<1>6. ASSUME NEW p \in Invocations, Eject2(p) PROVE Inv'
  BY <1>6 DEF Eject2, AfterEject
<1>7. ASSUME NEW p \in Invocations, Eject1(p) PROVE Inv'
  BY <1>7 DEF Eject1, AfterEject
<1>8. ASSUME NEW p \in Invocations, Insert2(p) PROVE Inv'
  BY <1>8 DEF Insert2
<1>9. ASSUME NEW p \in Invocations, Insert1(p) PROVE Inv'
  BY <1>9 DEF Insert1
<1>10. ASSUME NEW p \in Invocations, Override(p) PROVE Inv'
  BY <1>10 DEF Override
<1>11. ASSUME NEW p \in Invocations, Boot(p) PROVE Inv'
  BY <1>11, PowerFacts DEF Boot
<1>12. ASSUME NEW p \in Invocations, Start(p) PROVE Inv'
  BY <1>12, EndFacts, PowerFacts DEF Start
<1>13. ASSUME NEW p \in Invocations, Finish(p) PROVE Inv'
  BY <1>13 DEF Finish, Move
<1>14. ASSUME NEW p \in Invocations, Accept(p) PROVE Inv'
  <2>1. CASE Raise(p)
    BY <1>14, <2>1, EndFacts DEF Accept, Raise
  <2>2. CASE Move(p, "committing") /\ MarkerMatches /\ Deploys(p)
    <3>1. power = "system" /\ disk.system = "whole"
      BY <1>14 DEF Accept, Answers
    <3>2. Golden /\ Rendered => disk.token = attempt
      BY <1>14, <2>2 DEF MarkerMatches, Latest, Accept
    <3>3. disk = [system |-> disk.system, token |-> disk.token]
      BY DEF Disks
    <3>4. Golden /\ Rendered => disk = [system |-> "whole", token |-> attempt]
      BY <3>1, <3>2, <3>3
    <3>5. pc' = [pc EXCEPT ![p] = "committing"] /\ UNCHANGED <<records, slots, node, control>>
      BY <2>2 DEF Move
    <3>6. pc[p] = "polling" /\ finalized[p] /\ command[p] # "verify" /\ holder = p
      BY <1>14, <2>2 DEF Accept
    <3>7. Empty
      BY <2>2, <3>6
    <3>8. phase # "new"
      BY <2>2, <3>6
    <3>9. Locked(p)' /\ Recorded(p)'
      BY <2>2, <3>5, <3>6, <3>8
    <3>10. Ejected(p)'
      BY <3>1, <3>4, <3>5, <3>7
    <3>11. ASSUME NEW q \in Invocations, q # p PROVE Locked(q)' /\ Recorded(q)' /\ Ejected(q)'
      BY <3>5, <3>11
    <3>12. (MediaDetached /\ InstallerIsRecorded /\ SystemIsWhole)'
      BY <3>5
    <3> QED
      BY <3>9, <3>10, <3>11, <3>12
  <2>3. Raise(p) \/ (Move(p, "committing") /\ MarkerMatches /\ Deploys(p))
    BY <1>14 DEF Accept, Return
  <2> QED
    BY <2>1, <2>2, <2>3
<1>15. ASSUME NEW p \in Invocations, Commit(p) PROVE Inv'
  BY <1>15, EndFacts DEF Commit
<1>16. ASSUME NEW p \in Invocations, Halt(p) PROVE Inv'
  BY <1>16 DEF Halt
<1>17. ASSUME NEW p \in Invocations, Settle(p) PROVE Inv'
  BY <1>17, EndFacts DEF Settle, Raise, Return
<1>18. ASSUME NEW p \in Invocations, Reset(p) PROVE Inv'
  BY <1>18, EndFacts, PowerFacts DEF Reset
<1>19. ASSUME NEW p \in Invocations, Forget(p) PROVE Inv'
  BY <1>19, EndFacts DEF Forget
<1>20. ASSUME NEW p \in Invocations, TimesOut(p) PROVE Inv'
  BY <1>20, EndFacts DEF TimesOut, Raise
<1>21. ASSUME NEW p \in Invocations, Fault(p) PROVE Inv'
  BY <1>21, EndFacts DEF Fault
<1>22. ASSUME NEW p \in Invocations, NEW c \in Commands, Invoke(p, c) PROVE Inv'
  BY <1>22 DEF Invoke
<1>23. CASE InstallerEnds
  BY <1>23 DEF InstallerEnds, Off
<1>24. CASE InstallerStarves
  BY <1>24 DEF InstallerStarves
<1>25. CASE NodeHalts
  BY <1>25 DEF NodeHalts, Off
<1>26. CASE PowerLoss
  BY <1>26 DEF PowerLoss, Off
<1>27. CASE SessionBreaks
  BY <1>27 DEF SessionBreaks
<1>28. CASE UNCHANGED vars
  BY <1>28 DEF vars
<1> QED
  BY <1>1, <1>2, <1>3, <1>4, <1>5, <1>6, <1>7, <1>8, <1>9, <1>10, <1>11, <1>12, <1>13,
     <1>14, <1>15, <1>16, <1>17, <1>18, <1>19, <1>20, <1>21, <1>22, <1>23, <1>24, <1>25,
     <1>26, <1>27, <1>28 DEF Next, Step, World

\* Only Commit makes an installation an installed node.
LEMMA CommitOnly ==
    ASSUME Inv, [Next]_vars, phase = "installing", phase' = "installed"
    PROVE  \E p \in Invocations : Commit(p)
<1>1. ASSUME NEW p \in Invocations, Step(p), ~Commit(p) PROVE phase' # "installed"
  BY <1>1 DEF Step, records, Record, Forget, Move, Raise, Return, Plan, PlanUp, Begin, Open,
     Render, ForceOff, Eject2, Eject1, Insert2, Insert1, Override, Boot, Start, Finish,
     Accept, Halt, Settle, Reset, TimesOut
<1>2. ASSUME NEW p \in Invocations, Fault(p) \/ \E c \in Commands : Invoke(p, c)
      PROVE  phase' # "installed"
  BY <1>2 DEF Fault, Invoke, records
<1>3. CASE World \/ UNCHANGED vars
  BY <1>3 DEF World, InstallerEnds, InstallerStarves, NodeHalts, PowerLoss, SessionBreaks,
     vars, records
<1> QED
  BY <1>1, <1>2, <1>3 DEF Next
-----------------------------------------------------------------------------
\* Every variable keeps its type.
THEOREM TypeCorrect == Spec => []TypeOK
<1>1. Init => TypeOK
  BY InitType
<1>2. TypeOK /\ [Next]_vars => TypeOK'
  BY TypeStep
<1> QED
  BY <1>1, <1>2, PTL DEF Spec

LEMMA Invariant == Spec => []Inv
<1>1. Init => Inv
  BY InitType, WorldAssumption DEF Init, Inv, MediaDetached, InstallerIsRecorded, Latest,
     SystemIsWhole, Locked, Recorded, Ejected, Verifying, Deploying
<1>2. Inv /\ [Next]_vars => Inv'
  BY TypeStep, LatestStep, InvStep DEF Inv
<1> QED
  BY <1>1, <1>2, PTL DEF Spec

\* A node without a record, or installed, has none of the program's media in
\* its slots (provider.py:169-179).
THEOREM SlotsAreEmpty == Spec => []MediaDetached
<1>1. Inv => MediaDetached
  BY DEF Inv
<1> QED
  BY <1>1, Invariant, PTL

\* A node that runs an installer is recorded as installing (service.py:262-265).
THEOREM InstallersAreRecorded == Spec => []InstallerIsRecorded
<1>1. Inv => InstallerIsRecorded
  BY DEF Inv
<1> QED
  BY <1>1, Invariant, PTL

\* Golden restore records a node as installed only when its disk holds the
\* whole system of the last deploy (lifecycle.py:214-246), provided that no
\* deploy fails between its record and its new token (recovery.py:79).
THEOREM GoldenAcceptsItsOwn ==
    ASSUME Golden, "rendering" \notin FaultAt
    PROVE  Spec => MarkedSystemOnly
<1>1. Inv /\ [Next]_vars =>
          [phase = "installing" /\ phase' = "installed"
              => disk = [system |-> "whole", token |-> attempt]]_vars
  <2> SUFFICES ASSUME Inv, [Next]_vars, phase = "installing", phase' = "installed"
               PROVE  disk = [system |-> "whole", token |-> attempt]
    OBVIOUS
  <2>1. PICK p \in Invocations : Commit(p)
    BY CommitOnly
  <2> QED
    BY <2>1 DEF Inv, Ejected, Commit, Rendered
<1> QED
  BY <1>1, Invariant, PTL DEF Spec, MarkedSystemOnly
=============================================================================
