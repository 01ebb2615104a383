------------------------- MODULE InstallationProofs -------------------------
(***************************************************************************)
(* Proofs about Installation, for any number of invocations, deploys and   *)
(* faults, with the unlocked `verify` and power losses: type correctness,  *)
(* that an installed node has lost its media, and that golden restore      *)
(* accepts its own system only; without `verify`, that a machine without a *)
(* record is not there; and, when besides no guest is halted from outside, *)
(* that the media stay until the system is installed.                      *)
(***************************************************************************)
EXTENDS Installation, TLAPS

\* No deploy fails between its record and its new token.
Rendered == "rendering" \notin FaultAt

Verifying == {"polling", "waiting", "detaching", "draining", "reading", "redefining",
              "booting"}
Deploying == {"rendering", "guarding", "creating", "defining", "launching"}
Destroying == {"stopping", "undefining", "unlinking"}

\* An invocation that may change the machine holds its lock; `verify` goes
\* through the steps of verifying without it.
Locked(p) ==
    /\ pc[p] \notin Verifying \cup {"idle"} => holder = p /\ command[p] # "verify"
    /\ pc[p] \in Verifying /\ command[p] # "verify" => holder = p

\* While a deploy prepares and defines the machine, the record says so, and
\* what the invocation remembers of the record is right.
Recorded(p) ==
    /\ pc[p] \in Deploying => phase = "installing" /\ ~finalized[p]
    /\ pc[p] \in Destroying /\ Deploys(p) => phase = "installing" /\ ~finalized[p]
    /\ pc[p] = "starting" /\ Deploys(p) => phase # "new"
    /\ pc[p] = "starting" /\ finalized[p] => phase # "installing"

\* Which commands get where.
Routed(p) ==
    /\ pc[p] \in {"recording", "committing"} \cup Deploying => Deploys(p)
    /\ pc[p] = "forgetting" => ~Deploys(p)
    /\ pc[p] \in Verifying /\ command[p] # "verify" => Deploys(p) /\ phase # "new"

\* The media are gone, and what runs without them is a whole system.
Stripped == ~domain.media /\ guest # "installer"
Sound == guest = "system" => disk.system = "whole"

\* What a deploy knows once post_provision is behind it.
Finalized(p) ==
    /\ pc[p] = "booting" /\ Deploys(p) => ~domain.media
    /\ pc[p] = "polling" /\ finalized[p] /\ Deploys(p)
        => Stripped /\ (phase = "installing" => Sound)
    /\ pc[p] = "committing"
        => /\ Stripped
           /\ phase = "installing" /\ Method = "golden-restore" /\ Rendered
                => disk = [system |-> "whole", token |-> attempt]

\* Between the record of a deploy and render_recovery, and after a failure
\* there, restore.json still holds the token of the deploy before.
Latest == Rendered => expected = attempt \/ \E q \in Invocations : pc[q] = "rendering"

Inv == /\ TypeOK /\ MediaDetached /\ Latest
       /\ \A p \in Invocations : Locked(p) /\ Recorded(p) /\ Routed(p) /\ Finalized(p)

\* And, when nobody verifies without the lock:
Unverified == \A p \in Invocations : command[p] = "verify" => pc[p] = "idle"
Torn(p) ==
    /\ pc[p] \in Destroying \cup {"forgetting"} => phase # "new"
    /\ pc[p] \in {"undefining", "unlinking", "forgetting"} => guest = "off"
    /\ pc[p] \in {"unlinking", "forgetting"} => domain.id = 0
    /\ pc[p] = "forgetting" => disk.system = "absent"
Gone == /\ Unverified /\ NewMeansNothing
        /\ \A p \in Invocations : Torn(p)

\* And, when no guest is halted but by post_provision: whatever is off or asked
\* to go off under an invocation that waits for it has been installed, and a
\* definition without the media is one of an installed disk.
Whole == disk.system = "whole"
Undisturbed(p) ==
    /\ command[p] \notin {"down", "off"} /\ pc[p] \notin {"halting", "settling"}
    /\ pc[p] \in {"detaching", "draining", "reading", "redefining", "booting"} => Whole
    /\ pc[p] = "detaching" => guest # "installer"
    /\ pc[p] = "polling" /\ guest = "off" => Whole
    /\ pc[p] = "creating" => guest = "off" /\ domain.id = 0
Installed == /\ Sound
             /\ asked => Whole /\ guest \in {"system", "dead"}
             /\ domain.id # 0 /\ ~domain.media => Whole
             /\ \A p \in Invocations : Undisturbed(p)
-----------------------------------------------------------------------------
LEMMA Values ==
    ASSUME domain \in Domains, disk \in Disks
    PROVE  /\ Taken(domain, disk) \in Disks
           /\ [disk EXCEPT !.system = "whole"] \in Disks
           /\ domain.id \in Tokens
           /\ NoDomain \in Domains /\ NoDisk \in Disks
           /\ \A t \in Tokens : NewDisk(t) \in Disks /\ [id |-> t, media |-> TRUE] \in Domains
                               /\ [id |-> t, media |-> FALSE] \in Domains
           /\ Booted(domain, disk) \in {"off", "installer", "system", "dead"}
  BY DeploysAssumption DEF Domains, Disks, Taken, Installs, NoDomain, NoDisk, NewDisk,
     Tokens, Booted

LEMMA InitType == Init => TypeOK
<1> SUFFICES ASSUME Init PROVE TypeOK
  OBVIOUS
<1>1. 0 \in Tokens /\ 0 \in 0 .. MaxFaults
  BY DeploysAssumption, FaultAssumption DEF Tokens
<1>2. NoDomain \in Domains /\ NoDisk \in Disks
  BY <1>1 DEF NoDomain, Domains, NoDisk, Disks
<1> QED
  BY <1>1, <1>2 DEF Init, TypeOK, AllCommands

LEMMA TypeStep ==
    ASSUME TypeOK, [Next]_vars
    PROVE  TypeOK'
<1> USE DeploysAssumption, NoneAssumption, CommandsAssumption, FaultAssumption DEF
   TypeOK, Goto, records, machine, control, Tokens, AllCommands, Steps
<1>1. ASSUME NEW p \in Invocations, Plan(p) PROVE TypeOK'
  BY <1>1 DEF Plan, FirstStep, Raise, UpStep
<1>2. ASSUME NEW p \in Invocations, Record(p) PROVE TypeOK'
  BY <1>2 DEF Record
<1>3. ASSUME NEW p \in Invocations, Render(p) PROVE TypeOK'
  BY <1>3 DEF Render
<1>4. ASSUME NEW p \in Invocations, Guard(p) PROVE TypeOK'
  BY <1>4 DEF Guard, Move, Raise
<1>5. ASSUME NEW p \in Invocations, StopGuest(p) PROVE TypeOK'
  BY <1>5 DEF StopGuest, Off
<1>6. ASSUME NEW p \in Invocations, Undefine(p) PROVE TypeOK'
  BY <1>6, Values DEF Undefine
<1>7. ASSUME NEW p \in Invocations, Unlink(p) PROVE TypeOK'
  BY <1>7, Values DEF Unlink
<1>8. ASSUME NEW p \in Invocations, CreateDisk(p) PROVE TypeOK'
  BY <1>8, Values DEF CreateDisk
<1>9. ASSUME NEW p \in Invocations, Define(p) PROVE TypeOK'
  <2>1. CASE Found
    BY <1>9, <2>1 DEF Define, Raise
  <2>2. CASE ~Found
    BY <1>9, <2>2, Values DEF Define
  <2> QED
    BY <2>1, <2>2
<1>10. ASSUME NEW p \in Invocations, Launch(p) PROVE TypeOK'
  BY <1>10, Values DEF Launch, Create, Raise
<1>11. ASSUME NEW p \in Invocations, Start(p) PROVE TypeOK'
  BY <1>11, Values DEF Start, Create, Raise, Return, Move
<1>12. ASSUME NEW p \in Invocations, Finish(p) PROVE TypeOK'
  BY <1>12 DEF Finish, Move
<1>13. ASSUME NEW p \in Invocations, CloudInit(p) PROVE TypeOK'
  BY <1>13 DEF CloudInit, Move, Raise
<1>14. ASSUME NEW p \in Invocations, Detach(p) PROVE TypeOK'
  BY <1>14 DEF Detach, Raise
<1>15. ASSUME NEW p \in Invocations, Drain(p) PROVE TypeOK'
  BY <1>15 DEF Drain, Move
<1>16. ASSUME NEW p \in Invocations, ReadXML(p) PROVE TypeOK'
  BY <1>16, Values DEF ReadXML, Raise
<1>17. ASSUME NEW p \in Invocations, Redefine(p) PROVE TypeOK'
  <2>1. CASE domain.id \notin {0, xml[p]}
    BY <1>17, <2>1 DEF Redefine, Raise
  <2>2. CASE domain.id \in {0, xml[p]}
    <3>1. [id |-> xml[p], media |-> FALSE] \in Domains
      BY DEF Domains
    <3>2. /\ domain' = [id |-> xml[p], media |-> FALSE]
          /\ pc' = [pc EXCEPT ![p] = "booting"]
          /\ UNCHANGED <<records, disk, guest, asked, control>>
      BY <1>17, <2>2 DEF Redefine
    <3> QED
      BY <3>1, <3>2
  <2> QED
    BY <2>1, <2>2
<1>18. ASSUME NEW p \in Invocations, Boot(p) PROVE TypeOK'
  BY <1>18, Values DEF Boot, Create, Raise
<1>19. ASSUME NEW p \in Invocations, Accept(p) PROVE TypeOK'
  BY <1>19 DEF Accept, Move, Raise, Return
<1>20. ASSUME NEW p \in Invocations, Commit(p) PROVE TypeOK'
  BY <1>20 DEF Commit
<1>21. ASSUME NEW p \in Invocations, Halt(p) PROVE TypeOK'
  BY <1>21 DEF Halt, Raise
<1>22. ASSUME NEW p \in Invocations, Settle(p) PROVE TypeOK'
  BY <1>22 DEF Settle, Raise, Return
<1>23. ASSUME NEW p \in Invocations, Reset(p) PROVE TypeOK'
  BY <1>23, Values DEF Reset, Raise
<1>24. ASSUME NEW p \in Invocations, Forget(p) PROVE TypeOK'
  BY <1>24 DEF Forget
<1>25. ASSUME NEW p \in Invocations, TimesOut(p) PROVE TypeOK'
  BY <1>25 DEF TimesOut, Raise
<1>26. ASSUME NEW p \in Invocations, Fault(p) PROVE TypeOK'
  BY <1>26 DEF Fault
<1>27. ASSUME NEW p \in Invocations, NEW c \in Commands, Invoke(p, c) PROVE TypeOK'
  BY <1>27, CommandsAssumption DEF Invoke
<1>28. CASE InstallerEnds
  BY <1>28, Values DEF InstallerEnds, Off
<1>29. CASE GuestHalts
  BY <1>29 DEF GuestHalts, Off
<1>30. CASE PowerLoss
  BY <1>30 DEF PowerLoss, Off
<1>31. CASE UNCHANGED vars
  BY <1>31 DEF vars
<1> QED
  BY <1>1, <1>2, <1>3, <1>4, <1>5, <1>6, <1>7, <1>8, <1>9, <1>10, <1>11, <1>12, <1>13,
     <1>14, <1>15, <1>16, <1>17, <1>18, <1>19, <1>20, <1>21, <1>22, <1>23, <1>24, <1>25,
     <1>26, <1>27, <1>28, <1>29, <1>30, <1>31 DEF Next, Step

\* Only Render leaves "rendering" when nothing fails there.
LEMMA LatestStep ==
    ASSUME Inv, [Next]_vars
    PROVE  Latest'
<1> SUFFICES ASSUME Rendered PROVE Latest'
  BY DEF Latest
<1> USE DEF Rendered, Inv, TypeOK, Latest, Goto
<1>1. ASSUME NEW p \in Invocations, Record(p) PROVE Latest'
  BY <1>1 DEF Record
<1>2. ASSUME NEW p \in Invocations, Render(p) PROVE Latest'
  BY <1>2 DEF Render
<1>3. ASSUME NEW p \in Invocations, Step(p), ~Record(p), ~Render(p)
      PROVE  UNCHANGED <<attempt, expected>> /\ pc[p] # "rendering"
                 /\ \E step : pc' = [pc EXCEPT ![p] = step]
  BY <1>3 DEF Step, records, Forget, Move, Raise, Return, Plan, Guard, StopGuest, Undefine,
     Unlink, CreateDisk, Define, Launch, Start, Finish, CloudInit, Detach, Drain, ReadXML,
     Redefine, Boot, Accept, Halt, Settle, Reset, TimesOut, Stalled, Commit
<1>4. ASSUME NEW p \in Invocations, Fault(p) \/ \E c \in Commands : Invoke(p, c)
      PROVE  UNCHANGED <<attempt, expected>> /\ pc[p] # "rendering"
                 /\ \E step : pc' = [pc EXCEPT ![p] = step]
  BY <1>4 DEF Fault, Invoke, records
<1>5. ASSUME NEW p \in Invocations, UNCHANGED <<attempt, expected>>, pc[p] # "rendering",
             \E step : pc' = [pc EXCEPT ![p] = step]
      PROVE  Latest'
  BY <1>5
<1>6. CASE InstallerEnds \/ GuestHalts \/ PowerLoss \/ UNCHANGED vars
  BY <1>6 DEF InstallerEnds, GuestHalts, PowerLoss, vars, records
<1> QED
  BY <1>1, <1>2, <1>3, <1>4, <1>5, <1>6 DEF Next

LEMMA InvStep ==
    ASSUME Inv, [Next]_vars, TypeOK', Latest'
    PROVE  Inv'
<1> USE DeploysAssumption, NoneAssumption, CommandsAssumption DEF Inv, TypeOK,
   MediaDetached, Rendered, Locked, Recorded, Routed, Finalized, Stripped, Sound, Deploys,
   Verifying, Deploying, Destroying, Goto, records, machine, control, Tokens, Domains,
   Disks, AllCommands, Steps
<1>1. ASSUME NEW p \in Invocations, Plan(p) PROVE Inv'
  BY <1>1 DEF Plan, FirstStep, Raise, UpStep
<1>2. ASSUME NEW p \in Invocations, Record(p) PROVE Inv'
  BY <1>2 DEF Record
<1>3. ASSUME NEW p \in Invocations, Render(p) PROVE Inv'
  BY <1>3 DEF Render
<1>4. ASSUME NEW p \in Invocations, Guard(p) PROVE Inv'
  BY <1>4 DEF Guard, Move, Raise
<1>5. ASSUME NEW p \in Invocations, StopGuest(p) PROVE Inv'
  BY <1>5 DEF StopGuest, Off
<1>6. ASSUME NEW p \in Invocations, Undefine(p) PROVE Inv'
  BY <1>6 DEF Undefine, NoDomain
<1>7. ASSUME NEW p \in Invocations, Unlink(p) PROVE Inv'
  BY <1>7 DEF Unlink, NoDisk
<1>8. ASSUME NEW p \in Invocations, CreateDisk(p) PROVE Inv'
  BY <1>8 DEF CreateDisk, NewDisk
<1>9. ASSUME NEW p \in Invocations, Define(p) PROVE Inv'
  BY <1>9 DEF Define, Raise
<1>10. ASSUME NEW p \in Invocations, Launch(p) PROVE Inv'
  <2>1. CASE Create
    BY <1>10, <2>1 DEF Launch, Create, Booted, Taken, Installs, Raise
  <2>2. CASE ~Create
    BY <1>10, <2>2 DEF Launch, Raise
  <2> QED
    BY <2>1, <2>2
<1>11. ASSUME NEW p \in Invocations, Start(p) PROVE Inv'
  <2>1. CASE Create /\ Deploys(p)
    BY <1>11, <2>1 DEF Start, Create, Booted, Taken, Installs, Raise, Return, Move
  <2>2. CASE Create /\ ~Deploys(p)
    BY <1>11, <2>2 DEF Start, Create, Booted, Taken, Installs, Raise, Return, Move
  <2>3. CASE ~Create
    BY <1>11, <2>3 DEF Start, Raise, Return, Move
  <2> QED
    BY <2>1, <2>2, <2>3
<1>12. ASSUME NEW p \in Invocations, Finish(p) PROVE Inv'
  BY <1>12 DEF Finish, Move
<1>13. ASSUME NEW p \in Invocations, CloudInit(p) PROVE Inv'
  BY <1>13 DEF CloudInit, Move, Raise
<1>14. ASSUME NEW p \in Invocations, Detach(p) PROVE Inv'
  BY <1>14 DEF Detach, Raise
<1>15. ASSUME NEW p \in Invocations, Drain(p) PROVE Inv'
  BY <1>15 DEF Drain, Move
<1>16. ASSUME NEW p \in Invocations, ReadXML(p) PROVE Inv'
  BY <1>16 DEF ReadXML, Raise
<1>17. ASSUME NEW p \in Invocations, Redefine(p) PROVE Inv'
  BY <1>17 DEF Redefine, Raise
<1>18. ASSUME NEW p \in Invocations, Boot(p) PROVE Inv'
  BY <1>18 DEF Boot, Create, Booted, Taken, Installs, Raise
<1>19. ASSUME NEW p \in Invocations, Accept(p) PROVE Inv'
  <2>1. CASE pc' = [pc EXCEPT ![p] = "committing"]
    BY <1>19, <2>1 DEF Accept, Move, Raise, Return, Answers, MarkerMatches, Latest
  <2>2. CASE pc' = [pc EXCEPT ![p] = "idle"]
    BY <1>19, <2>2 DEF Accept, Move, Raise, Return
  <2> QED
    BY <1>19, <2>1, <2>2 DEF Accept, Move, Raise, Return
<1>20. ASSUME NEW p \in Invocations, Commit(p) PROVE Inv'
  BY <1>20 DEF Commit
<1>21. ASSUME NEW p \in Invocations, Halt(p) PROVE Inv'
  BY <1>21 DEF Halt, Raise
<1>22. ASSUME NEW p \in Invocations, Settle(p) PROVE Inv'
  BY <1>22 DEF Settle, Raise, Return
<1>23. ASSUME NEW p \in Invocations, Reset(p) PROVE Inv'
  BY <1>23 DEF Reset, Raise, Taken, Installs
<1>24. ASSUME NEW p \in Invocations, Forget(p) PROVE Inv'
  BY <1>24 DEF Forget
<1>25. ASSUME NEW p \in Invocations, TimesOut(p) PROVE Inv'
  BY <1>25 DEF TimesOut, Raise
<1>26. ASSUME NEW p \in Invocations, Fault(p) PROVE Inv'
  BY <1>26 DEF Fault
<1>27. ASSUME NEW p \in Invocations, NEW c \in Commands, Invoke(p, c) PROVE Inv'
  BY <1>27, CommandsAssumption DEF Invoke
<1>28. CASE InstallerEnds
  BY <1>28 DEF InstallerEnds, Off
<1>29. CASE GuestHalts
  BY <1>29 DEF GuestHalts, Off
<1>30. CASE PowerLoss
  BY <1>30 DEF PowerLoss, Off
<1>31. CASE UNCHANGED vars
  BY <1>31 DEF vars
<1> QED
  BY <1>1, <1>2, <1>3, <1>4, <1>5, <1>6, <1>7, <1>8, <1>9, <1>10, <1>11, <1>12, <1>13,
     <1>14, <1>15, <1>16, <1>17, <1>18, <1>19, <1>20, <1>21, <1>22, <1>23, <1>24, <1>25,
     <1>26, <1>27, <1>28, <1>29, <1>30, <1>31 DEF Next, Step

LEMMA GoneStep ==
    ASSUME "verify" \notin Commands, Inv, Gone, [Next]_vars, Inv'
    PROVE  Gone'
<1> USE NoneAssumption DEF Inv, TypeOK, Locked, Recorded, Routed, Gone, Unverified,
   NewMeansNothing, Exists, Found, Torn, Deploys, Verifying, Deploying, Destroying, Goto,
   records, machine, control
<1>1. ASSUME NEW p \in Invocations, Plan(p) PROVE Gone'
  BY <1>1 DEF Plan, FirstStep, Raise, UpStep
<1>2. ASSUME NEW p \in Invocations, Record(p) PROVE Gone'
  BY <1>2 DEF Record
<1>3. ASSUME NEW p \in Invocations, Render(p) PROVE Gone'
  BY <1>3 DEF Render
<1>4. ASSUME NEW p \in Invocations, Guard(p) PROVE Gone'
  BY <1>4 DEF Guard, Move, Raise
<1>5. ASSUME NEW p \in Invocations, StopGuest(p) PROVE Gone'
  BY <1>5 DEF StopGuest, Off
<1>6. ASSUME NEW p \in Invocations, Undefine(p) PROVE Gone'
  BY <1>6 DEF Undefine, NoDomain
<1>7. ASSUME NEW p \in Invocations, Unlink(p) PROVE Gone'
  BY <1>7 DEF Unlink, NoDisk
<1>8. ASSUME NEW p \in Invocations, CreateDisk(p) PROVE Gone'
  BY <1>8 DEF CreateDisk, NewDisk
<1>9. ASSUME NEW p \in Invocations, Define(p) PROVE Gone'
  BY <1>9 DEF Define, Raise
<1>10. ASSUME NEW p \in Invocations, Launch(p) PROVE Gone'
  BY <1>10 DEF Launch, Create, Booted, Taken, Installs, Raise
<1>11. ASSUME NEW p \in Invocations, Start(p) PROVE Gone'
  BY <1>11 DEF Start, Create, Booted, Taken, Installs, Raise, Return, Move
<1>12. ASSUME NEW p \in Invocations, Finish(p) PROVE Gone'
  BY <1>12 DEF Finish, Move
<1>13. ASSUME NEW p \in Invocations, CloudInit(p) PROVE Gone'
  BY <1>13 DEF CloudInit, Move, Raise
<1>14. ASSUME NEW p \in Invocations, Detach(p) PROVE Gone'
  BY <1>14 DEF Detach, Raise
<1>15. ASSUME NEW p \in Invocations, Drain(p) PROVE Gone'
  BY <1>15 DEF Drain, Move
<1>16. ASSUME NEW p \in Invocations, ReadXML(p) PROVE Gone'
  BY <1>16 DEF ReadXML, Raise
<1>17. ASSUME NEW p \in Invocations, Redefine(p) PROVE Gone'
  BY <1>17 DEF Redefine, Raise
<1>18. ASSUME NEW p \in Invocations, Boot(p) PROVE Gone'
  BY <1>18 DEF Boot, Create, Booted, Taken, Installs, Raise
<1>19. ASSUME NEW p \in Invocations, Accept(p) PROVE Gone'
  BY <1>19 DEF Accept, Move, Raise, Return
<1>20. ASSUME NEW p \in Invocations, Commit(p) PROVE Gone'
  BY <1>20 DEF Commit
<1>21. ASSUME NEW p \in Invocations, Halt(p) PROVE Gone'
  BY <1>21 DEF Halt, Raise
<1>22. ASSUME NEW p \in Invocations, Settle(p) PROVE Gone'
  BY <1>22 DEF Settle, Raise, Return
<1>23. ASSUME NEW p \in Invocations, Reset(p) PROVE Gone'
  BY <1>23 DEF Reset, Raise, Taken, Installs
<1>24. ASSUME NEW p \in Invocations, Forget(p) PROVE Gone'
  BY <1>24 DEF Forget
<1>25. ASSUME NEW p \in Invocations, TimesOut(p) PROVE Gone'
  BY <1>25 DEF TimesOut, Raise
<1>26. ASSUME NEW p \in Invocations, Fault(p) PROVE Gone'
  BY <1>26 DEF Fault
<1>27. ASSUME NEW p \in Invocations, NEW c \in Commands, Invoke(p, c) PROVE Gone'
  BY <1>27 DEF Invoke
<1>28. CASE InstallerEnds
  BY <1>28 DEF InstallerEnds, Off
<1>29. CASE GuestHalts
  BY <1>29 DEF GuestHalts, Off
<1>30. CASE PowerLoss
  BY <1>30 DEF PowerLoss, Off
<1>31. CASE UNCHANGED vars
  BY <1>31 DEF vars
<1> QED
  BY <1>1, <1>2, <1>3, <1>4, <1>5, <1>6, <1>7, <1>8, <1>9, <1>10, <1>11, <1>12, <1>13,
     <1>14, <1>15, <1>16, <1>17, <1>18, <1>19, <1>20, <1>21, <1>22, <1>23, <1>24, <1>25,
     <1>26, <1>27, <1>28, <1>29, <1>30, <1>31 DEF Next, Step

\* Nothing takes a machine off under an invocation that waits for it, but the
\* end of its installer and post_provision.
LEMMA InstalledStep ==
    ASSUME "verify" \notin Commands, Commands \cap {"down", "off"} = {}, ~PowerFails,
           Inv, Gone, Installed, [Next]_vars, TypeOK'
    PROVE  Installed'
<1> USE NoneAssumption DEF Inv, TypeOK, Locked, Gone, Unverified, Torn, Installed, Sound,
   Whole, Undisturbed, Finalized, Routed, Deploys, Verifying, Deploying, Destroying, Goto,
   records, machine, control, Disks, Domains
<1>1. ASSUME NEW p \in Invocations, Plan(p) PROVE Installed'
  BY <1>1 DEF Plan, FirstStep, Raise, UpStep
<1>2. ASSUME NEW p \in Invocations, Record(p) PROVE Installed'
  BY <1>2 DEF Record
<1>3. ASSUME NEW p \in Invocations, Render(p) PROVE Installed'
  BY <1>3 DEF Render
<1>4. ASSUME NEW p \in Invocations, Guard(p) PROVE Installed'
  BY <1>4 DEF Guard, Move, Raise, Exists, Found
<1>5. ASSUME NEW p \in Invocations, StopGuest(p) PROVE Installed'
  BY <1>5 DEF StopGuest, Off
<1>6. ASSUME NEW p \in Invocations, Undefine(p) PROVE Installed'
  BY <1>6 DEF Undefine, NoDomain
<1>7. ASSUME NEW p \in Invocations, Unlink(p) PROVE Installed'
  BY <1>7 DEF Unlink, NoDisk
<1>8. ASSUME NEW p \in Invocations, CreateDisk(p) PROVE Installed'
  BY <1>8 DEF CreateDisk, NewDisk
<1>9. ASSUME NEW p \in Invocations, Define(p) PROVE Installed'
  BY <1>9 DEF Define, Raise, Found
<1>10. ASSUME NEW p \in Invocations, Launch(p) PROVE Installed'
  BY <1>10 DEF Launch, Create, Booted, Taken, Installs, Raise
<1>11. ASSUME NEW p \in Invocations, Start(p) PROVE Installed'
  BY <1>11 DEF Start, Create, Booted, Taken, Installs, Raise, Return, Move
<1>12. ASSUME NEW p \in Invocations, Finish(p) PROVE Installed'
  BY <1>12 DEF Finish, Finished, Answers, Move
<1>13. ASSUME NEW p \in Invocations, CloudInit(p) PROVE Installed'
  BY <1>13 DEF CloudInit, Move, Raise
<1>14. ASSUME NEW p \in Invocations, Detach(p) PROVE Installed'
  BY <1>14 DEF Detach, Raise
<1>15. ASSUME NEW p \in Invocations, Drain(p) PROVE Installed'
  BY <1>15 DEF Drain, Move
<1>16. ASSUME NEW p \in Invocations, ReadXML(p) PROVE Installed'
  BY <1>16 DEF ReadXML, Raise
<1>17. ASSUME NEW p \in Invocations, Redefine(p) PROVE Installed'
  BY <1>17 DEF Redefine, Raise
<1>18. ASSUME NEW p \in Invocations, Boot(p) PROVE Installed'
  BY <1>18 DEF Boot, Create, Booted, Taken, Installs, Raise
<1>19. ASSUME NEW p \in Invocations, Accept(p) PROVE Installed'
  BY <1>19 DEF Accept, Move, Raise, Return
<1>20. ASSUME NEW p \in Invocations, Commit(p) PROVE Installed'
  BY <1>20 DEF Commit
<1>21. ASSUME NEW p \in Invocations, Halt(p) PROVE Installed'
  BY <1>21 DEF Halt, Raise
<1>22. ASSUME NEW p \in Invocations, Settle(p) PROVE Installed'
  BY <1>22 DEF Settle, Raise, Return
<1>23. ASSUME NEW p \in Invocations, Reset(p) PROVE Installed'
  BY <1>23 DEF Reset, Raise, Taken, Installs
<1>24. ASSUME NEW p \in Invocations, Forget(p) PROVE Installed'
  BY <1>24 DEF Forget
<1>25. ASSUME NEW p \in Invocations, TimesOut(p) PROVE Installed'
  BY <1>25 DEF TimesOut, Raise
<1>26. ASSUME NEW p \in Invocations, Fault(p) PROVE Installed'
  BY <1>26 DEF Fault
<1>27. ASSUME NEW p \in Invocations, NEW c \in Commands, Invoke(p, c) PROVE Installed'
  BY <1>27 DEF Invoke
<1>28. CASE InstallerEnds
  BY <1>28 DEF InstallerEnds, Off
<1>29. CASE GuestHalts
  BY <1>29 DEF GuestHalts, Off
<1>30. CASE PowerLoss
  BY <1>30 DEF PowerLoss
<1>31. CASE UNCHANGED vars
  BY <1>31 DEF vars
<1> QED
  BY <1>1, <1>2, <1>3, <1>4, <1>5, <1>6, <1>7, <1>8, <1>9, <1>10, <1>11, <1>12, <1>13,
     <1>14, <1>15, <1>16, <1>17, <1>18, <1>19, <1>20, <1>21, <1>22, <1>23, <1>24, <1>25,
     <1>26, <1>27, <1>28, <1>29, <1>30, <1>31 DEF Next, Step

\* Only post_provision takes the media out of a definition.
LEMMA RedefineOnly ==
    ASSUME [Next]_vars, Detaches
    PROVE  \E p \in Invocations : Redefine(p)
<1> USE DEF Detaches
<1>1. ASSUME NEW p \in Invocations, Step(p), ~Redefine(p) PROVE FALSE
  BY <1>1 DEF Step, machine, Record, Forget, Move, Raise, Return, Plan, Render, Guard,
     StopGuest, Undefine, NoDomain, Unlink, CreateDisk, Define, Launch, Start, Create, Finish,
     CloudInit, Detach, Drain, ReadXML, Commit, Boot, Accept, Halt, Settle, Reset, TimesOut
<1>2. ASSUME NEW p \in Invocations, Fault(p) \/ \E c \in Commands : Invoke(p, c) PROVE FALSE
  BY <1>2 DEF Fault, Invoke, machine
<1>3. CASE InstallerEnds \/ GuestHalts \/ PowerLoss \/ UNCHANGED vars
  BY <1>3 DEF InstallerEnds, GuestHalts, PowerLoss, vars
<1> QED
  BY <1>1, <1>2, <1>3 DEF Next

\* Only Commit makes an installation an installed node.
LEMMA CommitOnly ==
    ASSUME Inv, [Next]_vars, phase = "installing", phase' = "installed"
    PROVE  \E p \in Invocations : Commit(p)
<1>1. ASSUME NEW p \in Invocations, Step(p), ~Commit(p) PROVE phase' # "installed"
  BY <1>1 DEF Step, records, Record, Forget, Move, Raise, Return, Plan, Render, Guard,
     StopGuest, Undefine, Unlink, CreateDisk, Define, Launch, Start, Finish, CloudInit,
     Detach, Drain, ReadXML, Redefine, Boot, Accept, Halt, Settle, Reset, TimesOut
<1>2. ASSUME NEW p \in Invocations, Fault(p) \/ \E c \in Commands : Invoke(p, c)
      PROVE  phase' # "installed"
  BY <1>2 DEF Fault, Invoke, records
<1>3. CASE InstallerEnds \/ GuestHalts \/ PowerLoss \/ UNCHANGED vars
  BY <1>3 DEF InstallerEnds, GuestHalts, PowerLoss, vars, records
<1> QED
  BY <1>1, <1>2, <1>3 DEF Next
-----------------------------------------------------------------------------
\* Every variable keeps its type, for any invocations and any method.
THEOREM TypeCorrect == Spec => []TypeOK
<1>1. Init => TypeOK
  BY InitType
<1>2. TypeOK /\ [Next]_vars => TypeOK'
  BY TypeStep
<1> QED
  BY <1>1, <1>2, PTL DEF Spec

LEMMA Invariant == Spec => []Inv
<1>1. Init => Inv
  <2>1. Init => TypeOK
    BY InitType
  <2> QED
    BY <2>1 DEF Init, Inv, MediaDetached, Latest, Locked, Recorded, Routed, Finalized,
       Verifying, Deploying, Destroying
<1>2. Inv /\ [Next]_vars => Inv'
  BY TypeStep, LatestStep, InvStep DEF Inv
<1> QED
  BY <1>1, <1>2, PTL DEF Spec

\* A node recorded as installed has lost its installation media, whatever
\* failed, was killed, lost power or verified beside it (lifecycle.py:211-213).
THEOREM InstalledIsDetached == Spec => []MediaDetached
<1>1. Inv => MediaDetached
  BY DEF Inv
<1> QED
  BY <1>1, Invariant, PTL

\* Golden restore records a node as installed only when its disk holds the
\* whole system of the last deploy (lifecycle.py:214-246), provided that no
\* deploy fails between its record and its new token (recovery.py:79).
THEOREM GoldenAcceptsItsOwn ==
    ASSUME Method = "golden-restore", "rendering" \notin FaultAt
    PROVE  Spec => MarkedSystemOnly
<1>1. Inv /\ [Next]_vars =>
          [phase = "installing" /\ phase' = "installed"
              => disk = [system |-> "whole", token |-> attempt]]_vars
  <2> SUFFICES ASSUME Inv, [Next]_vars, phase = "installing", phase' = "installed"
               PROVE  disk = [system |-> "whole", token |-> attempt]
    OBVIOUS
  <2>1. PICK p \in Invocations : Commit(p)
    BY CommitOnly
  <2> QED
    BY <2>1 DEF Inv, Finalized, Commit, Rendered
<1> QED
  BY <1>1, Invariant, PTL DEF Spec, MarkedSystemOnly

LEMMA GoneInvariant ==
    ASSUME "verify" \notin Commands
    PROVE  Spec => [](Inv /\ Gone)
<1>1. Init => Gone
  BY DEF Init, Gone, Unverified, NewMeansNothing, Torn, Exists, Found, NoDomain, NoDisk,
     Destroying
<1>2. Inv /\ Inv' /\ Gone /\ [Next]_vars => Gone'
  BY GoneStep
<1> QED
  BY <1>1, <1>2, Invariant, PTL DEF Spec

\* When nobody runs `verify` beside the lock's holder, a node without a record
\* has no domain, no disk and no guest (service.py:258-265, provider.py:310-323).
THEOREM ForgottenIsGone ==
    ASSUME "verify" \notin Commands
    PROVE  Spec => []NewMeansNothing
<1>1. Gone => NewMeansNothing
  BY DEF Gone
<1> QED
  BY <1>1, GoneInvariant, PTL

\* Where besides no `down` or `off` halts a guest half-way and no power fails,
\* the media stay until the installation, or cloud-init, is complete, whatever
\* failed or was killed before (lifecycle.py:178-211; docs/bootstrap-methods.md:41-43).
THEOREM MediaStayUntilInstalled ==
    ASSUME "verify" \notin Commands, Commands \cap {"down", "off"} = {}, ~PowerFails
    PROVE  Spec => DetachAfterInstall
<1>1. Init => Installed
  BY DEF Init, Installed, Sound, Whole, Undisturbed, NoDomain
<1>2. Inv /\ Gone /\ Inv' /\ Installed /\ [Next]_vars => Installed'
  BY InstalledStep DEF Inv
<1>3. Installed /\ [Next]_vars => [Detaches => disk.system = "whole"]_vars
  <2> SUFFICES ASSUME Installed, [Next]_vars, Detaches PROVE disk.system = "whole"
    OBVIOUS
  <2>1. PICK p \in Invocations : Redefine(p)
    BY RedefineOnly
  <2> QED
    BY <2>1 DEF Redefine, Installed, Undisturbed, Whole
<1> QED
  BY <1>1, <1>2, <1>3, GoneInvariant, PTL DEF Spec, DetachAfterInstall
=============================================================================
