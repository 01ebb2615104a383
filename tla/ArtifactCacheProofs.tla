------------------------- MODULE ArtifactCacheProofs -------------------------
(***************************************************************************)
(* ArtifactCache implements VerifiedStore, for any number of clients and   *)
(* of kills, on this host and on the bastion.                              *)
(***************************************************************************)
EXTENDS ArtifactCache, TLAPS

\* Type correctness of the cache's state (bootstrap/artifacts.py:33-71).
THEOREM TypeCorrect == Spec => []TypeOK
<1>1. Init => TypeOK
  BY KillsAssumption DEF Init, TypeOK, Contents
<1>2. TypeOK /\ [Next]_vars => TypeOK'
  <2> SUFFICES ASSUME TypeOK, [Next]_vars PROVE TypeOK'
    OBVIOUS
  <2> USE DEF TypeOK, Contents, Goto, Cut, Complete, Kept
  <2>1. ASSUME NEW c \in Clients, Request(c) \/ Lock(c) \/ LockTimesOut(c) PROVE TypeOK'
    BY <2>1 DEF Request, Lock, LockTimesOut
  <2>2. ASSUME NEW c \in Clients, Fetch(c) \/ FetchFails(c) PROVE TypeOK'
    BY <2>2 DEF Fetch, FetchFails
  <2>3. ASSUME NEW c \in Clients, Check(c) \/ CheckFails(c) \/ Publish(c) \/ Return(c) \/ Leave(c)
        PROVE  TypeOK'
    BY <2>3 DEF Check, CheckFails, Publish, Return, Leave
  <2>4. ASSUME NEW c \in Clients, Kill(c) PROVE TypeOK'
    <3>1. kills' \in 0 .. MaxKills
      BY <2>4, KillsAssumption DEF Kill
    <3> QED
      BY <2>4, <3>1 DEF Kill
  <2>5. CASE SourceChanges \/ UNCHANGED vars
    BY <2>5 DEF SourceChanges, vars
  <2> QED
    BY <2>1, <2>2, <2>3, <2>4, <2>5 DEF Next, Step
<1> QED
  BY <1>1, <1>2, PTL DEF Spec

Steps == {"idle", "waiting", "fetching", "checking", "publishing",
          "published", "returned", "raised"}

\* Whoever works on the partial file holds the lock and has found no target;
\* what is moved into place has been verified; whoever is given the path is
\* given a whole file.
StoreInv ==
    /\ target \in {"absent", "whole"}
    /\ pc \in [Clients -> Steps]
    /\ \A c \in Clients :
         /\ pc[c] \in {"fetching", "checking", "publishing"}
              => lock = c /\ target = "absent"
         /\ pc[c] = "publishing" => partial = "whole"
         /\ pc[c] = "published" => lock = c
         /\ pc[c] \in {"published", "returned"} => target = "whole"

\* The invariant holds in every reachable state: the lock of
\* bootstrap/artifacts.py:14-26 spans the check, the transfer and the rename.
THEOREM StoreHolds == Spec => []StoreInv
<1>1. Init => StoreInv
  BY DEF Init, StoreInv, Steps
<1>2. StoreInv /\ [Next]_vars => StoreInv'
  <2> SUFFICES ASSUME StoreInv, [Next]_vars PROVE StoreInv'
    OBVIOUS
  <2> USE ClientsAssumption DEF StoreInv, Steps, Goto
  <2>1. ASSUME NEW c \in Clients, Request(c) PROVE StoreInv'
    BY <2>1 DEF Request
  <2>2. ASSUME NEW c \in Clients, Lock(c) PROVE StoreInv'
    BY <2>2 DEF Lock
  <2>3. ASSUME NEW c \in Clients, LockTimesOut(c) PROVE StoreInv'
    BY <2>3 DEF LockTimesOut
  <2>4. ASSUME NEW c \in Clients, Fetch(c) PROVE StoreInv'
    BY <2>4 DEF Fetch
  <2>5. ASSUME NEW c \in Clients, FetchFails(c) PROVE StoreInv'
    BY <2>5 DEF FetchFails
  <2>6. ASSUME NEW c \in Clients, Check(c) PROVE StoreInv'
    BY <2>6 DEF Check
  <2>7. ASSUME NEW c \in Clients, CheckFails(c) PROVE StoreInv'
    BY <2>7 DEF CheckFails
  <2>8. ASSUME NEW c \in Clients, Publish(c) PROVE StoreInv'
    BY <2>8 DEF Publish
  <2>9. ASSUME NEW c \in Clients, Return(c) PROVE StoreInv'
    BY <2>9 DEF Return
  <2>10. ASSUME NEW c \in Clients, Leave(c) PROVE StoreInv'
    BY <2>10 DEF Leave
  <2>11. ASSUME NEW c \in Clients, Kill(c) PROVE StoreInv'
    BY <2>11 DEF Kill
  <2>12. CASE SourceChanges
    BY <2>12 DEF SourceChanges
  <2>13. CASE UNCHANGED vars
    BY <2>13 DEF vars
  <2> QED
    BY <2>1, <2>2, <2>3, <2>4, <2>5, <2>6, <2>7, <2>8, <2>9, <2>10, <2>11,
       <2>12, <2>13 DEF Next, Step
<1> QED
  BY <1>1, <1>2, PTL DEF Spec

Served == {c \in Clients : pc[c] = "returned"}

\* A step that changes neither the target nor who has been given it is none
\* of the store's.
LEMMA Stutters ==
    ASSUME UNCHANGED target,
           \A c \in Clients : pc'[c] = "returned" <=> pc[c] = "returned"
    PROVE  UNCHANGED <<target, Served>>
BY DEF Served

\* Every step of the cache is a step of the store, or nothing to it.
LEMMA StepsRefine ==
    ASSUME StoreInv, [Next]_vars
    PROVE  [Store!Next]_<<target, Served>>
<1> USE DEF StoreInv, Steps, Goto
<1>1. ASSUME NEW c \in Clients,
             \/ Request(c) \/ LockTimesOut(c) \/ Fetch(c) \/ FetchFails(c)
             \/ Check(c) \/ CheckFails(c) \/ Kill(c)
      PROVE  UNCHANGED <<target, Served>>
  BY <1>1, Stutters DEF Request, LockTimesOut, Fetch, FetchFails, Check, CheckFails, Kill
<1>2. ASSUME NEW c \in Clients, Lock(c) PROVE [Store!Next]_<<target, Served>>
  <2>1. CASE target = "absent"
    BY <1>2, <2>1, Stutters DEF Lock
  <2>2. CASE target = "whole"
    <3>1. Served' = Served \cup {c} /\ UNCHANGED target
      BY <1>2, <2>2 DEF Lock, Served
    <3> QED
      BY <2>2, <3>1 DEF Store!Next, Store!Serve, Served
  <2> QED
    BY <2>1, <2>2
<1>3. ASSUME NEW c \in Clients, Publish(c) PROVE [Store!Next]_<<target, Served>>
  <2>1. target = "absent" /\ target' = "whole"
    BY <1>3 DEF Publish
  <2>2. Served' = Served
    BY <1>3 DEF Publish, Served
  <2> QED
    BY <2>1, <2>2 DEF Store!Next, Store!Publish, Served
<1>4. ASSUME NEW c \in Clients, Return(c) PROVE [Store!Next]_<<target, Served>>
  <2>1. Served' = Served \cup {c} /\ UNCHANGED target /\ target = "whole"
    BY <1>4 DEF Return, Served
  <2> QED
    BY <2>1 DEF Store!Next, Store!Serve, Served
<1>5. ASSUME NEW c \in Clients, Leave(c) PROVE [Store!Next]_<<target, Served>>
  <2>1. CASE pc[c] = "returned"
    <3>1. c \in Served /\ Served' = Served \ {c} /\ UNCHANGED target
      BY <1>5, <2>1 DEF Leave, Served
    <3> QED
      BY <3>1 DEF Store!Next, Store!Leave, Served
  <2>2. CASE pc[c] = "raised"
    BY <1>5, <2>2, Stutters DEF Leave
  <2> QED
    BY <1>5, <2>1, <2>2 DEF Leave
<1>6. CASE SourceChanges
  BY <1>6, Stutters DEF SourceChanges
<1>7. CASE UNCHANGED vars
  BY <1>7, Stutters DEF vars
<1> QED
  BY <1>1, <1>2, <1>3, <1>4, <1>5, <1>6, <1>7 DEF Next, Step

\* The cache implements its promise: under every interleaving of failures,
\* kills and changes of the source, an artifact is published once and whole,
\* stays so, and is all that a client is ever given (bootstrap/artifacts.py:33-71).
THEOREM Refinement == Spec => StoreSpec
<1>1. Init => Store!Init
  BY DEF Init, Store!Init
<1>2. StoreInv /\ [Next]_vars => [Store!Next]_<<target, Served>>
  BY StepsRefine
<1> QED
  BY <1>1, <1>2, StoreHolds, PTL DEF Spec, StoreSpec, Store!Spec, Served
=============================================================================
