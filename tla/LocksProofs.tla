----------------------------- MODULE LocksProofs -----------------------------
(***************************************************************************)
(* Proofs about Locks, for any invocations and any finite set of keys: the *)
(* safety properties of both kinds of lock, and mutual exclusion for the   *)
(* locks of this host.                                                     *)
(***************************************************************************)
EXTENDS Locks, FiniteSetTheorems, WellFoundedInduction, TLAPS

-----------------------------------------------------------------------------
(* Types *)

\* Every variable keeps its type: the invocations of service.py:80-95 and
\* remote_locks.py:17-71 are always at one of the modelled steps.
THEOREM TypeCorrect == Spec => []TypeOK
<1>1. Init => TypeOK
  BY DEF Init, TypeOK
<1>2. TypeOK /\ [Next]_vars => TypeOK'
  <2> SUFFICES ASSUME TypeOK, [Next]_vars PROVE TypeOK'
    OBVIOUS
  <2> USE DEF TypeOK
  <2>1. ASSUME NEW p \in Invocations, Request(p) PROVE TypeOK'
    BY <2>1 DEF Request
  <2>2. ASSUME NEW p \in Invocations, Acquire(p) PROVE TypeOK'
    BY <2>2 DEF Acquire
  <2>3. ASSUME NEW p \in Invocations, Refuse(p) PROVE TypeOK'
    BY <2>3 DEF Refuse, Fail
  <2>4. ASSUME NEW p \in Invocations, AcquireTimesOut(p) PROVE TypeOK'
    BY <2>4 DEF AcquireTimesOut, Fail, NextKey, Todo
  <2>5. ASSUME NEW p \in Invocations, Finish(p) PROVE TypeOK'
    BY <2>5 DEF Finish
  <2>6. ASSUME NEW p \in Invocations, Release(p) PROVE TypeOK'
    BY <2>6 DEF Release
  <2>7. ASSUME NEW p \in Invocations, Leave(p) PROVE TypeOK'
    BY <2>7 DEF Leave, Forget
  <2>8. ASSUME NEW p \in Invocations, Kill(p) PROVE TypeOK'
    BY <2>8 DEF Kill, Forget
  <2>9. ASSUME NEW p \in Invocations, NEW k \in Keys, Disconnect(p, k) PROVE TypeOK'
    BY <2>9 DEF Disconnect
  <2>10. ASSUME NEW p \in Invocations, NEW k \in Keys, Notice(p, k) PROVE TypeOK'
    BY <2>10 DEF Notice
  <2>11. ASSUME NEW k \in Keys, Expire(k) PROVE TypeOK'
    BY <2>11 DEF Expire
  <2>12. CASE UNCHANGED vars
    BY <2>12 DEF vars
  <2> QED
    BY <2>1, <2>2, <2>3, <2>4, <2>5, <2>6, <2>7, <2>8, <2>9, <2>10, <2>11, <2>12 DEF Next, Step
<1> QED
  BY <1>1, <1>2, PTL DEF Spec

-----------------------------------------------------------------------------
(* The inductive invariant *)

\* An invocation that is not under way holds nothing; one that is holds a part
\* of what it asked for, all of it while it works.
HeldAsAsked(p) ==
    /\ held[p] \subseteq want[p]
    /\ pc[p] = "idle" => held[p] = {}
    /\ pc[p] = "working" => held[p] = want[p]

\* What it holds is leased to it, or was lost with a session.
HeldIsLeased(p) == \A k \in held[p] : lease[k] = p \/ k \in dropped[p]

\* The keys are taken in order, and one is left to take while it acquires.
HeldInOrder(p) ==
    pc[p] = "acquiring" => /\ Todo(p) # {}
                           /\ \A k \in held[p], j \in Todo(p) : k < j

\* A lost session that was noticed is still open, or its loss is an error.
NoticedIsOpen(p) ==
    noticed[p] \subseteq held[p] \/ (pc[p] = "releasing" /\ failed[p])

\* Only the bastion loses sessions.
LostBySsh(p) == ~Bastion => dropped[p] = {}

Good(p) == HeldAsAsked(p) /\ HeldIsLeased(p) /\ HeldInOrder(p) /\ NoticedIsOpen(p) /\ LostBySsh(p)

IInv == TypeOK /\ \A p \in Invocations : Good(p)

Own(p) == <<pc[p], want[p], held[p], failed[p], dropped[p], noticed[p]>>

\* A step that leaves an invocation's own state alone, and its leases, leaves
\* its part of the invariant alone.
LEMMA OthersKeepGood ==
    ASSUME NEW q \in Invocations, Good(q), Own(q)' = Own(q),
           \A k \in held[q] : lease[k] = q => lease'[k] = q
    PROVE  Good(q)'
BY DEF Good, HeldAsAsked, HeldIsLeased, HeldInOrder, NoticedIsOpen, LostBySsh, Own, Todo

\* No invocation has asked for a lock at the start.
LEMMA InitGood == Init => \A p \in Invocations : Good(p)
BY DEF Init, Good, HeldAsAsked, HeldIsLeased, HeldInOrder, NoticedIsOpen, LostBySsh

\* Every step keeps every invocation's part of the invariant.
LEMMA NextGood ==
    ASSUME IInv, [Next]_vars
    PROVE  \A q \in Invocations : Good(q)'
<1> USE DEF IInv, TypeOK
<1>a. \A q \in Invocations : Good(q)
  OBVIOUS
<1>1. ASSUME NEW p \in Invocations, Request(p), NEW q \in Invocations PROVE Good(q)'
  <2>1. CASE q = p
    BY <1>1, <1>a, <2>1, KeysAssumption DEF Request, Good, HeldAsAsked, HeldIsLeased, HeldInOrder, NoticedIsOpen, LostBySsh, Todo
  <2>2. CASE q # p
    BY <1>1, <1>a, <2>2, OthersKeepGood DEF Request, Own
  <2> QED BY <2>1, <2>2
<1>2. ASSUME NEW p \in Invocations, Acquire(p), NEW q \in Invocations PROVE Good(q)'
  <2> PICK k \in Keys : /\ NextKey(p, k) /\ lease[k] = None
                        /\ lease' = [lease EXCEPT ![k] = p]
                        /\ held' = [held EXCEPT ![p] = @ \cup {k}]
                        /\ pc' = [pc EXCEPT ![p] = IF Todo(p) = {k} THEN "working" ELSE @]
    BY <1>2 DEF Acquire
  <2>1. CASE q = p
    BY <1>2, <1>a, <2>1, KeysAssumption DEF Acquire, NextKey, Good, HeldAsAsked, HeldIsLeased, HeldInOrder, NoticedIsOpen, LostBySsh, Todo
  <2>2. CASE q # p
    BY <1>2, <1>a, <2>2, OthersKeepGood, NoneAssumption DEF Acquire, Own
  <2> QED BY <2>1, <2>2
<1>3. ASSUME NEW p \in Invocations, Refuse(p), NEW q \in Invocations PROVE Good(q)'
  <2>1. CASE q = p
    BY <1>3, <1>a, <2>1 DEF Refuse, Fail, Good, HeldAsAsked, HeldIsLeased, HeldInOrder, NoticedIsOpen, LostBySsh
  <2>2. CASE q # p
    BY <1>3, <1>a, <2>2, OthersKeepGood DEF Refuse, Fail, Own
  <2> QED BY <2>1, <2>2
<1>4. ASSUME NEW p \in Invocations, AcquireTimesOut(p), NEW q \in Invocations PROVE Good(q)'
  <2>0. \A r \in Invocations : \A k \in held[r] : lease[k] = r => lease'[k] = r
    BY <1>4, NoneAssumption DEF AcquireTimesOut
  <2>1. CASE q = p
    BY <1>4, <1>a, <2>0, <2>1 DEF AcquireTimesOut, Fail, Good, HeldAsAsked, HeldIsLeased, HeldInOrder, NoticedIsOpen, LostBySsh
  <2>2. CASE q # p
    BY <1>4, <1>a, <2>0, <2>2, OthersKeepGood DEF AcquireTimesOut, Fail, Own
  <2> QED BY <2>1, <2>2
<1>5. ASSUME NEW p \in Invocations, Finish(p), NEW q \in Invocations PROVE Good(q)'
  <2>1. CASE q = p
    BY <1>5, <1>a, <2>1 DEF Finish, Good, HeldAsAsked, HeldIsLeased, HeldInOrder, NoticedIsOpen, LostBySsh
  <2>2. CASE q # p
    BY <1>5, <1>a, <2>2, OthersKeepGood DEF Finish, Own
  <2> QED BY <2>1, <2>2
<1>6. ASSUME NEW p \in Invocations, Release(p), NEW q \in Invocations PROVE Good(q)'
  <2> PICK k \in Keys : /\ LastKey(p, k)
                        /\ held' = [held EXCEPT ![p] = @ \ {k}]
                        /\ failed' = [failed EXCEPT ![p] = @ \/ k \in noticed[p]]
                        /\ \/ lease' = [lease EXCEPT ![k] = IF @ = p THEN None ELSE @]
                           \/ Bastion /\ lease' = lease
    BY <1>6 DEF Release
  <2>1. CASE q = p
    <3>1. /\ pc'[p] = "releasing" /\ held'[p] = held[p] \ {k}
          /\ UNCHANGED <<want, dropped, noticed>>
          /\ failed'[p] = (failed[p] \/ k \in noticed[p])
          /\ \A j \in Keys : j # k => lease'[j] = lease[j]
      BY <1>6 DEF Release
    <3>2. NoticedIsOpen(p)'
      BY <1>a, <3>1 DEF Good, NoticedIsOpen
    <3> QED
      BY <1>a, <2>1, <3>1, <3>2 DEF Good, HeldAsAsked, HeldIsLeased, HeldInOrder, LostBySsh
  <2>2. CASE q # p
    <3>1. \A j \in held[q] : lease[j] = q => lease'[j] = q
      BY <2>2
    <3>2. UNCHANGED <<pc, want, dropped, noticed>> /\ held[q]' = held[q] /\ failed[q]' = failed[q]
      BY <1>6, <2>2 DEF Release
    <3> QED
      BY <1>a, <3>1, <3>2, OthersKeepGood DEF Own
  <2> QED BY <2>1, <2>2
<1>7. ASSUME NEW p \in Invocations, Leave(p), NEW q \in Invocations PROVE Good(q)'
  <2>1. CASE q = p
    BY <1>7, <1>a, <2>1 DEF Leave, Forget, Good, HeldAsAsked, HeldIsLeased, HeldInOrder, NoticedIsOpen, LostBySsh
  <2>2. CASE q # p
    BY <1>7, <1>a, <2>2, OthersKeepGood DEF Leave, Forget, Own
  <2> QED BY <2>1, <2>2
<1>8. ASSUME NEW p \in Invocations, Kill(p), NEW q \in Invocations PROVE Good(q)'
  <2>1. CASE q = p
    BY <1>8, <1>a, <2>1 DEF Kill, Forget, Good, HeldAsAsked, HeldIsLeased, HeldInOrder, NoticedIsOpen, LostBySsh
  <2>2. CASE q # p
    BY <1>8, <1>a, <2>2, OthersKeepGood DEF Kill, Forget, Own
  <2> QED BY <2>1, <2>2
<1>9. ASSUME NEW p \in Invocations, NEW k \in Keys, Disconnect(p, k), NEW q \in Invocations
      PROVE  Good(q)'
  <2>1. CASE q = p
    BY <1>9, <1>a, <2>1 DEF Disconnect, Good, HeldAsAsked, HeldIsLeased, HeldInOrder, NoticedIsOpen, LostBySsh, Todo
  <2>2. CASE q # p
    BY <1>9, <1>a, <2>2, OthersKeepGood DEF Disconnect, Own
  <2> QED BY <2>1, <2>2
<1>10. ASSUME NEW p \in Invocations, NEW k \in Keys, Notice(p, k), NEW q \in Invocations
       PROVE  Good(q)'
  <2>1. CASE q = p
    BY <1>10, <1>a, <2>1 DEF Notice, Good, HeldAsAsked, HeldIsLeased, HeldInOrder, NoticedIsOpen, LostBySsh, Todo
  <2>2. CASE q # p
    BY <1>10, <1>a, <2>2, OthersKeepGood DEF Notice, Own
  <2> QED BY <2>1, <2>2
<1>11. ASSUME NEW k \in Keys, Expire(k), NEW q \in Invocations PROVE Good(q)'
  BY <1>11, <1>a, OthersKeepGood DEF Expire, Own
<1>12. ASSUME UNCHANGED vars, NEW q \in Invocations PROVE Good(q)'
  BY <1>12, <1>a, OthersKeepGood DEF vars, Own
<1> QED
  BY <1>1, <1>2, <1>3, <1>4, <1>5, <1>6, <1>7, <1>8, <1>9, <1>10, <1>11, <1>12 DEF Next, Step

\* What an invocation holds is a part of what it asked for, taken in order, and
\* is leased to it unless a session was lost; a loss it noticed becomes an error
\* (remote_locks.py:17-71, service.py:213-232).
THEOREM Invariance == Spec => []IInv
<1>1. Init /\ TypeOK => IInv
  BY InitGood DEF IInv
<1>2. IInv /\ [Next]_vars /\ TypeOK' => IInv'
  BY NextGood DEF IInv
<1> QED
  BY <1>1, <1>2, TypeCorrect, PTL DEF Spec

-----------------------------------------------------------------------------
(* What follows from it *)

\* With either kind of lock, an invocation at work has the lock of every
\* resource it works on, unless the bastion lost the session.
THEOREM CoverageHolds == Spec => []WorkIsCovered
<1>1. IInv => WorkIsCovered
  BY DEF IInv, Good, HeldAsAsked, HeldIsLeased, WorkIsCovered
<1> QED
  BY <1>1, Invariance, PTL

\* With the locks of this host, two invocations never work on one resource.
THEOREM LocalExclusion == ~Bastion => (Spec => []Exclusive)
<1> SUFFICES ASSUME ~Bastion PROVE Spec => []Exclusive
  OBVIOUS
<1>1. IInv => Exclusive
  <2> SUFFICES ASSUME IInv, NEW p \in Invocations, NEW q \in Invocations, p # q,
                      pc[p] = "working", pc[q] = "working", NEW k \in want[p] \cap want[q]
               PROVE  FALSE
    BY DEF Exclusive
  <2>1. lease[k] = p /\ lease[k] = q
    BY DEF IInv, Good, HeldAsAsked, HeldIsLeased, LostBySsh
  <2> QED BY <2>1
<1> QED
  BY <1>1, Invariance, PTL

\* A lost lease that was noticed before the end is always an error of its
\* invocation.
THEOREM LossReported == Spec => []LossIsReported
<1>1. IInv => LossIsReported
  BY DEF IInv, TypeOK, Good, NoticedIsOpen, LossIsReported, Released
<1> QED
  BY <1>1, Invariance, PTL

-----------------------------------------------------------------------------
(* Keys taken one by one are as if taken at once *)

Taken == [p \in Invocations |-> IF pc[p] = "working" THEN want[p] ELSE {}]

\* A step between the first key and the last, and after the work, is nothing
\* to whoever works.
LEMMA OtherwiseUntaken ==
    ASSUME \A p \in Invocations : /\ pc[p] = "working" <=> pc'[p] = "working"
                                  /\ pc[p] = "working" => want'[p] = want[p]
    PROVE  Taken' = Taken
BY DEF Taken

\* The step from nothing to all keys, when nobody works under any of them.
LEMMA TakesAll ==
    ASSUME NEW p \in Invocations, NEW keys \in SUBSET Keys,
           Taken[p] = {}, Taken' = [Taken EXCEPT ![p] = keys],
           \A q \in Invocations : Taken[q] \cap keys = {}
    PROVE  Atomic!Next
<1>1. Atomic!Take(p, keys)
  BY Zenon DEF Atomic!Take, Taken
<1> QED
  BY <1>1 DEF Atomic!Next

LEMMA LocalStepsRefine ==
    ASSUME ~Bastion, IInv, [Next]_vars
    PROVE  [Atomic!Next]_Taken
<1> USE DEF IInv, TypeOK
<1>1. ASSUME NEW p \in Invocations, Acquire(p) PROVE [Atomic!Next]_Taken
  <2>1. PICK k \in Keys : /\ NextKey(p, k) /\ lease[k] = None
                          /\ pc' = [pc EXCEPT ![p] = IF Todo(p) = {k} THEN "working" ELSE @]
    BY <1>1 DEF Acquire
  <2>2. pc[p] = "acquiring" /\ UNCHANGED want
    BY <1>1 DEF Acquire
  <2>3. CASE Todo(p) = {k}
    <3>1. Taken[p] = {} /\ Taken' = [Taken EXCEPT ![p] = want[p]]
      BY <2>1, <2>2, <2>3 DEF Taken
    <3>2. ASSUME NEW q \in Invocations, NEW j \in Taken[q] \cap want[p] PROVE FALSE
      <4>1. q # p /\ j \in held[q] /\ lease[j] = q
        BY <2>2, <3>2 DEF Taken, Good, HeldAsAsked, HeldIsLeased, LostBySsh
      <4>2. j \in held[p] \/ j = k
        BY <2>3, <3>2 DEF Todo
      <4>3. j \in held[p] => lease[j] = p
        BY DEF Good, HeldIsLeased, LostBySsh
      <4> QED
        BY <2>1, <4>1, <4>2, <4>3, NoneAssumption
    <3>3. want[p] \in SUBSET Keys
      BY Zenon
    <3> QED
      BY <3>1, <3>2, <3>3, TakesAll
  <2>4. CASE Todo(p) # {k}
    BY <2>1, <2>2, <2>4, OtherwiseUntaken
  <2> QED
    BY <2>3, <2>4
<1>2. ASSUME NEW p \in Invocations, Finish(p) \/ Kill(p) PROVE [Atomic!Next]_Taken
  <2>1. Taken' = [Taken EXCEPT ![p] = {}]
    BY <1>2 DEF Finish, Kill, Forget, Taken
  <2> QED
    BY <2>1 DEF Atomic!Next, Atomic!GiveBack, Taken
<1>3. ASSUME NEW p \in Invocations,
             Request(p) \/ Refuse(p) \/ AcquireTimesOut(p) \/ Release(p) \/ Leave(p)
      PROVE  Taken' = Taken
  BY <1>3, OtherwiseUntaken DEF Request, Refuse, AcquireTimesOut, Release, Leave, Released, Fail,
     Forget
<1>4. ASSUME NEW p \in Invocations, NEW k \in Keys, Disconnect(p, k) \/ Notice(p, k)
      PROVE  Taken' = Taken
  BY <1>4, OtherwiseUntaken DEF Disconnect, Notice
<1>5. ASSUME NEW k \in Keys, Expire(k) PROVE Taken' = Taken
  BY <1>5, OtherwiseUntaken DEF Expire
<1>6. CASE UNCHANGED vars
  BY <1>6, OtherwiseUntaken DEF vars
<1> QED
  BY <1>1, <1>2, <1>3, <1>4, <1>5, <1>6 DEF Next, Step

\* The locks of this host are to the work under them as if all keys were taken,
\* and given back, in one step (service.py:85-95), which is how Lifecycle has
\* them.
THEOREM TakenAtOnce == ~Bastion => (Spec => AtomicSpec)
<1> SUFFICES ASSUME ~Bastion PROVE Spec => AtomicSpec
  OBVIOUS
<1>1. Init => Atomic!Init
  BY DEF Init, Atomic!Init
<1>2. IInv /\ [Next]_vars => [Atomic!Next]_Taken
  BY LocalStepsRefine
<1> QED
  BY <1>1, <1>2, Invariance, PTL DEF Spec, AtomicSpec, Atomic!Spec, Taken

-----------------------------------------------------------------------------
(* Contention *)

\* A finite set of numbers that is not empty has a greatest element: the
\* smallest set without one would have one, its other elements' or the one
\* taken away from it.
LEMMA GreatestExists ==
    ASSUME NEW S, S \subseteq Nat, IsFiniteSet(S), S # {}
    PROVE  \E x \in S : \A y \in S : y <= x
<1> DEFINE Headless(T) == T # {} /\ ~ \E x \in T : \A y \in T : y <= x
           Bad == {n \in Nat : \E T \in SUBSET Nat :
                      IsFiniteSet(T) /\ Cardinality(T) = n /\ Headless(T)}
           Less == OpToRel(<, Nat)
<1> SUFFICES ASSUME Headless(S) PROVE FALSE
  OBVIOUS
<1>1. Cardinality(S) \in Bad
  BY FS_CardinalityType
<1>2. PICK n \in Bad : \A m \in Bad : ~ (m < n)
  <2>1. IsWellFoundedOn(Less, Nat)
    BY NatLessThanWellFounded, Zenon
  <2>2. Less = {ss \in Nat \X Nat : ss[1] < ss[2]}
    BY Zenon DEF OpToRel
  <2> HIDE DEF Less
  <2>3. PICK n \in Bad : \A m \in Bad : <<m, n>> \notin Less
    BY <1>1, <2>1, WFMin
  <2> QED
    BY <2>2, <2>3
<1>3. PICK T \in SUBSET Nat : IsFiniteSet(T) /\ Cardinality(T) = n /\ Headless(T)
  OBVIOUS
<1>4. PICK x \in T : TRUE
  BY <1>3
<1>5. /\ IsFiniteSet(T \ {x}) /\ Cardinality(T \ {x}) = n - 1
      /\ n - 1 \in Nat
  <2>1. n # 0
    BY <1>3, FS_EmptySet
  <2> QED
    BY <1>3, <2>1, FS_RemoveElement
<1>6. ~ Headless(T \ {x})
  <2> SUFFICES ASSUME Headless(T \ {x}) PROVE FALSE
    OBVIOUS
  <2>1. n - 1 \in Bad
    BY <1>5
  <2> QED
    BY <1>2, <2>1
<1>7. CASE T \ {x} = {}
  BY <1>3, <1>7
<1>8. CASE T \ {x} # {}
  <2>1. PICK m \in T \ {x} : \A y \in T \ {x} : y <= m
    BY <1>6, <1>8
  <2>2. CASE x <= m
    BY <1>3, <2>1, <2>2
  <2>3. CASE ~ (x <= m)
    BY <1>3, <2>1, <2>3
  <2> QED
    BY <2>2, <2>3
<1> QED
  BY <1>7, <1>8

\* Taking the keys in order, competing invocations never all refuse each other
\* (service.py:88, "sorted(set(keys))"): the one whose next key is the greatest
\* finds it free, since a contender holding it would wait for a greater one.
THEOREM SomeoneWins == Spec => []ContentionHasAWinner
<1>1. IInv => ContentionHasAWinner
  <2> DEFINE contenders == {p \in Invocations : pc[p] = "acquiring"}
             awaited == {k \in Keys : \E p \in contenders : NextKey(p, k)}
  <2> SUFFICES ASSUME IInv, contenders # {},
                      \A k \in Keys : lease[k] # None =>
                          lease[k] \in contenders /\ k \in held[lease[k]],
                      \A p \in contenders : \E k \in Keys : NextKey(p, k) /\ lease[k] # None
               PROVE  FALSE
    BY DEF ContentionHasAWinner
  <2>1. awaited # {} /\ awaited \subseteq Nat /\ IsFiniteSet(awaited)
    BY KeysAssumption, FS_Subset
  <2>2. PICK k \in awaited : \A j \in awaited : j <= k
    BY <2>1, GreatestExists
  <2>3. PICK p \in contenders : NextKey(p, k)
    OBVIOUS
  <2>4. lease[k] # None
    <3>1. PICK j \in Keys : NextKey(p, j) /\ lease[j] # None
      BY <2>3
    <3>2. j = k
      BY <2>3, <3>1, KeysAssumption DEF NextKey
    <3> QED
      BY <3>1, <3>2
  <2>5. lease[k] \in contenders /\ k \in held[lease[k]]
    BY <2>4
  <2>6. PICK j \in Keys : NextKey(lease[k], j)
    BY <2>5
  <2>7. k < j
    BY <2>5, <2>6 DEF IInv, Good, HeldInOrder, NextKey
  <2> QED
    BY <2>2, <2>5, <2>6, <2>7, KeysAssumption
<1> QED
  BY <1>1, Invariance, PTL
=============================================================================
