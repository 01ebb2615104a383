-------------------------------- MODULE Locks --------------------------------
(***************************************************************************)
(* The locks an invocation holds on the resources it works on:             *)
(* ResourceLocks (core/lifecycle/service.py), a flock on a file of this    *)
(* host, and BastionLocks (core/lifecycle/remote_locks.py), a flock on a   *)
(* file of the bastion held by a shell at the end of an ssh session.       *)
(*                                                                         *)
(* Keys are taken one by one, in the order of their names and without      *)
(* waiting; the first one that is taken refuses the whole request, and the *)
(* keys already entered are left in the opposite order.                    *)
(***************************************************************************)
EXTENDS Naturals, FiniteSets

CONSTANTS
    Invocations, \* concurrent invocations of the program
    Keys,        \* the resource identities, numbered in the order of their names
    Bastion,     \* leases over ssh (TRUE) or files of this host (FALSE)
    None

ASSUME KeysAssumption == Keys \subseteq Nat /\ IsFiniteSet(Keys)
ASSUME BastionAssumption == Bastion \in BOOLEAN
ASSUME NoneAssumption == None \notin Invocations

VARIABLES
    pc,      \* where an invocation is: idle, acquiring, working, releasing
    want,    \* the keys it asked for
    held,    \* the keys whose context it has entered and not left
    failed,  \* an exception is on its way out of the invocation
    lease,   \* per key, the invocation for which the lock's host holds it
    dropped, \* the held keys the bastion gave up because a session broke
    noticed  \* the held keys whose local ssh process has ended

vars == <<pc, want, held, failed, lease, dropped, noticed>>

Todo(p) == want[p] \ held[p]

\* Mutant: the keys are taken in any order.
NextKeyAny(p, k) == k \in Todo(p)

\* sorted(set(keys)): the next key to take.
NextKey(p, k) == k \in Todo(p) /\ \A j \in Todo(p) : k <= j

\* The contexts are left in the opposite order.
LastKey(p, k) == k \in held[p] /\ \A j \in held[p] : j <= k

Request(p) ==
    /\ pc[p] = "idle"
    /\ \E ks \in (SUBSET Keys) \ {{}} : want' = [want EXCEPT ![p] = ks]
    /\ pc' = [pc EXCEPT ![p] = "acquiring"]
    /\ UNCHANGED <<held, failed, lease, dropped, noticed>>

\* Mutant: the work begins before the last key is taken.
AcquireEarly(p) ==
    /\ pc[p] = "acquiring"
    /\ \E k \in Keys :
         /\ NextKey(p, k) /\ lease[k] = None
         /\ lease' = [lease EXCEPT ![k] = p]
         /\ held' = [held EXCEPT ![p] = @ \cup {k}]
         /\ pc' = [pc EXCEPT ![p] = IF Cardinality(Todo(p)) <= 2 THEN "working" ELSE @]
    /\ UNCHANGED <<want, failed, dropped, noticed>>

\* flock LOCK_NB succeeds; over ssh, the shell answers LOCKED.
Acquire(p) ==
    /\ pc[p] = "acquiring"
    /\ \E k \in Keys :
         /\ NextKey(p, k) /\ lease[k] = None
         /\ lease' = [lease EXCEPT ![k] = p]
         /\ held' = [held EXCEPT ![p] = @ \cup {k}]
         /\ pc' = [pc EXCEPT ![p] = IF Todo(p) = {k} THEN "working" ELSE @]
    /\ UNCHANGED <<want, failed, dropped, noticed>>

Fail(p) ==
    /\ pc' = [pc EXCEPT ![p] = "releasing"]
    /\ failed' = [failed EXCEPT ![p] = TRUE]

\* Mutant: the keys already taken are forgotten, not released.
RefuseAndLeak(p) ==
    /\ pc[p] = "acquiring"
    /\ \E k \in Keys : NextKey(p, k) /\ lease[k] # None
    /\ pc' = [pc EXCEPT ![p] = "leaked"]
    /\ UNCHANGED <<want, held, failed, lease, dropped, noticed>>

\* The key is taken: BlockingIOError, or a session that ends without LOCKED.
Refuse(p) ==
    /\ pc[p] = "acquiring"
    /\ \E k \in Keys : NextKey(p, k) /\ lease[k] # None
    /\ Fail(p)
    /\ UNCHANGED <<want, held, lease, dropped, noticed>>

\* No LOCKED within 15 seconds.  The session is ended, but the bastion may have
\* granted the lease to it by then.
AcquireTimesOut(p) ==
    /\ Bastion /\ pc[p] = "acquiring"
    /\ \E k \in Keys :
         /\ NextKey(p, k)
         /\ \/ lease' = lease
            \/ lease[k] = None /\ lease' = [lease EXCEPT ![k] = p]
    /\ Fail(p)
    /\ UNCHANGED <<want, held, dropped, noticed>>

\* The body of the `with` ends, normally or with an exception.
Finish(p) ==
    /\ pc[p] = "working"
    /\ \E raised \in BOOLEAN : failed' = [failed EXCEPT ![p] = raised]
    /\ pc' = [pc EXCEPT ![p] = "releasing"]
    /\ UNCHANGED <<want, held, lease, dropped, noticed>>

\* Mutant: the end of a session is not looked at.
ReleaseBlindly(p) ==
    /\ pc[p] = "releasing"
    /\ \E k \in Keys :
         /\ LastKey(p, k)
         /\ held' = [held EXCEPT ![p] = @ \ {k}]
         /\ lease' = [lease EXCEPT ![k] = IF @ = p THEN None ELSE @]
    /\ UNCHANGED <<pc, want, failed, dropped, noticed>>

\* One context is left: the file is closed, or the session's input; the session
\* that does not end within 10 seconds is killed and the bastion finds out
\* later.  A session that ended before its time is an error of the invocation.
Release(p) ==
    /\ pc[p] = "releasing"
    /\ \E k \in Keys :
         /\ LastKey(p, k)
         /\ held' = [held EXCEPT ![p] = @ \ {k}]
         /\ failed' = [failed EXCEPT ![p] = @ \/ k \in noticed[p]]
         /\ \/ lease' = [lease EXCEPT ![k] = IF @ = p THEN None ELSE @]
            \/ Bastion /\ lease' = lease
    /\ UNCHANGED <<pc, want, dropped, noticed>>

\* What is forgotten when the invocation is over.
Forget(p) ==
    /\ pc' = [pc EXCEPT ![p] = "idle"]
    /\ want' = [want EXCEPT ![p] = {}]
    /\ held' = [held EXCEPT ![p] = {}]
    /\ failed' = [failed EXCEPT ![p] = FALSE]
    /\ dropped' = [dropped EXCEPT ![p] = {}]
    /\ noticed' = [noticed EXCEPT ![p] = {}]

Released(p) == pc[p] = "releasing" /\ held[p] = {}

Leave(p) == Released(p) /\ Forget(p) /\ UNCHANGED lease

\* The process is killed: its files are closed at once; its ssh sessions end,
\* and the bastion finds out later.
Kill(p) ==
    /\ pc[p] \in {"acquiring", "working", "releasing"} /\ ~Released(p)
    /\ Forget(p)
    /\ lease' = IF Bastion THEN lease
                ELSE [k \in Keys |-> IF lease[k] = p THEN None ELSE lease[k]]

\* The bastion sees the end of a session that this side has ended.
Expire(k) ==
    /\ Bastion /\ lease[k] # None /\ k \notin held[lease[k]]
    /\ lease' = [lease EXCEPT ![k] = None]
    /\ UNCHANGED <<pc, want, held, failed, dropped, noticed>>

\* The bastion sees the connection of a live session break (a network
\* partition, a restart of sshd): the shell ends and the lock is free.
Disconnect(p, k) ==
    /\ Bastion /\ k \in held[p] /\ lease[k] = p
    /\ lease' = [lease EXCEPT ![k] = None]
    /\ dropped' = [dropped EXCEPT ![p] = @ \cup {k}]
    /\ UNCHANGED <<pc, want, held, failed, noticed>>

\* The ssh process of a broken session ends on this side, which a half-open
\* connection may put off for ever.
Notice(p, k) ==
    /\ k \in (held[p] \cap dropped[p]) \ noticed[p]
    /\ noticed' = [noticed EXCEPT ![p] = @ \cup {k}]
    /\ UNCHANGED <<pc, want, held, failed, lease, dropped>>

Init ==
    /\ pc = [p \in Invocations |-> "idle"]
    /\ want = [p \in Invocations |-> {}]
    /\ held = [p \in Invocations |-> {}]
    /\ failed = [p \in Invocations |-> FALSE]
    /\ lease = [k \in Keys |-> None]
    /\ dropped = [p \in Invocations |-> {}]
    /\ noticed = [p \in Invocations |-> {}]

Step(p) ==
    \/ Acquire(p) \/ Refuse(p) \/ AcquireTimesOut(p)
    \/ Finish(p)  \/ Release(p) \/ Leave(p)

Next ==
    \/ \E p \in Invocations : \/ Request(p) \/ Step(p) \/ Kill(p)
                              \/ \E k \in Keys : Disconnect(p, k) \/ Notice(p, k)
    \/ \E k \in Keys : Expire(k)

Spec == Init /\ [][Next]_vars

\* An invocation does not stop half-way, and a connection that is closed is
\* seen to be closed.
FairSpec ==
    /\ Spec
    /\ \A p \in Invocations : WF_vars(Step(p))
    /\ \A k \in Keys : WF_vars(Expire(k))
-----------------------------------------------------------------------------
TypeOK ==
    /\ pc \in [Invocations -> {"idle", "acquiring", "working", "releasing"}]
    /\ want \in [Invocations -> SUBSET Keys]
    /\ held \in [Invocations -> SUBSET Keys]
    /\ failed \in [Invocations -> BOOLEAN]
    /\ lease \in [Keys -> Invocations \cup {None}]
    /\ dropped \in [Invocations -> SUBSET Keys]
    /\ noticed \in [Invocations -> SUBSET Keys]

\* No two invocations at work share a resource (docs/lifecycle.md:33-35).
Exclusive ==
    \A p, q \in Invocations :
        (p # q /\ pc[p] = "working" /\ pc[q] = "working") => want[p] \cap want[q] = {}

\* With the locks of this host, the keys that are taken one by one are to the
\* work under them as if taken, and given back, in one step: a part of them
\* never lets anybody begin (docs/lifecycle.md:33-35).
Atomic == INSTANCE AtomicLocks
    WITH taken <- [p \in Invocations |-> IF pc[p] = "working" THEN want[p] ELSE {}]
AtomicSpec == Atomic!Spec

\* An invocation at work has the lock of every resource it works on, unless
\* the bastion lost the session that held it.
WorkIsCovered ==
    \A p \in Invocations : pc[p] = "working" =>
        \A k \in want[p] : lease[k] = p \/ k \in dropped[p]

\* Of the invocations that compete for keys, one gets on: they never all
\* refuse each other.
ContentionHasAWinner ==
    LET contenders == {p \in Invocations : pc[p] = "acquiring"}
    IN (contenders # {}
        /\ \A k \in Keys : lease[k] # None =>
               lease[k] \in contenders /\ k \in held[lease[k]])
       => \E p \in contenders : \A k \in Keys : NextKey(p, k) => lease[k] = None

\* An invocation that ends without an error had no session end under it: the
\* loss of a lease that was noticed is always reported (remote_locks.py:53-54).
LossIsReported ==
    \A p \in Invocations : (Released(p) /\ ~failed[p]) => noticed[p] = {}

\* No lock outlives its invocation for ever (docs/lifecycle.md:34-35).
LeasesReturn == \A k \in Keys : lease[k] # None ~> lease[k] = None
=============================================================================
