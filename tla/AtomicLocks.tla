----------------------------- MODULE AtomicLocks -----------------------------
(***************************************************************************)
(* What locks are to the work that is done under them                      *)
(* ("with self.locks.acquire(keys)", core/lifecycle/service.py:232): an    *)
(* invocation has all the keys that it asked for, at once, or it does not  *)
(* begin; nobody else works under any of them meanwhile; and it takes no   *)
(* more before it has given them back.                                     *)
(***************************************************************************)
CONSTANTS Invocations, Keys
VARIABLE taken  \* the keys that each invocation works under

Init == taken = [p \in Invocations |-> {}]

Take(p, keys) ==
    /\ taken[p] = {}
    /\ \A q \in Invocations : taken[q] \cap keys = {}
    /\ taken' = [taken EXCEPT ![p] = keys]

GiveBack(p) == taken' = [taken EXCEPT ![p] = {}]

Next == \E p \in Invocations : GiveBack(p) \/ \E keys \in SUBSET Keys : Take(p, keys)

Spec == Init /\ [][Next]_taken
=============================================================================
