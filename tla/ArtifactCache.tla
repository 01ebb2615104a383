---------------------------- MODULE ArtifactCache ----------------------------
(***************************************************************************)
(* Obtaining one artifact: ArtifactCache.materialize on this host          *)
(* (bootstrap/artifacts.py), and BastionMedia._materialize for a URL on    *)
(* the bastion (bootstrap/remote.py).  Both work under a lock of the       *)
(* artifact, on a partial file beside the target, and move it into place   *)
(* once its checksum is right.  The bytes of a file are what the checksum  *)
(* can tell: a part of the right ones, all of them, or something else.     *)
(***************************************************************************)
EXTENDS Naturals

CONSTANTS
    Clients,  \* invocations that want the artifact
    Site,     \* "local" or "bastion"
    Scheme,   \* "url", resumed by curl, or "file", copied from the start
    MaxKills, \* bound on the number of killed clients
    None

ASSUME SiteAssumption == Site \in {"local", "bastion"}
ASSUME SchemeAssumption == Scheme \in {"url", "file"} /\ (Site = "bastion" => Scheme = "url")
ASSUME KillsAssumption == MaxKills \in Nat
ASSUME ClientsAssumption == None \notin Clients

Contents == {"absent", "part", "whole", "wrong"}

VARIABLES
    target,  \* <sha256>.<format>
    partial, \* <sha256>.<format>.partial
    source,  \* what the source serves: the right bytes, or others
    lock,    \* the client holding the artifact's lock
    pc,      \* idle, waiting, fetching, checking, publishing,
             \* published, returned, raised
    kills

vars == <<target, partial, source, lock, pc, kills>>

Goto(c, step) == pc' = [pc EXCEPT ![c] = step]

\* A file after the transfer was cut short, and after it completed.  curl
\* continues at the end of what is there; copyfile starts over.
Kept == IF Scheme = "url" THEN partial ELSE "absent"
Cut == IF source = "wrong" \/ Kept = "wrong" THEN {Kept, "wrong"}
       ELSE IF Kept = "whole" THEN {"whole"} ELSE {Kept, "part"}
Complete == IF Kept = "whole" THEN "whole"
            ELSE IF source = "whole" /\ Kept # "wrong" THEN "whole" ELSE "wrong"

Request(c) ==
    /\ pc[c] = "idle"
    /\ Goto(c, "waiting")
    /\ UNCHANGED <<target, partial, source, lock, kills>>

\* The lock is polled; under it, a target that is there is only verified.
Lock(c) ==
    /\ pc[c] = "waiting" /\ lock = None
    /\ \/ target = "absent" /\ lock' = c /\ Goto(c, "fetching")
       \/ target = "whole" /\ lock' = None /\ Goto(c, "returned")
       \/ target \in {"part", "wrong"} /\ lock' = None /\ Goto(c, "raised")
    /\ UNCHANGED <<target, partial, source, kills>>

LockTimesOut(c) ==
    /\ pc[c] = "waiting" /\ lock # None
    /\ Goto(c, "raised")
    /\ UNCHANGED <<target, partial, source, lock, kills>>

Fetch(c) ==
    /\ pc[c] = "fetching"
    /\ partial' = Complete
    /\ Goto(c, "checking")
    /\ UNCHANGED <<target, source, lock, kills>>

FetchFails(c) ==
    /\ pc[c] = "fetching"
    /\ partial' \in Cut
    /\ lock' = None
    /\ Goto(c, "raised")
    /\ UNCHANGED <<target, source, kills>>

\* Mutant: the size alone is looked at.
CheckSize(c) ==
    /\ pc[c] = "checking" /\ partial \in {"whole", "wrong"}
    /\ Goto(c, "publishing")
    /\ UNCHANGED <<target, partial, source, lock, kills>>

\* ArtifactSpec.verify of the partial file.
Check(c) ==
    /\ pc[c] = "checking" /\ partial = "whole"
    /\ Goto(c, "publishing")
    /\ UNCHANGED <<target, partial, source, lock, kills>>

\* Mutant: the wrong file stays.
CheckFailsAndKeeps(c) ==
    /\ pc[c] = "checking" /\ partial # "whole"
    /\ lock' = None
    /\ Goto(c, "raised")
    /\ UNCHANGED <<target, partial, source, kills>>

\* The checksum is another: this host removes the file, the bastion's script
\* just ends.
CheckFails(c) ==
    /\ pc[c] = "checking" /\ partial # "whole"
    /\ partial' = IF Site = "local" THEN "absent" ELSE partial
    /\ lock' = None
    /\ Goto(c, "raised")
    /\ UNCHANGED <<target, source, kills>>

\* The rename that publishes.
Publish(c) ==
    /\ pc[c] = "publishing"
    /\ target' = partial
    /\ partial' = "absent"
    /\ Goto(c, "published")
    /\ UNCHANGED <<source, lock, kills>>

Return(c) ==
    /\ pc[c] = "published"
    /\ lock' = None
    /\ Goto(c, "returned")
    /\ UNCHANGED <<target, partial, source, kills>>

Leave(c) ==
    /\ pc[c] \in {"returned", "raised"}
    /\ Goto(c, "idle")
    /\ UNCHANGED <<target, partial, source, lock, kills>>

\* The process is killed and its transfer with it (on the bastion, the shell
\* that holds the lock, as by a restart); the kernel drops the lock.
Kill(c) ==
    /\ kills < MaxKills /\ pc[c] \in {"waiting", "fetching", "checking", "publishing",
                                     "published"}
    /\ kills' = kills + 1
    /\ IF pc[c] = "fetching" THEN partial' \in Cut \cup {Complete} ELSE partial' = partial
    /\ lock' = IF lock = c THEN None ELSE lock
    /\ Goto(c, "idle")
    /\ UNCHANGED <<target, source>>

\* The source begins to serve something else.
SourceChanges ==
    /\ source' \in {"whole", "wrong"} \ {source}
    /\ UNCHANGED <<target, partial, lock, pc, kills>>

Init ==
    /\ target = "absent" /\ partial = "absent"
    /\ source \in {"whole", "wrong"}
    /\ lock = None
    /\ pc = [c \in Clients |-> "idle"]
    /\ kills = 0

Step(c) ==
    \/ Lock(c)  \/ LockTimesOut(c) \/ Fetch(c)   \/ FetchFails(c)
    \/ Check(c) \/ CheckFails(c)   \/ Publish(c) \/ Return(c) \/ Leave(c)

Next ==
    \/ \E c \in Clients : Request(c) \/ Step(c) \/ Kill(c)
    \/ SourceChanges

Spec == Init /\ [][Next]_vars

\* A client that failed tries again, and not every transfer is cut short.
FairSpec ==
    /\ Spec
    /\ \A c \in Clients : /\ WF_vars(Request(c)) /\ WF_vars(Step(c))
                          /\ SF_vars(Lock(c)) /\ SF_vars(Fetch(c))
-----------------------------------------------------------------------------
TypeOK ==
    /\ target \in Contents /\ partial \in Contents /\ source \in {"whole", "wrong"}
    /\ lock \in Clients \cup {None}
    /\ pc \in [Clients -> {"idle", "waiting", "fetching", "checking", "publishing",
                           "published", "returned", "raised"}]
    /\ kills \in 0 .. MaxKills

\* The cache implements its promise: the target is published once and whole,
\* and stays so, whoever fails, is killed or runs beside it.
Store == INSTANCE VerifiedStore
    WITH store <- target, served <- {c \in Clients : pc[c] = "returned"}
StoreSpec == Store!Spec

\* Once the source is right, trying again gets the artifact, whatever an
\* earlier attempt left behind (docs/troubleshooting.md:27-30).
RetrySucceeds == <>[](source = "whole") => <>(target = "whole")
=============================================================================
