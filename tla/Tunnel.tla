--------------------------------- MODULE Tunnel ---------------------------------
(***************************************************************************)
(* The SOCKS tunnel to the bastion through which every Redfish request     *)
(* goes: SSHSocksTunnel and BMCController._ensure_transport                *)
(* (providers/helvetios/bmc_client.py), for several invocations on one     *)
(* host.  Each begins with the same port and takes a free one if somebody  *)
(* listens there; each looks for a listener to see that its tunnel is up.  *)
(***************************************************************************)
CONSTANTS
    Invocations,
    Default,     \* port 10872
    Spare,       \* the free port that the system would give each invocation
    Strangers,   \* who else may listen on the default port
    None

Ports == {Default} \cup {Spare[i] : i \in Invocations}
PortsAssumption ==
    /\ \A i, j \in Invocations : Spare[i] = Spare[j] => i = j
    /\ \A i \in Invocations : Spare[i] # Default
    /\ None \notin Invocations \cup Strangers

VARIABLES
    pc,        \* idle, starting, spawning, waiting, open or failed
    local,     \* an invocation's local_port
    ssh,       \* its ssh: none, connecting, forwarding, or idle, without a port
    listener   \* who listens on each port

vars == <<pc, local, ssh, listener>>

Goto(i, step) == pc' = [pc EXCEPT ![i] = step]
Listens(port) == listener[port] # None

\* An ssh that ends gives its port back.
SshEnds(i) ==
    /\ ssh' = [ssh EXCEPT ![i] = "none"]
    /\ listener' = [p \in Ports |-> IF listener[p] = i THEN None ELSE listener[p]]

\* _ensure_transport, the first time.
Begin(i) ==
    /\ pc[i] = "idle"
    /\ local' = [local EXCEPT ![i] = Default]
    /\ Goto(i, "starting")
    /\ UNCHANGED <<ssh, listener>>

\* _is_port_open, _find_free_local_port.
Chosen(i) == IF Listens(Default) THEN Spare[i] ELSE Default
Choose(i) ==
    /\ pc[i] = "starting"
    /\ local' = [local EXCEPT ![i] = Chosen(i)]
    /\ Goto(i, "spawning")
    /\ UNCHANGED <<ssh, listener>>

Spawn(i) ==
    /\ pc[i] = "spawning"
    /\ ssh' = [ssh EXCEPT ![i] = "connecting"]
    /\ Goto(i, "waiting")
    /\ UNCHANGED <<local, listener>>

\* ssh -D: it connects and binds its port; without ExitOnForwardFailure it
\* goes on when the port is taken.
Forward(i) ==
    /\ ssh[i] = "connecting"
    /\ IF Listens(local[i])
       THEN ssh' = [ssh EXCEPT ![i] = "idle"] /\ UNCHANGED listener
       ELSE /\ ssh' = [ssh EXCEPT ![i] = "forwarding"]
            /\ listener' = [listener EXCEPT ![local[i]] = i]
    /\ UNCHANGED <<pc, local>>

\* It cannot connect, or its connection breaks.
Break(i) ==
    /\ ssh[i] # "none"
    /\ SshEnds(i)
    /\ UNCHANGED <<pc, local>>

\* The loop of `start`: a listener is looked for first, then the process.
Up(i) ==
    /\ pc[i] = "waiting" /\ Listens(local[i])
    /\ Goto(i, "open")
    /\ UNCHANGED <<local, ssh, listener>>

Exited(i) ==
    /\ pc[i] = "waiting" /\ ~Listens(local[i]) /\ ssh[i] = "none"
    /\ Goto(i, "failed")
    /\ UNCHANGED <<local, ssh, listener>>

\* Mutant: a start that times out leaves its ssh behind.
TimesOutAndLeaves(i) ==
    /\ pc[i] = "waiting" /\ ~Listens(local[i]) /\ ssh[i] # "none"
    /\ Goto(i, "failed")
    /\ UNCHANGED <<local, ssh, listener>>

\* Mutant: the loop has no deadline.
TimesOutNever(i) == pc[i] = "waiting" /\ UNCHANGED vars

TimesOut(i) ==
    /\ pc[i] = "waiting" /\ ~Listens(local[i]) /\ ssh[i] # "none"
    /\ SshEnds(i)
    /\ Goto(i, "failed")
    /\ UNCHANGED local

\* BMCController.close, at the end of the invocation.
Close(i) ==
    /\ pc[i] \in {"open", "failed"}
    /\ IF pc[i] = "open" THEN SshEnds(i) ELSE UNCHANGED <<ssh, listener>>
    /\ Goto(i, "idle")
    /\ UNCHANGED local

\* Another program that uses the default port comes or goes.
Stranger(s) ==
    /\ \/ listener[Default] = None /\ listener' = [listener EXCEPT ![Default] = s]
       \/ listener[Default] = s /\ listener' = [listener EXCEPT ![Default] = None]
    /\ UNCHANGED <<pc, local, ssh>>

Init ==
    /\ pc = [i \in Invocations |-> "idle"]
    /\ local = [i \in Invocations |-> Default]
    /\ ssh = [i \in Invocations |-> "none"]
    /\ listener = [p \in Ports |-> None]

Start(i) == Choose(i) \/ Spawn(i) \/ Up(i) \/ Exited(i) \/ TimesOut(i)
Next ==
    \/ \E i \in Invocations : Begin(i) \/ Start(i) \/ Forward(i) \/ Break(i) \/ Close(i)
    \/ \E s \in Strangers : Stranger(s)

Spec == Init /\ [][Next]_vars
FairSpec == Spec /\ \A i \in Invocations : WF_vars(Start(i))
-----------------------------------------------------------------------------
TypeOK ==
    /\ pc \in [Invocations -> {"idle", "starting", "spawning", "waiting", "open", "failed"}]
    /\ local \in [Invocations -> Ports]
    /\ ssh \in [Invocations -> {"none", "connecting", "forwarding", "idle"}]
    /\ listener \in [Ports -> Invocations \cup Strangers \cup {None}]

\* No ssh outlives the transport it was started for, however the start went
\* (bmc_client.py:53-77, 226-237).
TunnelsEnd == \A i \in Invocations : pc[i] \in {"idle", "failed"} => ssh[i] = "none"

\* Starting a tunnel ends, in a transport or in an error.
StartsEnd == \A i \in Invocations : pc[i] = "starting" ~> pc[i] \in {"open", "failed"}

\* A start that succeeds has its own tunnel to the bastion (bmc_client.py:22).
\* It does not hold: any listener on the port will do (29-61; see README.md).
TransportIsOwn ==
    [][\A i \in Invocations : pc[i] = "waiting" /\ pc'[i] = "open" => listener[local[i]] = i]_vars
=============================================================================
