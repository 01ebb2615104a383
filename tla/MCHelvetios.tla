------------------------------ MODULE MCHelvetios ------------------------------
(***************************************************************************)
(* What an installation of a physical node consists of, for TLC: the node  *)
(* and its BMC, the tunnel to the bastion, the media server, and a request *)
(* to it.  One run has them all, each in behaviours of its own, where the  *)
(* others stand still; in "retry" somebody only repeats `up`.              *)
(***************************************************************************)
EXTENDS BmcMedia

CONSTANTS
    Neighbour,  \* another program that listens on a port
    MaxLosses,  \* bound on broken ssh sessions and killed owners
    MaxSize,    \* bound on the size of a file,
    MaxByte,    \* and on the bytes that a header names
    Chunk       \* bytes that are copied at a time

VARIABLES
    subject,                                                   \* whose behaviour this is
    tunnelPc, local, ssh, listener,                            \* Tunnel
    owner, server, input, heard, port, losses,                 \* MediaServer
    size, header, reply, remaining, position, sent, done       \* Ranges

\* Where a deploy may fail and be repeated: before its media are prepared, or
\* when its installer is through.
Retry == INSTANCE BmcMedia
    WITH Golden <- TRUE, Commands <- {"up"}, Legacy <- "silent", Surprises <- {},
         FaultAt <- {"planning", "opening", "recording", "ejecting2", "ejecting1",
                     "booting", "committing"}

\* The free port of an invocation is named after it.
Tunnel == INSTANCE Tunnel
    WITH pc <- tunnelPc, Default <- "default", Strangers <- {Neighbour},
         Spare <- [i \in Invocations |-> i]
Server == INSTANCE MediaServer WITH Owners <- Invocations, Foreign <- Neighbour
Request == INSTANCE Ranges

ASSUME TunnelAssumption == Tunnel!PortsAssumption
ASSUME ServerAssumption == Server!NamesAssumption /\ Server!LossesAssumption
ASSUME RequestAssumption == Request!BoundsAssumption

tunnelVars == <<tunnelPc, local, ssh, listener>>
serverVars == <<owner, server, input, heard, port, losses>>
requestVars == <<size, header, reply, remaining, position, sent, done>>
mcVars == <<subject, vars, tunnelVars, serverVars, requestVars>>

MCInit ==
    /\ subject \in {"node", "retry", "tunnel", "server", "request"}
    /\ IF subject = "retry" THEN Retry!Init ELSE Init
    /\ Tunnel!Init /\ Server!Init /\ Request!Init
    /\ subject \notin {"node", "retry"} => power = "off"
    /\ subject # "request" =>
           size = 0 /\ header = [form |-> "other", first |-> 0, last |-> 0]

RetryStep(p) ==
    /\ subject = "retry" /\ Retry!Step(p)
    /\ UNCHANGED <<subject, tunnelVars, serverVars, requestVars>>
RetryInvoke(p) ==
    /\ subject = "retry" /\ Retry!Invoke(p, "up")
    /\ UNCHANGED <<subject, tunnelVars, serverVars, requestVars>>
RetryWorld ==
    /\ subject = "retry" /\ (Retry!InstallerEnds \/ Retry!NodeHalts)
    /\ UNCHANGED <<subject, tunnelVars, serverVars, requestVars>>
TunnelStart(p) ==
    /\ subject = "tunnel" /\ Tunnel!Start(p)
    /\ UNCHANGED <<subject, vars, serverVars, requestVars>>
ServerStep(p) ==
    /\ subject = "server" /\ Server!Serve(p)
    /\ UNCHANGED <<subject, vars, tunnelVars, requestVars>>
OwnerStep(p) ==
    /\ subject = "server" /\ Server!Own(p)
    /\ UNCHANGED <<subject, vars, tunnelVars, requestVars>>

NodeNext ==
    /\ \/ subject = "node" /\ Next
       \/ subject = "retry" /\ Retry!Next
    /\ UNCHANGED <<tunnelVars, serverVars, requestVars>>
TunnelNext ==
    subject = "tunnel" /\ Tunnel!Next /\ UNCHANGED <<vars, serverVars, requestVars>>
ServerNext ==
    subject = "server" /\ Server!Next /\ UNCHANGED <<vars, tunnelVars, requestVars>>
RequestNext ==
    subject = "request" /\ Request!Next /\ UNCHANGED <<vars, tunnelVars, serverVars>>

\* A request that was answered is over.
RequestOver == subject = "request" /\ done /\ UNCHANGED mcVars

MCNext ==
    \/ (NodeNext \/ TunnelNext \/ ServerNext \/ RequestNext) /\ UNCHANGED subject
    \/ RequestOver

\* The fairness of each component, in its own behaviours.
MCSpec ==
    /\ MCInit /\ [][MCNext]_mcVars
    /\ \A p \in Invocations :
           /\ WF_mcVars(RetryStep(p)) /\ WF_mcVars(RetryInvoke(p))
           /\ WF_mcVars(TunnelStart(p))
           /\ WF_mcVars(ServerStep(p)) /\ WF_mcVars(OwnerStep(p))
    /\ WF_mcVars(RetryWorld) /\ WF_mcVars(RequestNext /\ UNCHANGED subject)
-----------------------------------------------------------------------------
\* The variables of every component keep their types.
TypesOK == TypeOK /\ Tunnel!TypeOK /\ Server!TypeOK

\* Repeating `up` completes an installation that failed before its media were
\* prepared or after its installer (docs/troubleshooting.md:29-30).
RetriesComplete == subject = "retry" => RetryCompletes

\* Starting a tunnel ends, in a transport or in an error (bmc_client.py:53-66).
StartsEnd == Tunnel!StartsEnd

\* No server outlives its owner for ever (range_server.py:76-85).
ServersStop == Server!ServersStop

\* Every request is answered (range_server.py:25-59).
Answered == subject = "request" => Request!Answered

\* Nothing waits or lasts for ever: each of the four, in its own behaviours.
WorkEnds == RetriesComplete /\ StartsEnd /\ ServersStop /\ Answered

\* No ssh outlives the transport it was started for, however the start went
\* (bmc_client.py:53-77, 226-237).
TunnelsEnd == Tunnel!TunnelsEnd

\* An open session is served by its own process on the port, unless its ssh
\* session broke (http_server.py:100-110, range_server.py:72-81).
OpenIsServed == Server!OpenIsServed

\* A server gives up its port only when its owner has closed its session or
\* is gone (range_server.py:76-85; docs/bootstrap-methods.md:48-49).
ServesWhileOwned == Server!ServesWhileOwned

\* A reply has exactly the bytes that were asked for (range_server.py:33-59).
Slices == Request!Slices
=============================================================================
