----------------------------- MODULE MediaServer -----------------------------
(***************************************************************************)
(* The media server of an installation session: EphemeralRangeHTTPServer   *)
(* on the host of the invocation (bootstrap/http_server.py), the process   *)
(* it starts on the bastion over ssh (bootstrap/range_server.py), and the  *)
(* port both are about.  The server lives as long as its standard input,   *)
(* which ends with the owner's, with the ssh session or with the host.     *)
(***************************************************************************)
EXTENDS Naturals

CONSTANTS
    Owners,    \* installation sessions
    Foreign,   \* another listener on the port, or None
    MaxLosses, \* bound on broken ssh sessions and killed owners
    None

NamesAssumption == None \notin Owners /\ Foreign \notin Owners
LossesAssumption == MaxLosses \in Nat

VARIABLES
    owner,  \* closed, copying, spawned, open, stopping
    server, \* none, starting, bound, ready, ending
    input,  \* the server's standard input is open
    heard,  \* what its owner can read: "nothing", "READY" or "end"
    port,   \* who listens on the port
    losses

vars == <<owner, server, input, heard, port, losses>>

Set(v, o, x) == [v EXCEPT ![o] = x]

\* A session begins once an earlier server of its own is gone from the owner's
\* view; its process may still be ending on the bastion.
Open(o) ==
    /\ owner[o] = "closed" /\ server[o] = "none"
    /\ owner' = Set(owner, o, "copying")
    /\ UNCHANGED <<server, input, heard, port, losses>>

\* scp of the script, under a name that is its checksum; then ssh.
Spawn(o) ==
    /\ owner[o] = "copying"
    /\ owner' = Set(owner, o, "spawned")
    /\ server' = Set(server, o, "starting")
    /\ input' = Set(input, o, TRUE)
    /\ heard' = Set(heard, o, "nothing")
    /\ UNCHANGED <<port, losses>>

CopyFails(o) ==
    /\ owner[o] = "copying"
    /\ owner' = Set(owner, o, "closed")
    /\ UNCHANGED <<server, input, heard, port, losses>>

\* Mutant: any answer counts as READY.
ReadySomehow(o) ==
    /\ owner[o] = "spawned" /\ heard[o] # "nothing"
    /\ owner' = Set(owner, o, "open")
    /\ UNCHANGED <<server, input, heard, port, losses>>

Ready(o) ==
    /\ owner[o] = "spawned" /\ heard[o] = "READY"
    /\ owner' = Set(owner, o, "open")
    /\ UNCHANGED <<server, input, heard, port, losses>>

\* Another line, the end of the output, or 15 seconds of silence.
NotReady(o) ==
    /\ owner[o] = "spawned" /\ heard[o] # "READY"
    /\ owner' = Set(owner, o, "stopping")
    /\ UNCHANGED <<server, input, heard, port, losses>>

Close(o) ==
    /\ owner[o] = "open"
    /\ owner' = Set(owner, o, "stopping")
    /\ UNCHANGED <<server, input, heard, port, losses>>

\* Mutant: the standard input stays open when the wait is over.
StopAndLeave(o) ==
    /\ owner[o] = "stopping"
    /\ owner' = Set(owner, o, "closed")
    /\ UNCHANGED <<server, input, heard, port, losses>>

\* The standard input is closed; after 10 seconds ssh is killed, and the
\* server may be there for a while longer.
Stop(o) ==
    /\ owner[o] = "stopping"
    /\ input' = Set(input, o, FALSE)
    /\ owner' = Set(owner, o, "closed")
    /\ UNCHANGED <<server, heard, port, losses>>
-----------------------------------------------------------------------------
\* The process on the bastion.

Bind(o) ==
    /\ server[o] = "starting" /\ port = None
    /\ port' = o
    /\ server' = Set(server, o, "bound")
    /\ UNCHANGED <<owner, input, heard, losses>>

\* The port has another owner: the process ends with a traceback.
BindFails(o) ==
    /\ server[o] = "starting" /\ port \notin {None, o}
    /\ server' = Set(server, o, "none")
    /\ heard' = Set(heard, o, "end")
    /\ UNCHANGED <<owner, input, port, losses>>

PrintReady(o) ==
    /\ server[o] = "bound"
    /\ server' = Set(server, o, "ready")
    /\ heard' = Set(heard, o, "READY")
    /\ UNCHANGED <<owner, input, port, losses>>

\* Mutant: the watcher does not wait for the end of the input.
LeaseEndsAnyhow(o) ==
    /\ server[o] = "ready"
    /\ server' = Set(server, o, "ending")
    /\ UNCHANGED <<owner, input, heard, port, losses>>

\* watch_lease reads the end of the input and shuts the server down; a
\* shutdown before serve_forever is not lost.
LeaseEnds(o) ==
    /\ server[o] = "ready" /\ ~input[o]
    /\ server' = Set(server, o, "ending")
    /\ UNCHANGED <<owner, input, heard, port, losses>>

Exit(o) ==
    /\ server[o] = "ending"
    /\ server' = Set(server, o, "none")
    /\ port' = None
    /\ heard' = Set(heard, o, "end")
    /\ UNCHANGED <<owner, input, losses>>

\* The ssh session breaks, or the owner is killed: its end of the pipe closes.
Break(o) ==
    /\ losses < MaxLosses /\ owner[o] \in {"spawned", "open"} /\ input[o]
    /\ losses' = losses + 1
    /\ input' = Set(input, o, FALSE)
    /\ owner' \in {owner, Set(owner, o, "closed")}
    /\ UNCHANGED <<server, heard, port>>

ForeignLeaves ==
    /\ port = Foreign /\ port # None
    /\ port' = None
    /\ UNCHANGED <<owner, server, input, heard, losses>>

Init ==
    /\ owner = [o \in Owners |-> "closed"]
    /\ server = [o \in Owners |-> "none"]
    /\ input = [o \in Owners |-> FALSE]
    /\ heard = [o \in Owners |-> "nothing"]
    /\ port = Foreign /\ losses = 0

Serve(o) == \/ Bind(o) \/ BindFails(o) \/ PrintReady(o) \/ LeaseEnds(o) \/ Exit(o)
Own(o) == Spawn(o) \/ Ready(o) \/ Stop(o)

Next ==
    \/ \E o \in Owners : \/ Open(o) \/ Own(o) \/ CopyFails(o) \/ NotReady(o) \/ Close(o)
                         \/ Serve(o) \/ Break(o)
    \/ ForeignLeaves

Spec == Init /\ [][Next]_vars

\* Processes on the bastion run, and calls of the owner return.
FairSpec == Spec /\ \A o \in Owners : WF_vars(Serve(o)) /\ WF_vars(Own(o))
-----------------------------------------------------------------------------
TypeOK ==
    /\ owner \in [Owners -> {"closed", "copying", "spawned", "open", "stopping"}]
    /\ server \in [Owners -> {"none", "starting", "bound", "ready", "ending"}]
    /\ input \in [Owners -> BOOLEAN]
    /\ heard \in [Owners -> {"nothing", "READY", "end"}]
    /\ port \in Owners \cup {Foreign, None}
    /\ losses \in 0 .. MaxLosses

\* An open session is served by its own process on the port, unless its ssh
\* session broke: nodes never boot from a port that nobody, or somebody else,
\* listens on (http_server.py:100-110, range_server.py:72-81).
OpenIsServed == \A o \in Owners : owner[o] = "open" /\ input[o] => port = o

\* A server gives up its port only when its owner has closed its session or is
\* gone (range_server.py:76-85; docs/bootstrap-methods.md:48-49).
ServesWhileOwned ==
    [][\A o \in Owners : port = o /\ port' # o => ~input[o]]_vars

\* No server outlives its owner for ever, however the owner ended.
ServersStop == \A o \in Owners : owner[o] = "closed" ~> port # o
=============================================================================
