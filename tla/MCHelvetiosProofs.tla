-------------------------- MODULE MCHelvetiosProofs --------------------------
(***************************************************************************)
(* Proofs about MCHelvetios, for any number of invocations, losses and     *)
(* bytes: that no ssh outlives its transport, that an open installation    *)
(* session is served by its own process until its owner ends it, that a    *)
(* reply has exactly the bytes that were asked for, and that every         *)
(* variable keeps its type.  Each is proved of its component first; what   *)
(* concerns the node follows from the lemmas of BmcMediaProofs.            *)
(***************************************************************************)
EXTENDS MCHelvetios, BmcMediaProofs, Integers

-----------------------------------------------------------------------------
(* The tunnel *)

\* There is an ssh only between its start and the end of its transport.
TunnelInv ==
    /\ Tunnel!TypeOK
    /\ \A i \in Invocations :
           tunnelPc[i] \in {"idle", "starting", "spawning", "failed"} => ssh[i] = "none"

LEMMA TunnelInit == Tunnel!Init => TunnelInv
BY DEF Tunnel!Init, TunnelInv, Tunnel!TypeOK, Tunnel!Ports

LEMMA TunnelInvInductive ==
    ASSUME TunnelInv, [Tunnel!Next]_tunnelVars
    PROVE  TunnelInv'
<1> USE DEF TunnelInv, Tunnel!TypeOK, Tunnel!Goto, Tunnel!Listens, Tunnel!Ports
<1>1. ASSUME NEW i \in Invocations, Tunnel!Begin(i) PROVE TunnelInv'
  BY <1>1 DEF Tunnel!Begin
<1>2. ASSUME NEW i \in Invocations, Tunnel!Choose(i) \/ Tunnel!Spawn(i) PROVE TunnelInv'
  BY <1>2 DEF Tunnel!Choose, Tunnel!Chosen, Tunnel!Spawn
<1>3. ASSUME NEW i \in Invocations, Tunnel!Up(i) \/ Tunnel!Exited(i) PROVE TunnelInv'
  BY <1>3 DEF Tunnel!Up, Tunnel!Exited
<1>4. ASSUME NEW i \in Invocations, Tunnel!TimesOut(i) \/ Tunnel!Close(i) PROVE TunnelInv'
  <2>1. CASE Tunnel!TimesOut(i)
    BY <2>1 DEF Tunnel!TimesOut, Tunnel!SshEnds
  <2>2. CASE Tunnel!Close(i) /\ tunnelPc[i] = "open"
    BY <2>2 DEF Tunnel!Close, Tunnel!SshEnds
  <2>3. CASE Tunnel!Close(i) /\ tunnelPc[i] # "open"
    BY <2>3 DEF Tunnel!Close
  <2> QED
    BY <1>4, <2>1, <2>2, <2>3
<1>5. ASSUME NEW i \in Invocations, Tunnel!Forward(i) PROVE TunnelInv'
  BY <1>5 DEF Tunnel!Forward
<1>6. ASSUME NEW i \in Invocations, Tunnel!Break(i) PROVE TunnelInv'
  BY <1>6 DEF Tunnel!Break, Tunnel!SshEnds
<1>7. ASSUME NEW s \in {Neighbour}, Tunnel!Stranger(s) PROVE TunnelInv'
  BY <1>7 DEF Tunnel!Stranger
<1>8. CASE UNCHANGED tunnelVars
  BY <1>8 DEF tunnelVars
<1> QED
  BY <1>1, <1>2, <1>3, <1>4, <1>5, <1>6, <1>7, <1>8 DEF Tunnel!Next, Tunnel!Start

\* No ssh outlives the transport it was started for, however the start went
\* (bmc_client.py:53-77, 226-237).
THEOREM NoSshIsLeft == Tunnel!Spec => []Tunnel!TunnelsEnd
<1>1. TunnelInv /\ [Tunnel!Next]_(Tunnel!vars) => TunnelInv'
  BY TunnelInvInductive DEF Tunnel!vars, tunnelVars
<1>2. TunnelInv => Tunnel!TunnelsEnd
  BY DEF TunnelInv, Tunnel!TunnelsEnd
<1> QED
  BY <1>1, <1>2, TunnelInit, PTL DEF Tunnel!Spec

-----------------------------------------------------------------------------
(* The media server *)

\* A process has the port from its bind to its end, prints READY only then,
\* and begins to end only when its input has ended; an owner opens its session
\* on READY, and starts no second process while it has one.
ServerOf(o) ==
    /\ port = o <=> server[o] \in {"bound", "ready", "ending"}
    /\ owner[o] = "copying" => server[o] = "none"
    /\ server[o] \in {"starting", "bound"} => heard[o] = "nothing"
    /\ heard[o] = "READY" => server[o] \in {"ready", "ending"}
    /\ server[o] = "ending" => ~input[o]
    /\ owner[o] = "open" /\ input[o] => server[o] = "ready"

ServerInv == Server!TypeOK /\ \A o \in Invocations : ServerOf(o)

LEMMA ServerConstants ==
    None \notin Invocations /\ Neighbour \notin Invocations /\ MaxLosses \in Nat
BY ServerAssumption DEF Server!NamesAssumption, Server!LossesAssumption

LEMMA ServerInit == Server!Init => ServerInv
BY ServerConstants DEF Server!Init, ServerInv, Server!TypeOK, ServerOf

LEMMA ServerInvInductive ==
    ASSUME ServerInv, [Server!Next]_serverVars
    PROVE  ServerInv'
<1> USE ServerConstants DEF ServerInv, Server!TypeOK, Server!Set, ServerOf
<1>1. ASSUME NEW o \in Invocations, Server!Open(o) \/ Server!Own(o) \/ Server!CopyFails(o)
                                    \/ Server!NotReady(o) \/ Server!Close(o)
      PROVE  ServerInv'
  <2>1. CASE Server!Open(o) \/ Server!CopyFails(o) \/ Server!NotReady(o) \/ Server!Close(o)
    BY <2>1 DEF Server!Open, Server!CopyFails, Server!NotReady, Server!Close
  <2>2. CASE Server!Spawn(o)
    BY <2>2 DEF Server!Spawn
  <2>3. CASE Server!Ready(o)
    BY <2>3 DEF Server!Ready
  <2>4. CASE Server!Stop(o)
    BY <2>4 DEF Server!Stop
  <2> QED
    BY <1>1, <2>1, <2>2, <2>3, <2>4 DEF Server!Own
<1>2. ASSUME NEW o \in Invocations, Server!Bind(o) PROVE ServerInv'
  BY <1>2 DEF Server!Bind
<1>3. ASSUME NEW o \in Invocations, Server!BindFails(o) \/ Server!PrintReady(o)
                                    \/ Server!LeaseEnds(o)
      PROVE  ServerInv'
  BY <1>3 DEF Server!BindFails, Server!PrintReady, Server!LeaseEnds
<1>4. ASSUME NEW o \in Invocations, Server!Exit(o) PROVE ServerInv'
  BY <1>4 DEF Server!Exit
<1>5. ASSUME NEW o \in Invocations, Server!Break(o) PROVE ServerInv'
  BY <1>5 DEF Server!Break
<1>6. CASE Server!ForeignLeaves
  BY <1>6 DEF Server!ForeignLeaves
<1>7. CASE UNCHANGED serverVars
  BY <1>7 DEF serverVars
<1> QED
  BY <1>1, <1>2, <1>3, <1>4, <1>5, <1>6, <1>7 DEF Server!Next, Server!Serve

LEMMA ServerKeepsPort ==
    ASSUME ServerInv, [Server!Next]_serverVars,
           NEW o \in Invocations, port = o, port' # o
    PROVE  ~input[o]
<1>1. Server!Exit(o)
  BY ServerConstants
     DEF serverVars, Server!Next, Server!Serve, Server!Own, Server!Open, Server!Spawn,
         Server!Ready, Server!Stop, Server!CopyFails, Server!NotReady, Server!Close,
         Server!Bind, Server!BindFails, Server!PrintReady, Server!LeaseEnds, Server!Exit,
         Server!Break, Server!ForeignLeaves, ServerInv, ServerOf
<1> QED
  BY <1>1 DEF Server!Exit, ServerInv, ServerOf

\* An open session is served by its own process on the port, unless its ssh
\* session broke (http_server.py:100-110, range_server.py:72-81).
THEOREM SessionsAreServed == Server!Spec => []Server!OpenIsServed
<1>1. ServerInv /\ [Server!Next]_(Server!vars) => ServerInv'
  BY ServerInvInductive DEF Server!vars, serverVars
<1>2. ServerInv => Server!OpenIsServed
  BY DEF ServerInv, ServerOf, Server!OpenIsServed
<1> QED
  BY <1>1, <1>2, ServerInit, PTL DEF Server!Spec

-----------------------------------------------------------------------------
(* A request *)

\* What was sent are the bytes before the position, and what remains of the
\* Content-Length ends with the range.
RequestInv ==
    /\ size \in 0 .. MaxSize /\ header \in Request!Headers
    /\ reply \in {"none", "206", "416"} /\ remaining \in Int /\ position \in Int
    /\ done \in BOOLEAN
    /\ reply = "none" => ~done
    /\ reply \in {"none", "416"} => sent = {}
    /\ reply = "416" => ~Request!Satisfiable
    /\ reply = "206" =>
           /\ Request!Satisfiable
           /\ position \in header.first .. (Request!End + 1)
           /\ remaining = Request!End - position + 1
           /\ sent = header.first .. (position - 1)
           /\ done => remaining = 0

LEMMA RequestBounds == MaxSize \in Nat /\ MaxByte \in Nat /\ Chunk \in Nat \ {0}
BY RequestAssumption DEF Request!BoundsAssumption

LEMMA RequestInit == Request!Init => RequestInv
<1> SUFFICES ASSUME Request!Init PROVE RequestInv
  OBVIOUS
<1>1. reply = "none" /\ sent = {} /\ done = FALSE /\ remaining = 0 /\ position = 0
  BY DEF Request!Init
<1>2. size \in 0 .. MaxSize /\ header \in Request!Headers
  BY DEF Request!Init
<1>3. remaining \in Int /\ position \in Int /\ reply # "206" /\ reply # "416"
  BY <1>1
<1> QED
  BY <1>1, <1>2, <1>3, Zenon DEF RequestInv

\* The end of a range is a byte, or -1 for an empty file.
LEMMA EndOfRange ==
    ASSUME size \in 0 .. MaxSize, header \in Request!Headers
    PROVE  /\ Request!End \in Int /\ Request!End < size
           /\ header.first \in Nat /\ header.last \in Nat
           /\ header.form \in {"closed", "open", "other"}
BY RequestBounds DEF Request!Headers, Request!End, Request!Least

LEMMA RequestInvInductive ==
    ASSUME RequestInv, [Request!Next]_requestVars
    PROVE  RequestInv'
<1>a. /\ Request!End \in Int /\ Request!End < size
      /\ header.first \in Nat /\ header.last \in Nat /\ size \in Nat
  BY EndOfRange, RequestBounds DEF RequestInv
<1>1. CASE Request!Head
  <2>1. /\ Request!End' = Request!End /\ Request!Satisfiable' = Request!Satisfiable
        /\ UNCHANGED <<size, header, sent>>
    BY <1>1 DEF Request!Head, Request!End, Request!Satisfiable
  <2>2. CASE Request!Satisfiable
    <3>1. /\ reply' = "206" /\ done' = FALSE /\ sent = {}
          /\ position' = header.first /\ remaining' = Request!End - header.first + 1
          /\ header.first <= Request!End
      BY <1>1, <2>2 DEF Request!Head, RequestInv, Request!Satisfiable
    <3>2. header.first .. (header.first - 1) = {}
      BY <1>a
    <3>3. /\ position' \in header.first .. (Request!End + 1)
          /\ remaining' = Request!End - position' + 1 /\ remaining' \in Int
          /\ position' \in Int
      BY <1>a, <3>1
    <3> QED
      BY <2>1, <2>2, <3>1, <3>2, <3>3 DEF RequestInv
  <2>3. CASE ~Request!Satisfiable
    BY <1>1, <2>1, <2>3 DEF Request!Head, RequestInv
  <2> QED
    BY <2>2, <2>3
<1>2. CASE Request!Copy
  <2>1. /\ Request!End' = Request!End /\ Request!Satisfiable' = Request!Satisfiable
        /\ UNCHANGED <<size, header, reply, done>>
    BY <1>2 DEF Request!Copy, Request!End, Request!Satisfiable
  <2>2. Request!Data \in Nat \ {0} /\ Request!Data <= remaining
    BY <1>a, <1>2, RequestBounds DEF Request!Copy, Request!Data, Request!Least, RequestInv
  <2>3. sent' = header.first .. (position' - 1)
    <3>1. /\ sent = header.first .. (position - 1) /\ position \in Int
          /\ header.first <= position
      BY <1>a, <1>2 DEF Request!Copy, RequestInv
    <3>2. /\ sent' = sent \cup position .. (position + Request!Data - 1)
          /\ position' = position + Request!Data
      BY <1>2 DEF Request!Copy
    <3> QED
      BY <1>a, <2>2, <3>1, <3>2
  <2>4. /\ position' = position + Request!Data /\ remaining' = remaining - Request!Data
        /\ reply = "206" /\ remaining > 0
    BY <1>2 DEF Request!Copy
  <2> QED
    BY <1>a, <2>1, <2>2, <2>3, <2>4 DEF RequestInv
<1>3. CASE Request!Finish
  <2>1. /\ Request!End' = Request!End /\ Request!Satisfiable' = Request!Satisfiable
        /\ UNCHANGED <<size, header, reply, remaining, position, sent>> /\ done' = TRUE
        /\ reply = "206"
    BY <1>3 DEF Request!Finish, Request!End, Request!Satisfiable
  <2>2. remaining = 0
    BY <1>a, <1>3, RequestBounds DEF Request!Finish, Request!Data, Request!Least, RequestInv
  <2> QED
    BY <2>1, <2>2 DEF RequestInv
<1>4. CASE UNCHANGED requestVars
  BY <1>4 DEF requestVars, RequestInv, Request!End, Request!Satisfiable
<1> QED
  BY <1>1, <1>2, <1>3, <1>4 DEF Request!Next

LEMMA RequestSlices == RequestInv => Slices
<1> SUFFICES ASSUME RequestInv, done, header.form # "other"
             PROVE  /\ sent = Request!Asked
                    /\ reply = (IF Request!Asked = {} THEN "416" ELSE "206")
  BY DEF Slices, Request!Slices
<1>a. /\ Request!End \in Int /\ Request!End < size
      /\ header.first \in Nat /\ header.last \in Nat /\ size \in Nat
      /\ header.form \in {"closed", "open"}
  BY EndOfRange, RequestBounds DEF RequestInv
<1>1. Request!Asked = header.first .. Request!End
  BY <1>a DEF Request!Asked, Request!End, Request!Least
<1>2. CASE reply = "206"
  BY <1>a, <1>1, <1>2 DEF RequestInv, Request!Satisfiable
<1>3. CASE reply = "416"
  <2>1. Request!End < header.first /\ sent = {}
    BY <1>a, <1>3 DEF RequestInv, Request!Satisfiable
  <2>2. header.first .. Request!End = {}
    BY <1>a, <2>1
  <2> QED
    BY <1>1, <1>3, <2>1, <2>2
<1> QED
  BY <1>2, <1>3 DEF RequestInv

\* A reply has exactly the bytes that were asked for, whatever the size of the
\* file, the header and the chunks of the copy (range_server.py:33-59).
THEOREM RepliesAreSlices == Request!Spec => []Request!Slices
<1>1. RequestInv /\ [Request!Next]_(Request!vars) => RequestInv'
  BY RequestInvInductive DEF Request!vars, requestVars
<1>2. RequestInv => Request!Slices
  BY RequestSlices DEF Slices
<1> QED
  BY <1>1, <1>2, RequestInit, PTL DEF Request!Spec

-----------------------------------------------------------------------------
(* The node, when somebody only repeats `up` *)

\* The proofs about BmcMedia, under the constants of that scenario.
RetryProofs == INSTANCE BmcMediaProofs
    WITH Golden <- TRUE, Commands <- {"up"}, Legacy <- "silent", Surprises <- {},
         FaultAt <- {"planning", "opening", "recording", "ejecting2", "ejecting1",
                     "booting", "committing"}

\* Its constants are as those proofs assume.
LEMMA RetryConstants ==
    /\ None \notin Invocations /\ MaxFaults \in Nat /\ MaxDeploys \in Nat /\ TRUE \in BOOLEAN
    /\ "silent" \in {"none", "silent", "answers"}
    /\ {"up"} \subseteq RetryProofs!AllCommands
    /\ {"planning", "opening", "recording", "ejecting2", "ejecting1", "booting", "committing"}
           \subseteq RetryProofs!Steps
BY NoneAssumption, FaultAssumption, DeploysAssumption
   DEF RetryProofs!AllCommands, RetryProofs!Steps

\* The instances of the component and those of its proofs say the same.
LEMMA RetryIsRetry == RetryProofs!Next <=> Retry!Next
BY DEF
   RetryProofs!Goto, Retry!Goto, RetryProofs!Deploys, Retry!Deploys, RetryProofs!Answers,
   Retry!Answers, RetryProofs!FromCD, Retry!FromCD, RetryProofs!FromDisk, Retry!FromDisk,
   RetryProofs!BootNode, Retry!BootNode, RetryProofs!PowerOn, Retry!PowerOn, RetryProofs!Off,
   Retry!Off, RetryProofs!End, Retry!End, RetryProofs!Raise, Retry!Raise, RetryProofs!Return,
   Retry!Return, RetryProofs!Move, Retry!Move, RetryProofs!Invoke, Retry!Invoke,
   RetryProofs!Exists, Retry!Exists, RetryProofs!Begin, Retry!Begin, RetryProofs!PlanUp,
   Retry!PlanUp, RetryProofs!Plan, Retry!Plan, RetryProofs!Open, Retry!Open,
   RetryProofs!Record, Retry!Record, RetryProofs!Render, Retry!Render, RetryProofs!ForceOff,
   Retry!ForceOff, RetryProofs!AfterEject, Retry!AfterEject, RetryProofs!Eject2, Retry!Eject2,
   RetryProofs!Eject1, Retry!Eject1, RetryProofs!Insert2, Retry!Insert2, RetryProofs!Insert1,
   Retry!Insert1, RetryProofs!Override, Retry!Override, RetryProofs!Boot, Retry!Boot,
   RetryProofs!Start, Retry!Start, RetryProofs!Finish, Retry!Finish, RetryProofs!MarkerMatches,
   Retry!MarkerMatches, RetryProofs!Accept, Retry!Accept, RetryProofs!Commit, Retry!Commit,
   RetryProofs!Halt, Retry!Halt, RetryProofs!Settle, Retry!Settle, RetryProofs!Reset,
   Retry!Reset, RetryProofs!Forget, Retry!Forget, RetryProofs!Fault, Retry!Fault,
   RetryProofs!Stalled, Retry!Stalled, RetryProofs!TimesOut, Retry!TimesOut,
   RetryProofs!InstallerEnds, Retry!InstallerEnds, RetryProofs!InstallerStarves,
   Retry!InstallerStarves, RetryProofs!NodeHalts, Retry!NodeHalts, RetryProofs!PowerLoss,
   Retry!PowerLoss, RetryProofs!SessionBreaks, Retry!SessionBreaks, RetryProofs!Step,
   Retry!Step, RetryProofs!World, Retry!World, RetryProofs!Next, Retry!Next, RetryProofs!vars,
   Retry!vars, RetryProofs!records, Retry!records, RetryProofs!slots, Retry!slots,
   RetryProofs!node, Retry!node, RetryProofs!control, Retry!control

LEMMA RetryTypes == TypeOK <=> RetryProofs!TypeOK
BY DEF TypeOK, RetryProofs!TypeOK, Tokens, RetryProofs!Tokens, Disks, RetryProofs!Disks, Steps,
       RetryProofs!Steps, AllCommands, RetryProofs!AllCommands

LEMMA NodeInit == MCInit => TypeOK
<1>1. ASSUME Retry!Init PROVE TypeOK
  <2>1. RetryProofs!Init
    BY <1>1 DEF Retry!Init, RetryProofs!Init
  <2> QED
    BY <2>1, RetryConstants, RetryProofs!InitType, RetryTypes
<1> QED
  BY <1>1, InitType DEF MCInit

LEMMA NodeTypes ==
    ASSUME TypeOK, [MCNext]_mcVars
    PROVE  TypeOK'
<1>1. CASE Next \/ UNCHANGED vars
  BY <1>1, TypeStep
<1>2. CASE Retry!Next
  <2>1. RetryProofs!TypeOK'
    BY <1>2, RetryIsRetry, RetryTypes, RetryConstants, RetryProofs!TypeStep
  <2> QED
    BY <2>1 DEF TypeOK, RetryProofs!TypeOK, Tokens, RetryProofs!Tokens, Disks,
       RetryProofs!Disks, Steps, RetryProofs!Steps, AllCommands, RetryProofs!AllCommands
<1> QED
  BY <1>1, <1>2 DEF MCNext, NodeNext, TunnelNext, ServerNext, RequestNext, RequestOver, mcVars

-----------------------------------------------------------------------------
(* All of them *)

MCInv == TypeOK /\ TunnelInv /\ ServerInv /\ RequestInv

\* A step of the composition is a step of one of them, and leaves the others alone.
LEMMA CompositionSteps ==
    ASSUME [MCNext]_mcVars
    PROVE  [Tunnel!Next]_tunnelVars /\ [Server!Next]_serverVars /\ [Request!Next]_requestVars
BY DEF MCNext, NodeNext, TunnelNext, ServerNext, RequestNext, RequestOver, mcVars

LEMMA MCInvariant == MCSpec => []MCInv
<1>1. MCInit => MCInv
  BY NodeInit, TunnelInit, ServerInit, RequestInit DEF MCInit, MCInv
<1>2. MCInv /\ [MCNext]_mcVars => MCInv'
  BY NodeTypes, TunnelInvInductive, ServerInvInductive, RequestInvInductive, CompositionSteps
     DEF MCInv
<1> QED
  BY <1>1, <1>2, PTL DEF MCSpec

\* Every variable of every component keeps its type.
THEOREM TypesHold == MCSpec => []TypesOK
<1>1. MCInv => TypesOK
  BY DEF MCInv, TunnelInv, ServerInv, TypesOK
<1> QED
  BY <1>1, MCInvariant, PTL

\* No ssh outlives the transport it was started for (bmc_client.py:53-77, 226-237).
THEOREM TunnelsHaveEnded == MCSpec => []TunnelsEnd
<1>1. MCInv => TunnelsEnd
  BY DEF MCInv, TunnelInv, TunnelsEnd, Tunnel!TunnelsEnd
<1> QED
  BY <1>1, MCInvariant, PTL

\* An open session is served by its own process on the port, unless its ssh
\* session broke (http_server.py:100-110, range_server.py:72-81).
THEOREM OpenSessionsAreServed == MCSpec => []OpenIsServed
<1>1. MCInv => OpenIsServed
  BY DEF MCInv, ServerInv, ServerOf, OpenIsServed, Server!OpenIsServed
<1> QED
  BY <1>1, MCInvariant, PTL

\* A server gives up its port only when its owner has closed its session or is
\* gone (range_server.py:76-85; docs/bootstrap-methods.md:48-49).
THEOREM PortsAreKept == MCSpec => ServesWhileOwned
<1>1. MCInv /\ [MCNext]_mcVars =>
          [\A o \in Invocations : port = o /\ port' # o => ~input[o]]_(Server!vars)
  BY ServerKeepsPort, CompositionSteps DEF MCInv
<1> QED
  BY <1>1, MCInvariant, PTL DEF MCSpec, ServesWhileOwned, Server!ServesWhileOwned

\* A reply has exactly the bytes that were asked for (range_server.py:33-59).
THEOREM RequestsAreSlices == MCSpec => []Slices
<1>1. MCInv => Slices
  BY RequestSlices DEF MCInv
<1> QED
  BY <1>1, MCInvariant, PTL
=============================================================================
