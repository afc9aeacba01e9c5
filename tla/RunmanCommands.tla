---------------------------- MODULE RunmanCommands ----------------------------
(***************************************************************************)
(* Commands for one agent node.  Workers write commands to agent_commands   *)
(* through the broker (runman.go, sender.go) and poll for their results; the *)
(* gateway (gateway.go) sends them over a gRPC stream that the agent opens, *)
(* handles the agent's messages and keeps agent_connections, agent_messages *)
(* and agent_vm_states (repository.go).  Worker and gateway are different   *)
(* processes: all they share is PostgreSQL.                                 *)
(*                                                                          *)
(* A statement or transaction of repository.go is one step.  The agent is   *)
(* external: it opens a new stream when the old one has broken, remembers   *)
(* the commands it has carried out, answers each command it receives, and   *)
(* may send a message again that it sent on an older stream.                *)
(***************************************************************************)
EXTENDS Integers, FiniteSets

CONSTANTS
  Keys,       \* idempotency keys of commands
  Kind,       \* Kind[k]: the command_type (and "oversized", see Encodable)
  MaxConns,   \* bound: streams that the agent opens, 1 .. MaxConns
  Callers,    \* executions in workers, each in at most one broker call
  MaxIssues,  \* bound: calls of Broker.Issue
  MaxCommands, \* bound: different commands they are about
  MaxFaults,  \* bound: broken streams, failed statements, crashes
  None

Conns == 1 .. MaxConns
Kinds == {"create", "reinstall", "reset_password", "start", "stop", "restart", "delete",
          "list_ports", "add_port", "delete_port", "oversized"}
WithPassword == {"create", "reinstall", "reset_password"}
Final == {"succeeded", "failed"}

ASSUME RunmanAssumption ==
  /\ Kind \in [Keys -> Kinds]
  /\ {MaxConns, MaxIssues, MaxCommands, MaxFaults} \subseteq Nat
  /\ None \notin Keys \union Conns

VARIABLES
  cmd,        \* cmd[k]: the row of agent_commands: its status, and whether
              \* root_password is still in its payload
  connRow,    \* the node's row of agent_connections
  nodeOnline, \* nodes.status = 'online'
  claimed,    \* ids in agent_messages
  vmRow,      \* agent_vm_states of the VM the commands are about
  listed,     \* list_ports commands whose answer is in agent_port_forwards
  registered, \* Gateway.connections[node]
  stream,     \* stream[c]: the goroutine of Connect for the agent's c-th stream
  toAgent,    \* toAgent[c]: commands on their way to the agent
  toGateway,  \* toGateway[c]: answers on their way to the gateway
  agentConn,  \* the stream the agent uses
  opened,     \* how many streams it has opened
  done,       \* done[k]: what the agent did: "none", "ok" or "error"
  answered,   \* <<k, c>>: its answer to k on stream c, which it may repeat
  vm,         \* the VM at the agent
  call,       \* call[w]: the caller's place in Broker.Issue
  told,       \* <<k, answer>> for each answer a caller got that it may not retry after
  issues, faults

storeVars == <<cmd, connRow, nodeOnline, claimed, vmRow, listed>>
gatewayVars == <<registered, stream>>
networkVars == <<toAgent, toGateway>>
agentVars == <<agentConn, opened, done, answered, vm>>
callVars == <<call, told, issues>>
vars == <<storeVars, gatewayVars, networkVars, agentVars, callVars, faults>>

Idle == [pc |-> "idle", key |-> None]
NoStream == [pc |-> "none", queue |-> {}, sent |-> {}, msg |-> None]

Init ==
  /\ cmd = [k \in Keys |-> [status |-> "absent", password |-> FALSE]]
  /\ connRow = [id |-> None, status |-> "disconnected", fresh |-> FALSE]
  /\ nodeOnline = FALSE
  /\ claimed = {} /\ vmRow = "none" /\ listed = {}
  /\ registered = None
  /\ stream = [c \in Conns |-> NoStream]
  /\ toAgent = [c \in Conns |-> {}]
  /\ toGateway = [c \in Conns |-> {}]
  /\ agentConn = None /\ opened = 0
  /\ done = [k \in Keys |-> "none"] /\ answered = {} /\ vm = "none"
  /\ call = [w \in Callers |-> Idle] /\ told = {} /\ issues = 0
  /\ faults = 0

-----------------------------------------------------------------------------
(* The statements on agent_commands.                                         *)

Terminal(k) == cmd[k].status \in Final

Unsettled == {k \in Keys : cmd[k].status \in {"queued", "dispatched"}}

(* Mutant: only commands that no worker has marked yet. *)
PendingQueued == {k \in Keys : cmd[k].status = "queued"}

Pending == Unsettled

(* Mutant: without the condition on the status. *)
MarkDispatchedAlways(k) == cmd' = [cmd EXCEPT ![k].status = "dispatched"]

MarkDispatched(k) ==
  cmd' = IF cmd[k].status \in {"queued", "dispatched"}
           THEN [cmd EXCEPT ![k].status = "dispatched"] ELSE cmd

Complete(k, s) ==
  cmd' = IF Terminal(k) THEN cmd
         ELSE [cmd EXCEPT ![k] = [status |-> s, password |-> FALSE]]

(* What CreateCommand compares a stored row with: the adapter puts the        *)
(* password into the payload of every command of these kinds, even when it is *)
(* empty.                                                                     *)
SamePayload(k) == cmd[k].password = (Kind[k] \in WithPassword)

Healthy == connRow.status = "connected" /\ connRow.fresh

-----------------------------------------------------------------------------
(* Broker.Issue, called by an adapter's operation for a key.                  *)

(* CreateCommand inserts the row or reads the one that is there; then          *)
(* ConnectionSender.Online reads agent_connections.  What others do between    *)
(* the two might as well happen before or after both.  A node that is offline  *)
(* and a timeout are errors that the workflow may retry.                       *)
AfterCreate(w, k, s) ==
  IF Healthy
    THEN call' = [call EXCEPT ![w] = [pc |-> IF s = "queued" THEN "mark" ELSE "poll", key |-> k]]
    ELSE UNCHANGED call

CreateCommand(w, k) ==
  /\ call[w].pc = "idle" /\ issues < MaxIssues
  /\ Cardinality({k} \union {j \in Keys : cmd[j].status # "absent"}) <= MaxCommands
  /\ issues' = issues + 1
  /\ \/ /\ cmd[k].status = "absent"
        /\ cmd' = [cmd EXCEPT ![k] = [status |-> "queued",
                                      password |-> Kind[k] \in WithPassword]]
        /\ AfterCreate(w, k, "queued")
        /\ UNCHANGED told
     \/ /\ k \in Unsettled /\ SamePayload(k)
        /\ AfterCreate(w, k, cmd[k].status)
        /\ UNCHANGED <<cmd, told>>
     \/ /\ Terminal(k) /\ SamePayload(k)
        /\ told' = told \union {<<k, cmd[k].status>>}
        /\ UNCHANGED <<cmd, call>>
     \/ /\ cmd[k].status # "absent" /\ ~SamePayload(k)
        /\ told' = told \union {<<k, "conflict">>}
        /\ UNCHANGED <<cmd, call>>
  /\ UNCHANGED <<connRow, nodeOnline, claimed, vmRow, listed, gatewayVars, networkVars,
                 agentVars, faults>>

(* ConnectionSender.Send does nothing: the worker marks the command           *)
(* dispatched and leaves it to the gateway to send it.                        *)
MarkIssued(w) ==
  /\ call[w].pc = "mark"
  /\ MarkDispatched(call[w].key)
  /\ call' = [call EXCEPT ![w].pc = "poll"]
  /\ UNCHANGED <<connRow, nodeOnline, claimed, vmRow, listed, gatewayVars, networkVars,
                 agentVars, told, issues, faults>>

Poll(w) ==
  /\ call[w].pc = "poll" /\ Terminal(call[w].key)
  /\ told' = told \union {<<call[w].key, cmd[call[w].key].status>>}
  /\ call' = [call EXCEPT ![w] = Idle]
  /\ UNCHANGED <<storeVars, gatewayVars, networkVars, agentVars, issues, faults>>

Timeout(w) ==
  /\ call[w].pc = "poll"
  /\ call' = [call EXCEPT ![w] = Idle]
  /\ UNCHANGED <<storeVars, gatewayVars, networkVars, agentVars, told, issues, faults>>

WorkerCrashes(w) ==
  /\ call[w].pc # "idle" /\ faults < MaxFaults
  /\ faults' = faults + 1
  /\ call' = [call EXCEPT ![w] = Idle]
  /\ UNCHANGED <<storeVars, gatewayVars, networkVars, agentVars, told, issues>>

-----------------------------------------------------------------------------
(* The gateway's goroutine for stream c.                                      *)

Goto(c, l) == stream' = [stream EXCEPT ![c].pc = l]

(* The agent opens a stream; Connect authenticates it and writes              *)
(* agent_connections, keeping last_heartbeat_at.                              *)
Connect ==
  LET c == opened + 1 IN
  /\ agentConn = None /\ opened < MaxConns
  /\ opened' = c /\ agentConn' = c
  /\ connRow' = [connRow EXCEPT !.id = c, !.status = "connected"]
  /\ Goto(c, "stored")
  /\ UNCHANGED <<cmd, nodeOnline, claimed, vmRow, listed, registered, networkVars, done, answered,
                 vm, callVars, faults>>

Register(c) ==
  /\ stream[c].pc = "stored"
  /\ registered' = c
  /\ Goto(c, "registered")
  /\ UNCHANGED <<storeVars, networkVars, agentVars, callVars, faults>>

(* Pending commands are read once at the start and at every tick; those that  *)
(* were sent on this stream are left out.                                     *)
ReadPending(c) ==
  LET q == Pending \ stream[c].sent IN
  /\ stream[c].pc = "registered" \/ (stream[c].pc = "loop" /\ q # {})
  /\ stream' = [stream EXCEPT ![c].queue = q, ![c].pc = IF q = {} THEN "loop" ELSE "sending"]
  /\ UNCHANGED <<storeVars, registered, networkVars, agentVars, callVars, faults>>

Unqueue(c, k) ==
  stream' = [stream EXCEPT ![c].queue = @ \ {k}, ![c].msg = None,
                           ![c].pc = IF stream[c].queue = {k} THEN "loop" ELSE "sending"]

(* sendCommand: a payload that does not fit the protocol's integers settles   *)
(* the command; the others are sent and then marked.                          *)
Encodable(k) == Kind[k] # "oversized"

RejectCommand(c, k) ==
  /\ stream[c].pc = "sending" /\ k \in stream[c].queue /\ ~Encodable(k)
  /\ Complete(k, "failed")
  /\ Unqueue(c, k)
  /\ UNCHANGED <<connRow, nodeOnline, claimed, vmRow, listed, registered, networkVars, agentVars,
                 callVars, faults>>

SendCommand(c, k) ==
  /\ stream[c].pc = "sending" /\ k \in stream[c].queue /\ Encodable(k)
  /\ toAgent' = [toAgent EXCEPT ![c] = IF agentConn = c THEN @ \union {k} ELSE @]
  /\ stream' = [stream EXCEPT ![c].sent = @ \union {k}, ![c].msg = k, ![c].pc = "marking"]
  /\ UNCHANGED <<storeVars, registered, toGateway, agentVars, callVars, faults>>

MarkSent(c) ==
  LET k == stream[c].msg IN
  /\ stream[c].pc = "marking"
  /\ MarkDispatched(k)
  /\ Unqueue(c, k)
  /\ UNCHANGED <<connRow, nodeOnline, claimed, vmRow, listed, registered, networkVars, agentVars,
                 callVars, faults>>

(* handle: a heartbeat has a new id, so that its claim succeeds.  It updates  *)
(* the node, the connection row, whichever stream that names, and the VMs it   *)
(* lists.  A heartbeat may still be handled when the agent has left the        *)
(* stream; it lists what there was when it was sent.                           *)
HandleHeartbeat(c) ==
  /\ stream[c].pc = "loop"
  /\ connRow' = [connRow EXCEPT !.status = "connected", !.fresh = TRUE]
  /\ nodeOnline' = TRUE
  /\ \/ vmRow' = vm
     \/ agentConn # c /\ UNCHANGED vmRow
  /\ UNCHANGED <<cmd, claimed, listed, gatewayVars, networkVars, agentVars, callVars, faults>>

(* handle: ClaimMessage.  A message whose id is in agent_messages is dropped, *)
(* unless the row is older than five minutes: it is not being handled then.   *)
BeingHandled(m) == \E c \in Conns : stream[c].pc \in {"claimed", "saved"} /\ stream[c].msg = m

ClaimMessage(c, m) ==
  /\ stream[c].pc = "loop" /\ m \in toGateway[c]
  /\ toGateway' = [toGateway EXCEPT ![c] = @ \ {m}]
  /\ claimed' = claimed \union {m}
  /\ \/ m \in claimed /\ UNCHANGED stream
     \/ /\ ~BeingHandled(m)
        /\ stream' = [stream EXCEPT ![c].pc = "claimed", ![c].msg = m]
  /\ UNCHANGED <<cmd, connRow, nodeOnline, vmRow, listed, registered, toAgent, agentVars,
                 callVars, faults>>

(* Mutant: treats a list of port forwards as any other result. *)
HandleAnyResult(c) ==
  LET k == stream[c].msg[1] IN
  /\ stream[c].pc = "claimed"
  /\ Complete(k, IF done[k] = "ok" THEN "succeeded" ELSE "failed")
  /\ stream' = [stream EXCEPT ![c].pc = "loop", ![c].msg = None]
  /\ UNCHANGED <<connRow, nodeOnline, claimed, vmRow, listed, registered, networkVars, agentVars,
                 callVars, faults>>

(* handleClaimed: a result completes its command; a list of port forwards is  *)
(* stored before its command is completed.                                    *)
HandleResult(c) ==
  LET k == stream[c].msg[1] IN
  /\ stream[c].pc = "claimed"
  /\ ~(Kind[k] = "list_ports" /\ done[k] = "ok")
  /\ Complete(k, IF done[k] = "ok" THEN "succeeded" ELSE "failed")
  /\ stream' = [stream EXCEPT ![c].pc = "loop", ![c].msg = None]
  /\ UNCHANGED <<connRow, nodeOnline, claimed, vmRow, listed, registered, networkVars, agentVars,
                 callVars, faults>>

SavePortForwards(c) ==
  LET k == stream[c].msg[1] IN
  /\ stream[c].pc = "claimed"
  /\ Kind[k] = "list_ports" /\ done[k] = "ok"
  /\ listed' = listed \union {k}
  /\ Goto(c, "saved")
  /\ UNCHANGED <<cmd, connRow, nodeOnline, claimed, vmRow, registered, networkVars, agentVars,
                 callVars, faults>>

CompleteList(c) ==
  /\ stream[c].pc = "saved"
  /\ Complete(stream[c].msg[1], "succeeded")
  /\ stream' = [stream EXCEPT ![c].pc = "loop", ![c].msg = None]
  /\ UNCHANGED <<connRow, nodeOnline, claimed, vmRow, listed, registered, networkVars, agentVars,
                 callVars, faults>>

(* Connect returns; what was on its way is lost.                             *)
Leave(c) ==
  /\ stream' = [stream EXCEPT ![c] = [NoStream EXCEPT !.pc = "ended"]]
  /\ toAgent' = [toAgent EXCEPT ![c] = {}]
  /\ toGateway' = [toGateway EXCEPT ![c] = {}]

(* Mutant: an error of the handler does not end the stream. *)
HandlerGoesOn(c) ==
  /\ stream[c].pc \in {"claimed", "saved"} /\ faults < MaxFaults
  /\ faults' = faults + 1
  /\ claimed' = claimed \ {stream[c].msg}
  /\ stream' = [stream EXCEPT ![c].pc = "loop", ![c].msg = None]
  /\ UNCHANGED <<cmd, connRow, nodeOnline, vmRow, listed, registered, networkVars, agentVars,
                 callVars>>

(* A statement of the handler fails: the claim is released, unless that fails *)
(* as well, and Connect returns.  So it does when a heartbeat cannot be       *)
(* stored, a message not be claimed or a command not be marked as dispatched. *)
HandlerFails(c) ==
  /\ stream[c].pc \in {"loop", "marking", "claimed", "saved"} /\ faults < MaxFaults
  /\ faults' = faults + 1
  /\ \/ claimed' = claimed \ {stream[c].msg}
     \/ UNCHANGED claimed
  /\ Leave(c)
  /\ UNCHANGED <<cmd, connRow, nodeOnline, vmRow, listed, registered, agentVars,
                 callVars>>

(* The stream's context is cancelled when the agent has left it: the loop     *)
(* ends, and so does every statement that runs with this context, the release *)
(* of a claim included.                                                       *)
StreamEnds(c) ==
  /\ agentConn # c
  /\ stream[c].pc \in {"registered", "loop", "sending", "marking", "claimed", "saved"}
  /\ Leave(c)
  /\ UNCHANGED <<storeVars, registered, agentVars, callVars, faults>>

(* The deferred clean-up of Connect; the agent notices when it is over.       *)
Unregister(c) ==
  /\ stream[c].pc = "ended"
  /\ registered' = IF registered = c THEN None ELSE registered
  /\ Goto(c, "unregistered")
  /\ UNCHANGED <<storeVars, networkVars, agentVars, callVars, faults>>

(* Mutant: without the condition on the connection's id. *)
DisconnectedAny(c) ==
  /\ stream[c].pc = "unregistered"
  /\ connRow' = [connRow EXCEPT !.status = "disconnected"]
  /\ Goto(c, "closed")
  /\ toGateway' = [toGateway EXCEPT ![c] = {}]
  /\ agentConn' = IF agentConn = c THEN None ELSE agentConn
  /\ UNCHANGED <<cmd, nodeOnline, claimed, vmRow, listed, registered, toAgent, opened, done,
                 answered, vm, callVars, faults>>

Disconnected(c) ==
  /\ stream[c].pc = "unregistered"
  /\ connRow' = IF connRow.id = c THEN [connRow EXCEPT !.status = "disconnected"] ELSE connRow
  /\ Goto(c, "closed")
  /\ toGateway' = [toGateway EXCEPT ![c] = {}]
  /\ agentConn' = IF agentConn = c THEN None ELSE agentConn
  /\ UNCHANGED <<cmd, nodeOnline, claimed, vmRow, listed, registered, toAgent, opened, done,
                 answered, vm, callVars, faults>>

GatewayCrashes ==
  /\ faults < MaxFaults /\ agentConn # None
  /\ faults' = faults + 1
  /\ registered' = None /\ agentConn' = None
  /\ stream' = [c \in Conns |-> IF c <= opened THEN [NoStream EXCEPT !.pc = "closed"] ELSE NoStream]
  /\ toAgent' = [c \in Conns |-> {}]
  /\ toGateway' = [c \in Conns |-> {}]
  /\ UNCHANGED <<storeVars, opened, done, answered, vm, callVars>>

-----------------------------------------------------------------------------
(* The agent (external).                                                      *)

AgentLeaves ==
  /\ agentConn # None /\ faults < MaxFaults
  /\ faults' = faults + 1
  /\ agentConn' = None
  /\ toAgent' = [toAgent EXCEPT ![agentConn] = {}]
  /\ UNCHANGED <<storeVars, gatewayVars, toGateway, opened, done, answered, vm, callVars>>

(* The id of an answer: the command, and the stream on which it was received. *)
Send(m) == toGateway' = [toGateway EXCEPT ![agentConn] = @ \union {m}]

Effect(k) ==
  CASE Kind[k] \in {"create", "reinstall", "start"} -> "running"
    [] Kind[k] = "stop" -> "stopped"
    [] OTHER -> vm

(* Carries out a command it has not seen, and answers it in any case.         *)
AgentReceives(k) ==
  /\ agentConn # None /\ k \in toAgent[agentConn]
  /\ toAgent' = [toAgent EXCEPT ![agentConn] = @ \ {k}]
  /\ \/ done[k] # "none" /\ UNCHANGED <<done, vm>>
     \/ /\ done[k] = "none"
        /\ \E o \in {"ok", "error"} :
             /\ done' = [done EXCEPT ![k] = o]
             /\ vm' = IF o = "ok" THEN Effect(k) ELSE vm
  /\ Send(<<k, agentConn>>)
  /\ answered' = answered \union {<<k, agentConn>>}
  /\ UNCHANGED <<storeVars, gatewayVars, agentConn, opened, callVars, faults>>

(* What it sends on a stream whose goroutine has returned is lost.            *)
Listening == agentConn # None /\ stream[agentConn].pc \notin {"ended", "unregistered"}

(* Sends an answer once more that it gave on an older stream, with the same   *)
(* id.                                                                        *)
AgentRepeats(k, c) ==
  /\ Listening /\ c < agentConn /\ <<k, c>> \in answered
  /\ Send(<<k, c>>)
  /\ answered' = answered \ {<<k, c>>}
  /\ UNCHANGED <<storeVars, gatewayVars, toAgent, agentConn, opened, done, vm, callVars, faults>>

-----------------------------------------------------------------------------
(* Time, and the reconciler's expireNodeHeartbeats.                           *)

(* An agent reports far more often than every 90 seconds: its heartbeat gets  *)
(* old only while it has no stream.                                           *)
HeartbeatAges ==
  /\ connRow.fresh /\ agentConn = None
  /\ connRow' = [connRow EXCEPT !.fresh = FALSE]
  /\ UNCHANGED <<cmd, nodeOnline, claimed, vmRow, listed, gatewayVars, networkVars, agentVars,
                 callVars, faults>>

ExpireHeartbeat ==
  /\ nodeOnline /\ ~connRow.fresh
  /\ nodeOnline' = FALSE
  /\ connRow' = [connRow EXCEPT !.status = "disconnected"]
  /\ UNCHANGED <<cmd, claimed, vmRow, listed, gatewayVars, networkVars, agentVars, callVars,
                 faults>>

-----------------------------------------------------------------------------

CallStep(w) ==
  \/ \E k \in Keys : CreateCommand(w, k)
  \/ MarkIssued(w) \/ Poll(w) \/ Timeout(w) \/ WorkerCrashes(w)

SendStep(c) == \E k \in Keys : RejectCommand(c, k) \/ SendCommand(c, k)

ClaimStep(c) == \E m \in toGateway[c] : ClaimMessage(c, m)

FinishStep(c) == HandleResult(c) \/ SavePortForwards(c) \/ CompleteList(c)

CleanUp(c) == StreamEnds(c) \/ Unregister(c) \/ Disconnected(c)

GatewayStep(c) ==
  \/ Register(c) \/ ReadPending(c) \/ SendStep(c) \/ MarkSent(c)
  \/ HandleHeartbeat(c) \/ ClaimStep(c) \/ FinishStep(c) \/ HandlerFails(c) \/ CleanUp(c)

AgentStep ==
  \/ Connect \/ AgentLeaves
  \/ \E k \in Keys : AgentReceives(k) \/ \E c \in Conns : AgentRepeats(k, c)

TimeStep == HeartbeatAges \/ ExpireHeartbeat

Next ==
  \/ \E w \in Callers : CallStep(w)
  \/ \E c \in Conns : GatewayStep(c)
  \/ AgentStep \/ GatewayCrashes \/ TimeStep

Spec == Init /\ [][Next]_vars

(* The gateway's loop goes on; its select takes every case that stays or keeps *)
(* coming ready; the agent reconnects and answers.                             *)
Fairness ==
  /\ \A c \in Conns :
       /\ WF_vars(Register(c) \/ SendStep(c) \/ MarkSent(c) \/ FinishStep(c) \/ CleanUp(c))
       /\ SF_vars(ReadPending(c))
       /\ SF_vars(ClaimStep(c))
  /\ WF_vars(Connect)
  /\ \A k \in Keys : WF_vars(AgentReceives(k))

FairSpec == Spec /\ Fairness

-----------------------------------------------------------------------------
(* Properties.                                                                *)

CommandRows == [status : {"absent", "queued", "dispatched"} \union Final, password : BOOLEAN]

StreamRows ==
  [pc : {"none", "stored", "registered", "loop", "sending", "marking", "claimed", "saved",
         "ended", "unregistered", "closed"},
   queue : SUBSET Keys, sent : SUBSET Keys,
   msg : {None} \union Keys \union (Keys \X Conns)]

(* The shape of the state: rows of agent_commands, agent_connections,         *)
(* agent_messages and agent_vm_states, streams and calls.                     *)
TypeOK ==
  /\ cmd \in [Keys -> CommandRows]
  /\ connRow \in [id : Conns \union {None}, status : {"connected", "disconnected"},
                  fresh : BOOLEAN]
  /\ nodeOnline \in BOOLEAN
  /\ claimed \subseteq Keys \X Conns
  /\ vmRow \in {"none", "running", "stopped"} /\ vm \in {"none", "running", "stopped"}
  /\ listed \subseteq Keys
  /\ registered \in Conns \union {None} /\ agentConn \in Conns \union {None}
  /\ stream \in [Conns -> StreamRows]
  /\ toAgent \in [Conns -> SUBSET Keys]
  /\ toGateway \in [Conns -> SUBSET (Keys \X Conns)]
  /\ opened \in 0 .. MaxConns
  /\ done \in [Keys -> {"none", "ok", "error"}]
  /\ answered \subseteq Keys \X Conns
  /\ call \in [Callers -> [pc : {"idle", "mark", "poll"}, key : Keys \union {None}]]
  /\ told \subseteq Keys \X ({"conflict"} \union Final)
  /\ issues \in 0 .. MaxIssues /\ faults \in 0 .. MaxFaults

Contract == INSTANCE CommandContract WITH
  status <- [k \in Keys |-> IF cmd[k].status \in {"queued", "dispatched"} THEN "pending"
                            ELSE cmd[k].status],
  outcome <- done,
  told <- {t \in told : t[2] \in Final}

(* Broker, gateway and agent together keep the contract of a command: it is   *)
(* carried out at most once, settled once with what the agent did, not        *)
(* reopened by a late MarkDispatched of the worker or of another stream, and  *)
(* Issue reports success or failure only of a command that is settled so.     *)
ImplementsContract == Contract!Spec

(* ListPortForwards reads agent_port_forwards after its command is reported   *)
(* successful: by then the agent's answer to this command is in the table,    *)
(* although it is stored and the command completed by two transactions, with  *)
(* a stream that may break in between.                                        *)
ListIsStored ==
  \A k \in Keys : Kind[k] = "list_ports" /\ cmd[k].status = "succeeded" => k \in listed

(* A command is sent once per stream, so an answer that gets lost on a stream *)
(* that goes on is lost for good.  While the agent uses a stream, each        *)
(* unsettled command that was sent on it is on its way to the agent, or its   *)
(* answer is on its way back or being handled: neither a duplicate id nor a   *)
(* failed statement swallows it.                                              *)
SentIsAnswered ==
  \A c \in Conns : agentConn = c =>
    \A k \in stream[c].sent \intersect Unsettled :
      \/ k \in toAgent[c] \/ <<k, c>> \in toGateway[c]
      \/ stream[c].pc \in {"claimed", "saved"} /\ stream[c].msg = <<k, c>>

(* The clean-up of a stream takes down only its own connection: the map entry *)
(* and the agent_connections row of a newer stream survive the late end of an *)
(* old one; other than by its own clean-up a connection is marked             *)
(* disconnected only when the node's heartbeat has expired.                   *)
CleanUpIsOwn ==
  [][/\ registered # None /\ registered' = None /\ faults' = faults =>
          stream[registered].pc = "ended"
     /\ connRow.status = "connected" /\ connRow'.status = "disconnected" =>
          stream[connRow.id].pc = "unregistered" \/ (nodeOnline /\ ~connRow.fresh)]_vars

(* Commands that were written are settled in the end (calls are bounded, so   *)
(* all of them at some time), whatever became of the worker that wrote one:   *)
(* the worker marks it dispatched before anybody has sent it, streams break   *)
(* and are replaced, messages are repeated, and answers are lost with their   *)
(* stream.                                                                    *)
CommandsEnd == (Unsettled # {}) ~> (Unsettled = {})

(* ADR-013: a create whose success was not heard of is verified by the retry  *)
(* with the same key, and is not refused.                                     *)
RetryFindsResult == \A k \in Keys : <<k, "conflict">> \notin told
=============================================================================
