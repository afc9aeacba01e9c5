------------------------ MODULE RunmanCommands_proofs ------------------------
(***************************************************************************)
(* Proofs about RunmanCommands, for any commands, callers, streams and      *)
(* faults.  The types and the shape of a stream's message are inductive by  *)
(* themselves (Shape).  On top of them come what is known of a stream's     *)
(* queue (StreamInv), of the commands and messages that are on their way    *)
(* (KnownInv, MessageInv), of settled commands (SettledInv) and of the      *)
(* stream that the agent uses (SentInv).                                    *)
(***************************************************************************)
EXTENDS RunmanCommands, TLAPS

(* The message of a stream is a command while it is marked, and an answer    *)
(* while it is handled; a call has a key; the agent uses its latest stream.  *)
MessageShape ==
  \A c \in Conns :
    /\ stream[c].pc = "marking" => stream[c].msg \in Keys
    /\ stream[c].pc \in {"claimed", "saved"} => stream[c].msg \in Keys \X Conns

CallShape == \A w \in Callers : call[w].pc # "idle" => call[w].key \in Keys

AgentShape == agentConn # None => agentConn = opened

Shape == TypeOK /\ MessageShape /\ CallShape /\ AgentShape

Written == {k \in Keys : cmd[k].status # "absent"}

Sendable == {k \in Written : Encodable(k)}

(* A stream that was not opened is empty, and what it still has to send has  *)
(* not been sent on it.                                                      *)
StreamFact(c) ==
  /\ stream[c].pc = "none" <=> c > opened
  /\ c > opened => stream[c].sent = {} /\ toAgent[c] = {} /\ toGateway[c] = {}
  /\ stream[c].pc = "sending" => stream[c].queue \intersect stream[c].sent = {}
  /\ stream[c].pc = "marking" =>
       stream[c].queue \intersect stream[c].sent \subseteq {stream[c].msg}

StreamInv == \A c \in Conns : StreamFact(c)

(* Only commands with a row are sent, and only those that can be encoded.    *)
KnownFact(c) ==
  /\ stream[c].queue \subseteq Written /\ stream[c].sent \subseteq Sendable
  /\ toAgent[c] \subseteq Sendable

KnownInv ==
  /\ \A c \in Conns : KnownFact(c)
  /\ \A k \in Keys : done[k] # "none" => k \in Sendable

(* An answer is to a command that the agent has carried out, and was first   *)
(* given on this stream or on an older one.                                  *)
MessageFact(c) ==
  /\ \A m \in toGateway[c] : m[2] <= c /\ done[m[1]] # "none"
  /\ stream[c].pc \in {"claimed", "saved"} =>
       stream[c].msg[2] <= c /\ done[stream[c].msg[1]] # "none"

MessageInv ==
  /\ \A c \in Conns : MessageFact(c)
  /\ \A m \in answered : done[m[1]] # "none"
  /\ \A m \in claimed : m[2] <= opened

(* A list of forwards is in the table when its command is about to be        *)
(* completed, and when it is completed; a settled command that can be sent   *)
(* was carried out.                                                          *)
SavedFact(c) ==
  stream[c].pc = "saved" =>
    /\ Kind[stream[c].msg[1]] = "list_ports"
    /\ done[stream[c].msg[1]] = "ok"
    /\ stream[c].msg[1] \in listed

SettledInv ==
  /\ \A k \in Keys : Terminal(k) /\ Encodable(k) => done[k] # "none"
  /\ \A c \in Conns : SavedFact(c)
  /\ ListIsStored

(* On the stream that the agent uses a command is sent, answered and claimed *)
(* once, in this order.                                                      *)
OnceFact(c, k) ==
  /\ k \in toAgent[c] =>
       k \in stream[c].sent /\ <<k, c>> \notin claimed
  /\ <<k, c>> \in toGateway[c] =>
       k \in stream[c].sent /\ <<k, c>> \notin claimed /\ k \notin toAgent[c]
  /\ <<k, c>> \in claimed =>
       k \in stream[c].sent \/ stream[c].pc \in {"ended", "unregistered"}

(* An unsettled command that was sent is on its way, or its answer is.       *)
AnswerFact(c, k) ==
  k \in stream[c].sent \intersect Unsettled =>
    \/ k \in toAgent[c] \/ <<k, c>> \in toGateway[c]
    \/ stream[c].pc \in {"claimed", "saved"} /\ stream[c].msg = <<k, c>>

SentInv == \A c \in Conns : agentConn = c => \A k \in Keys : OnceFact(c, k) /\ AnswerFact(c, k)

RunmanInv == Shape /\ StreamInv /\ KnownInv /\ MessageInv /\ SettledInv /\ SentInv

-----------------------------------------------------------------------------
(* What the actions do to the row of a stream.                               *)

Pcs == {"none", "stored", "registered", "loop", "sending", "marking", "claimed", "saved",
        "ended", "unregistered", "closed"}

Others(c) == \A d \in Conns : d # c => stream'[d] = stream[d]

(* Only the row of stream c is written, and this is what it becomes. *)
Becomes(c, p, q, s, m) ==
  /\ stream' \in [Conns -> StreamRows]
  /\ stream'[c].pc = p /\ stream'[c].queue = q /\ stream'[c].sent = s /\ stream'[c].msg = m
  /\ Others(c)

(* A row that is replaced by one of the right type. *)
LEMMA RowReplaced ==
  ASSUME stream \in [Conns -> StreamRows], NEW c \in Conns, NEW row \in StreamRows,
         stream' = [stream EXCEPT ![c] = row],
         NEW p, NEW q, NEW s, NEW m, row.pc = p, row.queue = q, row.sent = s, row.msg = m
  PROVE  Becomes(c, p, q, s, m)
BY Zenon DEF Becomes, Others

(* The fields of a row have their types. *)
LEMMA RowFields ==
  ASSUME stream \in [Conns -> StreamRows], NEW c \in Conns
  PROVE  /\ stream[c].pc \in Pcs /\ stream[c].queue \in SUBSET Keys
         /\ stream[c].sent \in SUBSET Keys
         /\ stream[c].msg \in {None} \union Keys \union (Keys \X Conns)
BY DEF StreamRows, Pcs

(* A step of the goroutine that moves its place only. *)
LEMMA GotoRow ==
  ASSUME stream \in [Conns -> StreamRows], NEW c \in Conns, NEW l \in Pcs, Goto(c, l)
  PROVE  Becomes(c, l, stream[c].queue, stream[c].sent, stream[c].msg)
<1> DEFINE row == [stream[c] EXCEPT !.pc = l]
<1> stream[c] \in StreamRows
  OBVIOUS
<1>1. row \in StreamRows
  BY DEF StreamRows, Pcs
<1>2. row.pc = l /\ row.queue = stream[c].queue /\ row.sent = stream[c].sent /\ row.msg = stream[c].msg
  BY DEF StreamRows, Pcs
<1>3. stream' = [stream EXCEPT ![c] = row]
  BY Zenon DEF Goto
<1> HIDE DEF row
<1> QED
  BY <1>1, <1>2, <1>3, RowReplaced, Zenon

(* The handler returns to the loop. *)
LEMMA LoopRow ==
  ASSUME stream \in [Conns -> StreamRows], NEW c \in Conns,
         stream' = [stream EXCEPT ![c].pc = "loop", ![c].msg = None]
  PROVE  Becomes(c, "loop", stream[c].queue, stream[c].sent, None)
<1> DEFINE row == [stream[c] EXCEPT !.pc = "loop", !.msg = None]
<1> stream[c] \in StreamRows
  OBVIOUS
<1>1. row \in StreamRows
  BY ZenonT(40) DEF StreamRows
<1>2. row.pc = "loop" /\ row.queue = stream[c].queue /\ row.sent = stream[c].sent /\ row.msg = None
  BY DEF StreamRows
<1>3. stream' = [stream EXCEPT ![c] = row]
  OBVIOUS
<1> HIDE DEF row
<1> QED
  BY <1>1, <1>2, <1>3, RowReplaced, Zenon

(* A message is claimed. *)
LEMMA ClaimRow ==
  ASSUME stream \in [Conns -> StreamRows], NEW c \in Conns, NEW m \in Keys \X Conns,
         stream' = [stream EXCEPT ![c].pc = "claimed", ![c].msg = m]
  PROVE  Becomes(c, "claimed", stream[c].queue, stream[c].sent, m)
<1> DEFINE row == [stream[c] EXCEPT !.pc = "claimed", !.msg = m]
<1> stream[c] \in StreamRows
  OBVIOUS
<1>1. row \in StreamRows
  BY ZenonT(40) DEF StreamRows
<1>2. row.pc = "claimed" /\ row.queue = stream[c].queue /\ row.sent = stream[c].sent /\ row.msg = m
  BY DEF StreamRows
<1>3. stream' = [stream EXCEPT ![c] = row]
  OBVIOUS
<1> HIDE DEF row
<1> QED
  BY <1>1, <1>2, <1>3, RowReplaced, Zenon

(* The queue is replaced by the commands that are pending and not sent. *)
LEMMA QueueRow ==
  ASSUME stream \in [Conns -> StreamRows], NEW c \in Conns, NEW q \in SUBSET Keys, NEW p \in Pcs,
         stream' = [stream EXCEPT ![c].queue = q, ![c].pc = p]
  PROVE  Becomes(c, p, q, stream[c].sent, stream[c].msg)
<1> DEFINE row == [stream[c] EXCEPT !.queue = q, !.pc = p]
<1> stream[c] \in StreamRows
  OBVIOUS
<1>1. row \in StreamRows
  BY ZenonT(40) DEF StreamRows, Pcs
<1>2. row.pc = p /\ row.queue = q /\ row.sent = stream[c].sent /\ row.msg = stream[c].msg
  BY DEF StreamRows, Pcs
<1>3. stream' = [stream EXCEPT ![c] = row]
  OBVIOUS
<1> HIDE DEF row
<1> QED
  BY <1>1, <1>2, <1>3, RowReplaced, Zenon

(* A command is sent on the stream. *)
LEMMA SentRow ==
  ASSUME stream \in [Conns -> StreamRows], NEW c \in Conns, NEW k \in Keys,
         stream' = [stream EXCEPT ![c].sent = @ \union {k}, ![c].msg = k, ![c].pc = "marking"]
  PROVE  Becomes(c, "marking", stream[c].queue, stream[c].sent \union {k}, k)
<1> DEFINE row == [stream[c] EXCEPT !.sent = @ \union {k}, !.msg = k, !.pc = "marking"]
<1> stream[c] \in StreamRows
  OBVIOUS
<1>1. row \in StreamRows
  BY ZenonT(40) DEF StreamRows
<1>2. row.pc = "marking" /\ row.queue = stream[c].queue /\ row.sent = stream[c].sent \union {k} /\ row.msg = k
  BY DEF StreamRows
<1>3. stream' = [stream EXCEPT ![c] = row]
  OBVIOUS
<1> HIDE DEF row
<1> QED
  BY <1>1, <1>2, <1>3, RowReplaced, Zenon

(* A command is taken from the queue. *)
LEMMA UnqueueRow ==
  ASSUME stream \in [Conns -> StreamRows], NEW c \in Conns, NEW k \in Keys, Unqueue(c, k)
  PROVE  Becomes(c, IF stream[c].queue = {k} THEN "loop" ELSE "sending",
                 stream[c].queue \ {k}, stream[c].sent, None)
<1> DEFINE p == IF stream[c].queue = {k} THEN "loop" ELSE "sending"
           row == [stream[c] EXCEPT !.queue = @ \ {k}, !.msg = None, !.pc = p]
<1> stream[c] \in StreamRows
  OBVIOUS
<1>1. row \in StreamRows
  BY ZenonT(40) DEF StreamRows
<1>2. row.pc = p /\ row.queue = stream[c].queue \ {k} /\ row.sent = stream[c].sent /\ row.msg = None
  BY DEF StreamRows
<1>3. stream' = [stream EXCEPT ![c] = row]
  BY ZenonT(40) DEF Unqueue
<1> HIDE DEF row
<1> QED
  BY <1>1, <1>2, <1>3, RowReplaced, Zenon

(* Connect returns. *)
LEMMA LeaveRow ==
  ASSUME stream \in [Conns -> StreamRows], NEW c \in Conns, Leave(c)
  PROVE  Becomes(c, "ended", {}, {}, None)
<1> DEFINE row == [NoStream EXCEPT !.pc = "ended"]
<1> stream[c] \in StreamRows
  OBVIOUS
<1>1. row \in StreamRows
  BY DEF StreamRows, NoStream
<1>2. row.pc = "ended" /\ row.queue = {} /\ row.sent = {} /\ row.msg = None
  BY DEF StreamRows, NoStream
<1>3. stream' = [stream EXCEPT ![c] = row]
  BY DEF Leave
<1> HIDE DEF row
<1> QED
  BY <1>1, <1>2, <1>3, RowReplaced, Zenon

-----------------------------------------------------------------------------
(* What the statements do to the row of a command.                           *)

(* MarkDispatched leaves a command that is settled, or that is not there, as *)
(* it is.                                                                    *)
Keeps ==
  /\ cmd' \in [Keys -> CommandRows]
  /\ \A j \in Keys : \/ cmd'[j].status = cmd[j].status
                     \/ /\ cmd[j].status \in {"queued", "dispatched"}
                        /\ cmd'[j].status \in {"queued", "dispatched"}

(* Only the status of command k becomes s. *)
StatusBecomes(k, s) ==
  /\ cmd' \in [Keys -> CommandRows]
  /\ cmd'[k].status = s
  /\ \A j \in Keys : j # k => cmd'[j].status = cmd[j].status

(* A row that is replaced by one of the right type. *)
LEMMA CommandReplaced ==
  ASSUME cmd \in [Keys -> CommandRows], NEW k \in Keys, NEW row \in CommandRows,
         cmd' = [cmd EXCEPT ![k] = row], NEW s, row.status = s
  PROVE  StatusBecomes(k, s)
BY Zenon DEF StatusBecomes

(* The statement of MarkDispatched. *)
LEMMA MarkKeeps ==
  ASSUME cmd \in [Keys -> CommandRows], NEW k \in Keys, MarkDispatched(k)
  PROVE  Keeps
<1>1. CASE cmd[k].status \in {"queued", "dispatched"}
  <2> DEFINE row == [cmd[k] EXCEPT !.status = "dispatched"]
  <2>1. cmd[k] \in CommandRows
    OBVIOUS
  <2>2. row \in CommandRows
    BY <2>1 DEF CommandRows
  <2>3. row.status = "dispatched"
    BY <2>1 DEF CommandRows
  <2>4. cmd' = [cmd EXCEPT ![k] = row]
    BY <1>1, Zenon DEF MarkDispatched
  <2> HIDE DEF row
  <2>5. StatusBecomes(k, "dispatched")
    BY <2>2, <2>3, <2>4, CommandReplaced, Zenon
  <2> QED
    BY <1>1, <2>5, Zenon DEF Keeps, StatusBecomes
<1>2. CASE cmd[k].status \notin {"queued", "dispatched"}
  BY <1>2, Zenon DEF MarkDispatched, Keeps
<1> QED
  BY <1>1, <1>2

(* The statement that completes a command. *)
LEMMA CompleteSettles ==
  ASSUME cmd \in [Keys -> CommandRows], NEW k \in Keys, NEW s \in Final, Complete(k, s)
  PROVE  \/ Terminal(k) /\ cmd' = cmd
         \/ ~Terminal(k) /\ StatusBecomes(k, s)
<1> DEFINE row == [status |-> s, password |-> FALSE]
<1>1. row \in CommandRows
  BY DEF CommandRows
<1>2. row.status = s
  OBVIOUS
<1>3. Terminal(k) \/ cmd' = [cmd EXCEPT ![k] = row]
  BY Zenon DEF Complete
<1>4. Terminal(k) => cmd' = cmd
  BY Zenon DEF Complete
<1> HIDE DEF row
<1> QED
  BY <1>1, <1>2, <1>3, <1>4, CommandReplaced, Zenon

(* The insertion of a command. *)
LEMMA InsertQueues ==
  ASSUME cmd \in [Keys -> CommandRows], NEW k \in Keys,
         cmd' = [cmd EXCEPT ![k] = [status |-> "queued", password |-> Kind[k] \in WithPassword]]
  PROVE  StatusBecomes(k, "queued")
<1> DEFINE row == [status |-> "queued", password |-> Kind[k] \in WithPassword]
<1>1. row \in CommandRows
  BY SMT, SMTT(30) DEF CommandRows
<1>2. row.status = "queued"
  OBVIOUS
<1>3. cmd' = [cmd EXCEPT ![k] = row]
  OBVIOUS
<1> HIDE DEF row
<1> QED
  BY <1>1, <1>2, <1>3, CommandReplaced, Zenon

-----------------------------------------------------------------------------
(* Types.                                                                    *)

StoreOK ==
  /\ cmd \in [Keys -> CommandRows]
  /\ connRow \in [id : Conns \union {None}, status : {"connected", "disconnected"},
                  fresh : BOOLEAN]
  /\ nodeOnline \in BOOLEAN
  /\ claimed \subseteq Keys \X Conns
  /\ vmRow \in {"none", "running", "stopped"}
  /\ listed \subseteq Keys

GatewayOK == registered \in Conns \union {None} /\ stream \in [Conns -> StreamRows]

NetworkOK ==
  toAgent \in [Conns -> SUBSET Keys] /\ toGateway \in [Conns -> SUBSET (Keys \X Conns)]

AgentOK ==
  /\ agentConn \in Conns \union {None}
  /\ opened \in 0 .. MaxConns
  /\ done \in [Keys -> {"none", "ok", "error"}]
  /\ answered \subseteq Keys \X Conns
  /\ vm \in {"none", "running", "stopped"}

CallOK ==
  /\ call \in [Callers -> [pc : {"idle", "mark", "poll"}, key : Keys \union {None}]]
  /\ told \subseteq Keys \X ({"conflict"} \union Final)
  /\ issues \in 0 .. MaxIssues /\ faults \in 0 .. MaxFaults

(* The types by the process that owns the state. *)
LEMMA TypesByOwner == TypeOK <=> StoreOK /\ GatewayOK /\ NetworkOK /\ AgentOK /\ CallOK
BY Zenon DEF TypeOK, StoreOK, GatewayOK, NetworkOK, AgentOK, CallOK

(* The same, of the next state. *)
LEMMA NextTypesByOwner ==
  TypeOK' <=> StoreOK' /\ GatewayOK' /\ NetworkOK' /\ AgentOK' /\ CallOK'
BY Zenon DEF TypeOK, StoreOK, GatewayOK, NetworkOK, AgentOK, CallOK

(* What is not written keeps its type and shape. *)
LEMMA Frames ==
  ASSUME Shape
  PROVE  /\ StoreOK /\ GatewayOK /\ NetworkOK /\ AgentOK /\ CallOK
         /\ UNCHANGED storeVars => StoreOK'
         /\ UNCHANGED gatewayVars => GatewayOK' /\ MessageShape'
         /\ UNCHANGED networkVars => NetworkOK'
         /\ UNCHANGED agentVars => AgentOK' /\ AgentShape'
         /\ UNCHANGED <<callVars, faults>> => CallOK' /\ CallShape'
<1>1. StoreOK /\ GatewayOK /\ NetworkOK /\ AgentOK /\ CallOK
  BY TypesByOwner, Zenon DEF Shape
<1>2. UNCHANGED storeVars => StoreOK'
  BY <1>1, Zenon DEF StoreOK, storeVars
<1>3. UNCHANGED gatewayVars => GatewayOK' /\ MessageShape'
  BY <1>1, Zenon DEF GatewayOK, gatewayVars, Shape, MessageShape
<1>4. UNCHANGED networkVars => NetworkOK'
  BY <1>1, Zenon DEF NetworkOK, networkVars
<1>5. UNCHANGED agentVars => AgentOK' /\ AgentShape'
  BY <1>1, Zenon DEF AgentOK, agentVars, Shape, AgentShape
<1>6. UNCHANGED <<callVars, faults>> => CallOK' /\ CallShape'
  BY <1>1, Zenon DEF CallOK, callVars, Shape, CallShape
<1> QED
  BY <1>1, <1>2, <1>3, <1>4, <1>5, <1>6, Zenon

(* A stream whose row is written keeps the shape of its message. *)
LEMMA RowShape ==
  ASSUME Shape, NEW c \in Conns, NEW p, NEW q, NEW s, NEW m, Becomes(c, p, q, s, m),
         registered' \in Conns \union {None},
         p = "marking" => m \in Keys, p \in {"claimed", "saved"} => m \in Keys \X Conns
  PROVE  GatewayOK' /\ MessageShape'
<1>1. GatewayOK'
  BY Zenon DEF GatewayOK, Becomes
<1>2. ASSUME NEW d \in Conns
      PROVE  /\ stream'[d].pc = "marking" => stream'[d].msg \in Keys
             /\ stream'[d].pc \in {"claimed", "saved"} => stream'[d].msg \in Keys \X Conns
  BY Zenon DEF Becomes, Others, Shape, MessageShape
<1> QED
  BY <1>1, <1>2, Zenon DEF MessageShape

(* The types and shapes together. *)
LEMMA ShapeHolds ==
  ASSUME StoreOK', GatewayOK', MessageShape', NetworkOK', AgentOK', AgentShape', CallOK', CallShape'
  PROVE  Shape'
BY NextTypesByOwner, Zenon DEF Shape

(* A call that returns. *)
LEMMA CallReturns ==
  ASSUME Shape, NEW w \in Callers, call' = [call EXCEPT ![w] = Idle],
         told' \subseteq Keys \X ({"conflict"} \union Final), issues' \in 0 .. MaxIssues,
         faults' \in 0 .. MaxFaults
  PROVE  CallOK' /\ CallShape'
<1>1. call \in [Callers -> [pc : {"idle", "mark", "poll"}, key : Keys \union {None}]]
  BY Frames, Zenon DEF CallOK
<1>2. Idle \in [pc : {"idle", "mark", "poll"}, key : Keys \union {None}] /\ Idle.pc = "idle"
  BY DEF Idle
<1>3. CallOK'
  BY <1>1, <1>2, Zenon DEF CallOK
<1>4. CallShape'
  BY <1>1, <1>2, Zenon DEF CallShape, Shape
<1> QED
  BY <1>3, <1>4

(* A call that goes on. *)
LEMMA CallGoesOn ==
  ASSUME Shape, NEW w \in Callers, NEW p \in {"mark", "poll"}, NEW k \in Keys,
         call' = [call EXCEPT ![w] = [pc |-> p, key |-> k]],
         told' = told, issues' \in 0 .. MaxIssues, faults' = faults
  PROVE  CallOK' /\ CallShape'
<1> DEFINE row == [pc |-> p, key |-> k]
<1>1. call \in [Callers -> [pc : {"idle", "mark", "poll"}, key : Keys \union {None}]]
      /\ CallOK
  BY Frames, Zenon DEF CallOK
<1>2. row \in [pc : {"idle", "mark", "poll"}, key : Keys \union {None}] /\ row.key = k
  OBVIOUS
<1>3. call' = [call EXCEPT ![w] = row]
  OBVIOUS
<1> HIDE DEF row
<1>4. CallOK'
  <2>1. call' \in [Callers -> [pc : {"idle", "mark", "poll"}, key : Keys \union {None}]]
    BY <1>1, <1>2, <1>3, Zenon
  <2> QED
    BY <1>1, <2>1, Zenon DEF CallOK
<1>5. CallShape'
  BY <1>1, <1>2, <1>3, Zenon DEF CallShape, Shape
<1> QED
  BY <1>4, <1>5

(* What CreateCommand does to the row, and that it keeps the shape. *)
LEMMA CreateStep ==
  ASSUME Shape, NEW w \in Callers, NEW k \in Keys, CreateCommand(w, k)
  PROVE  /\ Shape'
         /\ \/ cmd' = cmd
            \/ cmd[k].status = "absent" /\ StatusBecomes(k, "queued")
<1> USE RunmanAssumption
<1>1. StoreOK /\ CallOK /\ CallShape
  BY Frames, Zenon DEF Shape
<1>2. GatewayOK' /\ MessageShape' /\ NetworkOK' /\ AgentOK' /\ AgentShape'
  BY Frames, Zenon DEF CreateCommand
<1>3. \/ cmd' = cmd
      \/ cmd[k].status = "absent" /\ StatusBecomes(k, "queued")
  BY <1>1, InsertQueues, Zenon DEF CreateCommand, StoreOK
<1>4. StoreOK'
  BY <1>1, <1>3, Zenon DEF CreateCommand, StoreOK, StatusBecomes
<1>5. issues' \in 0 .. MaxIssues
  BY <1>1, SMT, SMTT(30) DEF CreateCommand, CallOK
<1>6. faults' = faults
  BY Zenon DEF CreateCommand
<1>7. cmd[k].status \in {"absent", "queued", "dispatched"} \union Final
  BY <1>1 DEF StoreOK, CommandRows
<1>8. ASSUME NEW s, AfterCreate(w, k, s), told' = told PROVE CallOK' /\ CallShape'
  <2> DEFINE p == IF s = "queued" THEN "mark" ELSE "poll"
  <2>1. CASE Healthy
    <3>1. call' = [call EXCEPT ![w] = [pc |-> p, key |-> k]] /\ p \in {"mark", "poll"}
      BY <1>8, <2>1, Zenon DEF AfterCreate
    <3> QED
      BY <1>5, <1>6, <1>8, <3>1, CallGoesOn, Zenon
  <2>2. CASE ~Healthy
    BY <1>1, <1>5, <1>6, <1>8, <2>2, Zenon DEF AfterCreate, CallOK, CallShape
  <2> QED
    BY <2>1, <2>2
<1>9. ASSUME NEW a \in {"conflict"} \union Final, told' = told \union {<<k, a>>}, call' = call
      PROVE  CallOK' /\ CallShape'
  <2>1. <<k, a>> \in Keys \X ({"conflict"} \union Final)
    OBVIOUS
  <2> QED
    BY <1>1, <1>5, <1>6, <1>9, <2>1, Zenon DEF CallOK, CallShape
<1>10. CallOK' /\ CallShape'
  BY <1>7, <1>8, <1>9, Zenon DEF CreateCommand, Terminal
<1> QED
  BY <1>2, <1>3, <1>4, <1>10, ShapeHolds, Zenon

(* What the later steps of a call do to the row, and that they keep the shape. *)
LEMMA CallSteps ==
  ASSUME Shape, NEW w \in Callers, MarkIssued(w) \/ Poll(w) \/ Timeout(w) \/ WorkerCrashes(w)
  PROVE  Shape' /\ (cmd' = cmd \/ Keeps)
<1> USE RunmanAssumption
<1>1. StoreOK /\ CallOK /\ CallShape
  BY Frames, Zenon DEF Shape
<1>2. GatewayOK' /\ MessageShape' /\ NetworkOK' /\ AgentOK' /\ AgentShape'
  BY Frames, Zenon DEF MarkIssued, Poll, Timeout, WorkerCrashes
<1>3. CASE MarkIssued(w)
  <2>1. call[w].key \in Keys
    BY <1>1, <1>3, Zenon DEF MarkIssued, CallShape
  <2>2. Keeps
    BY <1>1, <1>3, <2>1, MarkKeeps, Zenon DEF MarkIssued, StoreOK
  <2>3. StoreOK'
    BY <1>1, <1>3, <2>2, Zenon DEF MarkIssued, StoreOK, Keeps
  <2>4. call' = [call EXCEPT ![w] = [pc |-> "poll", key |-> call[w].key]]
    <3>1. call[w] \in [pc : {"idle", "mark", "poll"}, key : Keys \union {None}]
      BY <1>1 DEF CallOK
    <3>2. [call[w] EXCEPT !.pc = "poll"] = [pc |-> "poll", key |-> call[w].key]
      BY <3>1, SMT, SMTT(30)
    <3> QED
      BY <1>3, <3>2, Zenon DEF MarkIssued
  <2>5. CallOK' /\ CallShape'
    BY <1>1, <1>3, <2>1, <2>4, CallGoesOn, Zenon DEF MarkIssued, CallOK
  <2> QED
    BY <1>2, <2>2, <2>3, <2>5, ShapeHolds, Zenon
<1>4. CASE Poll(w)
  <2>1. call[w].key \in Keys
    BY <1>1, <1>4, Zenon DEF Poll, CallShape
  <2>2. <<call[w].key, cmd[call[w].key].status>> \in Keys \X ({"conflict"} \union Final)
    BY <1>4, <2>1, Zenon DEF Poll, Terminal
  <2>3. CallOK' /\ CallShape'
    BY <1>1, <1>4, <2>2, CallReturns, Zenon DEF Poll, CallOK
  <2>4. StoreOK' /\ cmd' = cmd
    BY <1>4, Frames, Zenon DEF Poll, storeVars
  <2> QED
    BY <1>2, <2>3, <2>4, ShapeHolds, Zenon
<1>5. CASE Timeout(w)
  <2>1. CallOK' /\ CallShape'
    BY <1>1, <1>5, CallReturns, Zenon DEF Timeout, CallOK
  <2>2. StoreOK' /\ cmd' = cmd
    BY <1>5, Frames, Zenon DEF Timeout, storeVars
  <2> QED
    BY <1>2, <2>1, <2>2, ShapeHolds, Zenon
<1>6. CASE WorkerCrashes(w)
  <2>1. faults' \in 0 .. MaxFaults
    BY <1>1, <1>6, SMT, SMTT(30) DEF WorkerCrashes, CallOK
  <2>2. CallOK' /\ CallShape'
    BY <1>1, <1>6, <2>1, CallReturns, Zenon DEF WorkerCrashes, CallOK
  <2>3. StoreOK' /\ cmd' = cmd
    BY <1>6, Frames, Zenon DEF WorkerCrashes, storeVars
  <2> QED
    BY <1>2, <2>2, <2>3, ShapeHolds, Zenon
<1> QED
  BY <1>3, <1>4, <1>5, <1>6

(* Connect writes the row of a stream that was not opened. *)
LEMMA ConnectStep ==
  ASSUME Shape, Connect
  PROVE  /\ Shape' /\ opened + 1 \in Conns
         /\ Becomes(opened + 1, "stored", stream[opened + 1].queue, stream[opened + 1].sent,
                    stream[opened + 1].msg)
<1> USE RunmanAssumption
<1> DEFINE c == opened + 1
<1>1. StoreOK /\ GatewayOK /\ AgentOK
  BY Frames, Zenon
<1>2. c \in Conns /\ c \in 0 .. MaxConns
  BY <1>1, SMT, SMTT(30) DEF Connect, AgentOK, Conns
<1>3. /\ opened' = c /\ agentConn' = c /\ Goto(c, "stored")
      /\ connRow' = [connRow EXCEPT !.id = c, !.status = "connected"]
      /\ UNCHANGED <<cmd, nodeOnline, claimed, vmRow, listed, registered, done, answered, vm>>
      /\ UNCHANGED networkVars /\ UNCHANGED <<callVars, faults>>
  BY Zenon DEF Connect
<1> HIDE DEF c
<1>4. Becomes(c, "stored", stream[c].queue, stream[c].sent, stream[c].msg)
  <2>1. "stored" \in Pcs
    BY DEF Pcs
  <2> QED
    BY <1>1, <1>2, <1>3, <2>1, GotoRow, Zenon DEF GatewayOK
<1>5. GatewayOK' /\ MessageShape'
  <2>1. registered' \in Conns \union {None}
    BY <1>1, <1>3, Zenon DEF GatewayOK
  <2>2. "stored" # "marking" /\ "stored" \notin {"claimed", "saved"}
    OBVIOUS
  <2> QED
    BY <1>2, <1>4, <2>1, <2>2, RowShape, Zenon
<1>6. connRow' \in [id : Conns \union {None}, status : {"connected", "disconnected"},
                    fresh : BOOLEAN]
  BY <1>1, <1>2, <1>3, ZenonT(40) DEF StoreOK
<1>7. StoreOK'
  BY <1>1, <1>3, <1>6, Zenon DEF StoreOK
<1>8. AgentOK' /\ AgentShape'
  BY <1>1, <1>2, <1>3, Zenon DEF AgentOK, AgentShape
<1>9. NetworkOK' /\ CallOK' /\ CallShape'
  BY <1>3, Frames, Zenon
<1> QED
  BY <1>2, <1>4, <1>5, <1>7, <1>8, <1>9, ShapeHolds, Zenon DEF c

(* Register, and the first step of the clean-up. *)
LEMMA RegisterStep ==
  ASSUME Shape, NEW c \in Conns, Register(c) \/ Unregister(c)
  PROVE  /\ Shape'
         /\ \E l \in {"registered", "unregistered"} :
              Becomes(c, l, stream[c].queue, stream[c].sent, stream[c].msg)
<1>1. GatewayOK
  BY Frames, Zenon
<1>2. StoreOK' /\ NetworkOK' /\ AgentOK' /\ AgentShape' /\ CallOK' /\ CallShape'
  BY Frames, Zenon DEF Register, Unregister
<1>3. registered' \in Conns \union {None}
  BY <1>1, Zenon DEF Register, Unregister, GatewayOK
<1>4. PICK l \in {"registered", "unregistered"} : Goto(c, l)
  BY Zenon DEF Register, Unregister
<1>5. l \in Pcs /\ l # "marking" /\ l \notin {"claimed", "saved"}
  BY DEF Pcs
<1>6. Becomes(c, l, stream[c].queue, stream[c].sent, stream[c].msg)
  BY <1>1, <1>4, <1>5, GotoRow, Zenon DEF GatewayOK
<1>7. GatewayOK' /\ MessageShape'
  BY <1>3, <1>5, <1>6, RowShape, Zenon
<1> QED
  BY <1>2, <1>6, <1>7, ShapeHolds, Zenon

(* The stream's queue becomes what is pending and was not sent on it. *)
LEMMA ReadStep ==
  ASSUME Shape, NEW c \in Conns, ReadPending(c)
  PROVE  /\ Shape'
         /\ \E l \in {"loop", "sending"} :
              Becomes(c, l, Pending \ stream[c].sent, stream[c].sent, stream[c].msg)
<1> DEFINE q == Pending \ stream[c].sent
           l == IF q = {} THEN "loop" ELSE "sending"
<1>1. GatewayOK
  BY Frames, Zenon
<1>2. StoreOK' /\ NetworkOK' /\ AgentOK' /\ AgentShape' /\ CallOK' /\ CallShape'
  BY Frames, Zenon DEF ReadPending
<1>3. registered' \in Conns \union {None}
  BY <1>1, Zenon DEF ReadPending, GatewayOK
<1>4. stream' = [stream EXCEPT ![c].queue = q, ![c].pc = l]
  BY Zenon DEF ReadPending
<1>5. q \in SUBSET Keys
  BY Zenon DEF Pending, Unsettled
<1>6. l \in {"loop", "sending"} /\ l \in Pcs /\ l # "marking" /\ l \notin {"claimed", "saved"}
  BY DEF Pcs
<1> HIDE DEF q, l
<1>7. Becomes(c, l, q, stream[c].sent, stream[c].msg)
  BY <1>1, <1>4, <1>5, <1>6, QueueRow, Zenon DEF GatewayOK
<1>8. GatewayOK' /\ MessageShape'
  BY <1>3, <1>6, <1>7, RowShape, Zenon
<1> QED
  BY <1>2, <1>6, <1>7, <1>8, ShapeHolds, Zenon DEF q

(* A command of the queue that cannot be encoded. *)
LEMMA RejectStep ==
  ASSUME Shape, NEW c \in Conns, NEW k \in Keys, RejectCommand(c, k)
  PROVE  /\ Shape'
         /\ \/ Terminal(k) /\ cmd' = cmd
            \/ ~Terminal(k) /\ StatusBecomes(k, "failed")
         /\ \E l \in {"loop", "sending"} :
              Becomes(c, l, stream[c].queue \ {k}, stream[c].sent, None)
<1> DEFINE l == IF stream[c].queue = {k} THEN "loop" ELSE "sending"
<1>1. StoreOK /\ GatewayOK
  BY Frames, Zenon
<1>2. NetworkOK' /\ AgentOK' /\ AgentShape' /\ CallOK' /\ CallShape'
  BY Frames, Zenon DEF RejectCommand
<1>3. registered' \in Conns \union {None}
  BY <1>1, Zenon DEF RejectCommand, GatewayOK
<1>4. "failed" \in Final
  BY DEF Final
<1>5. \/ Terminal(k) /\ cmd' = cmd
      \/ ~Terminal(k) /\ StatusBecomes(k, "failed")
  BY <1>1, <1>4, CompleteSettles, Zenon DEF RejectCommand, StoreOK
<1>6. StoreOK'
  BY <1>1, <1>5, Zenon DEF RejectCommand, StoreOK, StatusBecomes
<1>7. l \in {"loop", "sending"} /\ l # "marking" /\ l \notin {"claimed", "saved"}
  OBVIOUS
<1>8. Becomes(c, l, stream[c].queue \ {k}, stream[c].sent, None)
  BY <1>1, UnqueueRow, Zenon DEF RejectCommand, GatewayOK
<1> HIDE DEF l
<1>9. GatewayOK' /\ MessageShape'
  BY <1>3, <1>7, <1>8, RowShape, Zenon
<1> QED
  BY <1>2, <1>5, <1>6, <1>7, <1>8, <1>9, ShapeHolds, Zenon

(* A command is sent. *)
LEMMA SendStepRow ==
  ASSUME Shape, NEW c \in Conns, NEW k \in Keys, SendCommand(c, k)
  PROVE  /\ Shape'
         /\ Becomes(c, "marking", stream[c].queue, stream[c].sent \union {k}, k)
<1>1. GatewayOK /\ NetworkOK
  BY Frames, Zenon
<1>2. StoreOK' /\ AgentOK' /\ AgentShape' /\ CallOK' /\ CallShape'
  BY Frames, Zenon DEF SendCommand
<1>3. registered' \in Conns \union {None}
  BY <1>1, Zenon DEF SendCommand, GatewayOK
<1>4. Becomes(c, "marking", stream[c].queue, stream[c].sent \union {k}, k)
  BY <1>1, SentRow, Zenon DEF SendCommand, GatewayOK
<1>5. GatewayOK' /\ MessageShape'
  <2>1. "marking" \notin {"claimed", "saved"}
    OBVIOUS
  <2> QED
    BY <1>3, <1>4, <2>1, RowShape, Zenon
<1>6. NetworkOK'
  BY <1>1, Zenon DEF SendCommand, NetworkOK
<1> QED
  BY <1>2, <1>4, <1>5, <1>6, ShapeHolds, Zenon

(* A command that was sent is marked. *)
LEMMA MarkSentStep ==
  ASSUME Shape, NEW c \in Conns, MarkSent(c)
  PROVE  /\ Shape' /\ Keeps /\ stream[c].msg \in Keys
         /\ \E l \in {"loop", "sending"} :
              Becomes(c, l, stream[c].queue \ {stream[c].msg}, stream[c].sent, None)
<1> DEFINE k == stream[c].msg
           l == IF stream[c].queue = {k} THEN "loop" ELSE "sending"
<1>1. StoreOK /\ GatewayOK
  BY Frames, Zenon
<1>2. NetworkOK' /\ AgentOK' /\ AgentShape' /\ CallOK' /\ CallShape'
  BY Frames, Zenon DEF MarkSent
<1>3. registered' \in Conns \union {None}
  BY <1>1, Zenon DEF MarkSent, GatewayOK
<1>4. k \in Keys
  BY Zenon DEF MarkSent, Shape, MessageShape
<1>5. Keeps
  BY <1>1, <1>4, MarkKeeps, Zenon DEF MarkSent, StoreOK
<1>6. StoreOK'
  BY <1>1, <1>5, Zenon DEF MarkSent, StoreOK, Keeps
<1>7. l \in {"loop", "sending"} /\ l # "marking" /\ l \notin {"claimed", "saved"}
  OBVIOUS
<1>8. Becomes(c, l, stream[c].queue \ {k}, stream[c].sent, None)
  BY <1>1, <1>4, UnqueueRow, Zenon DEF MarkSent, GatewayOK
<1> HIDE DEF l
<1>9. GatewayOK' /\ MessageShape'
  BY <1>3, <1>7, <1>8, RowShape, Zenon
<1> QED
  BY <1>2, <1>4, <1>5, <1>6, <1>7, <1>8, <1>9, ShapeHolds, Zenon

(* A heartbeat, and time: no stream and no command changes. *)
LEMMA HeartbeatSteps ==
  ASSUME Shape, (\E c \in Conns : HandleHeartbeat(c)) \/ TimeStep
  PROVE  Shape'
<1>1. StoreOK /\ AgentOK
  BY Frames, Zenon
<1>2. /\ GatewayOK' /\ MessageShape' /\ NetworkOK' /\ AgentOK' /\ AgentShape' /\ CallOK'
      /\ CallShape'
  BY Frames, Zenon DEF HandleHeartbeat, TimeStep, HeartbeatAges, ExpireHeartbeat
<1>3. connRow' \in [id : Conns \union {None}, status : {"connected", "disconnected"},
                    fresh : BOOLEAN]
  BY <1>1, ZenonT(40) DEF HandleHeartbeat, TimeStep, HeartbeatAges, ExpireHeartbeat, StoreOK
<1>4. nodeOnline' \in BOOLEAN
  BY <1>1, Zenon DEF HandleHeartbeat, TimeStep, HeartbeatAges, ExpireHeartbeat, StoreOK
<1>5. vmRow' \in {"none", "running", "stopped"}
  BY <1>1, Zenon DEF HandleHeartbeat, TimeStep, HeartbeatAges, ExpireHeartbeat, StoreOK, AgentOK
<1>6. UNCHANGED <<cmd, claimed, listed>>
  BY Zenon DEF HandleHeartbeat, TimeStep, HeartbeatAges, ExpireHeartbeat
<1>7. StoreOK'
  BY <1>1, <1>3, <1>4, <1>5, <1>6, Zenon DEF StoreOK
<1> QED
  BY <1>2, <1>7, ShapeHolds, Zenon

(* A message is claimed, or dropped. *)
LEMMA ClaimStepRow ==
  ASSUME Shape, NEW c \in Conns, NEW m \in toGateway[c], ClaimMessage(c, m)
  PROVE  /\ Shape' /\ m \in Keys \X Conns
         /\ \/ m \in claimed /\ UNCHANGED stream
            \/ Becomes(c, "claimed", stream[c].queue, stream[c].sent, m)
<1>1. StoreOK /\ GatewayOK /\ NetworkOK
  BY Frames, Zenon
<1>2. AgentOK' /\ AgentShape' /\ CallOK' /\ CallShape'
  BY Frames, Zenon DEF ClaimMessage
<1>3. registered' = registered /\ registered \in Conns \union {None}
  BY <1>1, Zenon DEF ClaimMessage, GatewayOK
<1>4. m \in Keys \X Conns
  BY <1>1, Zenon DEF NetworkOK
<1>5. \/ m \in claimed /\ UNCHANGED stream
      \/ Becomes(c, "claimed", stream[c].queue, stream[c].sent, m)
  BY <1>1, <1>4, ClaimRow, Zenon DEF ClaimMessage, GatewayOK
<1>6. GatewayOK' /\ MessageShape'
  <2>1. CASE UNCHANGED stream
    BY <1>3, <2>1, Frames, Zenon DEF gatewayVars
  <2>2. CASE Becomes(c, "claimed", stream[c].queue, stream[c].sent, m)
    <3>1. "claimed" # "marking"
      OBVIOUS
    <3> QED
      BY <1>3, <1>4, <2>2, <3>1, RowShape, Zenon
  <2> QED
    BY <1>5, <2>1, <2>2
<1>7. StoreOK'
  BY <1>1, <1>4, Zenon DEF ClaimMessage, StoreOK
<1>8. NetworkOK'
  BY <1>1 DEF ClaimMessage, NetworkOK
<1> QED
  BY <1>2, <1>4, <1>5, <1>6, <1>7, <1>8, ShapeHolds, Zenon

(* The handler of a claimed answer completes its command. *)
LEMMA FinishRow ==
  ASSUME Shape, NEW c \in Conns, HandleResult(c) \/ CompleteList(c)
  PROVE  /\ Shape' /\ stream[c].msg \in Keys \X Conns /\ stream[c].pc \in {"claimed", "saved"}
         /\ LET k == stream[c].msg[1]
                s == IF stream[c].pc = "saved" \/ done[k] = "ok" THEN "succeeded" ELSE "failed"
            IN  \/ Terminal(k) /\ cmd' = cmd
                \/ ~Terminal(k) /\ StatusBecomes(k, s)
         /\ Becomes(c, "loop", stream[c].queue, stream[c].sent, None)
<1> DEFINE k == stream[c].msg[1]
           s == IF stream[c].pc = "saved" \/ done[k] = "ok" THEN "succeeded" ELSE "failed"
<1>1. StoreOK /\ GatewayOK
  BY Frames, Zenon
<1>2. NetworkOK' /\ AgentOK' /\ AgentShape' /\ CallOK' /\ CallShape'
  BY Frames, Zenon DEF HandleResult, CompleteList
<1>3. registered' \in Conns \union {None}
  BY <1>1, Zenon DEF HandleResult, CompleteList, GatewayOK
<1>4. stream[c].msg \in Keys \X Conns /\ stream[c].pc \in {"claimed", "saved"}
  BY Zenon DEF HandleResult, CompleteList, Shape, MessageShape
<1>5. k \in Keys
  BY <1>4
<1>6. s \in Final
  BY DEF Final
<1>7. Complete(k, s)
  <2>1. CASE HandleResult(c)
    <3>1. stream[c].pc # "saved"
      BY <2>1, Zenon DEF HandleResult
    <3> QED
      BY <2>1, <3>1, Zenon DEF HandleResult
  <2>2. CASE CompleteList(c)
    BY <2>2, Zenon DEF CompleteList
  <2> QED
    BY <2>1, <2>2, Zenon
<1>8. Becomes(c, "loop", stream[c].queue, stream[c].sent, None)
  BY <1>1, LoopRow, Zenon DEF HandleResult, CompleteList, GatewayOK
<1>9. GatewayOK' /\ MessageShape'
  <2>1. "loop" # "marking" /\ "loop" \notin {"claimed", "saved"}
    OBVIOUS
  <2> QED
    BY <1>3, <1>8, <2>1, RowShape, Zenon
<1> HIDE DEF k, s
<1>10. \/ Terminal(k) /\ cmd' = cmd
       \/ ~Terminal(k) /\ StatusBecomes(k, s)
  BY <1>1, <1>5, <1>6, <1>7, CompleteSettles, Zenon DEF StoreOK
<1>11. StoreOK'
  BY <1>1, <1>10, Zenon DEF HandleResult, CompleteList, StoreOK, StatusBecomes
<1> QED
  BY <1>2, <1>4, <1>8, <1>9, <1>10, <1>11, ShapeHolds, Zenon DEF k, s

(* The list of port forwards is stored. *)
LEMMA SaveRow ==
  ASSUME Shape, NEW c \in Conns, SavePortForwards(c)
  PROVE  /\ Shape' /\ stream[c].msg \in Keys \X Conns
         /\ Becomes(c, "saved", stream[c].queue, stream[c].sent, stream[c].msg)
<1>1. StoreOK /\ GatewayOK
  BY Frames, Zenon
<1>2. NetworkOK' /\ AgentOK' /\ AgentShape' /\ CallOK' /\ CallShape'
  BY Frames, Zenon DEF SavePortForwards
<1>3. registered' \in Conns \union {None}
  BY <1>1, Zenon DEF SavePortForwards, GatewayOK
<1>4. stream[c].msg \in Keys \X Conns
  BY Zenon DEF SavePortForwards, Shape, MessageShape
<1>5. stream[c].msg[1] \in Keys
  BY <1>4
<1>6. "saved" \in Pcs /\ "saved" # "marking"
  BY DEF Pcs
<1>7. Becomes(c, "saved", stream[c].queue, stream[c].sent, stream[c].msg)
  BY <1>1, <1>6, GotoRow, Zenon DEF SavePortForwards, GatewayOK
<1>8. GatewayOK' /\ MessageShape'
  BY <1>3, <1>4, <1>6, <1>7, RowShape, Zenon
<1>9. StoreOK'
  BY <1>1, <1>5, Zenon DEF SavePortForwards, StoreOK
<1> QED
  BY <1>2, <1>4, <1>7, <1>8, <1>9, ShapeHolds, Zenon

(* Connect returns: after an error of the handler, or since the agent left. *)
LEMMA LeaveSteps ==
  ASSUME Shape, NEW c \in Conns, HandlerFails(c) \/ StreamEnds(c)
  PROVE  /\ Shape' /\ Becomes(c, "ended", {}, {}, None) /\ claimed' \subseteq claimed
         /\ toAgent' = [toAgent EXCEPT ![c] = {}] /\ toGateway' = [toGateway EXCEPT ![c] = {}]
<1> USE RunmanAssumption
<1>1. StoreOK /\ GatewayOK /\ NetworkOK /\ CallOK /\ CallShape
  BY Frames, Zenon DEF Shape
<1>2. AgentOK' /\ AgentShape'
  BY Frames, Zenon DEF HandlerFails, StreamEnds
<1>3. Leave(c) /\ registered' = registered
  BY Zenon DEF HandlerFails, StreamEnds
<1>4. Becomes(c, "ended", {}, {}, None)
  BY <1>1, <1>3, LeaveRow, Zenon DEF GatewayOK
<1>5. GatewayOK' /\ MessageShape'
  <2>1. "ended" # "marking" /\ "ended" \notin {"claimed", "saved"}
    OBVIOUS
  <2> QED
    BY <1>1, <1>3, <1>4, <2>1, RowShape, Zenon DEF GatewayOK
<1>6. toAgent' = [toAgent EXCEPT ![c] = {}] /\ toGateway' = [toGateway EXCEPT ![c] = {}]
  BY <1>3, Zenon DEF Leave
<1>7. NetworkOK'
  BY <1>1, <1>6 DEF NetworkOK
<1>8. claimed' \subseteq claimed
  BY Zenon DEF HandlerFails, StreamEnds, storeVars
<1>9. StoreOK'
  BY <1>1, <1>8, Zenon DEF HandlerFails, StreamEnds, StoreOK, storeVars
<1>10. UNCHANGED callVars
  BY Zenon DEF HandlerFails, StreamEnds
<1>11. faults' \in 0 .. MaxFaults
  BY <1>1, SMT, SMTT(30) DEF HandlerFails, StreamEnds, CallOK
<1>12. CallOK' /\ CallShape'
  BY <1>1, <1>10, <1>11, Zenon DEF CallOK, CallShape, callVars
<1> QED
  BY <1>2, <1>4, <1>5, <1>6, <1>7, <1>8, <1>9, <1>12, ShapeHolds, Zenon

(* The last step of the clean-up. *)
LEMMA DisconnectedStep ==
  ASSUME Shape, NEW c \in Conns, Disconnected(c)
  PROVE  /\ Shape' /\ toGateway' = [toGateway EXCEPT ![c] = {}]
         /\ Becomes(c, "closed", stream[c].queue, stream[c].sent, stream[c].msg)
<1>1. StoreOK /\ GatewayOK /\ NetworkOK /\ AgentOK /\ AgentShape
  BY Frames, Zenon DEF Shape
<1>2. CallOK' /\ CallShape'
  BY Frames, Zenon DEF Disconnected
<1>3. "closed" \in Pcs /\ "closed" # "marking" /\ "closed" \notin {"claimed", "saved"}
  BY DEF Pcs
<1>4. Becomes(c, "closed", stream[c].queue, stream[c].sent, stream[c].msg)
  BY <1>1, <1>3, GotoRow, Zenon DEF Disconnected, GatewayOK
<1>5. registered' \in Conns \union {None}
  BY <1>1, Zenon DEF Disconnected, GatewayOK
<1>6. GatewayOK' /\ MessageShape'
  BY <1>3, <1>4, <1>5, RowShape, Zenon
<1>7. toGateway' = [toGateway EXCEPT ![c] = {}] /\ toAgent' = toAgent
  BY Zenon DEF Disconnected
<1>8. NetworkOK'
  BY <1>1, <1>7 DEF NetworkOK
<1>9. connRow' \in [id : Conns \union {None}, status : {"connected", "disconnected"},
                    fresh : BOOLEAN]
  BY <1>1 DEF Disconnected, StoreOK
<1>10. StoreOK'
  BY <1>1, <1>9, Zenon DEF Disconnected, StoreOK
<1>11. AgentOK' /\ AgentShape'
  BY <1>1, Zenon DEF Disconnected, AgentOK, AgentShape
<1> QED
  BY <1>2, <1>4, <1>6, <1>7, <1>8, <1>10, <1>11, ShapeHolds, Zenon

(* A crash of the gateway ends every stream. *)
LEMMA CrashStep ==
  ASSUME Shape, GatewayCrashes
  PROVE  /\ Shape'
         /\ \A c \in Conns :
              /\ stream'[c].pc = (IF c <= opened THEN "closed" ELSE "none")
              /\ stream'[c].queue = {} /\ stream'[c].sent = {} /\ stream'[c].msg = None
              /\ toAgent'[c] = {} /\ toGateway'[c] = {}
<1> USE RunmanAssumption
<1> DEFINE row(c) == IF c <= opened THEN [NoStream EXCEPT !.pc = "closed"] ELSE NoStream
<1>1. StoreOK /\ GatewayOK /\ NetworkOK /\ AgentOK /\ CallOK /\ CallShape
  BY Frames, Zenon DEF Shape
<1>2. StoreOK'
  BY Frames, Zenon DEF GatewayCrashes
<1>3. stream' = [c \in Conns |-> row(c)]
  BY Zenon DEF GatewayCrashes
<1>4. ASSUME NEW c \in Conns
      PROVE  /\ row(c) \in StreamRows
             /\ row(c).pc = (IF c <= opened THEN "closed" ELSE "none")
             /\ row(c).queue = {} /\ row(c).sent = {} /\ row(c).msg = None
  BY DEF NoStream, StreamRows
<1> HIDE DEF row
<1>5. stream' \in [Conns -> StreamRows]
  BY <1>3, <1>4, Zenon
<1>6. ASSUME NEW c \in Conns
      PROVE  /\ stream'[c].pc = (IF c <= opened THEN "closed" ELSE "none")
             /\ stream'[c].queue = {} /\ stream'[c].sent = {} /\ stream'[c].msg = None
             /\ toAgent'[c] = {} /\ toGateway'[c] = {}
  <2>1. stream'[c] = row(c)
    BY <1>3, Zenon
  <2>2. toAgent'[c] = {} /\ toGateway'[c] = {}
    BY Zenon DEF GatewayCrashes
  <2> QED
    BY <1>4, <2>1, <2>2, Zenon
<1>7. GatewayOK'
  BY <1>5, Zenon DEF GatewayCrashes, GatewayOK
<1>8. MessageShape'
  BY <1>6 DEF MessageShape
<1>9. NetworkOK'
  BY DEF GatewayCrashes, NetworkOK
<1>10. AgentOK' /\ AgentShape'
  BY <1>1, Zenon DEF GatewayCrashes, AgentOK, AgentShape
<1>11. faults' \in 0 .. MaxFaults /\ UNCHANGED callVars
  BY <1>1, SMT, SMTT(30) DEF GatewayCrashes, CallOK
<1>12. CallOK' /\ CallShape'
  BY <1>1, <1>11, Zenon DEF CallOK, CallShape, callVars
<1> QED
  BY <1>2, <1>6, <1>7, <1>8, <1>9, <1>10, <1>12, ShapeHolds, Zenon

(* The agent leaves its stream. *)
LEMMA AgentLeavesStep ==
  ASSUME Shape, AgentLeaves
  PROVE  Shape'
<1> USE RunmanAssumption
<1>1. NetworkOK /\ AgentOK /\ CallOK /\ CallShape
  BY Frames, Zenon DEF Shape
<1>2. StoreOK' /\ GatewayOK' /\ MessageShape'
  BY Frames, Zenon DEF AgentLeaves
<1>3. NetworkOK'
  BY <1>1 DEF AgentLeaves, NetworkOK, AgentOK
<1>4. AgentOK' /\ AgentShape'
  BY <1>1, Zenon DEF AgentLeaves, AgentOK, AgentShape
<1>5. faults' \in 0 .. MaxFaults /\ UNCHANGED callVars
  BY <1>1, SMT, SMTT(30) DEF AgentLeaves, CallOK
<1>6. CallOK' /\ CallShape'
  BY <1>1, <1>5, Zenon DEF CallOK, CallShape, callVars
<1> QED
  BY <1>2, <1>3, <1>4, <1>6, ShapeHolds, Zenon

(* The agent carries out a command, or answers it once more. *)
LEMMA AgentAnswers ==
  ASSUME Shape, NEW k \in Keys, AgentReceives(k) \/ \E c \in Conns : AgentRepeats(k, c)
  PROVE  Shape' /\ agentConn \in Conns
<1>1. NetworkOK /\ AgentOK /\ AgentShape
  BY Frames, Zenon DEF Shape
<1>2. StoreOK' /\ GatewayOK' /\ MessageShape' /\ CallOK' /\ CallShape'
  BY Frames, Zenon DEF AgentReceives, AgentRepeats
<1>3. agentConn \in Conns
  BY <1>1, Zenon DEF AgentReceives, AgentRepeats, Listening, AgentOK
<1>4. PICK d \in Conns : Send(<<k, d>>) /\ answered' \subseteq answered \union {<<k, d>>}
  BY <1>3, Zenon DEF AgentReceives, AgentRepeats
<1>5. <<k, d>> \in Keys \X Conns
  OBVIOUS
<1>6. toGateway' \in [Conns -> SUBSET (Keys \X Conns)]
  BY <1>1, <1>3, <1>4, <1>5 DEF Send, NetworkOK
<1>7. toAgent' \in [Conns -> SUBSET Keys]
  BY <1>1, ZenonT(40) DEF AgentReceives, AgentRepeats, NetworkOK
<1>8. answered' \subseteq Keys \X Conns
  BY <1>1, <1>4, <1>5, Zenon DEF AgentOK
<1>9. done' \in [Keys -> {"none", "ok", "error"}]
  BY <1>1, ZenonT(40) DEF AgentReceives, AgentRepeats, AgentOK
<1>10. Effect(k) \in {"none", "running", "stopped"}
  BY <1>1 DEF Effect, AgentOK
<1>11. vm' \in {"none", "running", "stopped"}
  BY <1>1, <1>10, Zenon DEF AgentReceives, AgentRepeats, AgentOK
<1>12. UNCHANGED <<agentConn, opened>>
  BY Zenon DEF AgentReceives, AgentRepeats
<1>13. AgentOK' /\ AgentShape'
  BY <1>1, <1>8, <1>9, <1>11, <1>12, Zenon DEF AgentOK, AgentShape
<1>14. NetworkOK'
  BY <1>6, <1>7, Zenon DEF NetworkOK
<1> QED
  BY <1>2, <1>3, <1>13, <1>14, ShapeHolds, Zenon

(* Types and shapes hold initially. *)
LEMMA ShapeInit == Init => Shape
<1> USE RunmanAssumption
<1> SUFFICES ASSUME Init PROVE Shape
  OBVIOUS
<1>1. StoreOK
  BY ZenonT(40) DEF Init, StoreOK, CommandRows
<1>2. GatewayOK
  BY Zenon DEF Init, GatewayOK, NoStream, StreamRows
<1>3. NetworkOK /\ AgentOK
  BY SMT, SMTT(30) DEF Init, NetworkOK, AgentOK
<1>4. CallOK
  BY SMT, SMTT(30) DEF Init, CallOK, Idle
<1>5. MessageShape
  BY Zenon DEF Init, MessageShape, NoStream
<1>6. CallShape /\ AgentShape
  BY Zenon DEF Init, CallShape, AgentShape, Idle
<1> QED
  BY <1>1, <1>2, <1>3, <1>4, <1>5, <1>6, TypesByOwner, Zenon DEF Shape

(* Every step keeps types and shapes. *)
LEMMA ShapeInductive == Shape /\ [Next]_vars => Shape'
<1> SUFFICES ASSUME Shape, [Next]_vars PROVE Shape'
  OBVIOUS
<1>1. CASE UNCHANGED vars
  BY <1>1, Frames, ShapeHolds, Zenon DEF vars
<1>2. ASSUME NEW w \in Callers, CallStep(w) PROVE Shape'
  BY <1>2, CreateStep, CallSteps, Zenon DEF CallStep
<1>3. ASSUME NEW c \in Conns, GatewayStep(c) PROVE Shape'
  <2>1. CASE Register(c) \/ ReadPending(c) \/ SendStep(c) \/ MarkSent(c)
    BY <2>1, RegisterStep, ReadStep, RejectStep, SendStepRow, MarkSentStep, Zenon DEF SendStep
  <2>2. CASE HandleHeartbeat(c) \/ ClaimStep(c) \/ HandlerFails(c)
    BY <2>2, HeartbeatSteps, ClaimStepRow, LeaveSteps, Zenon DEF ClaimStep
  <2>3. CASE FinishStep(c)
    <3>1. CASE HandleResult(c) \/ CompleteList(c)
      BY <3>1, FinishRow, Zenon
    <3>2. CASE SavePortForwards(c)
      BY <3>2, SaveRow, Zenon
    <3> QED
      BY <2>3, <3>1, <3>2, Zenon DEF FinishStep
  <2>4. CASE CleanUp(c)
    BY <2>4, LeaveSteps, RegisterStep, DisconnectedStep, Zenon DEF CleanUp
  <2> QED
    BY <1>3, <2>1, <2>2, <2>3, <2>4, Zenon DEF GatewayStep
<1>4. CASE AgentStep
  BY <1>4, ConnectStep, AgentLeavesStep, AgentAnswers, Zenon DEF AgentStep
<1>5. CASE GatewayCrashes \/ TimeStep
  BY <1>5, CrashStep, HeartbeatSteps, Zenon
<1> QED
  BY <1>1, <1>2, <1>3, <1>4, <1>5, Zenon DEF Next

(* The variables of the broker, the gateway and the agent keep their types,   *)
(* and each goroutine handles a message of the kind its place calls for.      *)
THEOREM RunmanTypes == Spec => []Shape
<1>1. Init => Shape
  BY ShapeInit
<1>2. Shape /\ [Next]_vars => Shape'
  BY ShapeInductive
<1> QED
  BY <1>1, <1>2, PTL DEF Spec

-----------------------------------------------------------------------------
(* Streams and their queues.                                                 *)

(* Steps of callers, heartbeats and time leave streams, messages and the     *)
(* agent alone; they settle no command.                                      *)
QuietStep == (\E w \in Callers : CallStep(w)) \/ (\E c \in Conns : HandleHeartbeat(c)) \/ TimeStep

Calm ==
  \A j \in Keys : \/ cmd'[j].status = cmd[j].status
                  \/ ~Terminal(j) /\ cmd'[j].status \in {"queued", "dispatched"}

(* What a quiet step leaves alone. *)
LEMMA QuietSteps ==
  ASSUME Shape, QuietStep
  PROVE  /\ UNCHANGED <<stream, toAgent, toGateway, agentConn, opened, done, answered, vm,
                        claimed, listed>>
         /\ Calm
<1>1. CASE \E w \in Callers : CallStep(w)
  <2> PICK w \in Callers : CallStep(w)
    BY <1>1
  <2>1. UNCHANGED <<stream, toAgent, toGateway, agentConn, opened, done, answered, vm,
                    claimed, listed>>
    BY Zenon DEF CallStep, CreateCommand, MarkIssued, Poll, Timeout, WorkerCrashes, storeVars,
       gatewayVars, networkVars, agentVars
  <2>2. cmd' = cmd \/ Keeps \/ \E k \in Keys : cmd[k].status = "absent" /\ StatusBecomes(k, "queued")
    BY CreateStep, CallSteps, Zenon DEF CallStep
  <2>3. ASSUME NEW j \in Keys
        PROVE  \/ cmd'[j].status = cmd[j].status
               \/ ~Terminal(j) /\ cmd'[j].status \in {"queued", "dispatched"}
    BY <2>2 DEF Keeps, StatusBecomes, Terminal, Final
  <2> QED
    BY <2>1, <2>3, Zenon DEF Calm
<1>2. CASE (\E c \in Conns : HandleHeartbeat(c)) \/ TimeStep
  BY <1>2, Zenon DEF HandleHeartbeat, TimeStep, HeartbeatAges, ExpireHeartbeat, gatewayVars,
     networkVars, agentVars, Calm
<1> QED
  BY <1>1, <1>2, Zenon DEF QuietStep

(* A step of the goroutine of stream c on its own stream. *)
OwnStep(c) ==
  \/ Register(c) \/ Unregister(c) \/ Disconnected(c) \/ ReadPending(c)
  \/ \E k \in Keys : RejectCommand(c, k) \/ SendCommand(c, k)
  \/ MarkSent(c) \/ \E m \in toGateway[c] : ClaimMessage(c, m)
  \/ HandleResult(c) \/ CompleteList(c) \/ SavePortForwards(c)
  \/ HandlerFails(c) \/ StreamEnds(c)

(* The steps by what they are about. *)
LEMMA NextSteps ==
  ASSUME Next
  PROVE  \/ QuietStep \/ Connect \/ AgentLeaves \/ GatewayCrashes
         \/ \E k \in Keys : AgentReceives(k) \/ \E c \in Conns : AgentRepeats(k, c)
         \/ \E c \in Conns : OwnStep(c)
<1>1. ASSUME NEW c \in Conns, GatewayStep(c) PROVE HandleHeartbeat(c) \/ OwnStep(c)
  BY <1>1, Zenon DEF GatewayStep, SendStep, ClaimStep, FinishStep, CleanUp, OwnStep
<1> QED
  BY <1>1, Zenon DEF Next, QuietStep, AgentStep

Same(d) == stream'[d] = stream[d] /\ toAgent'[d] = toAgent[d] /\ toGateway'[d] = toGateway[d]

(* A goroutine leaves other streams and the agent alone. *)
LEMMA OwnSteps ==
  ASSUME Shape, NEW c \in Conns, OwnStep(c)
  PROVE  /\ UNCHANGED <<opened, done, answered, vm>>
         /\ agentConn' = agentConn \/ Disconnected(c)
         /\ \A d \in Conns : d # c => Same(d)
<1>1. /\ UNCHANGED <<opened, done, answered, vm>>
      /\ agentConn' = agentConn \/ Disconnected(c)
  BY Zenon DEF OwnStep, Register, Unregister, Disconnected, ReadPending, RejectCommand,
     SendCommand, MarkSent, ClaimMessage, HandleResult, CompleteList, SavePortForwards,
     HandlerFails, StreamEnds, agentVars
<1>2. UNCHANGED stream \/ Others(c)
  <2>1. CASE \E m \in toGateway[c] : ClaimMessage(c, m)
    BY <2>1, ClaimStepRow, Zenon DEF Becomes
  <2>2. CASE HandleResult(c) \/ CompleteList(c)
    BY <2>2, FinishRow, Zenon DEF Becomes
  <2>3. CASE Register(c) \/ Unregister(c) \/ Disconnected(c) \/ ReadPending(c)
    BY <2>3, RegisterStep, DisconnectedStep, ReadStep, Zenon DEF Becomes
  <2>4. CASE \E k \in Keys : RejectCommand(c, k) \/ SendCommand(c, k)
    BY <2>4, RejectStep, SendStepRow, Zenon DEF Becomes
  <2>5. CASE MarkSent(c) \/ SavePortForwards(c) \/ HandlerFails(c) \/ StreamEnds(c)
    BY <2>5, MarkSentStep, SaveRow, LeaveSteps, Zenon DEF Becomes
  <2> QED
    BY <2>1, <2>2, <2>3, <2>4, <2>5, Zenon DEF OwnStep
<1>3. toAgent' = toAgent \/ \E x \in SUBSET Keys : toAgent' = [toAgent EXCEPT ![c] = x]
  <2>1. CASE \E k \in Keys : SendCommand(c, k)
    <3>1. NetworkOK
      BY Frames, Zenon
    <3> QED
      BY <2>1, <3>1, ZenonT(40) DEF SendCommand, NetworkOK
  <2>2. CASE HandlerFails(c) \/ StreamEnds(c)
    BY <2>2, LeaveSteps
  <2> QED
    BY <2>1, <2>2, Zenon DEF OwnStep, Register, Unregister, Disconnected, ReadPending,
       RejectCommand, MarkSent, ClaimMessage, HandleResult, CompleteList, SavePortForwards,
       networkVars
<1>4. toGateway' = toGateway
      \/ \E x \in SUBSET (Keys \X Conns) : toGateway' = [toGateway EXCEPT ![c] = x]
  <2>1. CASE \E m \in toGateway[c] : ClaimMessage(c, m)
    <3>1. NetworkOK
      BY Frames, Zenon
    <3> QED
      BY <2>1, <3>1, ZenonT(40) DEF ClaimMessage, NetworkOK
  <2>2. CASE HandlerFails(c) \/ StreamEnds(c) \/ Disconnected(c)
    BY <2>2, LeaveSteps, DisconnectedStep
  <2> QED
    BY <2>1, <2>2, Zenon DEF OwnStep, Register, Unregister, SendCommand, ReadPending,
       RejectCommand, MarkSent, HandleResult, CompleteList, SavePortForwards, networkVars
<1>5. ASSUME NEW d \in Conns, d # c PROVE Same(d)
  <2>1. NetworkOK
    BY Frames, Zenon
  <2>2. toAgent'[d] = toAgent[d]
    BY <1>3, <1>5, <2>1, Zenon DEF NetworkOK
  <2>3. toGateway'[d] = toGateway[d]
    BY <1>4, <1>5, <2>1, Zenon DEF NetworkOK
  <2> QED
    BY <1>2, <1>5, <2>2, <2>3, Zenon DEF Same, Others
<1> QED
  BY <1>1, <1>5, Zenon

(* A stream that was opened and is not sending has nothing to keep but that. *)
LEMMA StreamMoves ==
  ASSUME Shape, NEW c \in Conns, StreamFact(c), stream[c].pc # "none", opened' = opened,
         NEW p, stream'[c].pc = p, p \notin {"none", "sending", "marking"}
  PROVE  StreamFact(c)'
<1>1. c \in Int /\ opened \in Int
  BY RunmanAssumption, Frames, SMT, SMTT(30) DEF AgentOK, Conns
<1> QED
  BY <1>1, Zenon DEF StreamFact

(* Every step keeps what is known of the streams. *)
LEMMA StreamStep ==
  ASSUME Shape, StreamInv, Next
  PROVE  StreamInv'
<1> USE RunmanAssumption
<1>1. AgentOK /\ NetworkOK /\ opened \in Nat
  BY Frames, SMT, SMTT(30) DEF AgentOK
<1>2. \A d \in Conns : StreamFact(d) /\ d \in Nat
  BY SMT, SMTT(30) DEF StreamInv, Conns
<1>3. ASSUME NEW d \in Conns, opened' = opened, Same(d) PROVE StreamFact(d)'
  BY <1>2, <1>3, Zenon DEF StreamFact, Same
<1>4. CASE QuietStep
  BY <1>3, <1>4, QuietSteps, Zenon DEF Same, StreamInv
<1>5. CASE Connect
  <2>1. PICK c \in Conns :
          /\ c = opened + 1
          /\ Becomes(c, "stored", stream[c].queue, stream[c].sent, stream[c].msg)
    BY <1>5, ConnectStep, Zenon
  <2>2. opened' = c /\ UNCHANGED <<toAgent, toGateway>>
    BY <1>5, <2>1, Zenon DEF Connect, networkVars
  <2>3. StreamFact(c)'
    BY <1>2, <2>1, <2>2, SMT, SMTT(30) DEF StreamFact, Becomes
  <2>4. ASSUME NEW d \in Conns, d # c PROVE StreamFact(d)'
    <3>1. stream'[d] = stream[d]
      BY <2>1, <2>4, Zenon DEF Becomes, Others
    <3> QED
      BY <1>1, <1>2, <2>1, <2>2, <2>4, <3>1, SMT, SMTT(30) DEF StreamFact
  <2> QED
    BY <2>3, <2>4, Zenon DEF StreamInv
<1>6. CASE AgentLeaves
  <2>1. stream' = stream /\ opened' = opened /\ toGateway' = toGateway
        /\ toAgent' = [toAgent EXCEPT ![agentConn] = {}]
    BY <1>6, Zenon DEF AgentLeaves, gatewayVars
  <2>2. ASSUME NEW d \in Conns PROVE toAgent'[d] \in {{}, toAgent[d]}
    BY <1>1, <2>1 DEF NetworkOK
  <2>3. ASSUME NEW d \in Conns PROVE StreamFact(d)'
    BY <1>2, <2>1, <2>2, Zenon DEF StreamFact
  <2> QED
    BY <2>3, Zenon DEF StreamInv
<1>7. CASE GatewayCrashes
  <2>1. opened' = opened
    BY <1>7, Zenon DEF GatewayCrashes
  <2>2. ASSUME NEW d \in Conns PROVE StreamFact(d)'
    <3>1. /\ stream'[d].pc = (IF d <= opened THEN "closed" ELSE "none")
          /\ stream'[d].sent = {} /\ toAgent'[d] = {} /\ toGateway'[d] = {}
      BY <1>7, CrashStep, Zenon
    <3> QED
      BY <1>1, <1>2, <2>1, <3>1, SMT, SMTT(30) DEF StreamFact
  <2> QED
    BY <2>2, Zenon DEF StreamInv
<1>8. ASSUME NEW k \in Keys, AgentReceives(k) \/ \E c \in Conns : AgentRepeats(k, c)
      PROVE  StreamInv'
  <2>1. agentConn \in Conns /\ agentConn = opened /\ opened' = opened /\ stream' = stream
    <3>1. agentConn # None /\ opened' = opened /\ stream' = stream
      BY <1>8, Zenon DEF AgentReceives, AgentRepeats, Listening, gatewayVars
    <3> QED
      BY <1>8, <3>1, AgentAnswers, Zenon DEF Shape, AgentShape
  <2>2. ASSUME NEW d \in Conns, d # agentConn
        PROVE  toAgent'[d] = toAgent[d] /\ toGateway'[d] = toGateway[d]
    BY <1>1, <1>8, <2>1, <2>2, ZenonT(40) DEF AgentReceives, AgentRepeats, Send, NetworkOK
  <2>3. ASSUME NEW d \in Conns PROVE StreamFact(d)'
    <3>1. CASE d # agentConn
      BY <1>3, <2>1, <2>2, <3>1, Zenon DEF Same
    <3>2. CASE d = agentConn
      BY <1>1, <1>2, <2>1, <3>2, SMT, SMTT(30) DEF StreamFact
    <3> QED
      BY <3>1, <3>2
  <2> QED
    BY <2>3, Zenon DEF StreamInv
<1>9. ASSUME NEW c \in Conns, OwnStep(c) PROVE StreamInv'
  <2> SUFFICES StreamFact(c)'
    BY <1>3, <1>9, OwnSteps, Zenon DEF StreamInv
  <2>1. opened' = opened
    BY <1>9, OwnSteps, Zenon
  <2>2. CASE \/ Register(c) \/ Unregister(c) \/ Disconnected(c) \/ HandleResult(c)
             \/ CompleteList(c) \/ SavePortForwards(c) \/ HandlerFails(c) \/ StreamEnds(c)
    <3>1. stream[c].pc # "none"
      BY <2>2, Zenon DEF Register, Unregister, Disconnected, HandleResult, CompleteList,
         SavePortForwards, HandlerFails, StreamEnds
    <3>2. stream'[c].pc \in {"registered", "unregistered", "closed", "loop", "saved", "ended"}
      <4>1. CASE Register(c) \/ Unregister(c) \/ Disconnected(c)
        BY <4>1, RegisterStep, DisconnectedStep, Zenon DEF Becomes
      <4>2. CASE HandleResult(c) \/ CompleteList(c)
        BY <4>2, FinishRow, Zenon DEF Becomes
      <4>3. CASE SavePortForwards(c) \/ HandlerFails(c) \/ StreamEnds(c)
        BY <4>3, SaveRow, LeaveSteps, Zenon DEF Becomes
      <4> QED
        BY <2>2, <4>1, <4>2, <4>3
    <3>3. stream'[c].pc \notin {"none", "sending", "marking"}
      BY <3>2
    <3> QED
      BY <1>2, <2>1, <3>1, <3>3, StreamMoves, Zenon
  <2>3. CASE ReadPending(c)
    <3>1. PICK l \in {"loop", "sending"} :
            Becomes(c, l, Pending \ stream[c].sent, stream[c].sent, stream[c].msg)
      BY <2>3, ReadStep, Zenon
    <3>2. stream[c].pc # "none"
      BY <2>3 DEF ReadPending
    <3> QED
      BY <1>1, <1>2, <2>1, <3>1, <3>2, Zenon DEF StreamFact, Becomes
  <2>4. ASSUME NEW k \in Keys, RejectCommand(c, k) PROVE StreamFact(c)'
    <3>1. PICK l \in {"loop", "sending"} :
            Becomes(c, l, stream[c].queue \ {k}, stream[c].sent, None)
      BY <2>4, RejectStep, Zenon
    <3>2. stream[c].pc = "sending"
      BY <2>4, Zenon DEF RejectCommand
    <3> QED
      BY <1>1, <1>2, <2>1, <3>1, <3>2, Zenon DEF StreamFact, Becomes
  <2>5. CASE MarkSent(c)
    <3>1. PICK l \in {"loop", "sending"} :
            Becomes(c, l, stream[c].queue \ {stream[c].msg}, stream[c].sent, None)
      BY <2>5, MarkSentStep, Zenon
    <3>2. stream[c].pc = "marking"
      BY <2>5, Zenon DEF MarkSent
    <3> QED
      BY <1>1, <1>2, <2>1, <3>1, <3>2, Zenon DEF StreamFact, Becomes
  <2>6. ASSUME NEW k \in Keys, SendCommand(c, k) PROVE StreamFact(c)'
    <3>1. Becomes(c, "marking", stream[c].queue, stream[c].sent \union {k}, k)
      BY <2>6, SendStepRow, Zenon
    <3>2. stream[c].pc = "sending"
      BY <2>6, Zenon DEF SendCommand
    <3> QED
      BY <1>1, <1>2, <2>1, <3>1, <3>2, Zenon DEF StreamFact, Becomes
  <2>7. ASSUME NEW m \in toGateway[c], ClaimMessage(c, m) PROVE StreamFact(c)'
    <3>1. stream'[c].pc \in {"loop", "claimed"} /\ stream[c].pc = "loop"
      BY <2>7, ClaimStepRow, Zenon DEF ClaimMessage, Becomes
    <3> QED
      BY <1>2, <2>1, <3>1, StreamMoves
  <2> QED
    BY <1>9, <2>2, <2>3, <2>4, <2>5, <2>6, <2>7, Zenon DEF OwnStep
<1> QED
  BY <1>4, <1>5, <1>6, <1>7, <1>8, <1>9, NextSteps, Zenon

-----------------------------------------------------------------------------
(* Commands on their way.                                                    *)

Settles(k, s) == ~Terminal(k) /\ StatusBecomes(k, s)

Result(c) ==
  IF stream[c].pc = "saved" \/ done[stream[c].msg[1]] = "ok" THEN "succeeded" ELSE "failed"

(* A command is settled by the gateway only. *)
LEMMA StatusSteps ==
  ASSUME Shape, Next
  PROVE  \/ Calm
         \/ \E c \in Conns, k \in Keys : RejectCommand(c, k) /\ Settles(k, "failed")
         \/ \E c \in Conns : /\ HandleResult(c) \/ CompleteList(c)
                             /\ Settles(stream[c].msg[1], Result(c))
<1>1. CASE QuietStep
  BY <1>1, QuietSteps, Zenon
<1>2. CASE UNCHANGED cmd
  BY <1>2, Zenon DEF Calm
<1>3. ASSUME NEW c \in Conns, NEW k \in Keys, RejectCommand(c, k)
      PROVE  UNCHANGED cmd \/ Settles(k, "failed")
  BY <1>3, RejectStep, Zenon DEF Settles
<1>4. ASSUME NEW c \in Conns, HandleResult(c) \/ CompleteList(c)
      PROVE  UNCHANGED cmd \/ Settles(stream[c].msg[1], Result(c))
  BY <1>4, FinishRow, Zenon DEF Settles, Result
<1>5. ASSUME NEW c \in Conns, MarkSent(c) PROVE Calm
  <2>1. Keeps
    BY <1>5, MarkSentStep, Zenon
  <2> QED
    BY <2>1 DEF Keeps, Calm, Terminal, Final
<1>6. CASE Connect \/ AgentLeaves \/ GatewayCrashes
  BY <1>2, <1>6, Zenon DEF Connect, AgentLeaves, GatewayCrashes, storeVars
<1>7. CASE \E k \in Keys : AgentReceives(k) \/ \E c \in Conns : AgentRepeats(k, c)
  BY <1>2, <1>7, Zenon DEF AgentReceives, AgentRepeats, storeVars
<1>8. ASSUME NEW c \in Conns, OwnStep(c)
      PROVE  \/ UNCHANGED cmd \/ \E k \in Keys : RejectCommand(c, k)
             \/ MarkSent(c) \/ HandleResult(c) \/ CompleteList(c)
  BY <1>8, Zenon DEF OwnStep, Register, Unregister, Disconnected, ReadPending, SendCommand,
     ClaimMessage, SavePortForwards, HandlerFails, StreamEnds, storeVars
<1>9. CASE \E c \in Conns : OwnStep(c)
  BY <1>2, <1>3, <1>4, <1>5, <1>8, <1>9, Zenon
<1> QED
  BY <1>1, <1>6, <1>7, <1>9, NextSteps, Zenon

(* A command that is written stays; what the agent did, and what is listed,  *)
(* stays as well.                                                            *)
LEMMA Growth ==
  ASSUME Shape, Next
  PROVE  /\ Written \subseteq Written' /\ Sendable \subseteq Sendable'
         /\ listed \subseteq listed'
         /\ \A k \in Keys : done[k] # "none" => done'[k] = done[k]
<1>1. ASSUME NEW j \in Keys, cmd[j].status # "absent" PROVE cmd'[j].status # "absent"
  <2>1. CASE Calm
    BY <1>1, <2>1 DEF Calm
  <2>2. ASSUME NEW k, NEW s \in {"succeeded", "failed"}, Settles(k, s)
        PROVE  cmd'[j].status # "absent"
    BY <1>1, <2>2 DEF Settles, StatusBecomes
  <2>3. \A c \in Conns : Result(c) \in {"succeeded", "failed"}
    BY Zenon DEF Result
  <2> QED
    BY <2>1, <2>2, <2>3, StatusSteps, Zenon
<1>2. Written \subseteq Written' /\ Sendable \subseteq Sendable'
  BY <1>1, Zenon DEF Written, Sendable, Encodable
<1>3. \/ UNCHANGED <<done, listed>>
      \/ \E c \in Conns : SavePortForwards(c)
      \/ \E k \in Keys : AgentReceives(k)
  <2>1. CASE QuietStep
    BY <2>1, QuietSteps, Zenon
  <2>2. CASE Connect \/ AgentLeaves \/ GatewayCrashes
    BY <2>2, Zenon DEF Connect, AgentLeaves, GatewayCrashes, storeVars
  <2>3. CASE \E k \in Keys, c \in Conns : AgentRepeats(k, c)
    BY <2>3, Zenon DEF AgentRepeats, storeVars
  <2>4. ASSUME NEW c \in Conns, OwnStep(c)
        PROVE  UNCHANGED <<done, listed>> \/ SavePortForwards(c)
    <3>1. UNCHANGED listed \/ SavePortForwards(c)
      BY <2>4, Zenon DEF OwnStep, Register, Unregister, Disconnected, ReadPending, SendCommand,
         ClaimMessage, HandlerFails, StreamEnds, RejectCommand, MarkSent, HandleResult,
         CompleteList, storeVars
    <3> QED
      BY <2>4, <3>1, OwnSteps, Zenon
  <2> QED
    BY <2>1, <2>2, <2>3, <2>4, NextSteps, Zenon
<1>4. listed \subseteq listed'
  BY <1>3, Zenon DEF SavePortForwards, AgentReceives, storeVars
<1>5. ASSUME NEW k \in Keys, done[k] # "none" PROVE done'[k] = done[k]
  <2>1. AgentOK
    BY Frames, Zenon
  <2>2. ASSUME NEW j \in Keys, AgentReceives(j) PROVE done'[k] = done[k]
    BY <1>5, <2>1, <2>2 DEF AgentReceives, AgentOK
  <2> QED
    BY <1>3, <2>2, Zenon DEF SavePortForwards, agentVars
<1> QED
  BY <1>2, <1>4, <1>5, Zenon

(* Where queued, sent and travelling commands come from. *)
LEMMA Sources ==
  ASSUME Shape, Next, NEW d \in Conns
  PROVE  /\ stream'[d].queue \subseteq stream[d].queue \union Pending
         /\ stream'[d].sent \subseteq stream[d].sent \union {k \in stream[d].queue : Encodable(k)}
         /\ toAgent'[d] \subseteq toAgent[d] \union {k \in stream[d].queue : Encodable(k)}
<1> DEFINE From == /\ stream'[d].queue \subseteq stream[d].queue \union Pending
                   /\ stream'[d].sent \subseteq
                        stream[d].sent \union {k \in stream[d].queue : Encodable(k)}
                   /\ toAgent'[d] \subseteq
                        toAgent[d] \union {k \in stream[d].queue : Encodable(k)}
<1>1. NetworkOK /\ AgentOK
  BY Frames, Zenon
<1>2. ASSUME NEW p, NEW q \in SUBSET (stream[d].queue \union Pending),
             NEW s \in SUBSET stream[d].sent, NEW m, Becomes(d, p, q, s, m),
             toAgent'[d] \subseteq toAgent[d]
      PROVE  From
  BY <1>2, Zenon DEF Becomes
<1>3. CASE Same(d)
  BY <1>3, Zenon DEF Same
<1>4. CASE QuietStep
  BY <1>3, <1>4, QuietSteps, Zenon DEF Same
<1>5. CASE Connect
  <2>1. toAgent' = toAgent
    BY <1>5, Zenon DEF Connect, networkVars
  <2>2. PICK c \in Conns : Becomes(c, "stored", stream[c].queue, stream[c].sent, stream[c].msg)
    BY <1>5, ConnectStep, Zenon
  <2> QED
    BY <2>1, <2>2, Zenon DEF Becomes, Others
<1>6. CASE AgentLeaves
  <2>1. stream' = stream
    BY <1>6, Zenon DEF AgentLeaves, gatewayVars
  <2>2. toAgent'[d] \subseteq toAgent[d]
    BY <1>1, <1>6 DEF AgentLeaves, NetworkOK
  <2> QED
    BY <2>1, <2>2, Zenon
<1>7. CASE GatewayCrashes
  BY <1>7, CrashStep, Zenon
<1>8. ASSUME NEW k \in Keys, AgentReceives(k) \/ \E c \in Conns : AgentRepeats(k, c)
      PROVE  From
  <2>1. stream' = stream
    BY <1>8, Zenon DEF AgentReceives, AgentRepeats, gatewayVars
  <2>2. toAgent'[d] \subseteq toAgent[d]
    BY <1>1, <1>8, ZenonT(40) DEF AgentReceives, AgentRepeats, NetworkOK
  <2> QED
    BY <2>1, <2>2, Zenon
<1>9. CASE OwnStep(d)
  <2>1. CASE \E k \in Keys : SendCommand(d, k)
    <3> PICK k \in Keys : SendCommand(d, k)
      BY <2>1
    <3>1. Becomes(d, "marking", stream[d].queue, stream[d].sent \union {k}, k)
      BY SendStepRow, Zenon
    <3>2. k \in stream[d].queue /\ Encodable(k)
      BY Zenon DEF SendCommand
    <3>3. toAgent'[d] \subseteq toAgent[d] \union {k}
      BY <1>1, Zenon DEF SendCommand, NetworkOK
    <3> QED
      BY <3>1, <3>2, <3>3, Zenon DEF Becomes
  <2>2. CASE HandlerFails(d) \/ StreamEnds(d)
    <3>1. Becomes(d, "ended", {}, {}, None) /\ toAgent'[d] = {}
      BY <1>1, <2>2, LeaveSteps, Zenon DEF NetworkOK
    <3> QED
      BY <3>1, Zenon DEF Becomes
  <2>3. CASE \/ Register(d) \/ Unregister(d) \/ Disconnected(d) \/ ReadPending(d)
             \/ (\E k \in Keys : RejectCommand(d, k)) \/ MarkSent(d)
             \/ HandleResult(d) \/ CompleteList(d) \/ SavePortForwards(d)
             \/ \E m \in toGateway[d] : ClaimMessage(d, m)
    <3>1. toAgent' = toAgent
      BY <2>3, Zenon DEF Register, Unregister, Disconnected, ReadPending, RejectCommand,
         MarkSent, ClaimMessage, HandleResult, CompleteList, SavePortForwards, networkVars
    <3>2. CASE Register(d) \/ Unregister(d) \/ Disconnected(d) \/ ReadPending(d)
      BY <3>1, <3>2, RegisterStep, DisconnectedStep, ReadStep, Zenon DEF Becomes
    <3>3. CASE (\E k \in Keys : RejectCommand(d, k)) \/ MarkSent(d)
      BY <3>1, <3>3, RejectStep, MarkSentStep, Zenon DEF Becomes
    <3>4. CASE HandleResult(d) \/ CompleteList(d)
      BY <3>1, <3>4, FinishRow, Zenon DEF Becomes
    <3>5. CASE SavePortForwards(d) \/ \E m \in toGateway[d] : ClaimMessage(d, m)
      BY <3>1, <3>5, SaveRow, ClaimStepRow, Zenon DEF Becomes
    <3> QED
      BY <2>3, <3>2, <3>3, <3>4, <3>5, Zenon
  <2> QED
    BY <1>9, <2>1, <2>2, <2>3, Zenon DEF OwnStep
<1>10. CASE \E c \in Conns : OwnStep(c)
  BY <1>3, <1>9, <1>10, OwnSteps, Zenon
<1> QED
  BY <1>4, <1>5, <1>6, <1>7, <1>8, <1>10, NextSteps, Zenon

(* Every step keeps what is known of commands on their way. *)
LEMMA KnownStep ==
  ASSUME Shape, KnownInv, Next
  PROVE  KnownInv'
<1>1. Pending \subseteq Written
  BY DEF Pending, Unsettled, Written
<1>2. ASSUME NEW d \in Conns PROVE KnownFact(d)'
  <2>1. {k \in stream[d].queue : Encodable(k)} \subseteq Sendable
    BY Zenon DEF KnownInv, KnownFact, Sendable
  <2>2. /\ stream'[d].queue \subseteq Written /\ stream'[d].sent \subseteq Sendable
        /\ toAgent'[d] \subseteq Sendable
    BY <1>1, <2>1, Sources, Zenon DEF KnownInv, KnownFact
  <2> QED
    BY <2>2, Growth, Zenon DEF KnownFact
<1>3. ASSUME NEW k \in Keys, done'[k] # "none" PROVE k \in Sendable
  <2>1. CASE done[k] # "none"
    BY <2>1, Zenon DEF KnownInv
  <2>2. CASE done'[k] # done[k]
    <3>1. AgentReceives(k)
      <4>1. AgentOK
        BY Frames, Zenon
      <4>2. CASE QuietStep
        BY <2>2, <4>2, QuietSteps, Zenon
      <4>3. CASE Connect \/ AgentLeaves \/ GatewayCrashes
        BY <2>2, <4>3, Zenon DEF Connect, AgentLeaves, GatewayCrashes
      <4>4. CASE \E c \in Conns : OwnStep(c)
        BY <2>2, <4>4, OwnSteps, Zenon
      <4>5. ASSUME NEW j \in Keys, AgentReceives(j) \/ \E c \in Conns : AgentRepeats(j, c)
            PROVE  j = k /\ AgentReceives(k)
        BY <2>2, <4>1, <4>5, Zenon DEF AgentReceives, AgentRepeats, AgentOK
      <4> QED
        BY <4>2, <4>3, <4>4, <4>5, NextSteps, Zenon
    <3>2. agentConn \in Conns /\ k \in toAgent[agentConn]
      BY <3>1, AgentAnswers, Zenon DEF AgentReceives
    <3> QED
      BY <3>2, Zenon DEF KnownInv, KnownFact
  <2> QED
    BY <1>3, <2>1, <2>2
<1> QED
  BY <1>2, <1>3, Growth, Zenon DEF KnownInv

-----------------------------------------------------------------------------
(* Answers on their way.                                                     *)

(* Where the message that a goroutine handles comes from. *)
LEMMA Handlers ==
  ASSUME Shape, Next, NEW d \in Conns, stream'[d].pc \in {"claimed", "saved"}
  PROVE  \/ stream'[d].pc = stream[d].pc /\ stream'[d].msg = stream[d].msg
         \/ \E m \in toGateway[d] : /\ ClaimMessage(d, m)
                                    /\ stream'[d].pc = "claimed" /\ stream'[d].msg = m
         \/ /\ SavePortForwards(d) /\ stream[d].pc = "claimed"
            /\ stream'[d].pc = "saved" /\ stream'[d].msg = stream[d].msg
<1>1. CASE UNCHANGED stream \/ stream'[d] = stream[d]
  BY <1>1, Zenon
<1>2. CASE QuietStep
  BY <1>1, <1>2, QuietSteps, Zenon
<1>3. CASE Connect
  <2>1. PICK c \in Conns : Becomes(c, "stored", stream[c].queue, stream[c].sent, stream[c].msg)
    BY <1>3, ConnectStep, Zenon
  <2>2. CASE c = d
    BY <2>1, <2>2 DEF Becomes
  <2>3. CASE c # d
    BY <1>1, <2>1, <2>3, Zenon DEF Becomes, Others
  <2> QED
    BY <2>2, <2>3, Zenon
<1>4. CASE AgentLeaves
  BY <1>1, <1>4, Zenon DEF AgentLeaves, gatewayVars
<1>5. CASE GatewayCrashes
  <2>1. stream'[d].pc = (IF d <= opened THEN "closed" ELSE "none")
    BY <1>5, CrashStep, Zenon
  <2> QED
    BY <2>1
<1>6. CASE \E k \in Keys : AgentReceives(k) \/ \E c \in Conns : AgentRepeats(k, c)
  BY <1>1, <1>6, Zenon DEF AgentReceives, AgentRepeats, gatewayVars
<1>7. CASE OwnStep(d)
  <2>1. CASE HandleResult(d) \/ CompleteList(d)
    <3>1. stream'[d].pc = "loop"
      BY <2>1, FinishRow, Zenon DEF Becomes
    <3> QED
      BY <3>1
  <2>2. CASE SavePortForwards(d)
    <3>1. stream'[d].pc = "saved" /\ stream'[d].msg = stream[d].msg
      BY <2>2, SaveRow, Zenon DEF Becomes
    <3> QED
      BY <2>2, <3>1, Zenon DEF SavePortForwards
  <2>3. ASSUME NEW m \in toGateway[d], ClaimMessage(d, m)
        PROVE  \/ stream' = stream
               \/ stream'[d].pc = "claimed" /\ stream'[d].msg = m
    BY <2>3, ClaimStepRow, Zenon DEF Becomes
  <2>4. CASE \/ Register(d) \/ Unregister(d) \/ Disconnected(d) \/ ReadPending(d)
             \/ (\E k \in Keys : RejectCommand(d, k) \/ SendCommand(d, k)) \/ MarkSent(d)
             \/ HandlerFails(d) \/ StreamEnds(d)
    <3>1. stream'[d].pc \in {"registered", "unregistered", "closed", "loop", "sending",
                             "marking", "ended"}
      <4>1. CASE Register(d) \/ Unregister(d) \/ Disconnected(d) \/ ReadPending(d)
        BY <4>1, RegisterStep, DisconnectedStep, ReadStep, Zenon DEF Becomes
      <4>2. CASE (\E k \in Keys : RejectCommand(d, k) \/ SendCommand(d, k)) \/ MarkSent(d)
        BY <4>2, RejectStep, SendStepRow, MarkSentStep, Zenon DEF Becomes
      <4>3. CASE HandlerFails(d) \/ StreamEnds(d)
        BY <4>3, LeaveSteps, Zenon DEF Becomes
      <4> QED
        BY <2>4, <4>1, <4>2, <4>3
    <3> QED
      BY <3>1
  <2> QED
    BY <1>1, <1>7, <2>1, <2>2, <2>3, <2>4, Zenon DEF OwnStep
<1>8. CASE \E c \in Conns : OwnStep(c)
  BY <1>1, <1>7, <1>8, OwnSteps, Zenon DEF Same
<1> QED
  BY <1>2, <1>3, <1>4, <1>5, <1>6, <1>8, NextSteps, Zenon

(* Where an answer on its way comes from. *)
LEMMA Answers ==
  ASSUME Shape, MessageInv, Next, NEW d \in Conns, NEW m \in toGateway'[d], m \notin toGateway[d]
  PROVE  /\ agentConn = d /\ agentConn' = d /\ done'[m[1]] # "none" /\ claimed' = claimed
         /\ \/ m[2] < d
            \/ \E k \in Keys : AgentReceives(k) /\ m = <<k, d>>
<1>1. NetworkOK /\ AgentOK
  BY Frames, Zenon
<1>2. ASSUME toGateway'[d] \subseteq toGateway[d] PROVE FALSE
  BY <1>2, Zenon
<1>3. ASSUME NEW k \in Keys, AgentReceives(k)
      PROVE  /\ agentConn = d /\ agentConn' = d /\ done'[m[1]] # "none" /\ claimed' = claimed
             /\ m = <<k, d>>
  <2>1. agentConn \in Conns /\ agentConn' = agentConn /\ claimed' = claimed
    BY <1>3, AgentAnswers, Zenon DEF AgentReceives, storeVars
  <2>2. toGateway' = [toGateway EXCEPT ![agentConn] = @ \union {<<k, agentConn>>}]
    BY <1>3, Zenon DEF AgentReceives, Send
  <2>3. agentConn = d /\ m = <<k, d>>
    BY <1>1, <2>1, <2>2, Zenon DEF NetworkOK
  <2>4. done'[k] # "none"
    BY <1>1, <1>3 DEF AgentReceives, AgentOK
  <2>5. m[1] = k
    BY <2>3
  <2> QED
    BY <2>1, <2>3, <2>4, <2>5, Zenon
<1>4. ASSUME NEW k \in Keys, NEW e \in Conns, AgentRepeats(k, e)
      PROVE  /\ agentConn = d /\ agentConn' = d /\ done'[m[1]] # "none" /\ claimed' = claimed
             /\ m[2] < d
  <2>1. agentConn \in Conns /\ agentConn' = agentConn /\ claimed' = claimed /\ done' = done
    BY <1>4, AgentAnswers, Zenon DEF AgentRepeats, storeVars
  <2>2. toGateway' = [toGateway EXCEPT ![agentConn] = @ \union {<<k, e>>}]
    BY <1>4, Zenon DEF AgentRepeats, Send
  <2>3. agentConn = d /\ m = <<k, e>>
    BY <1>1, <2>1, <2>2, Zenon DEF NetworkOK
  <2>4. m \in answered /\ e < d
    BY <1>4, <2>3, Zenon DEF AgentRepeats
  <2>5. m[2] = e
    BY <2>3
  <2> QED
    BY <2>1, <2>3, <2>4, <2>5, Zenon DEF MessageInv
<1>5. CASE QuietStep
  BY <1>2, <1>5, QuietSteps, Zenon
<1>6. CASE Connect \/ AgentLeaves
  BY <1>2, <1>6, Zenon DEF Connect, AgentLeaves, networkVars
<1>7. CASE GatewayCrashes
  BY <1>2, <1>7, CrashStep, Zenon
<1>8. ASSUME NEW c \in Conns, OwnStep(c) PROVE FALSE
  <2>1. CASE c # d
    BY <1>2, <1>8, <2>1, OwnSteps, Zenon DEF Same
  <2>2. CASE c = d
    <3>1. CASE \E x \in toGateway[c] : ClaimMessage(c, x)
      BY <1>1, <1>2, <2>2, <3>1, SMT, SMTT(30) DEF ClaimMessage, NetworkOK
    <3>2. CASE HandlerFails(c) \/ StreamEnds(c) \/ Disconnected(c)
      BY <1>1, <1>2, <2>2, <3>2, LeaveSteps, DisconnectedStep, Zenon DEF NetworkOK
    <3> QED
      BY <1>2, <1>8, <3>1, <3>2, Zenon DEF OwnStep, Register, Unregister, SendCommand,
         ReadPending, RejectCommand, MarkSent, HandleResult, CompleteList, SavePortForwards,
         networkVars
  <2> QED
    BY <2>1, <2>2
<1> QED
  BY <1>3, <1>4, <1>5, <1>6, <1>7, <1>8, NextSteps, Zenon

(* Claims are made by the goroutine that takes a message. *)
LEMMA Claims ==
  ASSUME Shape, Next, NEW m \in claimed', m \notin claimed
  PROVE  \E c \in Conns : m \in toGateway[c] /\ ClaimMessage(c, m)
<1>1. CASE claimed' \subseteq claimed
  BY <1>1, Zenon
<1>2. CASE QuietStep
  BY <1>1, <1>2, QuietSteps, Zenon
<1>3. CASE Connect \/ AgentLeaves \/ GatewayCrashes
  BY <1>1, <1>3, Zenon DEF Connect, AgentLeaves, GatewayCrashes, storeVars
<1>4. CASE \E k \in Keys : AgentReceives(k) \/ \E c \in Conns : AgentRepeats(k, c)
  BY <1>1, <1>4, Zenon DEF AgentReceives, AgentRepeats, storeVars
<1>5. ASSUME NEW c \in Conns, OwnStep(c)
      PROVE  claimed' \subseteq claimed \/ \E x \in toGateway[c] : ClaimMessage(c, x)
  <2>1. CASE HandlerFails(c) \/ StreamEnds(c)
    BY <2>1, LeaveSteps, Zenon
  <2> QED
    BY <1>5, <2>1, Zenon DEF OwnStep, Register, Unregister, Disconnected, SendCommand,
       ReadPending, RejectCommand, MarkSent, HandleResult, CompleteList, SavePortForwards,
       storeVars
<1>6. ASSUME NEW c \in Conns, NEW x \in toGateway[c], ClaimMessage(c, x) PROVE x = m
  BY <1>6, Zenon DEF ClaimMessage
<1> QED
  BY <1>1, <1>2, <1>3, <1>4, <1>5, <1>6, NextSteps, Zenon

(* Every step keeps what is known of answers on their way. *)
LEMMA MessageStep ==
  ASSUME Shape, StreamInv, MessageInv, Next
  PROVE  MessageInv'
<1> USE RunmanAssumption
<1>1. /\ NetworkOK /\ AgentOK /\ opened \in Nat /\ opened' \in Nat /\ opened <= opened'
      /\ StoreOK
  <2>1. NetworkOK /\ AgentOK /\ StoreOK /\ opened \in Nat
    BY Frames, SMT, SMTT(30) DEF AgentOK
  <2>2. opened' = opened \/ opened' = opened + 1
    <3>1. CASE QuietStep
      BY <3>1, QuietSteps, Zenon
    <3>2. CASE \E c \in Conns : OwnStep(c)
      BY <3>2, OwnSteps, Zenon
    <3> QED
      BY <3>1, <3>2, NextSteps, Zenon DEF Connect, AgentLeaves, GatewayCrashes, AgentReceives,
         AgentRepeats
  <2> QED
    BY <2>1, <2>2, SMT, SMTT(30)
<1>2. \A d \in Conns : MessageFact(d) /\ d \in Nat
  BY SMT, SMTT(30) DEF MessageInv, Conns
<1>3. ASSUME NEW x \in Keys, done[x] # "none" PROVE done'[x] # "none"
  BY <1>3, Growth, Zenon
<1>4. ASSUME NEW d \in Conns, NEW m \in toGateway'[d] PROVE m[2] <= d /\ done'[m[1]] # "none"
  <2>1. CASE m \in toGateway[d]
    <3>1. m[2] <= d /\ done[m[1]] # "none"
      BY <1>2, <2>1, Zenon DEF MessageFact
    <3>2. m[1] \in Keys
      BY <1>1, <2>1, SMT, SMTT(30) DEF NetworkOK
    <3> QED
      BY <1>3, <3>1, <3>2, Zenon
  <2>2. CASE m \notin toGateway[d]
    <3>1. done'[m[1]] # "none" /\ (m[2] < d \/ \E k \in Keys : m = <<k, d>>)
      BY <2>2, Answers, Zenon
    <3>2. NetworkOK'
      BY ShapeInductive, NextTypesByOwner, Zenon DEF Shape
    <3>3. m \in Keys \X Conns
      BY <3>2, Zenon DEF NetworkOK
    <3>4. m[2] \in Nat
      BY <3>3, SMT, SMTT(30) DEF Conns
    <3> QED
      BY <1>2, <3>1, <3>4, SMT, SMTT(30)
  <2> QED
    BY <2>1, <2>2
<1>5. ASSUME NEW d \in Conns, stream'[d].pc \in {"claimed", "saved"}
      PROVE  stream'[d].msg[2] <= d /\ done'[stream'[d].msg[1]] # "none"
  <2>1. PICK m : m = stream'[d].msg
    OBVIOUS
  <2>2. m[2] <= d /\ done[m[1]] # "none" /\ m[1] \in Keys
    <3>1. CASE m = stream[d].msg /\ stream[d].pc \in {"claimed", "saved"}
      <4>1. m[2] <= d /\ done[m[1]] # "none"
        BY <1>2, <3>1, Zenon DEF MessageFact
      <4>2. m \in Keys \X Conns
        BY <3>1, Zenon DEF Shape, MessageShape
      <4> QED
        BY <4>1, <4>2
    <3>2. CASE m \in toGateway[d]
      <4>1. m[2] <= d /\ done[m[1]] # "none"
        BY <1>2, <3>2, Zenon DEF MessageFact
      <4>2. m \in Keys \X Conns
        BY <1>1, <3>2, Zenon DEF NetworkOK
      <4> QED
        BY <4>1, <4>2
    <3> QED
      BY <1>5, <2>1, <3>1, <3>2, Handlers, Zenon
  <2> QED
    BY <1>3, <2>1, <2>2, Zenon
<1>6. ASSUME NEW m \in answered' PROVE done'[m[1]] # "none"
  <2>1. CASE m \in answered
    <3>1. m[1] \in Keys /\ done[m[1]] # "none"
      BY <1>1, <2>1 DEF AgentOK, MessageInv
    <3> QED
      BY <1>3, <3>1, Zenon
  <2>2. ASSUME NEW k \in Keys, AgentReceives(k) PROVE m \in answered \/ done'[m[1]] # "none"
    <3>1. answered' = answered \union {<<k, agentConn>>} /\ done'[k] # "none"
      BY <1>1, <2>2 DEF AgentReceives, AgentOK
    <3> QED
      BY <3>1, SMT, SMTT(30)
  <2>3. (\E k \in Keys : AgentReceives(k)) \/ m \in answered
    <3>1. CASE QuietStep
      BY <3>1, QuietSteps, Zenon
    <3>2. CASE \E c \in Conns : OwnStep(c)
      BY <3>2, OwnSteps, Zenon
    <3> QED
      BY <3>1, <3>2, NextSteps, Zenon DEF Connect, AgentLeaves, GatewayCrashes, AgentRepeats
  <2> QED
    BY <2>1, <2>2, <2>3, Zenon
<1>7. ASSUME NEW m \in claimed' PROVE m[2] <= opened'
  <2>1. CASE m \in claimed
    <3>1. m[2] <= opened /\ m[2] \in Nat
      BY <1>1, <2>1, SMT, SMTT(30) DEF MessageInv, StoreOK, Conns
    <3> QED
      BY <1>1, <3>1, SMT, SMTT(30)
  <2>2. CASE m \notin claimed
    <3>1. PICK c \in Conns : m \in toGateway[c]
      BY <2>2, Claims, Zenon
    <3>2. m[2] <= c
      BY <1>2, <3>1, Zenon DEF MessageFact
    <3>3. ~(c > opened)
      BY <3>1, Zenon DEF StreamInv, StreamFact
    <3>4. m[2] \in Nat
      BY <1>1, <3>1, SMT, SMTT(30) DEF NetworkOK, Conns
    <3> QED
      BY <1>1, <1>2, <3>2, <3>3, <3>4, SMT, SMTT(30)
  <2> QED
    BY <2>1, <2>2
<1> QED
  BY <1>4, <1>5, <1>6, <1>7, Zenon DEF MessageInv, MessageFact

(* Every step keeps what is known of settled commands. *)
LEMMA SettledStep ==
  ASSUME Shape, MessageInv, SettledInv, Next
  PROVE  SettledInv'
<1>1. \A k \in Keys : done[k] # "none" => done'[k] = done[k]
  BY Growth, Zenon
<1>2. listed \subseteq listed'
  BY Growth, Zenon
<1>3. ASSUME NEW c \in Conns, HandleResult(c) \/ CompleteList(c)
      PROVE  /\ stream[c].msg[1] \in Keys /\ done[stream[c].msg[1]] # "none"
             /\ Kind[stream[c].msg[1]] = "list_ports" /\ Result(c) = "succeeded" =>
                  stream[c].msg[1] \in listed
  <2>1. stream[c].msg \in Keys \X Conns /\ stream[c].pc \in {"claimed", "saved"}
    BY <1>3, FinishRow, Zenon
  <2>2. stream[c].msg[1] \in Keys
    BY <2>1
  <2>3. done[stream[c].msg[1]] # "none"
    BY <2>1, Zenon DEF MessageInv, MessageFact
  <2>4. CASE HandleResult(c)
    <3>1. ~(Kind[stream[c].msg[1]] = "list_ports" /\ done[stream[c].msg[1]] = "ok")
          /\ stream[c].pc = "claimed"
      BY <2>4, Zenon DEF HandleResult
    <3>2. Result(c) = "succeeded" => done[stream[c].msg[1]] = "ok"
      BY <3>1, Zenon DEF Result
    <3> QED
      BY <2>2, <2>3, <3>1, <3>2, Zenon
  <2>5. CASE CompleteList(c)
    BY <2>2, <2>3, <2>5, Zenon DEF CompleteList, SettledInv, SavedFact
  <2> QED
    BY <1>3, <2>4, <2>5, Zenon
<1>4. ASSUME NEW k \in Keys, Terminal(k)', Encodable(k) PROVE done'[k] # "none"
  <2>1. CASE Terminal(k)
    BY <1>1, <1>4, <2>1, Zenon DEF SettledInv
  <2>2. CASE Calm
    <3>1. Terminal(k)
      BY <1>4, <2>2 DEF Calm, Terminal, Final
    <3> QED
      BY <2>1, <3>1
  <2>3. ASSUME NEW c \in Conns, NEW j \in Keys, RejectCommand(c, j), Settles(j, "failed")
        PROVE  done'[k] # "none"
    <3>1. j # k
      BY <1>4, <2>3, Zenon DEF RejectCommand
    <3>2. Terminal(k)
      BY <1>4, <2>3, <3>1, Zenon DEF Settles, StatusBecomes, Terminal
    <3> QED
      BY <2>1, <3>2
  <2>4. ASSUME NEW c \in Conns, HandleResult(c) \/ CompleteList(c),
               Settles(stream[c].msg[1], Result(c))
        PROVE  done'[k] # "none"
    <3>1. CASE k = stream[c].msg[1]
      BY <1>1, <1>3, <2>4, <3>1, Zenon
    <3>2. CASE k # stream[c].msg[1]
      <4>1. Terminal(k)
        BY <1>4, <2>4, <3>2, Zenon DEF Settles, StatusBecomes, Terminal
      <4> QED
        BY <2>1, <4>1
    <3> QED
      BY <3>1, <3>2
  <2> QED
    BY <2>2, <2>3, <2>4, StatusSteps, Zenon
<1>5. ASSUME NEW d \in Conns PROVE SavedFact(d)'
  <2> SUFFICES ASSUME stream'[d].pc = "saved"
               PROVE  /\ Kind[stream'[d].msg[1]] = "list_ports"
                      /\ done'[stream'[d].msg[1]] = "ok"
                      /\ stream'[d].msg[1] \in listed'
    BY Zenon DEF SavedFact
  <2>1. PICK k : k = stream[d].msg[1]
    OBVIOUS
  <2>2. CASE stream'[d].pc = stream[d].pc /\ stream'[d].msg = stream[d].msg
    <3>1. Kind[k] = "list_ports" /\ done[k] = "ok" /\ k \in listed
      BY <2>1, <2>2, Zenon DEF SettledInv, SavedFact
    <3>2. listed \subseteq Keys
      BY Frames, Zenon DEF StoreOK
    <3>3. done[k] # "none"
      BY <3>1
    <3>4. done'[k] = "ok" /\ k \in listed'
      BY <1>1, <1>2, <3>1, <3>2, <3>3, Zenon
    <3> QED
      BY <2>1, <2>2, <3>1, <3>4, Zenon
  <2>3. CASE SavePortForwards(d) /\ stream'[d].msg = stream[d].msg
    BY <2>3, Zenon DEF SavePortForwards, agentVars
  <2>4. stream'[d].pc # "claimed" /\ stream'[d].pc \in {"claimed", "saved"}
    OBVIOUS
  <2> QED
    BY <2>2, <2>3, <2>4, Handlers, Zenon
<1>6. ASSUME NEW k \in Keys, Kind[k] = "list_ports", cmd'[k].status = "succeeded"
      PROVE  k \in listed'
  <2>1. CASE cmd[k].status = "succeeded"
    BY <1>2, <1>6, <2>1, Zenon DEF SettledInv, ListIsStored
  <2>2. CASE Calm
    <3>1. cmd[k].status = "succeeded"
      BY <1>6, <2>2 DEF Calm
    <3> QED
      BY <2>1, <3>1
  <2>3. ASSUME NEW c \in Conns, NEW j \in Keys, RejectCommand(c, j), Settles(j, "failed")
        PROVE  cmd[k].status = "succeeded"
    BY <1>6, <2>3 DEF Settles, StatusBecomes
  <2>4. ASSUME NEW c \in Conns, HandleResult(c) \/ CompleteList(c),
               Settles(stream[c].msg[1], Result(c))
        PROVE  k \in listed'
    <3>1. CASE k = stream[c].msg[1]
      <4>1. Result(c) = "succeeded"
        BY <1>6, <2>4, <3>1, Zenon DEF Settles, StatusBecomes
      <4> QED
        BY <1>2, <1>3, <1>6, <2>4, <3>1, <4>1, Zenon
    <3>2. CASE k # stream[c].msg[1]
      BY <1>6, <2>1, <2>4, <3>2, Zenon DEF Settles, StatusBecomes
    <3> QED
      BY <3>1, <3>2
  <2> QED
    BY <2>1, <2>2, <2>3, <2>4, StatusSteps, Zenon
<1>7. ListIsStored'
  BY <1>6, Zenon DEF ListIsStored
<1> QED
  BY <1>4, <1>5, <1>7, Zenon DEF SettledInv, Encodable

-----------------------------------------------------------------------------
(* The stream that the agent uses.                                           *)

(* No step reopens a command. *)
LEMMA NotReopened ==
  ASSUME Shape, Next, NEW k \in Written, k \in Unsettled'
  PROVE  k \in Unsettled
<1>1. k \in Keys /\ cmd[k].status # "absent"
  BY Zenon DEF Written
<1>2. cmd[k].status \in {"absent", "queued", "dispatched", "succeeded", "failed"}
  BY <1>1, Frames DEF StoreOK, CommandRows, Final
<1>3. cmd'[k].status \notin Final
  BY DEF Unsettled, Final
<1>4. CASE Calm
  BY <1>1, <1>2, <1>3, <1>4 DEF Calm, Terminal, Final, Unsettled
<1>5. ASSUME NEW j \in Keys, NEW s \in Final, Settles(j, s) PROVE k \in Unsettled
  <2>1. j # k
    BY <1>3, <1>5, Zenon DEF Settles, StatusBecomes
  <2> QED
    BY <1>1, <1>5, <2>1, Zenon DEF Settles, StatusBecomes, Unsettled
<1>6. \A c \in Conns : Result(c) \in Final
  BY DEF Result, Final
<1>7. "failed" \in Final
  BY DEF Final
<1>8. ASSUME NEW c \in Conns, HandleResult(c) \/ CompleteList(c) PROVE stream[c].msg[1] \in Keys
  <2>1. stream[c].msg \in Keys \X Conns
    BY <1>8, FinishRow, Zenon
  <2> QED
    BY <2>1
<1> QED
  BY <1>4, <1>5, <1>6, <1>7, <1>8, StatusSteps, Zenon

(* An answer given on the agent's stream is claimed by its goroutine only. *)
LEMMA OwnClaims ==
  ASSUME Shape, StreamInv, MessageInv, Next, NEW d \in Conns, agentConn = d, NEW k \in Keys,
         <<k, d>> \in claimed', <<k, d>> \notin claimed
  PROVE  <<k, d>> \in toGateway[d] /\ ClaimMessage(d, <<k, d>>)
<1> USE RunmanAssumption
<1> DEFINE m == <<k, d>>
<1>1. m[2] = d
  OBVIOUS
<1>2. PICK c \in Conns : m \in toGateway[c] /\ ClaimMessage(c, m)
  BY Claims, Zenon
<1> HIDE DEF m
<1>3. m[2] <= c
  BY <1>2, Zenon DEF MessageInv, MessageFact
<1>4. ~(c > opened)
  BY <1>2, Zenon DEF StreamInv, StreamFact
<1>5. opened = d
  BY Zenon DEF Shape, AgentShape
<1>6. c = d
  BY <1>1, <1>3, <1>4, <1>5, SMT, SMTT(30) DEF Conns
<1> QED
  BY <1>2, <1>6, Zenon DEF m

(* The agent starts with an empty stream. *)
LEMMA SentConnect ==
  ASSUME Shape, StreamInv, MessageInv, Connect, NEW d \in Conns, agentConn' = d, NEW k \in Keys
  PROVE  OnceFact(d, k)' /\ AnswerFact(d, k)'
<1> USE RunmanAssumption
<1>1. /\ d = opened + 1 /\ Becomes(d, "stored", stream[d].queue, stream[d].sent, stream[d].msg)
      /\ UNCHANGED <<toAgent, toGateway, claimed>>
  <2>1. d = opened + 1 /\ UNCHANGED <<toAgent, toGateway, claimed>>
    BY Zenon DEF Connect, networkVars
  <2> QED
    BY <2>1, ConnectStep, Zenon
<1>2. opened \in Nat
  BY Frames, SMT, SMTT(30) DEF AgentOK
<1>3. d > opened
  BY <1>1, <1>2, SMT, SMTT(30)
<1>4. stream'[d].sent = {} /\ toAgent'[d] = {} /\ toGateway'[d] = {}
  BY <1>1, <1>3, Zenon DEF StreamInv, StreamFact, Becomes
<1>5. <<k, d>> \notin claimed
  <2> SUFFICES ASSUME <<k, d>> \in claimed PROVE FALSE
    OBVIOUS
  <2>1. <<k, d>>[2] <= opened
    BY Zenon DEF MessageInv
  <2> QED
    BY <1>1, <1>2, <2>1, SMT, SMTT(30)
<1> QED
  BY <1>1, <1>4, <1>5, Zenon DEF OnceFact, AnswerFact

Facts(d, k) == OnceFact(d, k) /\ AnswerFact(d, k)

(* A goroutine that claims a message takes it from the stream. *)
LEMMA NotTaken ==
  ASSUME Shape, NEW d \in Conns, toGateway'[d] = toGateway[d]
  PROVE  ~(\E m \in toGateway[d] : ClaimMessage(d, m))
<1> SUFFICES ASSUME NEW m \in toGateway[d], ClaimMessage(d, m) PROVE FALSE
  BY Zenon
<1>1. toGateway'[d] = toGateway[d] \ {m}
  BY Frames, Zenon DEF ClaimMessage, NetworkOK
<1> QED
  BY <1>1, Zenon

(* A step that changes neither the stream nor what is on its way on it. *)
LEMMA SentFrame ==
  ASSUME Shape, StreamInv, KnownInv, MessageInv, Next,
         NEW d \in Conns, agentConn = d, NEW k \in Keys, Facts(d, k),
         stream'[d].sent = stream[d].sent, toAgent'[d] = toAgent[d],
         toGateway'[d] = toGateway[d],
         \/ stream'[d].pc = stream[d].pc /\ stream'[d].msg = stream[d].msg
         \/ stream'[d].pc = "unregistered" /\ stream[d].pc = "ended"
         \/ stream'[d].pc = "saved" /\ stream[d].pc = "claimed" /\ stream'[d].msg = stream[d].msg
         \/ stream[d].pc \notin {"claimed", "saved", "ended", "unregistered"},
         ~(\E m \in toGateway[d] : ClaimMessage(d, m))
  PROVE  OnceFact(d, k)' /\ AnswerFact(d, k)'
<1>1. <<k, d>> \in claimed' => <<k, d>> \in claimed
  BY OwnClaims, Zenon
<1>2. stream[d].sent \subseteq Written
  BY Zenon DEF KnownInv, KnownFact, Sendable
<1>3. k \in stream'[d].sent /\ k \in Unsettled' => k \in stream[d].sent \intersect Unsettled
  BY <1>2, NotReopened, Zenon
<1>4. OnceFact(d, k)'
  <2>1. stream[d].pc \in {"ended", "unregistered"} => stream'[d].pc \in {"ended", "unregistered"}
    OBVIOUS
  <2> QED
    BY <1>1, <2>1, Zenon DEF Facts, OnceFact
<1>5. AnswerFact(d, k)'
  <2>1. stream[d].pc \in {"claimed", "saved"} =>
          stream'[d].pc \in {"claimed", "saved"} /\ stream'[d].msg = stream[d].msg
    OBVIOUS
  <2> QED
    BY <1>3, <2>1, Zenon DEF Facts, AnswerFact
<1> QED
  BY <1>4, <1>5

(* The steps of the goroutine of the agent's stream. *)
LEMMA SentOwn ==
  ASSUME Shape, StreamInv, KnownInv, MessageInv, Next,
         NEW d \in Conns, agentConn = d, agentConn' = d, NEW k \in Keys, Facts(d, k), OwnStep(d)
  PROVE  OnceFact(d, k)' /\ AnswerFact(d, k)'
<1> USE RunmanAssumption
<1>1. NetworkOK /\ StoreOK /\ NetworkOK' /\ None \notin Conns
  <2>1. NetworkOK'
    BY ShapeInductive, NextTypesByOwner, Zenon DEF Shape
  <2> QED
    BY <2>1, Frames, Zenon
<1>2. stream[d].sent \subseteq Written
  BY Zenon DEF KnownInv, KnownFact, Sendable
<1>3. k \in stream[d].sent /\ k \in Unsettled' => k \in stream[d].sent \intersect Unsettled
  BY <1>2, NotReopened, Zenon
<1>4. CASE Register(d) \/ Unregister(d) \/ ReadPending(d)
  <2>1. UNCHANGED <<toAgent, toGateway>>
    BY <1>4, Zenon DEF Register, Unregister, ReadPending, networkVars
  <2>2. stream'[d].sent = stream[d].sent
    BY <1>4, RegisterStep, ReadStep, Zenon DEF Becomes
  <2>3. ~(\E m \in toGateway[d] : ClaimMessage(d, m))
    BY <2>1, NotTaken, Zenon
  <2>4. CASE Register(d) \/ ReadPending(d)
    <3>1. stream[d].pc \notin {"claimed", "saved", "ended", "unregistered"}
      BY <2>4, Zenon DEF Register, ReadPending
    <3> QED
      BY <2>1, <2>2, <2>3, <3>1, SentFrame, Zenon
  <2>5. CASE Unregister(d)
    <3>1. stream[d].pc = "ended" /\ Goto(d, "unregistered")
      BY <2>5, Zenon DEF Unregister
    <3>2. stream'[d].pc = "unregistered"
      BY <3>1, Frames, ZenonT(40) DEF Goto, GatewayOK, StreamRows
    <3> QED
      BY <2>1, <2>2, <2>3, <3>1, <3>2, SentFrame, Zenon
  <2> QED
    BY <1>4, <2>4, <2>5
<1>5. CASE (\E j \in Keys : RejectCommand(d, j)) \/ MarkSent(d) \/ SavePortForwards(d)
  <2>1. UNCHANGED <<toAgent, toGateway>>
    BY <1>5, Zenon DEF RejectCommand, MarkSent, SavePortForwards, networkVars
  <2>2. stream'[d].sent = stream[d].sent
    BY <1>5, RejectStep, MarkSentStep, SaveRow, Zenon DEF Becomes
  <2>3. ~(\E m \in toGateway[d] : ClaimMessage(d, m))
    BY <2>1, NotTaken, Zenon
  <2>4. CASE (\E j \in Keys : RejectCommand(d, j)) \/ MarkSent(d)
    <3>1. stream[d].pc \notin {"claimed", "saved", "ended", "unregistered"}
      BY <2>4, Zenon DEF RejectCommand, MarkSent
    <3> QED
      BY <2>1, <2>2, <2>3, <3>1, SentFrame, Zenon
  <2>5. CASE SavePortForwards(d)
    <3>1. /\ stream[d].pc = "claimed" /\ stream'[d].pc = "saved"
          /\ stream'[d].msg = stream[d].msg
      BY <2>5, SaveRow, Zenon DEF SavePortForwards, Becomes
    <3> QED
      BY <2>1, <2>2, <2>3, <3>1, SentFrame, Zenon
  <2> QED
    BY <1>5, <2>4, <2>5
<1>6. ASSUME NEW j \in Keys, SendCommand(d, j) PROVE OnceFact(d, k)' /\ AnswerFact(d, k)'
  <2>1. Becomes(d, "marking", stream[d].queue, stream[d].sent \union {j}, j)
    BY <1>6, SendStepRow, Zenon
  <2>2. toAgent'[d] = toAgent[d] \union {j} /\ toGateway' = toGateway /\ claimed' = claimed
    BY <1>1, <1>6, Zenon DEF SendCommand, NetworkOK, storeVars
  <2>3. stream[d].pc = "sending" /\ j \in stream[d].queue
    BY <1>6, Zenon DEF SendCommand
  <2>4. j \notin stream[d].sent
    BY <2>3, Zenon DEF StreamInv, StreamFact
  <2>5. stream[d].pc \notin {"ended", "unregistered", "claimed", "saved"}
    BY <2>3
  <2>6. OnceFact(d, k)'
    BY <2>1, <2>2, <2>4, <2>5, Zenon DEF Becomes, Facts, OnceFact
  <2>7. AnswerFact(d, k)'
    BY <1>3, <2>1, <2>2, <2>5, Zenon DEF Becomes, Facts, AnswerFact
  <2> QED
    BY <2>6, <2>7
<1>7. ASSUME NEW m \in toGateway[d], ClaimMessage(d, m) PROVE OnceFact(d, k)' /\ AnswerFact(d, k)'
  <2>1. /\ toGateway'[d] = toGateway[d] \ {m} /\ toAgent' = toAgent
        /\ claimed' = claimed \union {m} /\ stream[d].pc = "loop"
    BY <1>1, <1>7, Zenon DEF ClaimMessage, NetworkOK
  <2>2. stream[d].pc \notin {"ended", "unregistered", "claimed", "saved"}
    BY <2>1
  <2>3. CASE m \in claimed /\ UNCHANGED stream
    <3>1. m # <<k, d>>
      BY <2>3, Zenon DEF Facts, OnceFact
    <3> QED
      BY <1>3, <2>1, <2>2, <2>3, <3>1, Zenon DEF Facts, OnceFact, AnswerFact
  <2>4. CASE Becomes(d, "claimed", stream[d].queue, stream[d].sent, m)
    <3>1. OnceFact(d, k)'
      BY <2>1, <2>2, <2>4, Zenon DEF Becomes, Facts, OnceFact
    <3>2. AnswerFact(d, k)'
      BY <1>3, <2>1, <2>2, <2>4, Zenon DEF Becomes, Facts, AnswerFact
    <3> QED
      BY <3>1, <3>2
  <2> QED
    BY <1>7, <2>3, <2>4, ClaimStepRow, Zenon
<1>8. CASE HandleResult(d) \/ CompleteList(d)
  <2>1. Becomes(d, "loop", stream[d].queue, stream[d].sent, None)
        /\ stream[d].msg \in Keys \X Conns /\ stream[d].pc \in {"claimed", "saved"}
    BY <1>8, FinishRow, Zenon
  <2>2. UNCHANGED <<toAgent, toGateway, claimed>>
    BY <1>8, Zenon DEF HandleResult, CompleteList, networkVars
  <2>3. stream[d].pc \notin {"ended", "unregistered"}
    BY <2>1
  <2>4. OnceFact(d, k)'
    BY <2>1, <2>2, <2>3, Zenon DEF Becomes, Facts, OnceFact
  <2>5. ASSUME stream[d].msg = <<k, d>> PROVE k \notin Unsettled'
    <3>1. stream[d].msg[1] = k
      BY <2>5, SMT, SMTT(30)
    <3>2. Terminal(k)'
      <4>1. Result(d) \in Final
        BY DEF Result, Final
      <4>2. (Terminal(k) /\ cmd' = cmd) \/ cmd'[k].status = Result(d)
        BY <1>8, <3>1, FinishRow, Zenon DEF Result, StatusBecomes
      <4> QED
        BY <4>1, <4>2, Zenon DEF Terminal
    <3> QED
      BY <3>2 DEF Terminal, Unsettled, Final
  <2>6. AnswerFact(d, k)'
    BY <1>3, <2>1, <2>2, <2>5, Zenon DEF Becomes, Facts, AnswerFact
  <2> QED
    BY <2>4, <2>6
<1>9. CASE HandlerFails(d)
  <2>1. /\ stream'[d].pc = "ended" /\ stream'[d].sent = {} /\ toAgent'[d] = {}
        /\ toGateway'[d] = {}
    <3>1. /\ Becomes(d, "ended", {}, {}, None)
          /\ toAgent' = [toAgent EXCEPT ![d] = {}] /\ toGateway' = [toGateway EXCEPT ![d] = {}]
      BY <1>9, LeaveSteps, Zenon
    <3> QED
      BY <1>1, <3>1, Zenon DEF Becomes, NetworkOK
  <2> QED
    BY <2>1, Zenon DEF OnceFact, AnswerFact
<1>10. ~StreamEnds(d) /\ ~Disconnected(d)
  BY <1>1, Zenon DEF StreamEnds, Disconnected
<1> QED
  BY <1>4, <1>5, <1>6, <1>7, <1>8, <1>9, <1>10, Zenon DEF OwnStep

(* Every step keeps what is known of the stream that the agent uses. *)
LEMMA SentStep ==
  ASSUME Shape, StreamInv, KnownInv, MessageInv, SentInv, Next
  PROVE  SentInv'
<1> USE RunmanAssumption
<1> SUFFICES ASSUME NEW d \in Conns, agentConn' = d, NEW k \in Keys
             PROVE  OnceFact(d, k)' /\ AnswerFact(d, k)'
  BY Zenon DEF SentInv
<1>1. CASE Connect
  BY <1>1, SentConnect, Zenon
<1>2. CASE AgentLeaves \/ GatewayCrashes
  BY <1>2, Zenon DEF AgentLeaves, GatewayCrashes
<1>3. NetworkOK /\ None \notin Conns
  BY Frames, Zenon
<1>4. agentConn = d => Facts(d, k)
  BY Zenon DEF SentInv, Facts
<1>5. CASE QuietStep
  <2>1. UNCHANGED <<stream, toAgent, toGateway, agentConn, claimed>>
    BY <1>5, QuietSteps, Zenon
  <2>2. ~(\E m \in toGateway[d] : ClaimMessage(d, m))
    BY <2>1, NotTaken, Zenon
  <2> QED
    BY <1>4, <2>1, <2>2, SentFrame, Zenon
<1>6. ASSUME NEW j \in Keys, AgentReceives(j) \/ \E e \in Conns : AgentRepeats(j, e)
      PROVE  OnceFact(d, k)' /\ AnswerFact(d, k)'
  <2>1. agentConn = d /\ UNCHANGED <<stream, cmd, claimed>>
    BY <1>6, Zenon DEF AgentReceives, AgentRepeats, gatewayVars, storeVars
  <2>2. CASE AgentReceives(j)
    <3>1. /\ toAgent'[d] = toAgent[d] \ {j} /\ toGateway'[d] = toGateway[d] \union {<<j, d>>}
          /\ j \in toAgent[d]
      BY <1>3, <2>1, <2>2, Zenon DEF AgentReceives, Send, NetworkOK
    <3>2. CASE j = k
      BY <1>4, <2>1, <3>1, <3>2, Zenon DEF Facts, OnceFact, AnswerFact, Unsettled
    <3>3. CASE j # k
      <4>1. <<j, d>> # <<k, d>>
        BY <3>3
      <4> QED
        BY <1>4, <2>1, <3>1, <3>3, <4>1, Zenon DEF Facts, OnceFact, AnswerFact, Unsettled
    <3> QED
      BY <3>2, <3>3
  <2>3. ASSUME NEW e \in Conns, AgentRepeats(j, e) PROVE OnceFact(d, k)' /\ AnswerFact(d, k)'
    <3>1. toAgent' = toAgent /\ toGateway'[d] = toGateway[d] \union {<<j, e>>} /\ e < d
      BY <1>3, <2>1, <2>3, Zenon DEF AgentRepeats, Send, NetworkOK
    <3>2. <<j, e>> # <<k, d>>
      BY <3>1, SMT, SMTT(30) DEF Conns
    <3> QED
      BY <1>4, <2>1, <3>1, <3>2, Zenon DEF Facts, OnceFact, AnswerFact, Unsettled
  <2> QED
    BY <1>6, <2>2, <2>3
<1>7. ASSUME NEW c \in Conns, OwnStep(c) PROVE OnceFact(d, k)' /\ AnswerFact(d, k)'
  <2>1. agentConn = d
    BY <1>3, <1>7, OwnSteps, Zenon DEF Disconnected
  <2>2. CASE c = d
    BY <1>4, <1>7, <2>1, <2>2, SentOwn, Zenon
  <2>3. CASE c # d
    <3>1. Same(d)
      BY <1>7, <2>3, OwnSteps, Zenon
    <3>2. ~(\E m \in toGateway[d] : ClaimMessage(d, m))
      BY <3>1, NotTaken, Zenon DEF Same
    <3> QED
      BY <1>4, <2>1, <3>1, <3>2, SentFrame, Zenon DEF Same
  <2> QED
    BY <2>2, <2>3
<1> QED
  BY <1>1, <1>2, <1>5, <1>6, <1>7, <1>3, NextSteps, Zenon

-----------------------------------------------------------------------------
(* The inductive invariant.                                                  *)

(* It holds initially. *)
LEMMA RunmanInit == Init => RunmanInv
<1> USE RunmanAssumption
<1> SUFFICES ASSUME Init PROVE RunmanInv
  OBVIOUS
<1>1. Shape
  BY ShapeInit
<1>2. ASSUME NEW c \in Conns
      PROVE  /\ stream[c].pc = "none" /\ stream[c].queue = {} /\ stream[c].sent = {}
             /\ toAgent[c] = {} /\ toGateway[c] = {} /\ c > opened
  BY SMT, SMTT(30) DEF Init, NoStream, Conns
<1>3. StreamInv
  BY <1>2 DEF StreamInv, StreamFact
<1>4. \A k \in Keys : done[k] = "none" /\ cmd[k].status = "absent"
  BY DEF Init
<1>5. KnownInv
  BY <1>2, <1>4, Zenon DEF KnownInv, KnownFact
<1>6. MessageInv
  <2>1. answered = {} /\ claimed = {}
    BY Zenon DEF Init
  <2>2. ASSUME NEW c \in Conns PROVE MessageFact(c)
    BY <1>2 DEF MessageFact
  <2> QED
    BY <2>1, <2>2, Zenon DEF MessageInv
<1>7. SettledInv
  <2>1. ASSUME NEW c \in Conns PROVE SavedFact(c)
    BY <1>2, Zenon DEF SavedFact
  <2>2. \A k \in Keys : ~Terminal(k)
    BY <1>4 DEF Terminal, Final
  <2>3. ListIsStored
    BY <1>4 DEF ListIsStored
  <2> QED
    BY <2>1, <2>2, <2>3, Zenon DEF SettledInv
<1>8. SentInv
  BY Zenon DEF Init, SentInv
<1> QED
  BY <1>1, <1>3, <1>5, <1>6, <1>7, <1>8, Zenon DEF RunmanInv

(* Every step keeps it. *)
LEMMA RunmanInductive == RunmanInv /\ [Next]_vars => RunmanInv'
<1> SUFFICES ASSUME RunmanInv, [Next]_vars PROVE RunmanInv'
  OBVIOUS
<1>1. CASE Next
  <2>1. Shape'
    BY <1>1, ShapeInductive, Zenon DEF RunmanInv
  <2>2. StreamInv' /\ KnownInv'
    BY <1>1, StreamStep, KnownStep, Zenon DEF RunmanInv
  <2>3. MessageInv' /\ SettledInv'
    BY <1>1, MessageStep, SettledStep, Zenon DEF RunmanInv
  <2>4. SentInv'
    BY <1>1, SentStep, Zenon DEF RunmanInv
  <2> QED
    BY <2>1, <2>2, <2>3, <2>4, Zenon DEF RunmanInv
<1>2. CASE UNCHANGED vars
  <2>1. Shape'
    BY ShapeInductive, Zenon DEF RunmanInv
  <2>2. UNCHANGED <<cmd, claimed, listed, stream, toAgent, toGateway, agentConn, opened, done,
                    answered>>
    BY <1>2, Zenon DEF vars, storeVars, gatewayVars, networkVars, agentVars
  <2>3. StreamInv'
    BY <2>2, Zenon DEF RunmanInv, StreamInv, StreamFact
  <2>4. KnownInv'
    BY <2>2, Zenon DEF RunmanInv, KnownInv, KnownFact, Written, Sendable
  <2>5. MessageInv'
    BY <2>2, Zenon DEF RunmanInv, MessageInv, MessageFact
  <2>6. SettledInv'
    BY <2>2, Zenon DEF RunmanInv, SettledInv, SavedFact, ListIsStored, Terminal
  <2>7. SentInv'
    BY <2>2, ZenonT(40) DEF RunmanInv, SentInv, OnceFact, AnswerFact, Unsettled
  <2> QED
    BY <2>1, <2>3, <2>4, <2>5, <2>6, <2>7, Zenon DEF RunmanInv
<1> QED
  BY <1>1, <1>2

(* So it is an invariant. *)
LEMMA RunmanInvariant == Spec => []RunmanInv
<1>1. Init => RunmanInv
  BY RunmanInit
<1>2. RunmanInv /\ [Next]_vars => RunmanInv'
  BY RunmanInductive
<1> QED
  BY <1>1, <1>2, PTL DEF Spec

(* When ListPortForwards reads agent_port_forwards after its command was      *)
(* reported successful, the answer to this command is in the table: the       *)
(* gateway stores it before it completes the command, whatever stream or      *)
(* process breaks in between.                                                 *)
THEOREM ListsAreStored == Spec => []ListIsStored
<1>1. RunmanInv => ListIsStored
  BY Zenon DEF RunmanInv, SettledInv
<1> QED
  BY <1>1, RunmanInvariant, PTL

(* While the agent uses a stream, each unsettled command that was sent on it  *)
(* is on its way to the agent, or its answer is on its way back or being      *)
(* handled: no duplicate id in agent_messages and no failed statement         *)
(* swallows the only answer.                                                  *)
THEOREM SentCommandsAreAnswered == Spec => []SentIsAnswered
<1>1. ASSUME RunmanInv PROVE SentIsAnswered
  <2>1. ASSUME NEW c \in Conns, agentConn = c, NEW k \in stream[c].sent \intersect Unsettled
        PROVE  \/ k \in toAgent[c] \/ <<k, c>> \in toGateway[c]
               \/ stream[c].pc \in {"claimed", "saved"} /\ stream[c].msg = <<k, c>>
    <3>1. k \in Keys
      BY Zenon DEF Unsettled
    <3> QED
      BY <1>1, <2>1, <3>1, Zenon DEF RunmanInv, SentInv, AnswerFact
  <2> QED
    BY <2>1, Zenon DEF SentIsAnswered
<1> QED
  BY <1>1, RunmanInvariant, PTL

-----------------------------------------------------------------------------
(* The contract of a command.                                                *)

Mapped(s) == IF s \in {"queued", "dispatched"} THEN "pending" ELSE s

MapStatus == [k \in Keys |-> Mapped(cmd[k].status)]

MapTold == {t \in told : t[2] \in Final}

(* The actions of the contract in terms of the mapped state. *)
LEMMA ContractActions ==
  ASSUME NEW k \in Keys
  PROVE  /\ MapStatus[k] = "absent" /\ MapStatus' = [MapStatus EXCEPT ![k] = "pending"]
              /\ done' = done /\ MapTold' = MapTold => Contract!Request(k)
         /\ MapStatus[k] = "pending" /\ done[k] # "none"
              /\ MapStatus' = [MapStatus EXCEPT ![k] = IF done[k] = "ok" THEN "succeeded"
                                                       ELSE "failed"]
              /\ done' = done /\ MapTold' = MapTold => Contract!Settle(k)
         /\ MapStatus[k] = "pending" /\ done[k] = "none"
              /\ MapStatus' = [MapStatus EXCEPT ![k] = "failed"]
              /\ done' = done /\ MapTold' = MapTold => Contract!Reject(k)
         /\ MapStatus[k] \in {"succeeded", "failed"}
              /\ MapTold' = MapTold \union {<<k, MapStatus[k]>>}
              /\ MapStatus' = MapStatus /\ done' = done => Contract!Tell(k)
         /\ \A o \in {"ok", "error"} :
              MapStatus[k] = "pending" /\ done[k] = "none" /\ done' = [done EXCEPT ![k] = o]
              /\ MapStatus' = MapStatus /\ MapTold' = MapTold => Contract!CarryOut(k, o)
<1>1. MapStatus[k] = "absent" /\ MapStatus' = [MapStatus EXCEPT ![k] = "pending"]
      /\ done' = done /\ MapTold' = MapTold => Contract!Request(k)
  BY Zenon DEF Contract!Request, MapStatus, Mapped, MapTold
<1>2. MapStatus[k] = "pending" /\ done[k] # "none"
      /\ MapStatus' = [MapStatus EXCEPT ![k] = IF done[k] = "ok" THEN "succeeded" ELSE "failed"]
      /\ done' = done /\ MapTold' = MapTold => Contract!Settle(k)
  BY Zenon DEF Contract!Settle, MapStatus, Mapped, MapTold
<1>3. MapStatus[k] = "pending" /\ done[k] = "none"
      /\ MapStatus' = [MapStatus EXCEPT ![k] = "failed"]
      /\ done' = done /\ MapTold' = MapTold => Contract!Reject(k)
  BY Zenon DEF Contract!Reject, MapStatus, Mapped, MapTold
<1>4. MapStatus[k] \in {"succeeded", "failed"}
      /\ MapTold' = MapTold \union {<<k, MapStatus[k]>>}
      /\ MapStatus' = MapStatus /\ done' = done => Contract!Tell(k)
  BY Zenon DEF Contract!Tell, MapStatus, Mapped, MapTold
<1>5. \A o \in {"ok", "error"} :
        MapStatus[k] = "pending" /\ done[k] = "none" /\ done' = [done EXCEPT ![k] = o]
        /\ MapStatus' = MapStatus /\ MapTold' = MapTold => Contract!CarryOut(k, o)
  BY Zenon DEF Contract!CarryOut, MapStatus, Mapped, MapTold
<1> QED
  BY <1>1, <1>2, <1>3, <1>4, <1>5, Zenon

(* A step that the contract does not see. *)
LEMMA ContractStutters ==
  ASSUME MapStatus' = MapStatus, done' = done, MapTold' = MapTold
  PROVE  UNCHANGED Contract!vars
BY Zenon DEF Contract!vars, MapStatus, Mapped, MapTold

(* What the status of a command is mapped to. *)
LEMMA MapKeeps ==
  ASSUME Keeps \/ cmd' = cmd
  PROVE  MapStatus' = MapStatus
<1>1. ASSUME NEW j \in Keys PROVE Mapped(cmd'[j].status) = Mapped(cmd[j].status)
  BY DEF Keeps, Mapped
<1> QED
  BY <1>1, Zenon DEF MapStatus

(* The same, of a command whose status changes. *)
LEMMA MapChanges ==
  ASSUME NEW k \in Keys, NEW s, StatusBecomes(k, s)
  PROVE  MapStatus' = [MapStatus EXCEPT ![k] = Mapped(s)]
<1>1. \A j \in Keys : Mapped(cmd'[j].status) = IF j = k THEN Mapped(s) ELSE Mapped(cmd[j].status)
  BY Zenon DEF StatusBecomes
<1>2. MapStatus' = [j \in Keys |-> Mapped(cmd'[j].status)]
  BY Zenon DEF MapStatus, Mapped
<1>3. [MapStatus EXCEPT ![k] = Mapped(s)]
      = [j \in Keys |-> IF j = k THEN Mapped(s) ELSE Mapped(cmd[j].status)]
  BY ZenonT(40) DEF MapStatus
<1> QED
  BY <1>1, <1>2, <1>3, Zenon

(* A step of a caller requests a command, tells a result, or is not seen. *)
LEMMA CallContract ==
  ASSUME RunmanInv, NEW w \in Callers, CallStep(w)
  PROVE  [Contract!Next]_(Contract!vars)
<1>1. Shape /\ StoreOK /\ CallShape
  BY Frames, Zenon DEF RunmanInv, Shape
<1>2. done' = done
  BY <1>1, QuietSteps, Zenon DEF QuietStep
<1>3. ASSUME NEW k \in Keys, Terminal(k), cmd' = cmd, told' = told \union {<<k, cmd[k].status>>}
      PROVE  [Contract!Next]_(Contract!vars)
  <2>1. MapStatus' = MapStatus
    BY <1>3, MapKeeps, Zenon
  <2>2. MapStatus[k] = cmd[k].status /\ MapStatus[k] \in {"succeeded", "failed"}
    BY <1>3 DEF MapStatus, Mapped, Terminal, Final
  <2>3. MapTold' = MapTold \union {<<k, cmd[k].status>>}
    <3>1. <<k, cmd[k].status>>[2] \in Final
      BY <1>3 DEF Terminal
    <3> QED
      BY <1>3, <3>1, Zenon DEF MapTold
  <2>4. Contract!Tell(k)
    BY <1>2, <2>1, <2>2, <2>3, ContractActions, Zenon
  <2> QED
    BY <2>4, Zenon DEF Contract!Next
<1>4. ASSUME Keeps \/ cmd' = cmd, MapTold' = MapTold PROVE [Contract!Next]_(Contract!vars)
  BY <1>2, <1>4, MapKeeps, ContractStutters, Zenon
<1>5. ASSUME NEW k \in Keys, CreateCommand(w, k) PROVE [Contract!Next]_(Contract!vars)
  <2>1. CASE cmd[k].status = "absent" /\ told' = told /\ cmd' # cmd
    <3>1. StatusBecomes(k, "queued")
      BY <1>1, <1>5, <2>1, CreateStep, Zenon
    <3>2. MapStatus' = [MapStatus EXCEPT ![k] = "pending"]
      <4>1. Mapped("queued") = "pending"
        BY DEF Mapped
      <4> QED
        BY <3>1, <4>1, MapChanges, Zenon
    <3>3. MapStatus[k] = "absent"
      BY <2>1 DEF MapStatus, Mapped
    <3>4. MapTold' = MapTold
      BY <2>1, Zenon DEF MapTold
    <3>5. Contract!Request(k)
      BY <1>2, <3>2, <3>3, <3>4, ContractActions, Zenon
    <3> QED
      BY <3>5, Zenon DEF Contract!Next
  <2>2. CASE cmd' = cmd /\ told' = told
    <3>1. MapTold' = MapTold
      BY <2>2, Zenon DEF MapTold
    <3> QED
      BY <1>4, <2>2, <3>1, Zenon
  <2>3. CASE Terminal(k) /\ cmd' = cmd /\ told' = told \union {<<k, cmd[k].status>>}
    BY <1>3, <2>3, Zenon
  <2>4. CASE cmd' = cmd /\ told' = told \union {<<k, "conflict">>}
    <3>1. <<k, "conflict">>[2] \notin Final
      BY DEF Final
    <3>2. MapTold' = MapTold
      BY <2>4, <3>1, Zenon DEF MapTold
    <3> QED
      BY <1>4, <2>4, <3>2, Zenon
  <2> QED
    BY <1>5, <2>1, <2>2, <2>3, <2>4, Zenon DEF CreateCommand
<1>6. CASE MarkIssued(w) \/ Timeout(w) \/ WorkerCrashes(w)
  <2>1. Keeps \/ cmd' = cmd
    BY <1>1, <1>6, CallSteps, Zenon
  <2>2. MapTold' = MapTold
    BY <1>6, Zenon DEF MapTold, MarkIssued, Timeout, WorkerCrashes
  <2> QED
    BY <1>4, <2>1, <2>2
<1>7. CASE Poll(w)
  <2>1. call[w].pc # "idle"
    BY <1>7 DEF Poll
  <2>2. call[w].key \in Keys
    BY <1>1, <2>1, Zenon DEF CallShape
  <2> QED
    BY <1>3, <1>7, <2>2, Zenon DEF Poll, storeVars
<1> QED
  BY <1>5, <1>6, <1>7, Zenon DEF CallStep

(* Every step is a step of the contract, or is not seen. *)
LEMMA ContractStep ==
  ASSUME RunmanInv, Next
  PROVE  [Contract!Next]_(Contract!vars)
<1>1. Shape /\ StoreOK /\ AgentOK /\ KnownInv /\ MessageInv /\ SettledInv
  BY Frames, Zenon DEF RunmanInv
<1>2. ASSUME NEW k \in Written, ~Terminal(k) PROVE MapStatus[k] = "pending"
  <2>1. k \in Keys /\ cmd[k].status # "absent"
    BY <1>2, Zenon DEF Written
  <2>2. cmd[k].status \in {"absent", "queued", "dispatched"} \union Final
    BY <1>1, <2>1 DEF StoreOK, CommandRows
  <2> QED
    BY <1>2, <2>1, <2>2 DEF MapStatus, Mapped, Terminal
<1>3. CASE \E w \in Callers : CallStep(w)
  BY <1>3, CallContract, Zenon
<1>4. CASE UNCHANGED told /\ UNCHANGED done /\ (Keeps \/ cmd' = cmd)
  <2>1. MapTold' = MapTold
    BY <1>4, Zenon DEF MapTold
  <2> QED
    BY <1>4, <2>1, MapKeeps, ContractStutters, Zenon
<1>5. ASSUME NEW c \in Conns, NEW k \in Keys, RejectCommand(c, k)
      PROVE  [Contract!Next]_(Contract!vars)
  <2>1. done' = done /\ told' = told
    BY <1>5, Zenon DEF RejectCommand, agentVars, callVars
  <2>2. CASE cmd' = cmd
    BY <1>4, <2>1, <2>2
  <2>3. CASE ~Terminal(k) /\ StatusBecomes(k, "failed")
    <3>1. k \in Written /\ ~Encodable(k)
      BY <1>1, <1>5, Zenon DEF RejectCommand, KnownInv, KnownFact
    <3>2. done[k] = "none"
      BY <1>1, <3>1, Zenon DEF KnownInv, Sendable
    <3>3. MapStatus' = [MapStatus EXCEPT ![k] = "failed"]
      <4>1. Mapped("failed") = "failed"
        BY DEF Mapped
      <4> QED
        BY <2>3, <4>1, MapChanges, Zenon
    <3>4. MapTold' = MapTold
      BY <2>1, Zenon DEF MapTold
    <3>5. Contract!Reject(k)
      BY <1>2, <2>1, <2>3, <3>1, <3>2, <3>3, <3>4, ContractActions, Zenon
    <3> QED
      BY <3>5, Zenon DEF Contract!Next
  <2> QED
    BY <1>1, <1>5, <2>2, <2>3, RejectStep, Zenon
<1>6. ASSUME NEW c \in Conns, HandleResult(c) \/ CompleteList(c)
      PROVE  [Contract!Next]_(Contract!vars)
  <2>1. done' = done /\ told' = told
    BY <1>6, Zenon DEF HandleResult, CompleteList, agentVars, callVars
  <2>2. CASE cmd' = cmd
    BY <1>4, <2>1, <2>2
  <2>3. stream[c].msg \in Keys \X Conns /\ stream[c].pc \in {"claimed", "saved"}
    BY <1>1, <1>6, FinishRow, Zenon
  <2>4. PICK k \in Keys : k = stream[c].msg[1]
    BY <2>3
  <2>5. CASE ~Terminal(k) /\ StatusBecomes(k, Result(c))
    <3>1. done[k] # "none"
      BY <1>1, <2>3, <2>4, Zenon DEF MessageInv, MessageFact
    <3>2. k \in Written
      BY <1>1, <3>1, Zenon DEF KnownInv, Sendable
    <3>3. Result(c) = IF done[k] = "ok" THEN "succeeded" ELSE "failed"
      BY <1>1, <2>4, Zenon DEF Result, SettledInv, SavedFact
    <3>4. Mapped(Result(c)) = IF done[k] = "ok" THEN "succeeded" ELSE "failed"
      BY <3>3 DEF Mapped
    <3>5. MapStatus' = [MapStatus EXCEPT ![k] = IF done[k] = "ok" THEN "succeeded" ELSE "failed"]
      BY <2>5, <3>4, MapChanges, Zenon
    <3>6. MapTold' = MapTold
      BY <2>1, Zenon DEF MapTold
    <3>7. Contract!Settle(k)
      BY <1>2, <2>1, <2>5, <3>1, <3>2, <3>5, <3>6, ContractActions, Zenon
    <3> QED
      BY <3>7, Zenon DEF Contract!Next
  <2> QED
    BY <1>1, <1>6, <2>2, <2>4, <2>5, FinishRow, Zenon DEF Result
<1>7. ASSUME NEW k \in Keys, AgentReceives(k) PROVE [Contract!Next]_(Contract!vars)
  <2>1. cmd' = cmd /\ told' = told
    BY <1>7, Zenon DEF AgentReceives, storeVars, callVars
  <2>2. CASE done' = done
    BY <1>4, <2>1, <2>2
  <2>3. ASSUME NEW o \in {"ok", "error"}, done' = [done EXCEPT ![k] = o], done[k] = "none"
        PROVE  [Contract!Next]_(Contract!vars)
    <3>1. agentConn \in Conns /\ k \in toAgent[agentConn]
      BY <1>1, <1>7, AgentAnswers, Zenon DEF AgentReceives
    <3>2. k \in Written /\ Encodable(k)
      BY <1>1, <3>1, Zenon DEF KnownInv, KnownFact, Sendable
    <3>3. ~Terminal(k)
      BY <1>1, <2>3, <3>2, Zenon DEF SettledInv
    <3>4. MapStatus' = MapStatus /\ MapTold' = MapTold
      BY <2>1, MapKeeps, Zenon DEF MapTold
    <3>5. Contract!CarryOut(k, o)
      BY <1>2, <2>3, <3>2, <3>3, <3>4, ContractActions, Zenon
    <3> QED
      BY <3>5, Zenon DEF Contract!Next
  <2> QED
    BY <1>7, <2>2, <2>3, Zenon DEF AgentReceives
<1>8. ASSUME NEW c \in Conns, MarkSent(c) PROVE [Contract!Next]_(Contract!vars)
  <2>1. UNCHANGED told /\ UNCHANGED done
    BY <1>8, Zenon DEF MarkSent, agentVars, callVars
  <2> QED
    BY <1>1, <1>4, <1>8, <2>1, MarkSentStep, Zenon
<1>9. ASSUME NEW c \in Conns, OwnStep(c)
      PROVE  \/ \E k \in Keys : RejectCommand(c, k)
             \/ HandleResult(c) \/ CompleteList(c) \/ MarkSent(c)
             \/ UNCHANGED told /\ UNCHANGED done /\ cmd' = cmd
  BY <1>9, Zenon DEF OwnStep, Register, Unregister, Disconnected, ReadPending, SendCommand,
     ClaimMessage, SavePortForwards, HandlerFails, StreamEnds, storeVars, agentVars, callVars
<1>10. CASE \E c \in Conns : OwnStep(c)
  BY <1>4, <1>5, <1>6, <1>8, <1>9, <1>10, Zenon
<1>11. CASE \/ (\E c \in Conns : HandleHeartbeat(c)) \/ TimeStep \/ Connect \/ AgentLeaves
            \/ GatewayCrashes \/ \E k \in Keys, c \in Conns : AgentRepeats(k, c)
  <2>1. UNCHANGED told /\ UNCHANGED done /\ cmd' = cmd
    BY <1>11, Zenon DEF HandleHeartbeat, TimeStep, HeartbeatAges, ExpireHeartbeat, Connect,
       AgentLeaves, GatewayCrashes, AgentRepeats, storeVars, agentVars, callVars
  <2> QED
    BY <1>4, <2>1
<1> QED
  BY <1>3, <1>7, <1>10, <1>11, NextSteps, Zenon DEF QuietStep

(* Broker, gateway and agent implement the contract of a command: it is       *)
(* carried out at most once and only while it is pending, settled once with   *)
(* what the agent did, never reopened, and a caller is told success or        *)
(* failure only of a command that is settled so.                              *)
THEOREM GatewayImplementsContract == Spec => ImplementsContract
<1>1. Init => Contract!Init
  BY SMT, SMTT(30) DEF Init, Contract!Init
<1>2. RunmanInv /\ [Next]_vars => [Contract!Next]_(Contract!vars)
  <2> SUFFICES ASSUME RunmanInv, [Next]_vars PROVE [Contract!Next]_(Contract!vars)
    OBVIOUS
  <2>1. CASE UNCHANGED vars
    <3>1. cmd' = cmd /\ done' = done /\ told' = told
      BY <2>1, Zenon DEF vars, storeVars, agentVars, callVars
    <3>2. MapStatus' = MapStatus /\ MapTold' = MapTold
      BY <3>1, MapKeeps, Zenon DEF MapTold
    <3> QED
      BY <3>1, <3>2, ContractStutters, Zenon
  <2> QED
    BY <2>1, ContractStep, Zenon
<1> QED
  BY <1>1, <1>2, RunmanInvariant, PTL DEF Spec, ImplementsContract, Contract!Spec

(* The clean-up of a stream takes down only its own connection: an old stream *)
(* that ends late removes neither the map entry nor the agent_connections row *)
(* of a newer one.                                                            *)
THEOREM CleanUpsAreOwn == Spec => CleanUpIsOwn
<1>1. ASSUME Shape, [Next]_vars
      PROVE  [/\ registered # None /\ registered' = None /\ faults' = faults =>
                   stream[registered].pc = "ended"
              /\ connRow.status = "connected" /\ connRow'.status = "disconnected" =>
                   stream[connRow.id].pc = "unregistered" \/ (nodeOnline /\ ~connRow.fresh)]_vars
  <2> SUFFICES ASSUME Next
               PROVE  /\ registered # None /\ registered' = None /\ faults' = faults =>
                           stream[registered].pc = "ended"
                      /\ connRow.status = "connected" /\ connRow'.status = "disconnected" =>
                           \/ stream[connRow.id].pc = "unregistered"
                           \/ nodeOnline /\ ~connRow.fresh
    BY <1>1, Zenon
  <2>1. StoreOK /\ CallOK
    BY <1>1, Frames, Zenon
  <2>2. ASSUME registered # None, registered' = None, faults' = faults
        PROVE  stream[registered].pc = "ended"
    <3>1. ~GatewayCrashes
      BY <2>1, <2>2, RunmanAssumption, SMT, SMTT(30) DEF GatewayCrashes, CallOK
    <3>2. \A c \in Conns : ~Register(c)
      BY <2>2, RunmanAssumption, Zenon DEF Register
    <3>3. CASE \E c \in Conns : Unregister(c)
      BY <2>2, <3>3, Zenon DEF Unregister
    <3>4. ASSUME NEW c \in Conns, OwnStep(c) PROVE stream[registered].pc = "ended"
      <4>1. registered' = registered \/ Register(c) \/ Unregister(c)
        BY <3>4, Zenon DEF OwnStep, Disconnected, ReadPending, RejectCommand, SendCommand,
           MarkSent, ClaimMessage, HandleResult, CompleteList, SavePortForwards, HandlerFails,
           StreamEnds
      <4> QED
        BY <2>2, <3>2, <3>3, <4>1, Zenon
    <3>5. CASE QuietStep
      BY <2>2, <3>5, Zenon DEF QuietStep, CallStep, CreateCommand, MarkIssued, Poll, Timeout,
         WorkerCrashes, HandleHeartbeat, TimeStep, HeartbeatAges, ExpireHeartbeat, gatewayVars
    <3> QED
      BY <2>2, <3>1, <3>4, <3>5, NextSteps, Zenon DEF Connect, AgentLeaves, AgentReceives,
         AgentRepeats, gatewayVars
  <2>3. ASSUME connRow.status = "connected", connRow'.status = "disconnected"
        PROVE  stream[connRow.id].pc = "unregistered" \/ (nodeOnline /\ ~connRow.fresh)
    <3>1. connRow' # connRow
      BY <2>3
    <3>2. CASE \E c \in Conns : Disconnected(c)
      BY <3>1, <3>2, Zenon DEF Disconnected
    <3>3. CASE ExpireHeartbeat
      BY <3>3, Zenon DEF ExpireHeartbeat
    <3>4. ~Connect /\ ~HeartbeatAges /\ \A c \in Conns : ~HandleHeartbeat(c)
      BY <2>1, <2>3, ZenonT(40) DEF Connect, HeartbeatAges, HandleHeartbeat, StoreOK
    <3>5. ASSUME NEW c \in Conns, OwnStep(c)
          PROVE  stream[connRow.id].pc = "unregistered" \/ (nodeOnline /\ ~connRow.fresh)
      <4>1. connRow' = connRow \/ Disconnected(c)
        BY <3>5, Zenon DEF OwnStep, Register, Unregister, ReadPending, RejectCommand,
           SendCommand, MarkSent, ClaimMessage, HandleResult, CompleteList, SavePortForwards,
           HandlerFails, StreamEnds, storeVars
      <4> QED
        BY <3>1, <3>2, <4>1, Zenon
    <3>6. CASE QuietStep
      BY <3>1, <3>3, <3>4, <3>6, Zenon DEF QuietStep, CallStep, CreateCommand, MarkIssued, Poll,
         Timeout, WorkerCrashes, TimeStep, storeVars
    <3> QED
      BY <3>1, <3>4, <3>5, <3>6, NextSteps, Zenon DEF AgentLeaves, GatewayCrashes,
         AgentReceives, AgentRepeats, storeVars
  <2> QED
    BY <2>2, <2>3
<1> QED
  BY <1>1, RunmanTypes, PTL DEF Spec, CleanUpIsOwn
=============================================================================
