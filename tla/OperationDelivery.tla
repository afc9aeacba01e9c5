--------------------------- MODULE OperationDelivery ---------------------------
(***************************************************************************)
(* Delivery of Operations: the operations table and the outbox table in    *)
(* PostgreSQL, the Redis stream operation-queue with its consumer group,   *)
(* and the worker processes that dispatch, requeue, recover and execute.   *)
(*                                                                         *)
(* A PostgreSQL transaction is one action.  The Dispatcher is the          *)
(* exception: its transaction stays open while it talks to Redis, so it    *)
(* takes a step per event and its effects on the table appear at commit.   *)
(* The workflow an Operation runs is abstracted to the Progress calls it   *)
(* makes and to how it ends.                                               *)
(***************************************************************************)
EXTENDS Integers, FiniteSets

CONSTANTS
    Ops,            \* operations that may be created
    Workers,        \* worker processes (Redis consumers)
    MaxRetries,     \* the max_retries column of every operation
    Copies,         \* bound: distinguishes queue messages of one outbox row
    ReadCount,      \* the Count of XAUTOCLAIM and XREADGROUP (10 in the code)
    WorkflowStatuses, \* statuses the workflow reports through Progress
    MaxFaults,      \* bound: worker failures and failed publications
    RedisMayLose,   \* may Redis restart without its last appended messages?
    NoMessage       \* cur[w] when worker w processes no message

Active == {"running", "waiting_provider", "waiting_resource", "verifying"}
Terminal == {"succeeded", "failed"}
Status == {"absent", "queued", "retrying"} \cup Active \cup Terminal

ASSUME ConstantsAssumption ==
    /\ IsFiniteSet(Workers) /\ Workers # {}
    /\ MaxRetries \in Nat
    /\ Copies \subseteq Nat
    /\ ReadCount \in Nat \ {0}
    /\ WorkflowStatuses \subseteq Active
    /\ MaxFaults \in Nat
    /\ RedisMayLose \in BOOLEAN

\* A row of outbox_events with event_type operation.queued.v1.  An operation's
\* rows are told apart by its retry_count when the row was written.
Events == [op : Ops, n : Nat]

\* An entry of the stream; one row can be added several times.
Messages == [op : Ops, n : Nat, copy : Copies]

ASSUME NoMessageAssumption == NoMessage \notin Messages

VARIABLES
    status, retryCount, \* columns of operations
    heartbeat,  \* heartbeat_at: "null", "fresh", or "stale" (older than 2 min)
    due,        \* next_attempt_at <= now()
    outbox,     \* rows with status pending
    deferred,   \* those of them whose next_attempt_at is in the future
    stream,     \* messages the consumer group has not delivered yet
    pel,        \* delivered and not acknowledged
    idle,       \* those of them idle for longer than pendingIdle
    pc,         \* where each worker is in its loop over the processors
    locked,     \* outbox rows the worker's dispatcher transaction has locked
    sent,       \* those of them it has published and marked, uncommitted
    batch,      \* messages in the worker's memory, not yet acknowledged
    cur,        \* the message the worker is processing
    attempt,    \* current.RetryCount, as read by the worker's claim
    faults

dbVars == <<status, retryCount, heartbeat, due, outbox, deferred>>
rowVars == <<status, retryCount, heartbeat, due>>
redisVars == <<stream, pel, idle>>
dispatchVars == <<locked, sent>>
execVars == <<batch, cur, attempt>>
vars == <<dbVars, redisVars, pc, dispatchVars, execVars, faults>>

TypeOK ==
    /\ status \in [Ops -> Status]
    /\ retryCount \in [Ops -> Nat]
    /\ heartbeat \in [Ops -> {"null", "fresh", "stale"}]
    /\ due \in [Ops -> BOOLEAN]
    /\ outbox \subseteq Events /\ deferred \subseteq Events
    /\ stream \subseteq Messages /\ pel \subseteq Messages /\ idle \subseteq pel
    /\ pc \in [Workers -> {"dispatch", "publish", "retry", "recover",
                           "consume", "process", "execute", "ack"}]
    /\ locked \in [Workers -> SUBSET Events]
    /\ sent \in [Workers -> SUBSET Events]
    /\ batch \in [Workers -> SUBSET Messages]
    /\ cur \in [Workers -> Messages \cup {NoMessage}]
    /\ attempt \in [Workers -> Nat]
    /\ faults \in 0..MaxFaults

Init ==
    /\ status = [o \in Ops |-> "absent"]
    /\ retryCount = [o \in Ops |-> 0]
    /\ heartbeat = [o \in Ops |-> "null"]
    /\ due = [o \in Ops |-> TRUE]
    /\ outbox = {} /\ deferred = {}
    /\ stream = {} /\ pel = {} /\ idle = {}
    /\ pc = [w \in Workers |-> "dispatch"]
    /\ locked = [w \in Workers |-> {}] /\ sent = [w \in Workers |-> {}]
    /\ batch = [w \in Workers |-> {}]
    /\ cur = [w \in Workers |-> NoMessage]
    /\ attempt = [w \in Workers |-> 0]
    /\ faults = 0

Goto(w, label) == pc' = [pc EXCEPT ![w] = label]

-----------------------------------------------------------------------------
(* Creation, by the API or by the provision trigger                        *)

\* Create with a fresh idempotency key: the row and its event in one
\* transaction.  A repeated key finds the row and changes nothing.
Create(o) ==
    /\ status[o] = "absent"
    /\ status' = [status EXCEPT ![o] = "queued"]
    /\ outbox' = outbox \cup {[op |-> o, n |-> 0]}
    /\ UNCHANGED <<retryCount, heartbeat, due, deferred, redisVars, pc,
                   dispatchVars, execVars, faults>>

-----------------------------------------------------------------------------
(* Outbox dispatcher                                                       *)

Free(m) ==
    m \notin stream \cup pel \cup UNION {batch[w] : w \in Workers}

Entry(e, c) == [op |-> e.op, n |-> e.n, copy |-> c]

XAdd(e) ==
    \E c \in Copies :
        /\ Free(Entry(e, c))
        /\ \A d \in Copies : d < c => ~Free(Entry(e, d))
        /\ stream' = stream \cup {Entry(e, c)}

\* ClaimOutboxEvents: due rows that no open dispatcher transaction has locked
\* (FOR UPDATE SKIP LOCKED).
ClaimableRows == outbox \ (deferred \cup UNION {locked[v] : v \in Workers})

DispatchClaim(w) ==
    /\ pc[w] = "dispatch"
    /\ locked' = [locked EXCEPT ![w] = ClaimableRows]
    /\ Goto(w, "publish")
    /\ UNCHANGED <<dbVars, redisVars, sent, execVars, faults>>

DispatchPublish(w) ==
    /\ pc[w] = "publish"
    /\ \E e \in locked[w] \ sent[w] :
        /\ XAdd(e)
        /\ sent' = [sent EXCEPT ![w] = @ \cup {e}]
    /\ UNCHANGED <<dbVars, pel, idle, pc, locked, execVars, faults>>

\* The end of the transaction: rows it marked published stop being pending.
DispatchEnd(w) ==
    /\ outbox' = outbox \ sent[w]
    /\ locked' = [locked EXCEPT ![w] = {}]
    /\ sent' = [sent EXCEPT ![w] = {}]
    /\ Goto(w, "retry")

DispatchCommit(w) ==
    /\ pc[w] = "publish"
    /\ sent[w] = locked[w]
    /\ DispatchEnd(w)
    /\ UNCHANGED <<rowVars, deferred, redisVars, execVars, faults>>

\* XADD reports an error (the entry may have been added nonetheless): the row
\* is rescheduled, the rows published before it are committed, the others wait.
DispatchError(w) ==
    /\ pc[w] = "publish"
    /\ faults < MaxFaults
    /\ \E e \in locked[w] \ sent[w] :
        /\ XAdd(e) \/ UNCHANGED stream
        /\ deferred' = deferred \cup {e}
    /\ DispatchEnd(w)
    /\ faults' = faults + 1
    /\ UNCHANGED <<rowVars, pel, idle, execVars>>

-----------------------------------------------------------------------------
(* Retry scheduler and reconciler                                          *)

\* Mutant: retries are requeued before their next attempt is due.
EarlyRetries == {o \in Ops : status[o] = "retrying"}

\* ClaimDueOperationRetries
DueRetries == {o \in Ops : status[o] = "retrying" /\ due[o]}

Requeue(w) ==
    /\ pc[w] = "retry"
    /\ status' = [o \in Ops |-> IF o \in DueRetries THEN "queued" ELSE status[o]]
    /\ heartbeat' = [o \in Ops |-> IF o \in DueRetries THEN "null" ELSE heartbeat[o]]
    /\ outbox' = outbox \cup {[op |-> o, n |-> retryCount[o]] : o \in DueRetries}
    /\ Goto(w, "recover")
    /\ UNCHANGED <<retryCount, due, deferred, redisVars, dispatchVars, execVars, faults>>

\* Mutant: only running operations are recovered.
StuckRunning == {o \in Ops : status[o] = "running" /\ heartbeat[o] = "stale"}

Stuck == {o \in Ops : status[o] \in Active /\ heartbeat[o] = "stale"}

Recoverable == {o \in Stuck : retryCount[o] < MaxRetries}

RecoveredCount(o) == retryCount[o] + 1

\* Mutant: a recovery writes no outbox row.
NoEvents == {}

\* Only an operation that goes back to queued gets an operation.queued.v1 event.
RecoveryEvents == {[op |-> o, n |-> RecoveredCount(o)] : o \in Recoverable}

RecoverStuck(w) ==
    /\ pc[w] = "recover"
    /\ status' = [o \in Ops |-> CASE o \in Recoverable -> "queued"
                                  [] o \in Stuck \ Recoverable -> "failed"
                                  [] OTHER -> status[o]]
    /\ retryCount' = [o \in Ops |-> IF o \in Recoverable THEN RecoveredCount(o)
                                                         ELSE retryCount[o]]
    /\ heartbeat' = [o \in Ops |-> IF o \in Stuck THEN "null" ELSE heartbeat[o]]
    /\ outbox' = outbox \cup RecoveryEvents
    /\ Goto(w, "consume")
    /\ UNCHANGED <<due, deferred, redisVars, dispatchVars, execVars, faults>>

-----------------------------------------------------------------------------
(* Queue consumer                                                          *)

\* The possible replies to a read of at most ReadCount of the entries in S.
Replies(S) ==
    IF Cardinality(S) <= ReadCount THEN {S}
    ELSE {B \in SUBSET S : Cardinality(B) = ReadCount}

\* XAUTOCLAIM takes over entries that nobody acknowledged for pendingIdle.
AutoClaim(w) ==
    /\ pc[w] = "consume"
    /\ idle # {}
    /\ \E B \in Replies(idle) :
        /\ idle' = idle \ B
        /\ batch' = [batch EXCEPT ![w] = B]
    /\ Goto(w, "process")
    /\ UNCHANGED <<dbVars, stream, pel, dispatchVars, cur, attempt, faults>>

\* With nothing to take over, XREADGROUP delivers new entries.
ReadGroup(w) ==
    /\ pc[w] = "consume"
    /\ idle = {} /\ stream # {}
    /\ \E B \in Replies(stream) :
        /\ stream' = stream \ B
        /\ pel' = pel \cup B
        /\ batch' = [batch EXCEPT ![w] = B]
    /\ Goto(w, "process")
    /\ UNCHANGED <<dbVars, idle, dispatchVars, cur, attempt, faults>>

ReadNothing(w) ==
    /\ pc[w] = "consume"
    /\ idle = {} /\ stream = {}
    /\ Goto(w, "dispatch")
    /\ UNCHANGED <<dbVars, redisVars, dispatchVars, execVars, faults>>

\* ClaimOperation: only a queued operation that is due is claimed.
Claim(w) ==
    /\ pc[w] = "process"
    /\ \E m \in batch[w] :
        /\ status[m.op] = "queued" /\ due[m.op]
        /\ status' = [status EXCEPT ![m.op] = "running"]
        /\ heartbeat' = [heartbeat EXCEPT ![m.op] = "fresh"]
        /\ cur' = [cur EXCEPT ![w] = m]
        /\ attempt' = [attempt EXCEPT ![w] = retryCount[m.op]]
    /\ Goto(w, "execute")
    /\ UNCHANGED <<retryCount, due, outbox, deferred, redisVars, dispatchVars,
                   batch, faults>>

\* Any other message is acknowledged without effect.
Skip(w) ==
    /\ pc[w] = "process"
    /\ \E m \in batch[w] :
        /\ ~(status[m.op] = "queued" /\ due[m.op])
        /\ cur' = [cur EXCEPT ![w] = m]
    /\ Goto(w, "ack")
    /\ UNCHANGED <<dbVars, redisVars, dispatchVars, batch, attempt, faults>>

Ack(w) ==
    /\ pc[w] = "ack"
    /\ pel' = pel \ {cur[w]}
    /\ idle' = idle \ {cur[w]}
    /\ batch' = [batch EXCEPT ![w] = @ \ {cur[w]}]
    /\ cur' = [cur EXCEPT ![w] = NoMessage]
    /\ Goto(w, IF batch[w] = {cur[w]} THEN "dispatch" ELSE "process")
    /\ UNCHANGED <<dbVars, stream, dispatchVars, attempt, faults>>

\* processMessages returns an error: the batch stays unacknowledged in Redis.
Abandon(w) ==
    /\ batch' = [batch EXCEPT ![w] = {}]
    /\ cur' = [cur EXCEPT ![w] = NoMessage]

-----------------------------------------------------------------------------
(* Workflow execution.  Every write is guarded by the operation not being  *)
(* terminal; a write that finds it terminal ends the batch with an error.  *)

Executing(w, o) == pc[w] = "execute" /\ cur[w].op = o

\* Mutant: terminal rows can be written.
AlwaysOpen(o) == TRUE

\* WHERE status NOT IN ('succeeded', 'failed', 'cancelled')
Open(o) == status[o] \notin Terminal

\* Mutant: progress does not set heartbeat_at.
ProgressKeepingHeartbeat(w) ==
    \E o \in Ops : \E s \in WorkflowStatuses :
        /\ Executing(w, o) /\ Open(o)
        /\ status' = [status EXCEPT ![o] = s]
        /\ UNCHANGED <<heartbeat, retryCount, due, outbox, deferred, redisVars,
                       pc, dispatchVars, execVars, faults>>

\* UpdateProgress: the status the workflow names, whatever the current one.
Progress(w) ==
    \E o \in Ops : \E s \in WorkflowStatuses :
        /\ Executing(w, o) /\ Open(o)
        /\ status' = [status EXCEPT ![o] = s]
        /\ heartbeat' = [heartbeat EXCEPT ![o] = "fresh"]
        /\ UNCHANGED <<retryCount, due, outbox, deferred, redisVars, pc,
                       dispatchVars, execVars, faults>>

\* Succeed, or Fail: a non-retryable error, or no retry left at the claim.
Complete(w) ==
    \E o \in Ops : \E s \in Terminal :
        /\ Executing(w, o) /\ Open(o)
        /\ status' = [status EXCEPT ![o] = s]
        /\ heartbeat' = [heartbeat EXCEPT ![o] = "fresh"]
        /\ Goto(w, "ack")
        /\ UNCHANGED <<retryCount, due, outbox, deferred, redisVars,
                       dispatchVars, execVars, faults>>

\* Mutant: one retry more than the budget.
OneRetryTooMany(w) == attempt[w] <= MaxRetries

RetryAllowed(w) == attempt[w] < MaxRetries

\* A retryable error: the budget is checked against the claimed row, the
\* counter is incremented in the current one.
ScheduleRetry(w) ==
    \E o \in Ops :
        /\ Executing(w, o) /\ Open(o)
        /\ RetryAllowed(w)
        /\ status' = [status EXCEPT ![o] = "retrying"]
        /\ retryCount' = [retryCount EXCEPT ![o] = @ + 1]
        /\ heartbeat' = [heartbeat EXCEPT ![o] = "fresh"]
        /\ due' = [due EXCEPT ![o] = FALSE]
        /\ Goto(w, "ack")
        /\ UNCHANGED <<outbox, deferred, redisVars, dispatchVars, execVars, faults>>

LostOperation(w) ==
    \E o \in Ops :
        /\ Executing(w, o) /\ ~Open(o)
        /\ Abandon(w)
        /\ Goto(w, "dispatch")
        /\ UNCHANGED <<dbVars, redisVars, dispatchVars, attempt, faults>>

-----------------------------------------------------------------------------
(* Failures and the passage of time                                        *)

\* The processor the loop runs after the one at label.
Following(label) ==
    CASE label \in {"dispatch", "publish"} -> "retry"
      [] label = "retry" -> "recover"
      [] label = "recover" -> "consume"
      [] OTHER -> "dispatch"

\* The worker crashes and restarts, or a database or Redis call fails and its
\* processor returns an error, which the loop logs before the next processor.
\* What the processor had in memory is gone and its transaction rolls back.
WorkerFails(w) ==
    /\ faults < MaxFaults
    /\ Abandon(w)
    /\ Goto(w, "dispatch") \/ Goto(w, Following(pc[w]))
    /\ locked' = [locked EXCEPT ![w] = {}]
    /\ sent' = [sent EXCEPT ![w] = {}]
    /\ faults' = faults + 1
    /\ UNCHANGED <<dbVars, redisVars, attempt>>

\* Redis restarts from an append-only file that misses its newest entries.
RedisLoses ==
    /\ RedisMayLose /\ faults < MaxFaults
    /\ \E m \in stream \cup pel :
        /\ stream' = stream \ {m}
        /\ pel' = pel \ {m}
        /\ idle' = idle \ {m}
    /\ faults' = faults + 1
    /\ UNCHANGED <<dbVars, pc, dispatchVars, execVars>>

\* The backoff of at most 2^4 seconds (MaxRetries is at most 5 at every call
\* site) runs out before a heartbeat written no earlier is two minutes old.
HeartbeatExpires(o) ==
    /\ heartbeat[o] = "fresh" /\ due[o] /\ status[o] \in Active
    /\ heartbeat' = [heartbeat EXCEPT ![o] = "stale"]
    /\ UNCHANGED <<status, retryCount, due, outbox, deferred, redisVars, pc,
                   dispatchVars, execVars, faults>>

BackoffElapses(o) ==
    /\ ~due[o]
    /\ due' = [due EXCEPT ![o] = TRUE]
    /\ UNCHANGED <<status, retryCount, heartbeat, outbox, deferred, redisVars,
                   pc, dispatchVars, execVars, faults>>

OutboxBackoffElapses ==
    /\ \E e \in deferred : deferred' = deferred \ {e}
    /\ UNCHANGED <<rowVars, outbox, redisVars, pc, dispatchVars, execVars, faults>>

MessageIdles ==
    /\ \E m \in pel \ idle : idle' = idle \cup {m}
    /\ UNCHANGED <<dbVars, stream, pel, pc, dispatchVars, execVars, faults>>

-----------------------------------------------------------------------------
WorkerStep(w) ==
    \/ DispatchClaim(w) \/ DispatchPublish(w) \/ DispatchCommit(w)
    \/ Requeue(w) \/ RecoverStuck(w)
    \/ AutoClaim(w) \/ ReadGroup(w) \/ ReadNothing(w)
    \/ Claim(w) \/ Skip(w) \/ Ack(w)
    \/ Complete(w) \/ ScheduleRetry(w) \/ LostOperation(w)

Next ==
    \/ \E o \in Ops : Create(o) \/ HeartbeatExpires(o) \/ BackoffElapses(o)
    \/ \E w \in Workers : \/ WorkerStep(w) \/ Progress(w)
                          \/ DispatchError(w) \/ WorkerFails(w)
    \/ RedisLoses \/ OutboxBackoffElapses \/ MessageIdles

Spec == Init /\ [][Next]_vars

\* A worker that runs goes through its loop, and time passes.  Nothing is
\* assumed of faults, of the API, or of how often a workflow reports progress.
Fairness ==
    /\ \A w \in Workers : WF_vars(WorkerStep(w))
    /\ \A o \in Ops : WF_vars(HeartbeatExpires(o)) /\ WF_vars(BackoffElapses(o))
    /\ WF_vars(OutboxBackoffElapses) /\ WF_vars(MessageIdles)

FairSpec == Spec /\ Fairness

-----------------------------------------------------------------------------
(* Properties                                                              *)

\* A pending row that no open dispatcher transaction has marked published.
Unsent(e) == e \in outbox /\ \A w \in Workers : e \notin sent[w]

\* A queue message that no consumer is past trying to claim with.
Untried(m) ==
    /\ m \in stream \cup pel
    /\ \A w \in Workers : ~(pc[w] \in {"execute", "ack"} /\ cur[w] = m)

\* Something will still make a worker try to claim o at its current attempt.
Deliverable(o) ==
    \/ \E e \in outbox : Unsent(e) /\ e.op = o /\ e.n = retryCount[o]
    \/ \E m \in stream \cup pel : Untried(m) /\ m.op = o /\ m.n = retryCount[o]

\* A queued operation is never forgotten: an outbox row that is not about to be
\* marked published, or a queue message that no consumer has already tried,
\* still announces its current attempt, whatever crashed in between.
NoLostOperation == \A o \in Ops : status[o] = "queued" => Deliverable(o)

\* ClaimOperation refuses a row before its next_attempt_at and the consumer then
\* acknowledges the message, so a queued row must always be due.  RecoverStuck
\* and RequeueOperation rely on it: neither resets next_attempt_at.
QueuedIsClaimable == \A o \in Ops : status[o] = "queued" => due[o]

\* RecoverStuck only looks at rows whose heartbeat_at is not null: no sequence
\* of claims, late progress reports, requeues and recoveries leaves an active
\* operation without a heartbeat.
ActiveIsRecoverable ==
    \A o \in Ops : status[o] \in Active => heartbeat[o] # "null"

\* ScheduleRetry checks the budget against the row as it was claimed, so late
\* workers can push retry_count past max_retries, but by less than one attempt
\* per worker.
RetriesBounded ==
    \A o \in Ops : retryCount[o] <= MaxRetries + Cardinality(Workers) - 1

\* A finished operation is never reopened: not by progress or completion of a
\* late worker, a duplicate queue message, the retry scheduler or a recovery.
TerminalIsFinal ==
    [][\A o \in Ops : status[o] \in Terminal =>
            status'[o] = status[o] /\ retryCount'[o] = retryCount[o]]_vars

\* An operation in execution or waiting for a retry does not depend on Redis:
\* it is requeued or finished whatever messages Redis loses, because retry
\* scheduler and RecoverStuck work from PostgreSQL.
UnfinishedIsRequeued ==
    \A o \in Ops : status[o] \in Active \cup {"retrying"} ~>
                   status[o] \in {"queued"} \cup Terminal

\* Every created operation reaches succeeded or failed, in spite of worker
\* crashes, failed publications and duplicate deliveries.
EventuallyTerminal ==
    \A o \in Ops : status[o] = "queued" ~> status[o] \in Terminal
================================================================================
