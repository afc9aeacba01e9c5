# A TLA+ model of the VPS billing backend

The backend sells virtual servers: a user pays for an order, a worker schedules
each purchased item on a node, a provider creates the instance, and the
subscription that pays for it is renewed, lapses or is cancelled. Everything that
must survive a crash is in PostgreSQL; Redis streams carry announcements of what
is in PostgreSQL; one or more API servers and worker processes act on both.

The modules here model the parts of it in which several processes can disagree:
delivery of operations, capacity of nodes, payments and subscriptions,
provisioning, commands to agents, actions on instances, and the administrators'
control plane. TLC checks them on small instances, and TLAPS proves the
safety properties of all of them for every size.

## 1. The system

| Part | Source (`src/backend/`) | State | Operations that change it | Where |
|---|---|---|---|---|
| Operations | `internal/operation/repository.go`, SQL in `internal/store/sqlc/operation.sql.go` | `operations`: status, retry count, heartbeat, next attempt | Create, Claim, Progress, Succeed, Fail, ScheduleRetry, retry scheduler, RecoverStuck | `OperationDelivery` |
| Operation queue | `internal/operation/queue.go` | Redis stream and its pending list | XAUTOCLAIM, XREADGROUP, execute, XACK | `OperationDelivery` |
| Outbox dispatcher | `internal/outbox/` | `outbox_events` | claim with SKIP LOCKED, publish, mark, defer | `OperationDelivery` |
| Worker loop | `internal/worker/`, `cmd/worker/main.go` | position in the loop | dispatcher, trigger consumer, retry scheduler, reconciler, queue consumer, lifecycle processor, in this order | `OperationDelivery` |
| Capacity scheduler | `internal/infrastructure/` | counters of `nodes`, `resource_reservations` | Reserve, Commit, Release | `Reservations` |
| Reconciler | `internal/reconcile/reconciler.go` | the same, node status, desired and observed state of instances | expireReservations, expireNodeHeartbeats, reconcileInstances | `Reservations`, `InstanceActions` |
| Orders and payments | `internal/commerce/repository.go`, `internal/payment/` | orders, payments, invoices, ledger, webhook receipts | CreateOrder, CreateRenewalOrder, CompletePayment | `Billing` |
| Subscriptions | `internal/subscription/repository.go` | status, period, grace, version | SetCancelAtPeriodEnd, lifecycle batch, renewal | `Billing` |
| Provisioning | `internal/provision/` | orders, subscriptions, instances, operations, reservations | trigger, EnsureForPaidOrder, workflow steps, Finalize | `Provision` |
| Agent gateway | `internal/runman/`, `internal/provider/runman/` | streams, `agent_commands`, `agent_messages`, `agent_connections`, `agent_vm_states`, node status | Issue, dispatch, results, heartbeats, reconnection, clean-up | `RunmanCommands`, `CommandContract`; totals of a heartbeat in `Reservations` |
| Instance actions | `internal/instanceaction/`, `internal/http/portal/`, `internal/provider/lxdapi/` | desired and observed state, operations, the adapter's cache | start, stop, restart, suspend, reinstall | `InstanceActions`, `LxdAdapter` |
| Administration | `internal/admin/`, `internal/http/admin/` | wallets, tickets, roles, audit log | status of a user, adjustment, reply, status of a ticket, setting, roles | `Backoffice` |
| User's tickets | `internal/portal/` | the same tickets | create, add a message | `Backoffice` |
| Identity | `internal/identity/`, `internal/http/identity/` | accounts, sessions, TOTP secrets | register, log in, log out, set up and enable TOTP | `Identity`, `Backoffice` |
| Reads, rate limit, security primitives, observability, configuration, generated code, front ends | the rest | none of their own that several actors share | | not modelled |

How the parts interact:

```
 API server --(tx)--> orders, payments, subscriptions --+
                                                        | outbox_events
                       +--------------------------------+
                       v
 worker: Dispatcher --> Redis "domain-events" --> TriggerConsumer --(tx)--> operations + outbox
         Dispatcher --> Redis "operation-queue" -> QueueConsumer --> workflow
                                                     |  Reserve / Finalize (tx)   -> nodes, reservations
                                                     |  CreateInstance / Get      -> provider, agent
         RetryScheduler, Reconciler: back to queued, expire what terminal operations left
         LifecycleProcessor: lapse and cancel subscriptions
 worker: runman adapter --> agent_commands <--poll/complete--> gateway <==gRPC stream==> agent
         LXD adapter ----------------------------------------> LXD
```

What is hard about it, and where each of these is pursued: announcements that are
lost, duplicated or late (`OperationDelivery`); a worker that is believed dead and
is only slow, so that two workers execute one operation (`OperationDelivery`,
`Reservations`, `Provision`); transactions that interleave under READ COMMITTED,
wait for each other's rows and are ended by the deadlock detector
(`Reservations`, `Billing`, `Provision`); webhooks that repeat, disagree or
race (`Billing`); a stream to an agent that breaks between a command and its answer
(`RunmanCommands`); a reconciler that compares what it read some time ago
(`InstanceActions`); permissions and statuses that are checked before the
transaction that relies on them (`Backoffice`). `PROJECT.json` lists each hazard with its line and the
properties that would notice it.

## 2. Conventions

* PostgreSQL runs at READ COMMITTED. A transaction is one action where nothing in
  it can wait and no other process can tell; otherwise it takes one step per
  statement that locks a row or a unique key or that reads what another
  transaction may change in between, and its writes appear at the commit.
* A lock is a variable that names its holder. A statement that would wait is a
  disabled action. Two transactions that wait for each other are in a state from
  which `DeadlockVictim` rolls one back.
* The statements of `internal/store/sqlc` that write or lock are operators of their
  own, named like the queries, where a module follows a row statement by statement.
* `SKIP LOCKED` is a choice among the unlocked rows.
* Time is abstracted to the comparisons the code makes: a heartbeat is fresh or
  stale, a back-off is over or not, a reservation is past its expiry or not. Only
  `Billing` has a clock, because it compares moments with each other.
* Faults (crashes, failed publications, rollbacks without a reason in the module)
  are actions bounded by `MaxFaults` or `MaxFailures`.
* Payloads, amounts, names, hashes and logging are left out; what tells two of them
  apart is a model value.

The `map` in `PROJECT.json` gives the lines each definition stands for.
A definition marked external is PostgreSQL, Redis, a provider or time. In every
module, operators marked *Mutant* sit just before the definition they vary by a
plausible mistake; no specification uses them, and each shows that some property
notices the mistake.

## 3. The modules

### OperationDelivery

The lifetime of an operation, from the transaction that creates it to a terminal
status, with any number of workers.

* State: the columns `status`, `retry_count`, `heartbeat_at` and
  `next_attempt_at` of `operations`; the pending rows of `outbox_events`; the
  stream `operation-queue` and its pending entries; and, for each worker, its place
  in the loop, the outbox rows its dispatcher transaction has locked, and the batch
  it has read.
* Actions: `Create` (the API or a trigger); `DispatchClaim`, `DispatchPublish`,
  `DispatchCommit` and `DispatchError` (one dispatcher transaction, open while it
  talks to Redis); `Requeue` (retry scheduler); `RecoverStuck`
  (reconciler); `AutoClaim`, `ReadGroup`, `ReadNothing` (queue consumer);
  `Claim`, `Skip`, `Progress`, `Complete`, `ScheduleRetry` and `Ack` (execution of
  one message); `LostOperation` (a write finds the operation terminal, which ends
  the batch with an error); `WorkerFails` (a crash, or an error after which the loop
  goes on with the next processor); `RedisLoses`; and time.
* The workflow itself is reduced to the progress it reports and to how it ends:
  nothing else of it touches these tables.
* An outbox row is told apart from other rows of its operation by the
  `retry_count` it was written with. The code has no such number in the row; it is
  what the proof counts with.

### CapacityLedger and Reservations

`CapacityLedger` is what the scheduler promises, without transactions, locks or
counters: a reservation is made where there is room and settled once.
`Reservations` is how the code does it: `Reserve` finds an existing reservation,
selects candidate nodes `FOR UPDATE` in the order of their projected utilization,
charges the first that still fits and inserts the row; `Commit`, `Release` and the
commit within `Finalize` lock the row, then the node; the reconciler locks the
orphaned rows it does not have to wait for, then their nodes in the order of
expiry; agents' heartbeats change totals and status. `res`, `total` and `terminal`
have the same meaning in both, so the refinement mapping is the identity on them;
counters, locks and workers are the detail that `Reservations` adds.

The rule that the candidates are locked in the order of a snapshot is why
transactions can lock the same nodes in opposite orders and deadlock.
The fractions the SQL orders by are compared by cross products of integers.

### Billing

Orders, payments, webhooks and subscriptions of one user. `order[o]` holds the rows
of an order, its invoice and its payment, which `InsertOrder`, `CreateInvoice` and
`CreatePayment` make and `MarkPaymentSucceeded`, `MarkOrderPaid` and
`MarkInvoicePaid` change. API handlers run `CreateOrder`/`CreateRenewalOrder`
(`createOrder` or `renew`, then `FindOrder` and `CreateOrder`)
and `CompletePayment` (`Deliver`, `InsertReceipt`, `AnswerDuplicate`, `LockPayment`,
`MarkPaid`, `LockSubscription`, `Capture`); workers run the lifecycle processor
(`StartBatch`, `ClaimBatch`, `CommitBatch`), whose clock is read before its rows
are claimed; `SetCancelAtPeriodEnd` is one transaction under one row lock, so it is
one action. `Rollback` may end any open transaction.

A unique key that another open transaction has inserted makes an insertion wait;
once that transaction commits, the insertion conflicts. This is how concurrent
duplicates of a webhook are told apart, so `receiptLock` and `ExternalPending` are
there. Amounts are reduced to whether a webhook matches its payment.

### Provision

One paid order of several items. `Publish` is the outbox delivering
`payment.succeeded` one or more times; `ReadTrigger`, `EnsureBegin`,
`EnsureCommit` and `Ack` are the trigger consumer; `Begin` claims an operation;
`Reserve`, `Place`, `CreateInstance`, `GetInstance` and `PersistResult` are the
workflow's steps; `FinalizeReservation`, `FinalizeActivate`, `FinalizeOrder` and
`FinalizeCommit` are the transaction that ends it; `SetError`, `Release` and
`Fail` its failure path, which is three transactions; `StatementFails` is an error of
the database in any statement of an execution, after which the code retries, fails the
operation or goes on, depending on the statement; `RecoverStuck` and `Expire`
are the reconciler. The queue between them is reduced to "an operation that waits
is queued", which is what `OperationDelivery` establishes, and the scheduler to
"one reservation per operation, on some node", which is what `Reservations`
establishes.

`Finalize` reads and writes in the order of the code: the reservation row, the node
row, the subscription, the check that no other subscription of the order is
pending, the commit. The check sees committed subscriptions and its own
(`ActiveTo`), which is READ COMMITTED.

Every execution that activates a subscription also notifies the user, in the same
transaction (`CreateProvisionNotification`).

The module ends where provisioning does. That the instance of an active subscription
runs (`ActiveIsBacked`) is about this part of its life: its owner may stop it later,
which is the subject of `InstanceActions`.

### CommandContract and RunmanCommands

`CommandContract` is what a provider adapter relies on when it sends a command with
an idempotency key: it is carried out at most once and settled once, and a caller
hears of success or failure only after the fact. `RunmanCommands` is how worker,
gateway and agent do it. A worker inserts the command (`CreateCommand`), marks it
dispatched (`MarkIssued`) and polls until it is settled or 30 seconds are over
(`Poll`, `Timeout`). The gateway handles one goroutine per stream: `Connect`,
`Register`, `ReadPending`, `SendCommand`, `MarkSent`, `ClaimMessage`,
`HandleResult`, `CompleteList`, `HandleHeartbeat`, and, when the stream ends,
`Unregister` and `Disconnected`. `RejectCommand` settles what cannot be encoded.
`HandlerFails` is an error anywhere between taking up a message or a command, a
heartbeat included, and the end of its handling: the message is released and the stream
ends.
The agent is external: it carries out a command it has not seen, answers, and may
repeat an answer on a new stream. The refinement mapping forgets the difference of
queued and dispatched; the contract's `outcome` is the agent's memory.

### LxdAdapter and InstanceActions

`LxdAdapter` has the machine as LXD sees it and the operations the adapter of each
worker process remembers. `InstanceActions` adds the row of the instance, the
subscription's status, operations in slots, and workers that alternate between a
round of the reconciler (`StartRound`, `SelectCandidate`, `GetInstance`,
`StoreObserved`, `CreateDrift`) and an operation (`Claim`, `SetActionState`, `Request`,
`Wait`, `Verify`, `Finish`). Each of these has the errors of its statements and calls
beside it (`GetFails`, `RoundFails`, `ContextFails`, `SetActionFails`, `RequestFails`,
`WaitFails`, `VerifyFails`, `FinishFails`): an error may be retryable or not, the
statement that failed may have been carried out or not where that can be told, and the
statement that records the error may fail as well (`FailWith`). The subscription moves
by `LifecycleTransition` and `RenewSubscription`. `InstanceAction` is the portal's handler with the unique index
that keeps a second action out; the index does not include `suspend`. The
reconciler's idempotency key contains the version of the row; `keys` keeps those
with the current version, and `fresh` the rounds whose version still is the current
one between their UPDATE and their key. That `CreateDrift` does nothing when no slot is
free is a bound of the model, not of the code; the next round tries again.

### Identity and Backoffice

`Identity` has accounts, roles, sessions and second factors, with the statements
that read and write them. `Backoffice` runs HTTP requests on top: `Begin` (a client
sends it), `RequireAdmin` or `RequireUser` (session and permission are read, once),
then the handler, statement by statement. `Commit` ends a change together with its
audit event. `logoutAdmin`, `setupAdminTOTP` and `enableAdminTOTP` write theirs in a
transaction before they act (`recordAdminAudit`); `loginAdmin` writes it between the
creation of a session and the handing out of its token, and revokes the session when
it fails; when the session cannot be read back (`AdminBySessionFails`), the login is
recorded as a refused one and the session stays. `Fails` loses a request anywhere.
`SetAdminRoles` takes no lock but deletes and inserts rows: `view` has what its DELETE
sees of them, `DeleteRoles` waits for rows another transaction has deleted, and
`InsertRoles` adds to the rows inserted since, or fails on the primary key. `asked` and
`stale` are history the properties speak of; nothing else reads them. A ticket can be closed between the
check and the insertion of a message (`GetUserTicket`, `AddTicketMessage`); the
message then lands on the closed ticket, whose row it leaves as it is.

## 4. Runs

| Run | Instance | Properties | Shows |
|---|---|---|---|
| `delivery_workers` | 1 operation, 2 workers, 1 retry, 1 fault, late progress reports | `NoLostOperation`, `QueuedIsClaimable`, `ActiveIsRecoverable`, `RetriesBounded`, `TerminalIsFinal`, `EventuallyTerminal` | delivery is safe with a worker that is believed dead and is not, and every operation ends |
| `delivery_redis_loss` | 2 operations in batches of 2, 1 worker, Redis may lose entries | `UnfinishedIsRequeued` | running and retrying operations depend on PostgreSQL only |
| `reservations_safety` | 2 nodes, 2 operations, 2 workers, heartbeats, 1 fault | `TypeOK`, `CountersExact`, `NoOversell`, `ImplementsLedger` | counters are exact, nothing is oversold, refinement of the ledger |
| `reservations_liveness` | 2 nodes, 2 operations, 2 workers | `CallsEnd`, `OrphansSettle` | deadlocks end, orphaned capacity is given back |
| `billing_payments` | 2 handlers, 1 worker, 2 orders, 2 keys, 4 webhooks, 1 failure | `CapturedOnce`, `AcceptedIsCaptured`, `PeriodsArePaidFor`, `OneOrderPerKey` | payments are captured once and buy what they pay for |
| `billing_lifecycle` | 2 handlers, 1 worker, 1 order, 2 cancellation requests, 1 failure | `LapsesOnTime`, `EventPerVersion`, `CancelledIsFinal`, `TransactionsEnd`, `LapsesAreNoticed` | the lifecycle is on time and meets renewals correctly; no transaction waits for ever |
| `provision_safety` | 2 items, 2 workers, 2 nodes, event delivered twice, 1 fault | `ActiveIsBacked`, `NotifiedOnce`, `CompletedIsActive`, `OnlyForward` | what is active has capacity and an instance, and was announced once |
| `provision_liveness` | 1 item, 2 workers, event delivered twice, 1 fault | `OperationsEnd`, `PaidIsProvisioned` | every provision operation ends; without a crash every paid item gets one |
| `runman_gateway` | 1 of 3 commands (create, list, one that cannot be encoded), issued up to twice, 2 streams, 1 fault | `ListIsStored`, `SentIsAnswered`, `ImplementsContract`, `CleanUpIsOwn`, `CommandsEnd` | the command store keeps the contract over breaking streams, and every command ends |
| `runman_retry` | 1 create command, issued twice, 1 stream, no fault | `RetryFindsResult` (violated) | a retry after the result is refused |
| `instance_actions` | 2 workers, 2 open operations, 1 retry, 2 events, 1 of them a fault | `KeyIsLive`, `Converges` | machine, row and subscription come to agree |
| `backoffice` | 2 administrators, 1 user, 2 requests at a time, 3 in all, 1 fault | `AuditIsComplete`, `WalletIsBacked`, `ClosedAtMatches`, `SuperAdminRemains`, `RolesWereAsked` | changes are audited and consistent under every interleaving of two requests |

Properties are stated, with the code they are about, at the end of each module.
`TypeOK` is among the properties of one run; for the other modules it is proved, and
the inductive invariants of section 6 start from it. `SettledOnce` of
`Reservations` has no run of its own because it is proved.

### Bounds, and why they are enough

* Two workers (or two handlers) are what a race needs: every lock, claim and version
  check in the code is between one process and the others, and the others look
  alike. `delivery_redis_loss` has one worker, because its question is what is found
  again without any other process's help.
* One retry gives a first, a recovered and a late attempt, which is enough for an
  attempt to be superseded twice. `RetriesBounded` depends on the number of workers,
  which its statement has.
* One fault at any point of any step. The faults a protocol handles by itself
  (a deadlock victim, a heartbeat that goes stale while its worker lives) are not
  counted in `OperationDelivery`, `Reservations` and `Billing`.
* In `Reservations` the demands, 1 and 2 of a measured and 1 and 0 of an unmeasured
  resource, on nodes of 2 and 1, are such that the two operations fit together by one
  resource and not by the other; heartbeats may shrink a node to 1. For liveness the
  second operation can go to one node only, which keeps the deadlock and makes the
  state graph small enough.
* In `Billing` a period of 2, a grace of 1 and a clock to 2 let a subscription lapse,
  be suspended and be renewed from each of these states. Four webhooks: two events of
  one payment, one event with two payloads, one external id for two payments. In
  `billing_lifecycle`: two events of one payment, one of them with a wrong amount.
* In `Provision` two entries of the stream stand for every number of deliveries: the
  second can be handled before, during and after the execution the first one caused.
  Two nodes matter: `Finalize` transactions on one node wait for each other.
* In `RunmanCommands` a second stream is what an old clean-up and a repeated answer
  need, a second issue what a retry needs. One key is used at a time (`MaxCommands`):
  commands of different keys share only the stream, which handles one after another.
* In `InstanceActions` two events let an owner's action meet a suspension, or either
  of them a fault or a guest that shuts down; two slots, because the index leaves
  room for one action of the owner beside a suspension. A slot is used again.
* In `Backoffice` two requests overlap and a third sees what they left; that is what a
  check made too early needs (one to check, one to change, the first to act), and the
  third can make the change possible, such as a ticket to close or a balance to spend.
  `RoleLists` are four lists of one or two roles, with and without `super_admin`: two
  changes may ask for the same role (the primary key), for different ones, or for both.
* `Copies` bounds how often one outbox row is in the stream at the same time.

Symmetry is used for processes, keys, items, nodes and entries in safety runs only.
Deadlock is checked wherever the system has no end. `Provision` ends when the order
is done, `Reservations` without agents when all operations are terminal, and
`Backoffice` when `MaxRequests` requests are answered.

## 5. Fairness

| Module | Assumption | Why the code justifies it |
|---|---|---|
| `OperationDelivery` | weak fairness of each worker's step; of back-offs, heartbeats and idle times | the loop of `internal/worker` runs every processor in turn and goes on after an error; time passes. Nothing is assumed of `Progress`: a workflow may stop reporting |
| `Reservations` | weak fairness of steps that wait for nothing; strong fairness of lock acquisition; of the deadlock detector; of time | PostgreSQL queues those who wait for a row, so nobody is overtaken for ever. Strong fairness of `SelectExpired`: each worker runs the reconciler in every round |
| `Billing` | strong fairness of a handler's step; weak fairness of workers and of the clock | the same queues, for rows and for unique keys |
| `Provision` | weak fairness of publication, of the workers' steps, of the deadlock detector, of claiming a queued operation, and of recovering an operation nobody executes | established by `OperationDelivery` for the queue and by the reconciler's loop. A worker that executes is not assumed to be recovered: its heartbeat may stay fresh |
| `RunmanCommands` | weak fairness of what a stream's goroutine does next, of `Connect` and of the agent's answers; strong fairness of reading pending commands and of messages | the loop of `Connect` selects among a ticker, messages and the end of the stream; Go's select takes each case that keeps coming ready. Of the agent it is assumed that it reconnects and answers, and of heartbeats nothing. Nothing is assumed of the worker: a command ends without it |
| `InstanceActions` | weak fairness of each worker's step, of LXD, and of a heartbeat getting old when nobody executes | the worker's loop; LXD ends what it began; time passes. Nothing is assumed of owners, payments or faults |

In `OperationDelivery` a heartbeat goes stale only when the back-off written with it
has elapsed. The back-off is at most 2^4 seconds, because `MaxRetries` is at most 5
wherever operations are created, and the heartbeat is stale after two minutes.

## 6. Proofs

All theorems hold for every value of the constants that satisfies the named
assumptions: any sets of operations, workers, nodes, orders, webhooks, subscriptions,
items, commands, administrators and requests, any demands, periods, retry budgets and
numbers of faults.

| Assumption | Says | Because |
|---|---|---|
| `ConstantsAssumption`, `NoMessageAssumption` | workers are finite and there is one, bounds are numbers, a workflow reports active statuses only, the placeholder is no message | `RetriesBounded` counts workers |
| `CapacityAssumption` | sets the counters range over are finite; demands are as `validCapacityRequest` checks them | the counters are sums over rows |
| `BillingAssumption` | cycles and batches are positive; handlers are not workers; a webhook is about an order; subscriptions and orders are finite | renewals are counted; API servers and workers are different processes |
| `ProvisionAssumption`, `RunmanAssumption` | bounds are numbers, placeholders are no members, each command has a kind | typing only |
| `ActionAssumption` | bounds are numbers, workers are finite and there is one, the placeholder is neither a worker nor a slot | retries are counted against workers |
| `ActorsDiffer`, `SecretsNat`, `BoundsNat`, `NoneIsNobody`, `RequestsFinite`, `ListsNotEmpty` | there is an administrator, the user is none, bounds are numbers, finitely many requests are under way, and they ask for roles that exist | audit events are counted against requests |

| Module | Theorem | Statement |
|---|---|---|
| `OperationDelivery_proofs` | `TypeCorrect` | `Spec => []TypeOK` |
| | `TerminalStaysFinal` | `Spec => TerminalIsFinal` |
| | `ActiveHasHeartbeat` | `Spec => []ActiveIsRecoverable` |
| | `RetriesStayBounded` | `Spec => []RetriesBounded` |
| | `QueuedStaysClaimable` | `Spec => []QueuedIsClaimable` |
| | `OperationsAreNotLost` | `~RedisMayLose /\ Spec => []NoLostOperation` |
| `Reservations_proofs` | `ReservationTypes` | `Spec => []TypeOK` |
| | `CountersAreExact` | `Spec => []CountersExact` |
| | `NothingOversold` | `Spec => []NoOversell` |
| | `TransactionsImplementLedger` | `Spec => ImplementsLedger` |
| | `ReservationsSettleOnce` | `Spec => SettledOnce` |
| `Billing_types` | `BillingTypes` | `Spec => []TypeOK` |
| `Billing_proofs` | `PaymentsCapturedOnce` | `Spec => []CapturedOnce` |
| | `ReceiptsAreCaptured` | `Spec => []AcceptedIsCaptured` |
| | `KeysHaveOneOrder` | `Spec => []OneOrderPerKey` |
| | `PeriodsAreBought` | `Spec => []PeriodsArePaidFor` |
| | `SubscriptionsLapseOnTime` | `Spec => []LapsesOnTime` |
| | `ChangesHaveEvents` | `Spec => []EventPerVersion` |
| | `CancelledStaysCancelled` | `Spec => CancelledIsFinal` |
| `Provision_proofs` | `ProvisionTypes` | `Spec => []TypeOK` |
| | `ActiveStaysBacked` | `Spec => []ActiveIsBacked` |
| | `OwnerIsNotifiedOnce` | `Spec => []NotifiedOnce` |
| | `CompletionIsEarned` | `Spec => []CompletedIsActive` |
| | `ProvisionOnlyForward` | `Spec => OnlyForward` |
| `RunmanCommands_proofs` | `RunmanTypes` | `Spec => []Shape` |
| | `ListsAreStored` | `Spec => []ListIsStored` |
| | `SentCommandsAreAnswered` | `Spec => []SentIsAnswered` |
| | `GatewayImplementsContract` | `Spec => ImplementsContract` |
| | `CleanUpsAreOwn` | `Spec => CleanUpIsOwn` |
| `InstanceActions_proofs` | `ActionTypes` | `Spec => []TypeOK` |
| | `KeysAreLive` | `Spec => []KeyIsLive` |
| `Backoffice_proofs` | `BackofficeTypes` | `Spec => []TypeOK` |
| | `AuditsAreComplete` | `Spec => []AuditIsComplete` |
| | `WalletStaysBacked` | `Spec => []WalletIsBacked` |
| | `ClosedAtStaysExact` | `Spec => []ClosedAtMatches` |
| | `SuperAdminStays` | `Spec => []SuperAdminRemains` |
| | `RolesStayAsked` | `Spec => []RolesWereAsked` |

**No operation is lost.** `NoLostOperation` is not inductive: a message may be
acknowledged as soon as a claim with it was tried, so one has to know that the
operation then is not queued any more, or that the message was about an older
attempt. `DeliveryInv` adds this: `Announcements` (each row and message carries an
attempt number that was really queued, at most the current one, and less than it
while the operation waits for a retry), `TriedIsClaimed` (whoever has tried the
message of the current attempt has found the operation not queued), and
`QueuedIsClaimable`, without which a claim is refused and the message consumed all the
same; this one in turn needs `StaleIsDue` and `Absent`. None of these three needs Redis
to keep anything, so `QueuedStaysClaimable` holds without that condition
(`ClaimableInv`). One lemma per action;
`AnnouncementsFrame` and `DeliverableFrame` say what a step that leaves the row alone
must keep. The proof covers batches of any size, so it also answers what happens to the
rest of a batch when a worker stops in the middle of it.

**Retries stay bounded.** `ScheduleRetry` compares the budget with the row its worker
claimed, so `retry_count` alone says nothing of what is still to come. `BudgetInv`
counts the workers that will still increment it (`Incrementers`): a claim adds one only
while the row is below the budget, an increment removes one, and a recovery, which
increments too, is done by a worker that is not among them. The bound is attained, so
`MaxRetries` itself would be wrong.

**Counters are exact.** `CapacityInv` is `TypeOK`, `Rows` (a row names a node when it
exists), `WorkerInv`, `CountersExact` and `Within` (no node holds more than it offers).
`WorkerInv` is what the locks are for: a locked reservation is still `reserved` and
its lock belongs to the call that will settle it, so that the update a transaction makes
after its check is still right. The demand of a set of operations is counted as the
cardinality of a set of units, which turns sums into cardinalities of disjoint unions:
adding or removing one operation's units changes a counter by its demand. The
refinement follows from `CapacityInv`: each step is a step of the ledger or leaves it
unchanged (`LedgerStep`); `SettledOnce` is then a property of the ledger's steps.

**Payments and subscriptions.** The properties speak of committed rows, and a
transaction writes them from what it read some statements before. `ProcsInv` says what
each open transaction may still rely on: `HandlerInv` (its payment exists, no order has
its external id, and the subscription it renews is locked, has not ended and is renewed
at a time that has come), `ExternalsDiffer` (two open captures never write one external
id: the unique index), `WorkerInv` (the rows of a lifecycle batch are locked, as they
were read, and due) and `OneTarget`. `BillingInv` adds the properties themselves, in the
order in which they need each other; `KeyInv` states `OneOrderPerKey` without counting.
In `PeriodsArePaidFor` a capture adds one member to the set `Renewals` counts and one
cycle to the period, from the later of its end and the time the handler read.

**Provisioning.** `WorkerInv` says for each place of the workflow what an earlier step
has established and nobody takes back: from `persist` on the instance runs, at `succeed`
the subscription is active, a subscription's row is locked only between its activation
and the commit, and a transaction completes the order only if it saw all of the order's
subscriptions active. With it the four properties are inductive together, although two
workers may execute one operation.

**The gateway implements the contract.** `RunmanInv` has, beside types, that streams not
yet opened are empty and what a stream still has to send was not sent on it
(`StreamInv`), that only commands with a row that can be encoded are sent (`KnownInv`),
that an answer is to a command that was carried out and is not younger than its stream
(`MessageInv`), that a list is stored before its command completes (`SettledInv`), and
that on the stream the agent uses a command is sent, answered and claimed once, in this
order (`SentInv`). The last one is what `SentIsAnswered` needs: an answer on that stream
is never taken for a duplicate. In the refinement each step is a `Request`, `Settle` or
`Tell` of `CommandContract` or leaves its variables unchanged.

**Keys are live.** The reconciler's idempotency key holds the version of the row, and a
known key suppresses the operation that would answer drift. `KeyIsLive` says only that
an operation of the key's kind has not ended; to keep it one has to know why it cannot
end without a change of the version, which forgets the key. `Behind` says so of the
operation behind a key: whoever executes it has not yet passed `setActionState`, so
neither `Succeed` nor an error of the provider is near. It can end in two ways only: by
an error of the statements before that update, which `aborted` records, or by
`RecoverStuck`, after `MaxRetries` recoveries. Each of these was preceded by a fault: a
crash, an error that could not be recorded, or a heartbeat that got old while its worker
lived. The fault comes before the recovery, so `Debt`
counts the retry that is lost but not yet taken (`retries + Debt <= faults`). The
condition `faults <= MaxRetries` of `KeyIsLive` therefore belongs to the property, and
it is tight: with one retry and two faults TLC finds a dead key. `ActionTypes`
needs the bound of `retry_count`, by the argument of `RetriesBounded`: `BudgetInv` here
counts the workers that claimed the row below the budget.

**The control plane.** `BackofficeInv` says what a request relies on from one statement
to the next: what its kind tells of session and body (`RowInv`, which has what
`SetAdminRoles` checked of the caller's own roles), that the wallet or ticket it has
locked is still as it was read (`LockInv`, the reason for `WalletIsBacked` and
`ClosedAtMatches`), and that audit events run ahead of changes (`AuditInv`). For logout
and the second factor the event is a transaction of its own, so `changed <= audit` is
not inductive: the change that a request has announced is still to come. `Announced`
is the set of those requests, and `changed[k] + Cardinality(Announced(k)) <= audit[k]`
is. `SuperAdminRemains` is kept by a request that deletes roles for one of two reasons:
the target is another administrator, and the caller is still a super administrator
unless `stale` says otherwise; or it is the caller, and then the new roles include
`super_admin`. For `RolesWereAsked` the invariant follows each
change of roles from its DELETE to its INSERT (`ViewInv`): a row of the administrator is
one of those the DELETE takes, or was inserted by a change that committed since and so
is in `added`. A commit keeps this for the other open changes, for it removes from
their `rows` only what it has deleted itself.

TLC finds each of these inductive invariants to hold on the instances of the runs, too.
`Billing_types` holds the types, the invariant and the lemmas about locks on which
`Billing_proofs` builds. A leaf that needs arithmetic or records names
`SMT, SMTT(30)`; the others name `Zenon`, which is the quicker of the two here and does
not slow down in a module of this size.

## 7. Only model-checked

* Liveness (`EventuallyTerminal`, `UnfinishedIsRequeued`, `CallsEnd`, `OrphansSettle`,
  `TransactionsEnd`, `LapsesAreNoticed`, `OperationsEnd`, `PaidIsProvisioned`,
  `CommandsEnd`, `Converges`): fairness and `ENABLED` are outside the prover's reach.

Every invariant and every action property that a passing run checks is also proved, with
the refinements `ImplementsLedger` and `ImplementsContract`.

Some properties name a condition under which they hold, because the code gives no more:
`Converges` (rounds of one worker do not overlap executions of the other for ever, and
the key of the difference is not the dead one of section 8),
`PaidIsProvisioned` (no fault),
`KeyIsLive` (no error before the row is written, and not more faults than retries),
`SuperAdminRemains` (no role change by somebody whose permission was withdrawn while the
request was under way: such a request can take `super_admin` from the last one who has
it), `RolesWereAsked` (the roles of overlapping changes may add up). Section 8 has the cases in which a document promises more.

## 8. Where the code and its documents disagree

One disagreement has a run of its own:

1. *A retry of a create is refused* (`runman_retry`). ADR-013 says a success whose
   response was lost is verified by the retry. `Complete` removes `root_password` from
   the stored payload, and `CreateCommand` compares the payloads, so that the retry of
   a create, reinstall or password reset ends with an idempotency conflict, which is
   not retried.

The others were met while modelling. Each is the stronger formula below, which TLC
refutes on an instance of the module, in place of what the runs check:

2. *Queued operations depend on Redis.* `EventuallyTerminal` with
   `RedisMayLose = TRUE`. ADR-007 (line 17): "A Redis outage delays work but does not
   lose the Operation." An operation whose row is `queued` and whose published entry is
   lost is not announced again: `RecoverStuck` (`operation/repository.go:210`) and the
   retry scheduler look at other statuses only.
3. *Payment events are not taken over.* `PaidIsProvisioned` without `faults > 0`.
   `docs/17-DEPLOYMENT.md:50` and `docs/07-WORKFLOW-SPEC.md:23` have entries of a
   crashed worker claimed by another. The operation queue does so; `TriggerConsumer`
   (`provision/trigger.go:34`) reads new entries only.
4. *The last item may not complete the order.*
   `(\A i : op[i] = "succeeded") => order = "fulfilled"`, against
   `docs/07-WORKFLOW-SPEC.md:21`. Two `Finalize` transactions on different nodes each
   miss the other's activation (`provision/repository.go:223`), and nothing looks at
   the order afterwards. No fault is needed.
5. *An execution may lose its capacity.*
   `\A w : pc[w] = "create" => resv[item[w]] \in Held`, against
   `docs/07-WORKFLOW-SPEC.md:23`. Expiry is restricted to terminal operations, but an
   operation can be terminal while a worker that was silent too long executes it.
   `ActiveIsBacked` still holds: `Finalize` requires a `reserved` reservation, so the
   instance is created but never activated.
6. *Actions of one instance may run concurrently.* No two workers with `pc` in
   `{"set", "call", "wait"}`. ADR-010: "Repeated clicks with different idempotency keys
   cannot run concurrent destructive actions." A reinstall makes several requests and
   waits of up to 30 seconds without `Progress`; after two minutes `RecoverStuck` gives
   the operation to another worker, or ends it and so admits the next action.
7. *Drift may be stale.* The operation of `CreateDrift` has the desired state the row
   has at that moment, against `docs/07-WORKFLOW-SPEC.md:23`. The candidate is read
   before the provider is asked (`reconcile/reconciler.go:175`) and not read again. A
   suspended instance that is already stopped also gets a new `suspend` in every round.
8. *An error may use up the reconciler's key.* `KeyIsLive` without `~aborted`, or
   `Converges` without `DeadKey`. ADR-013 (line 17) has the reconciler convert
   "actionable drift into an idempotent Operation". The key of that operation is made
   of the desired state and the version of the row. If the workflow's first statements
   fail (`instanceaction/workflow.go:53-76`, errors that are not retried), the operation
   ends before `setActionState` has changed the version. The next round finds the same
   difference, and `Create` returns the failed operation for the same key, in every
   round until something else changes the row.

## 9. Not modelled

`PROJECT.json` has a line for every part. In short: reads, lists and dashboards; HTTP
decoding and encoding, middleware, and the event stream, which forwards what it reads;
the rate limit, a single atomic script; hashing, tokens, encryption; configuration,
logging, metrics; generated code (sqlc, protobuf), except for the statements that
decide or write something, which are operators of the module that runs them; the
in-memory provider for tests; creation of providers, groups and nodes, which inserts
rows nobody else writes; create and delete of the LXD adapter, whose result the
provision workflow sees as the contract in `Provision`; the registry's cache of
adapters; the front ends.

Within the modelled parts: progress records of single steps, which decide nothing;
amounts and double-entry rows of captures; outbox events nobody here reads. The release of allocated capacity is not there because the code has none:
`allocated` only grows.

`Billing` and `Provision` are not composed. What one needs of the other is in it
(`Billing` starts from activated subscriptions, `Provision` from a captured payment
published at least once); a product of the two, with a clock, two handlers and two
workers, is beyond TLC. The one question this leaves open, an order whose first
subscription lapses before its last item is provisioned, is listed as a hazard.

## 10. Running it

In this directory, `tlc -config <cfg> <module>` for the pairs listed under `runs` in
`PROJECT.json`, and `tlapm <module>.tla` for the modules that hold lemmas and theorems
(`*_types`, `*_proofs`). The longest runs take about two minutes on two
cores, the proofs of a module between two and fourteen.
