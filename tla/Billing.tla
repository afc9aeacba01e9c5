------------------------------ MODULE Billing ------------------------------
(***************************************************************************)
(* Orders, payments and the subscriptions they pay for: CreateOrder,       *)
(* CreateRenewalOrder and CompletePayment (commerce/repository.go), the    *)
(* cancellation request and the lifecycle processor                        *)
(* (subscription/repository.go).  API handlers and workers run their       *)
(* PostgreSQL transactions concurrently; a transaction's writes become     *)
(* visible when it commits, and it waits for the rows, and for the unique  *)
(* keys, that another open transaction has taken.  The statements of       *)
(* store/sqlc are operators on the rows.  Subscriptions are activated      *)
(* elsewhere.                                                              *)
(***************************************************************************)
EXTENDS Integers, FiniteSets

CONSTANTS
  Handlers,   \* goroutines of the API server
  Workers,    \* worker processes, each with a lifecycle processor
  Orders,     \* ids of orders, and of their payments
  Keys,       \* idempotency keys of one user
  Subs,       \* subscriptions of that user
  Webhooks,   \* notices the gateway may deliver, any number of times
  Cycle,      \* length of a billing cycle
  Grace,      \* grace period
  FirstEnd,   \* FirstEnd[s]: end of the period s was activated with
  BatchSize,  \* rows the lifecycle processor claims at once
  MaxTime,    \* bound on the clock
  MaxCancels, \* bound on requests that set or clear the cancellation flag
  MaxFailures,\* bound on transactions that fail for no reason of this module
  None

VARIABLES
  order,      \* order[o]: the order, invoice and payment rows of o, or None
  captures,   \* captures[o]: ledger transactions of the payment of o, each with
              \*   its two entries and its payment.succeeded event
  sub,        \* sub[s]: the subscription row
  events,     \* events[s]: outbox events written about s
  receipt,    \* receipt[e]: the webhook stored for gateway event e, or None
  answers,    \* answers[k]: orders returned to requests with key k
  subLock,    \* subLock[s], orderLock[o], receiptLock[e]: the process whose
  orderLock,  \*   open transaction has the row or key
  receiptLock,
  pc,         \* where each process is
  work,       \* the request or webhook a handler works on
  now,        \* the time a process has read
  claimed,    \* claimed[w][s]: the row of s as worker w claimed it, or None
  clock,
  cancels,    \* cancellation requests, and failures, so far
  failures

dbVars == <<order, captures, sub, events, receipt, answers>>
lockVars == <<subLock, orderLock, receiptLock>>
procVars == <<pc, work, now, claimed>>
vars == <<dbVars, lockVars, procVars, clock, cancels, failures>>

Procs == Handlers \union Workers

(* The gateway's event ids, and what an order request asks for. *)
EventIds == {m.event : m \in Webhooks}

Targets == Subs \union {None}  \* None: a purchase

Requests == [key : Keys, target : Targets]

(* The statuses from which a payment renews a subscription. *)
Renewable == {"active", "past_due", "suspended"}

Times == 0 .. MaxTime

(* The rows of subscriptions, and of orders with their invoice and payment. *)
SubRows ==
  [status : {"active", "past_due", "suspended", "cancelled"}, end : Nat,
   grace : Nat \union {None}, cancel : BOOLEAN, version : Nat]

Externals == {m.external : m \in Webhooks} \union {None}

OrderRows ==
  [order : [key : Keys, target : Targets, status : {"pending", "paid"}],
   invoice : [target : Targets, status : {"open", "paid"}],
   payment : [status : {"pending", "succeeded"}, external : Externals]]

ASSUME BillingAssumption ==
  /\ Cycle \in Nat \ {0} /\ Grace \in Nat
  /\ FirstEnd \in [Subs -> Nat]
  /\ BatchSize \in Nat \ {0}
  /\ MaxTime \in Nat /\ MaxCancels \in Nat /\ MaxFailures \in Nat
  /\ \A m \in Webhooks : m.payment \in Orders /\ m.matches \in BOOLEAN
  /\ Handlers \intersect Workers = {}
  /\ None \notin Subs \union Procs \union Orders \union Webhooks \union OrderRows
  /\ IsFiniteSet(Subs) /\ IsFiniteSet(Orders)

Init ==
  /\ order = [o \in Orders |-> None]
  /\ captures = [o \in Orders |-> 0]
  /\ sub = [s \in Subs |-> [status |-> "active", end |-> FirstEnd[s], grace |-> None,
                            cancel |-> FALSE, version |-> 1]]
  /\ events = [s \in Subs |-> 0]
  /\ receipt = [e \in EventIds |-> None]
  /\ answers = [k \in Keys |-> {}]
  /\ subLock = [s \in Subs |-> None]
  /\ orderLock = [o \in Orders |-> None]
  /\ receiptLock = [e \in EventIds |-> None]
  /\ pc = [p \in Procs |-> "idle"]
  /\ work = [h \in Handlers |-> None]
  /\ now = [p \in Procs |-> None]
  /\ claimed = [w \in Workers |-> [s \in Subs |-> None]]
  /\ clock = 0
  /\ cancels = 0
  /\ failures = 0

-----------------------------------------------------------------------------
(* Transactions                                                             *)

Unlocked(lock, p) == [x \in DOMAIN lock |-> IF lock[x] = p THEN None ELSE lock[x]]

(* The transaction of p is committed, with what dbVars' says, or rolled back. *)
EndTransaction(p) ==
  /\ pc' = [pc EXCEPT ![p] = "idle"]
  /\ work' = [h \in Handlers |-> IF h = p THEN None ELSE work[h]]
  /\ now' = [now EXCEPT ![p] = None]
  /\ claimed' = [w \in Workers |-> IF w = p THEN [s \in Subs |-> None] ELSE claimed[w]]
  /\ subLock' = Unlocked(subLock, p)
  /\ orderLock' = Unlocked(orderLock, p)
  /\ receiptLock' = Unlocked(receiptLock, p)

(* Mutant: an error is tried again before the transaction is rolled back. *)
RefuseLate(p) ==
  /\ pc' = [pc EXCEPT ![p] = "receipt"]
  /\ UNCHANGED <<work, now, claimed, lockVars>>

(* An error of CompletePayment: the deferred Rollback runs. *)
Refuse(p) == EndTransaction(p)

Goto(p, where) == pc' = [pc EXCEPT ![p] = where]

Take(lock, x, p) == [lock EXCEPT ![x] = p]

-----------------------------------------------------------------------------
(* Orders                                                                   *)

(* GetOrderByUserIdempotency *)
Existing(k) == {o \in Orders : order[o] # None /\ order[o].order.key = k}

(* Mutant: no unique index on the idempotency key. *)
AnyKey(k) == TRUE

(* The unique index on the user's idempotency keys. *)
KeyIsFree(k) == Existing(k) = {}

(* The rows CreateOrder, CreateInvoice and CreatePayment insert. *)
InsertOrder(request) == [key |-> request.key, target |-> request.target, status |-> "pending"]

CreateInvoice(request) == [target |-> request.target, status |-> "open"]

CreatePayment == [status |-> "pending", external |-> None]

(* The order found under the key is returned, unless it was placed for      *)
(* something else.                                                          *)
AnswerExisting(h, o) ==
  /\ answers' = IF order[o].order.target = work[h].target
                  THEN [answers EXCEPT ![work[h].key] = @ \union {o}]
                  ELSE answers
  /\ UNCHANGED <<order, captures, sub, events, receipt>>

(* A client asks for an order or a renewal order, perhaps again. *)
RequestOrder(h, request) ==
  /\ pc[h] = "idle"
  /\ Goto(h, "find")
  /\ work' = [work EXCEPT ![h] = request]
  /\ UNCHANGED <<dbVars, lockVars, now, claimed, clock, cancels, failures>>

(* The handlers of http/commerce and http/subscription. *)
createOrder(h, k) == RequestOrder(h, [key |-> k, target |-> None])

renew(h, k, s) == RequestOrder(h, [key |-> k, target |-> s])

(* GetOrderByUserIdempotency, outside the transaction. *)
FindOrder(h) ==
  /\ pc[h] = "find"
  /\ \/ /\ Existing(work[h].key) = {}
        /\ Goto(h, "create")
        /\ UNCHANGED <<dbVars, lockVars, work, now, claimed>>
     \/ /\ \E o \in Existing(work[h].key) : AnswerExisting(h, o)
        /\ EndTransaction(h)
  /\ UNCHANGED <<clock, cancels, failures>>

(* A renewal locks its subscription until the order is inserted. *)
GetSubscriptionForRenewal(s) == subLock[s] = None

(* The transaction of CreateOrder or CreateRenewalOrder.  When the key was  *)
(* used since FindOrder, the insert fails and the order found under it is   *)
(* returned.                                                                *)
CreateOrder(h) ==
  LET request == work[h]
      renewal == request.target # None
      refused == renewal /\ sub[request.target].status \notin Renewable IN
  /\ pc[h] = "create"
  /\ renewal => GetSubscriptionForRenewal(request.target)
  /\ \/ refused /\ UNCHANGED dbVars
     \/ ~refused /\ \E o \in Existing(request.key) : AnswerExisting(h, o)
     \/ /\ ~refused /\ KeyIsFree(request.key)
        /\ \E o \in Orders :
             /\ order[o] = None
             /\ order' = [order EXCEPT ![o] = [order |-> InsertOrder(request),
                                              invoice |-> CreateInvoice(request),
                                              payment |-> CreatePayment]]
             /\ answers' = [answers EXCEPT ![request.key] = @ \union {o}]
        /\ UNCHANGED <<captures, sub, events, receipt>>
  /\ EndTransaction(h)
  /\ UNCHANGED <<clock, cancels, failures>>

-----------------------------------------------------------------------------
(* CompletePayment                                                          *)

(* The gateway delivers a webhook: for the first time, again, or twice at     *)
(* once.                                                                      *)
Deliver(h, m) ==
  /\ pc[h] = "idle"
  /\ Goto(h, "receipt")
  /\ work' = [work EXCEPT ![h] = m]
  /\ UNCHANGED <<dbVars, lockVars, now, claimed, clock, cancels, failures>>

(* Mutant: the receipt is committed on its own. *)
InsertReceiptAtOnce(h, m) ==
  /\ receipt' = [receipt EXCEPT ![m.event] = m]
  /\ UNCHANGED receiptLock

(* InsertWebhookReceipt, uncommitted: its key is taken, the row not visible. *)
InsertWebhookReceipt(h, m) ==
  /\ receiptLock' = Take(receiptLock, m.event, h)
  /\ UNCHANGED receipt

(* ON CONFLICT DO NOTHING found the event: equalJSON compares its payload. *)
GetWebhookReceipt(m) == receipt[m.event]

(* The insert waits for an open transaction with the same event id.  A        *)
(* stored receipt with another payload is refused.                            *)
InsertReceipt(h) ==
  LET m == work[h] IN
  /\ pc[h] = "receipt"
  /\ receiptLock[m.event] = None
  /\ \/ /\ receipt[m.event] = None
        /\ InsertWebhookReceipt(h, m)
        /\ Goto(h, "payment")
        /\ UNCHANGED <<work, now, claimed, subLock, orderLock>>
     \/ /\ GetWebhookReceipt(m) = m
        /\ Goto(h, "duplicate")
        /\ UNCHANGED <<receipt, lockVars, work, now, claimed>>
     \/ /\ GetWebhookReceipt(m) \notin {None, m}
        /\ Refuse(h)
        /\ UNCHANGED receipt
  /\ UNCHANGED <<order, captures, sub, events, answers, clock, cancels, failures>>

(* FOR UPDATE of the three rows: waits for the transaction that has them. *)
LockPaymentOrderInvoice(o) == orderLock[o] = None

(* A receipt of the same payload: the payment is locked and reported as a     *)
(* duplicate.                                                                 *)
AnswerDuplicate(h) ==
  /\ pc[h] = "duplicate"
  /\ LockPaymentOrderInvoice(work[h].payment)
  /\ EndTransaction(h)
  /\ UNCHANGED <<dbVars, clock, cancels, failures>>

(* The receipt becomes visible, processed, with the commit. *)
MarkWebhookProcessed(m) == receipt' = [receipt EXCEPT ![m.event] = m]

(* The checks on the locked payment.  A payment captured under the same        *)
(* external id commits the receipt alone.                                      *)
LockPayment(h) ==
  LET m == work[h]
      row == order[m.payment] IN
  /\ pc[h] = "payment"
  /\ LockPaymentOrderInvoice(m.payment)
  /\ \/ /\ row = None \/ ~m.matches
        /\ Refuse(h)
        /\ UNCHANGED receipt
     \/ /\ row # None /\ m.matches /\ row.payment.status = "succeeded"
        /\ \/ row.payment.external = m.external /\ MarkWebhookProcessed(m) /\ EndTransaction(h)
           \/ row.payment.external # m.external /\ UNCHANGED receipt /\ Refuse(h)
     \/ /\ row # None /\ m.matches /\ row.payment.status = "pending"
        /\ orderLock' = Take(orderLock, m.payment, h)
        /\ Goto(h, "mark")
        /\ UNCHANGED <<receipt, work, now, claimed, subLock, receiptLock>>
  /\ UNCHANGED <<order, captures, sub, events, answers, clock, cancels, failures>>

(* External ids are unique among payments: an id another open transaction has *)
(* written is waited for, one that is committed fails the update.             *)
ExternalPending(m) ==
  \E h \in Handlers : pc[h] \in {"subscription", "capture"} /\ work[h].external = m.external

ExternalTaken(m) == \E o \in Orders : order[o] # None /\ order[o].payment.external = m.external

(* The updates of the three rows. *)
MarkPaymentSucceeded(row, m) ==
  [row EXCEPT !.payment = [status |-> "succeeded", external |-> m.external]]

MarkOrderPaid(row) == [row EXCEPT !.order.status = "paid"]

MarkInvoicePaid(row) == [row EXCEPT !.invoice.status = "paid"]

Paid(row, m) == MarkInvoicePaid(MarkOrderPaid(MarkPaymentSucceeded(row, m)))

(* Mutant: the payment is marked outside the transaction. *)
MarkPaidAtOnce(h) ==
  LET m == work[h] IN
  /\ pc[h] = "mark"
  /\ ~ExternalPending(m)
  /\ \/ /\ ExternalTaken(m)
        /\ Refuse(h)
        /\ UNCHANGED order
     \/ /\ ~ExternalTaken(m)
        /\ order' = [order EXCEPT ![m.payment] = Paid(@, m)]
        /\ Goto(h, IF order[m.payment].invoice.target = None THEN "capture" ELSE "subscription")
        /\ UNCHANGED <<lockVars, work, now, claimed>>
  /\ UNCHANGED <<captures, sub, events, receipt, answers, clock, cancels, failures>>

(* MarkPaymentSucceeded, MarkOrderPaid and MarkInvoicePaid, uncommitted. *)
MarkPaid(h) ==
  LET m == work[h] IN
  /\ pc[h] = "mark"
  /\ ~ExternalPending(m)
  /\ \/ /\ ExternalTaken(m)
        /\ Refuse(h)
     \/ /\ ~ExternalTaken(m)
        /\ Goto(h, IF order[m.payment].invoice.target = None THEN "capture" ELSE "subscription")
        /\ UNCHANGED <<lockVars, work, now, claimed>>
  /\ UNCHANGED <<dbVars, clock, cancels, failures>>

(* Mutant: the subscription is read without FOR UPDATE. *)
ReadSubscription(h, s) == UNCHANGED subLock

LockSubscriptionByID(h, s) ==
  /\ subLock[s] = None
  /\ subLock' = Take(subLock, s, h)

(* The subscription the invoice names, and the time of the renewal.  One that *)
(* ended rolls everything back.                                               *)
LockSubscription(h) ==
  LET s == order[work[h].payment].invoice.target IN
  /\ pc[h] = "subscription"
  /\ \/ /\ sub[s].status \in Renewable
        /\ LockSubscriptionByID(h, s)
        /\ now' = [now EXCEPT ![h] = clock]
        /\ Goto(h, "capture")
        /\ UNCHANGED <<work, claimed, orderLock, receiptLock>>
     \/ /\ sub[s].status \notin Renewable
        /\ subLock[s] = None
        /\ Refuse(h)
  /\ UNCHANGED <<dbVars, clock, cancels, failures>>

Later(a, b) == IF a > b THEN a ELSE b

(* Mutant: what is left of the paid period is lost. *)
RenewedFromNow(row, at) ==
  [status |-> "active", end |-> at + Cycle, grace |-> None,
   cancel |-> FALSE, version |-> row.version + 1]

(* RenewSubscriptionAfterPayment *)
Renewed(row, at) ==
  [status |-> "active", end |-> Later(row.end, at) + Cycle, grace |-> None,
   cancel |-> FALSE, version |-> row.version + 1]

(* The capture's ledger transaction, with a debit and a credit of the same    *)
(* amount.  A payment has one: inserting another would fail.                  *)
CreateLedgerTransaction(o) ==
  /\ captures[o] = 0
  /\ captures' = [captures EXCEPT ![o] = @ + 1]

CreateOutboxEvent(S) == events' = [s \in Subs |-> IF s \in S THEN events[s] + 1 ELSE events[s]]

(* The rest of CompletePayment, up to its commit. *)
Capture(h) ==
  LET m == work[h]
      renewed == {order[m.payment].invoice.target} \ {None} IN
  /\ pc[h] = "capture"
  /\ order' = [order EXCEPT ![m.payment] = Paid(@, m)]
  /\ sub' = [s \in Subs |-> IF s \in renewed THEN Renewed(sub[s], now[h]) ELSE sub[s]]
  /\ CreateLedgerTransaction(m.payment)
  /\ CreateOutboxEvent(renewed)
  /\ MarkWebhookProcessed(m)
  /\ EndTransaction(h)
  /\ UNCHANGED <<answers, clock, cancels, failures>>

-----------------------------------------------------------------------------
(* Subscriptions                                                            *)

LockSubscriptionByUser(s) == subLock[s] = None

(* Mutant: the version is not counted. *)
SetFlagOnly(row, cancel) == [row EXCEPT !.cancel = cancel]

SetSubscriptionCancelAtPeriodEnd(row, cancel) ==
  [row EXCEPT !.cancel = cancel, !.version = @ + 1]

(* The event of a changed subscription, in the change's own transaction. *)
createEvent(S) == CreateOutboxEvent(S)

(* The request waits for the row, and changes active rows only. *)
SetCancelAtPeriodEnd(s, cancel) ==
  /\ LockSubscriptionByUser(s)
  /\ cancels < MaxCancels
  /\ sub[s].status = "active"
  /\ sub[s].cancel # cancel
  /\ sub' = [sub EXCEPT ![s] = SetSubscriptionCancelAtPeriodEnd(@, cancel)]
  /\ createEvent({s})
  /\ cancels' = cancels + 1
  /\ UNCHANGED <<order, captures, receipt, answers, lockVars, procVars, clock, failures>>

(* The processor reads the clock before its transaction begins. *)
StartBatch(w) ==
  /\ pc[w] = "idle"
  /\ Goto(w, "claim")
  /\ now' = [now EXCEPT ![w] = clock]
  /\ UNCHANGED <<dbVars, lockVars, work, claimed, clock, cancels, failures>>

(* Mutant: the grace period is not waited for. *)
DueWithoutGrace(row, at) ==
  \/ row.status = "active" /\ row.end <= at
  \/ row.status = "past_due" /\ row.grace # None /\ row.end <= at

(* Mutant: rows with the cancellation flag are not claimed. *)
DueUnlessCancelled(row, at) ==
  \/ row.status = "active" /\ ~row.cancel /\ row.end <= at
  \/ row.status = "past_due" /\ row.grace # None /\ row.grace <= at

Due(row, at) ==
  \/ row.status = "active" /\ row.end <= at
  \/ row.status = "past_due" /\ row.grace # None /\ row.grace <= at

Deadline(row) == IF row.grace = None THEN row.end ELSE row.grace

(* ClaimSubscriptionsForLifecycle: FOR UPDATE SKIP LOCKED, by deadline. *)
ClaimBatch(w) ==
  LET due == {s \in Subs : Due(sub[s], now[w]) /\ subLock[s] = None} IN
  /\ pc[w] = "claim"
  /\ \E S \in SUBSET due :
       /\ S = due \/ Cardinality(S) = BatchSize
       /\ Cardinality(S) <= BatchSize
       /\ \A s \in S, t \in due \ S : Deadline(sub[s]) <= Deadline(sub[t])
       /\ subLock' = [s \in Subs |-> IF s \in S THEN w ELSE subLock[s]]
       /\ claimed' = [claimed EXCEPT ![w] = [s \in Subs |-> IF s \in S THEN sub[s] ELSE None]]
  /\ Goto(w, "decide")
  /\ UNCHANGED <<dbVars, orderLock, receiptLock, work, now, clock, cancels, failures>>

(* decideLifecycleTransition, on a row that is due. *)
Decide(row) ==
  IF row.status = "past_due" THEN [status |-> "suspended", grace |-> row.grace]
  ELSE IF row.cancel THEN [status |-> "cancelled", grace |-> None]
  ELSE [status |-> "past_due", grace |-> row.end + Grace]

UpdateSubscriptionLifecycle(row, decision) ==
  [row EXCEPT !.status = decision.status, !.grace = decision.grace, !.version = @ + 1]

(* The updates, each for the version claimed, and the commit.  The rows are   *)
(* locked, so no version has changed.                                         *)
CommitBatch(w) ==
  LET S == {s \in Subs : claimed[w][s] # None} IN
  /\ pc[w] = "decide"
  /\ \A s \in S : sub[s].version = claimed[w][s].version
  /\ sub' = [s \in Subs |-> IF s \in S
                THEN UpdateSubscriptionLifecycle(sub[s], Decide(claimed[w][s])) ELSE sub[s]]
  /\ createEvent(S)
  /\ EndTransaction(w)
  /\ UNCHANGED <<order, captures, receipt, answers, clock, cancels, failures>>

(* A crash, a lost connection, a cancelled request, or an error of a step: an  *)
(* inactive plan, an overflowing total, a version or a ledger reference that    *)
(* is not the expected one.                                                     *)
Rollback(p) ==
  /\ pc[p] # "idle"
  /\ failures < MaxFailures
  /\ failures' = failures + 1
  /\ EndTransaction(p)
  /\ UNCHANGED <<dbVars, clock, cancels>>

Tick ==
  /\ clock < MaxTime
  /\ clock' = clock + 1
  /\ UNCHANGED <<dbVars, lockVars, procVars, cancels, failures>>

-----------------------------------------------------------------------------
HandlerStep(h) ==
  \/ FindOrder(h) \/ CreateOrder(h) \/ InsertReceipt(h) \/ AnswerDuplicate(h)
  \/ LockPayment(h) \/ MarkPaid(h) \/ LockSubscription(h) \/ Capture(h)

WorkerStep(w) == StartBatch(w) \/ ClaimBatch(w) \/ CommitBatch(w)

Next ==
  \/ \E h \in Handlers :
       \/ HandlerStep(h)
       \/ \E k \in Keys : createOrder(h, k) \/ \E s \in Subs : renew(h, k, s)
       \/ \E m \in Webhooks : Deliver(h, m)
  \/ \E s \in Subs, cancel \in BOOLEAN : SetCancelAtPeriodEnd(s, cancel)
  \/ \E w \in Workers : WorkerStep(w)
  \/ \E p \in Procs : Rollback(p)
  \/ Tick

Spec == Init /\ [][Next]_vars

(* A transaction proceeds, and is not overtaken forever by others waiting for *)
(* the same row or key, which PostgreSQL queues; each worker polls; the clock  *)
(* runs.                                                                       *)
Fairness ==
  /\ \A h \in Handlers : SF_vars(HandlerStep(h))
  /\ \A w \in Workers : WF_vars(WorkerStep(w))
  /\ WF_vars(Tick)

FairSpec == Spec /\ Fairness

-----------------------------------------------------------------------------
(* Properties                                                               *)

(* Every variable stays in its type. *)
TypeOK ==
  /\ order \in [Orders -> OrderRows \union {None}]
  /\ captures \in [Orders -> Nat]
  /\ sub \in [Subs -> SubRows]
  /\ events \in [Subs -> Nat]
  /\ receipt \in [EventIds -> Webhooks \union {None}]
  /\ answers \in [Keys -> SUBSET Orders]
  /\ subLock \in [Subs -> Procs \union {None}]
  /\ orderLock \in [Orders -> Procs \union {None}]
  /\ receiptLock \in [EventIds -> Procs \union {None}]
  /\ pc \in [Procs -> {"idle", "find", "create", "receipt", "duplicate", "payment", "mark",
                        "subscription", "capture", "claim", "decide"}]
  /\ work \in [Handlers -> Requests \union Webhooks \union {None}]
  /\ now \in [Procs -> Times \union {None}]
  /\ claimed \in [Workers -> [Subs -> SubRows \union {None}]]
  /\ clock \in Times
  /\ cancels \in 0 .. MaxCancels
  /\ failures \in 0 .. MaxFailures

Succeeded(o) == order[o] # None /\ order[o].payment.status = "succeeded"

(* CompletePayment commits all or nothing: a payment is succeeded exactly when *)
(* its order and its invoice are paid and one ledger transaction and one       *)
(* payment.succeeded event record it, whatever webhooks raced or failed half   *)
(* way, and no external payment pays twice.                                    *)
CapturedOnce ==
  /\ \A o \in Orders :
       /\ captures[o] = IF Succeeded(o) THEN 1 ELSE 0
       /\ order[o] # None =>
            /\ Succeeded(o) <=> order[o].order.status = "paid"
            /\ Succeeded(o) <=> order[o].invoice.status = "paid"
  /\ \A o, q \in Orders :
       /\ Succeeded(o) /\ Succeeded(q)
       /\ order[o].payment.external = order[q].payment.external
       => o = q

(* A stored receipt answers every later delivery of its event with success,   *)
(* so CompletePayment stores one only for a payment that is captured, under   *)
(* the external id the receipt names.                                         *)
AcceptedIsCaptured ==
  \A e \in EventIds : receipt[e] # None =>
    /\ Succeeded(receipt[e].payment)
    /\ order[receipt[e].payment].payment.external = receipt[e].external

Renewals(s) == Cardinality({o \in Orders : Succeeded(o) /\ order[o].order.target = s})

(* Each captured renewal payment buys one cycle and nothing else extends a    *)
(* subscription: its period ends at least that many cycles after the first    *)
(* end, and later only by the time it was lapsed.                             *)
PeriodsArePaidFor ==
  \A s \in Subs :
    /\ FirstEnd[s] + Cycle * Renewals(s) <= sub[s].end
    /\ sub[s].end <= Later(FirstEnd[s], clock) + Cycle * Renewals(s)

(* A subscription leaves "active" only when its paid period is over, and      *)
(* "past_due" only when the grace that started at the period's end is: neither *)
(* a worker's stale clock nor a delayed batch shortens or extends them.       *)
LapsesOnTime ==
  \A s \in Subs :
    /\ sub[s].status # "active" => sub[s].end <= clock
    /\ sub[s].grace = IF sub[s].status \in {"past_due", "suspended"}
                        THEN sub[s].end + Grace ELSE None
    /\ sub[s].status = "suspended" => sub[s].grace <= clock

(* Every change of a subscription has a version and an event of its own. *)
EventPerVersion == \A s \in Subs : sub[s].version = events[s] + 1

(* All requests with one idempotency key are answered with one order, however *)
(* they race.                                                                 *)
OneOrderPerKey ==
  \A k \in Keys : Cardinality(Existing(k)) <= 1 /\ answers[k] \subseteq Existing(k)

(* No payment, cancellation request or lifecycle batch changes a cancelled     *)
(* subscription, even one that began while it was active.                      *)
CancelledIsFinal ==
  [][\A s \in Subs : sub[s].status = "cancelled" => sub'[s] = sub[s]]_vars

(* Receipts, payments, external ids and subscriptions are locked in an order   *)
(* in which no transaction waits forever.                                      *)
TransactionsEnd == \A p \in Handlers : pc[p] # "idle" ~> pc[p] = "idle"

(* A period that is over is noticed, though the lifecycle processor skips rows *)
(* that are locked: the subscription is renewed, or it is no longer active.    *)
LapsesAreNoticed ==
  \A s \in Subs : sub[s].status = "active" /\ sub[s].end < clock
                    ~> (sub[s].status # "active" \/ sub[s].end >= clock)
=============================================================================
