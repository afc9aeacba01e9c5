---------------------------- MODULE Billing_types ----------------------------
(***************************************************************************)
(* The types of Billing, and what each open transaction relies on while    *)
(* others run: the payment it marks is there, nobody has committed its     *)
(* external id, the rows it has locked are as it read them.                *)
(***************************************************************************)
EXTENDS Billing, TLAPS

-----------------------------------------------------------------------------
(* Types                                                                    *)

DbTypes ==
  /\ order \in [Orders -> OrderRows \union {None}]
  /\ captures \in [Orders -> Nat]
  /\ sub \in [Subs -> SubRows]
  /\ events \in [Subs -> Nat]
  /\ receipt \in [EventIds -> Webhooks \union {None}]
  /\ answers \in [Keys -> SUBSET Orders]

LockTypes ==
  /\ subLock \in [Subs -> Procs \union {None}]
  /\ orderLock \in [Orders -> Procs \union {None}]
  /\ receiptLock \in [EventIds -> Procs \union {None}]

ProcTypes ==
  /\ pc \in [Procs -> {"idle", "find", "create", "receipt", "duplicate", "payment", "mark",
                        "subscription", "capture", "claim", "decide"}]
  /\ work \in [Handlers -> Requests \union Webhooks \union {None}]
  /\ now \in [Procs -> Times \union {None}]
  /\ claimed \in [Workers -> [Subs -> SubRows \union {None}]]

CounterTypes ==
  /\ clock \in Times
  /\ cancels \in 0 .. MaxCancels
  /\ failures \in 0 .. MaxFailures

(* TypeOK, part by part. *)
LEMMA TypeParts == TypeOK <=> DbTypes /\ LockTypes /\ ProcTypes /\ CounterTypes
BY DEF TypeOK, DbTypes, LockTypes, ProcTypes, CounterTypes

(* A webhook names a gateway event, a payment and an external id. *)
LEMMA WebhookFields ==
  ASSUME NEW m \in Webhooks
  PROVE  /\ m.event \in EventIds /\ m.payment \in Orders /\ m.external \in Externals
         /\ m # None
BY BillingAssumption DEF EventIds, Externals

(* A transaction that ends leaves its process idle and its rows unlocked. *)
LEMMA EndTypes ==
  ASSUME LockTypes, ProcTypes, NEW p \in Procs, EndTransaction(p)
  PROVE  LockTypes' /\ ProcTypes'
<1>1. LockTypes'
  BY Zenon DEF LockTypes, EndTransaction, Unlocked
<1>2. claimed' \in [Workers -> [Subs -> SubRows \union {None}]]
  BY Zenon DEF EndTransaction, ProcTypes
<1>3. ProcTypes'
  BY <1>2, Zenon DEF ProcTypes, EndTransaction
<1> QED
  BY <1>1, <1>3

(* Paid marks the payment with its external id, the order and the invoice. *)
LEMMA PaidRow ==
  ASSUME NEW row \in OrderRows, NEW m \in Webhooks
  PROVE  /\ Paid(row, m) \in OrderRows
         /\ Paid(row, m).payment = [status |-> "succeeded", external |-> m.external]
         /\ Paid(row, m).order.status = "paid" /\ Paid(row, m).invoice.status = "paid"
         /\ Paid(row, m).order.key = row.order.key
         /\ Paid(row, m).order.target = row.order.target
         /\ Paid(row, m).invoice.target = row.invoice.target
<1> DEFINE marked == MarkPaymentSucceeded(row, m)
           paid == MarkOrderPaid(marked)
<1>0. m.external \in Externals
  BY WebhookFields
<1>1. /\ marked \in OrderRows /\ marked.order = row.order /\ marked.invoice = row.invoice
      /\ marked.payment = [status |-> "succeeded", external |-> m.external]
  BY <1>0, SMT, SMTT(30) DEF MarkPaymentSucceeded, OrderRows
<1>2. /\ paid \in OrderRows /\ paid.invoice = marked.invoice /\ paid.payment = marked.payment
      /\ paid.order = [marked.order EXCEPT !.status = "paid"]
  <2> HIDE DEF marked
  <2> QED
    BY <1>1, Zenon DEF MarkOrderPaid, OrderRows
<1>3. /\ Paid(row, m) \in OrderRows
      /\ Paid(row, m).order = paid.order /\ Paid(row, m).payment = paid.payment
      /\ Paid(row, m).invoice = [paid.invoice EXCEPT !.status = "paid"]
  <2>1. Paid(row, m) = MarkInvoicePaid(paid)
    BY DEF Paid
  <2> HIDE DEF paid
  <2> QED
    BY <1>2, <2>1, SMT, SMTT(30) DEF MarkInvoicePaid, OrderRows
<1>4. /\ row.order \in [key : Keys, target : Targets, status : {"pending", "paid"}]
      /\ row.invoice \in [target : Targets, status : {"open", "paid"}]
  BY DEF OrderRows
<1> HIDE DEF marked, paid
<1> QED
  BY <1>1, <1>2, <1>3, <1>4, SMT, SMTT(30)

NewRow(request) ==
  [order |-> InsertOrder(request), invoice |-> CreateInvoice(request), payment |-> CreatePayment]

(* The rows CreateOrder inserts are open, for the request's key and target. *)
LEMMA NewRowType ==
  ASSUME NEW request \in Requests
  PROVE  /\ NewRow(request) \in OrderRows
         /\ NewRow(request).order.key = request.key
         /\ NewRow(request).order.target = request.target
         /\ NewRow(request).invoice.target = request.target
         /\ NewRow(request).order.status = "pending"
         /\ NewRow(request).invoice.status = "open"
         /\ NewRow(request).payment.status = "pending"
BY Zenon DEF NewRow, InsertOrder, CreateInvoice, CreatePayment, Requests, OrderRows, Externals

(* A renewal and a lifecycle step write one version more. *)
LEMMA RenewedRow ==
  ASSUME NEW row \in SubRows, NEW at \in Nat
  PROVE  /\ Renewed(row, at) \in SubRows
         /\ Renewed(row, at).status = "active" /\ Renewed(row, at).grace = None
         /\ Renewed(row, at).version = row.version + 1
         /\ Renewed(row, at).end = Later(row.end, at) + Cycle
BY BillingAssumption, SMT, SMTT(30) DEF Renewed, Later, SubRows

Lapsed(row) == UpdateSubscriptionLifecycle(row, Decide(row))

(* What the lifecycle processor writes to a row that is due. *)
LEMMA LapsedRow ==
  ASSUME NEW row \in SubRows, NEW at \in Nat, Due(row, at)
  PROVE  /\ Lapsed(row) \in SubRows
         /\ Lapsed(row).version = row.version + 1 /\ Lapsed(row).end = row.end
         /\ Lapsed(row).status = IF row.status = "past_due" THEN "suspended"
                                 ELSE IF row.cancel THEN "cancelled" ELSE "past_due"
         /\ Lapsed(row).grace = IF row.status = "past_due" THEN row.grace
                                ELSE IF row.cancel THEN None ELSE row.end + Grace
<1>1. /\ Decide(row).status = IF row.status = "past_due" THEN "suspended"
                              ELSE IF row.cancel THEN "cancelled" ELSE "past_due"
      /\ Decide(row).grace = IF row.status = "past_due" THEN row.grace
                             ELSE IF row.cancel THEN None ELSE row.end + Grace
  BY DEF Decide
<1>2. /\ Decide(row).status \in {"active", "past_due", "suspended", "cancelled"}
      /\ Decide(row).grace \in Nat \union {None}
  BY <1>1, BillingAssumption DEF SubRows
<1>3. /\ Lapsed(row) \in SubRows
      /\ Lapsed(row).version = row.version + 1 /\ Lapsed(row).end = row.end
      /\ Lapsed(row).status = Decide(row).status /\ Lapsed(row).grace = Decide(row).grace
  <2> DEFINE status == Decide(row).status
             grace == Decide(row).grace
             version == row.version + 1
  <2>1. Lapsed(row) = [row EXCEPT !.status = status, !.grace = grace, !.version = version]
    BY DEF Lapsed, UpdateSubscriptionLifecycle
  <2>2. version \in Nat
    BY DEF SubRows
  <2> HIDE DEF status, grace, version
  <2>3. /\ status \in {"active", "past_due", "suspended", "cancelled"}
        /\ grace \in Nat \union {None}
    BY <1>2 DEF status, grace
  <2>4. Lapsed(row) \in SubRows
    BY <2>1, <2>2, <2>3, Zenon DEF SubRows
  <2>5. /\ Lapsed(row).version = version /\ Lapsed(row).end = row.end
        /\ Lapsed(row).status = status /\ Lapsed(row).grace = grace
    BY <2>1 DEF SubRows
  <2> QED
    BY <2>4, <2>5 DEF status, grace, version
<1> QED
  BY <1>1, <1>3

-----------------------------------------------------------------------------
(* The inductive invariant                                                  *)

(* Where a handler executes CompletePayment. *)
Paying == {"receipt", "duplicate", "payment", "mark", "subscription", "capture"}

(* The subscription that the payment of h renews, or None. *)
Target(h) == order[work[h].payment].invoice.target

(* What handler h relies on: the payment it marks exists; nobody has committed *)
(* its external id; and the subscription it renews is locked, has not ended,   *)
(* and is renewed at a time that has come.                                     *)
HandlerInv(h) ==
  /\ pc[h] \in {"idle", "find", "create"} \union Paying
  /\ pc[h] \in {"find", "create"} => work[h] \in Requests
  /\ pc[h] \in Paying => work[h] \in Webhooks
  /\ pc[h] \in {"mark", "subscription", "capture"} => order[work[h].payment] # None
  /\ pc[h] = "subscription" => Target(h) # None
  /\ pc[h] \in {"subscription", "capture"} =>
       \A o \in Orders : Succeeded(o) => order[o].payment.external # work[h].external
  /\ pc[h] = "capture" /\ Target(h) # None =>
       /\ subLock[Target(h)] = h
       /\ sub[Target(h)].status \in Renewable
       /\ now[h] \in Times /\ now[h] <= clock

(* Two open transactions do not write the same external id. *)
ExternalsDiffer ==
  \A g, h \in Handlers :
    /\ pc[g] \in {"subscription", "capture"} /\ pc[h] \in {"subscription", "capture"}
    /\ work[g].external = work[h].external
    => g = h

(* What worker w relies on: the rows it claimed are locked, unchanged and due. *)
WorkerInv(w) ==
  /\ pc[w] \in {"idle", "claim", "decide"}
  /\ pc[w] # "idle" => now[w] \in Times /\ now[w] <= clock
  /\ \A s \in Subs : claimed[w][s] # None =>
       /\ pc[w] = "decide" /\ subLock[s] = w
       /\ claimed[w][s] = sub[s] /\ Due(sub[s], now[w])

(* An order and its invoice are for the same subscription. *)
OneTarget == \A o \in Orders : order[o] # None => order[o].order.target = order[o].invoice.target

ProcsInv ==
  /\ TypeOK
  /\ OneTarget
  /\ \A h \in Handlers : HandlerInv(h)
  /\ \A w \in Workers : WorkerInv(w)
  /\ ExternalsDiffer

(* The row that a payment is about is there with its target. *)
LEMMA TargetType ==
  ASSUME DbTypes, NEW h \in Handlers, HandlerInv(h),
         pc[h] \in {"mark", "subscription", "capture"}
  PROVE  /\ work[h] \in Webhooks /\ work[h].payment \in Orders
         /\ order[work[h].payment] \in OrderRows /\ Target(h) \in Targets
<1>1. work[h] \in Webhooks /\ work[h].payment \in Orders
  BY WebhookFields, Zenon DEF HandlerInv, Paying
<1>2. order[work[h].payment] \in OrderRows
  BY <1>1, Zenon DEF HandlerInv, DbTypes
<1>3. Target(h) \in Targets
  BY <1>2, Zenon DEF Target, OrderRows
<1> QED
  BY <1>1, <1>2, <1>3

-----------------------------------------------------------------------------
(* What a step does to the transactions that do not take it                 *)

(* The other transactions keep their place, what they read and their locks. *)
Alone(p) ==
  \A q \in Procs \ {p} :
    /\ pc'[q] = pc[q] /\ now'[q] = now[q]
    /\ q \in Handlers => work'[q] = work[q]
    /\ q \in Workers => claimed'[q] = claimed[q]
    /\ \A s \in Subs : subLock[s] = q => subLock'[s] = q

(* No subscription that another transaction has locked is written. *)
WritesOwn(p) == \A s \in Subs : sub'[s] = sub[s] \/ subLock[s] \in {None, p}

(* Orders stay, for what they were placed for; the only payment that becomes *)
(* succeeded is the one p captures.                                          *)
KeepsOrders(p) ==
  \A o \in Orders :
    /\ order[o] # None =>
         /\ order'[o] # None /\ order'[o].order.key = order[o].order.key
         /\ order'[o].order.target = order[o].order.target
         /\ order'[o].invoice.target = order[o].invoice.target
    /\ order[o] = None /\ order'[o] # None =>
         order'[o].order.target = order'[o].invoice.target
    /\ Succeeded(o)' =>
         \/ Succeeded(o) /\ order'[o].payment = order[o].payment
         \/ /\ p \in Handlers /\ pc[p] = "capture"
            /\ order'[o].payment.external = work[p].external

(* Where a handler has written its external id and not committed it. *)
Marked == {"subscription", "capture"}

(* What the process that takes the step relies on afterwards. *)
Own(p) ==
  /\ p \in Handlers =>
       /\ HandlerInv(p)'
       /\ pc'[p] \in Marked =>
            work'[p] = work[p] /\ (pc[p] \in Marked \/ ~ExternalPending(work[p]))
  /\ p \in Workers => WorkerInv(p)'

DbStep(p) == DbTypes' /\ CounterTypes' /\ WritesOwn(p) /\ KeepsOrders(p) /\ clock <= clock'

ProcStep(p) == LockTypes' /\ ProcTypes' /\ Alone(p) /\ Own(p)

(* Every handler and every worker is one or the other. *)
LEMMA Kinds ==
  /\ \A h \in Handlers : h \in Procs /\ h \notin Workers /\ h # None
  /\ \A w \in Workers : w \in Procs /\ w \notin Handlers /\ w # None
  /\ \A s \in Subs : s # None
BY BillingAssumption DEF Procs

(* A step that leaves the database alone. *)
LEMMA SameDb ==
  ASSUME DbTypes, CounterTypes, UNCHANGED dbVars, UNCHANGED <<clock, cancels>>,
         failures' \in 0 .. MaxFailures, NEW p
  PROVE  DbStep(p)
<1>1. DbTypes' /\ CounterTypes'
  BY DEF DbTypes, CounterTypes, dbVars
<1>2. WritesOwn(p) /\ KeepsOrders(p)
  BY Zenon DEF WritesOwn, KeepsOrders, dbVars, Succeeded
<1>3. clock <= clock'
  BY DEF CounterTypes, Times
<1> QED
  BY <1>1, <1>2, <1>3 DEF DbStep

(* A transaction that ends. *)
LEMMA EndStep ==
  ASSUME LockTypes, ProcTypes, NEW p \in Procs, EndTransaction(p)
  PROVE  ProcStep(p)
<1>1. LockTypes' /\ ProcTypes'
  BY EndTypes
<1>2. Alone(p)
  BY Zenon DEF Alone, EndTransaction, Unlocked, ProcTypes, LockTypes, Procs
<1>3. pc'[p] = "idle"
  BY DEF EndTransaction, ProcTypes
<1>4. p \in Handlers => HandlerInv(p)' /\ pc'[p] \notin Marked
  BY <1>3 DEF HandlerInv, Paying, Marked
<1>5. p \in Workers => \A s \in Subs : claimed'[p][s] = None
  BY DEF EndTransaction
<1>6. p \in Workers => WorkerInv(p)'
  BY <1>3, <1>5 DEF WorkerInv
<1> QED
  BY <1>1, <1>2, <1>4, <1>6 DEF ProcStep, Own

(* A process that goes on. *)
LEMMA MoveTypes ==
  ASSUME ProcTypes, NEW p \in Procs,
         NEW where \in {"idle", "find", "create", "receipt", "duplicate", "payment", "mark",
                        "subscription", "capture", "claim", "decide"}, Goto(p, where)
  PROVE  /\ pc' \in [Procs -> {"idle", "find", "create", "receipt", "duplicate", "payment", "mark",
                               "subscription", "capture", "claim", "decide"}]
         /\ pc'[p] = where
         /\ \A q \in Procs \ {p} : pc'[q] = pc[q]
BY DEF ProcTypes, Goto

-----------------------------------------------------------------------------
(* The steps of the handlers                                                *)

(* A request or a webhook arrives. *)
LEMMA ArriveStep ==
  ASSUME ProcsInv, NEW h \in Handlers, NEW what, NEW where,
         pc[h] = "idle", Goto(h, where), work' = [work EXCEPT ![h] = what],
         UNCHANGED <<dbVars, lockVars, now, claimed, clock, cancels, failures>>,
         \/ where = "find" /\ what \in Requests
         \/ where = "receipt" /\ what \in Webhooks
  PROVE  DbStep(h) /\ ProcStep(h)
<1>1. DbTypes /\ LockTypes /\ ProcTypes /\ CounterTypes
  BY TypeParts DEF ProcsInv
<1>2. DbStep(h)
  BY <1>1, SameDb DEF CounterTypes
<1>3. h \in Procs
  BY Kinds
<1>4. /\ pc' \in [Procs -> {"idle", "find", "create", "receipt", "duplicate", "payment", "mark",
                            "subscription", "capture", "claim", "decide"}]
      /\ pc'[h] = where
      /\ \A q \in Procs \ {h} : pc'[q] = pc[q]
  BY <1>1, <1>3, MoveTypes, Zenon
<1>5. LockTypes' /\ ProcTypes'
  BY <1>1, <1>4, Zenon DEF LockTypes, lockVars, ProcTypes
<1>6. Alone(h)
  BY <1>1, <1>4, Zenon DEF Alone, lockVars, ProcTypes
<1>7. work'[h] = what
  BY <1>1 DEF ProcTypes
<1>8. HandlerInv(h)' /\ pc'[h] \notin Marked
  BY <1>4, <1>7, Zenon DEF HandlerInv, Paying, Marked
<1> QED
  BY <1>2, <1>5, <1>6, <1>8, Kinds DEF ProcStep, Own

(* An answer adds an order to those returned for its key. *)
LEMMA AnswerTypes ==
  ASSUME ProcsInv, NEW h \in Handlers, pc[h] \in {"find", "create"},
         NEW o \in Orders, AnswerExisting(h, o), UNCHANGED <<clock, cancels, failures>>
  PROVE  DbStep(h)
<1>1. DbTypes /\ CounterTypes /\ work[h] \in Requests
  BY TypeParts, Zenon DEF ProcsInv, HandlerInv
<1>2. work[h].key \in Keys
  BY <1>1 DEF Requests
<1>3. answers' \in [Keys -> SUBSET Orders]
  BY <1>1, <1>2, Zenon DEF AnswerExisting, DbTypes
<1>4. DbTypes' /\ CounterTypes'
  BY <1>1, <1>3, Zenon DEF AnswerExisting, DbTypes, CounterTypes
<1>5. WritesOwn(h) /\ KeepsOrders(h)
  BY Zenon DEF WritesOwn, KeepsOrders, AnswerExisting, Succeeded
<1>6. clock <= clock'
  BY <1>1 DEF CounterTypes, Times
<1> QED
  BY <1>4, <1>5, <1>6 DEF DbStep

(* FindOrder answers, or goes on to create an order. *)
LEMMA FindOrderStep ==
  ASSUME ProcsInv, NEW h \in Handlers, FindOrder(h)
  PROVE  DbStep(h) /\ ProcStep(h)
<1>1. DbTypes /\ LockTypes /\ ProcTypes /\ CounterTypes /\ h \in Procs
  BY TypeParts, Kinds DEF ProcsInv
<1>2. CASE Goto(h, "create") /\ UNCHANGED <<dbVars, lockVars, work, now, claimed>>
  <2>1. DbStep(h)
    BY <1>1, <1>2, SameDb DEF CounterTypes, FindOrder
  <2>2. /\ pc' \in [Procs -> {"idle", "find", "create", "receipt", "duplicate", "payment", "mark",
                              "subscription", "capture", "claim", "decide"}]
        /\ pc'[h] = "create"
        /\ \A q \in Procs \ {h} : pc'[q] = pc[q]
    BY <1>1, <1>2, MoveTypes, Zenon
  <2>3. LockTypes' /\ ProcTypes'
    BY <1>1, <1>2, <2>2, Zenon DEF LockTypes, lockVars, ProcTypes
  <2>4. Alone(h)
    BY <1>2, <2>2, Zenon DEF Alone, lockVars
  <2>5. HandlerInv(h)' /\ pc'[h] \notin Marked
    BY <1>2, <2>2, Zenon DEF HandlerInv, Paying, Marked, ProcsInv, FindOrder
  <2> QED
    BY <2>1, <2>3, <2>4, <2>5, Kinds DEF ProcStep, Own
<1>3. CASE (\E o \in Existing(work[h].key) : AnswerExisting(h, o)) /\ EndTransaction(h)
  <2>1. ProcStep(h)
    BY <1>1, <1>3, EndStep
  <2>2. DbStep(h)
    BY <1>3, AnswerTypes, Zenon DEF FindOrder, Existing
  <2> QED
    BY <2>1, <2>2
<1> QED
  BY <1>2, <1>3 DEF FindOrder

(* The insertion of an order. *)
LEMMA InsertStep ==
  ASSUME ProcsInv, NEW h \in Handlers, pc[h] = "create", NEW o \in Orders, order[o] = None,
         order' = [order EXCEPT ![o] = NewRow(work[h])],
         answers' = [answers EXCEPT ![work[h].key] = @ \union {o}],
         UNCHANGED <<captures, sub, events, receipt, clock, cancels, failures>>
  PROVE  DbStep(h)
<1>1. DbTypes /\ CounterTypes /\ work[h] \in Requests
  BY TypeParts, Zenon DEF ProcsInv, HandlerInv
<1>2. work[h].key \in Keys /\ NewRow(work[h]) \in OrderRows
  BY <1>1, NewRowType, Zenon DEF Requests
<1>3. order' \in [Orders -> OrderRows \union {None}] /\ answers' \in [Keys -> SUBSET Orders]
  BY <1>1, <1>2, Zenon DEF DbTypes
<1>4. DbTypes' /\ CounterTypes'
  BY <1>1, <1>3, Zenon DEF DbTypes, CounterTypes
<1>5. WritesOwn(h) /\ clock <= clock'
  BY <1>1 DEF WritesOwn, CounterTypes, Times
<1>6. /\ order'[o] = NewRow(work[h])
      /\ \A q \in Orders \ {o} : order'[q] = order[q]
  BY <1>1, Zenon DEF DbTypes
<1>7. ~Succeeded(o)'
  BY <1>1, <1>6, NewRowType, Zenon DEF Succeeded
<1>8. \A q \in Orders \ {o} : Succeeded(q)' => Succeeded(q) /\ order'[q].payment = order[q].payment
  BY <1>6, Zenon DEF Succeeded
<1>9. order'[o].order.target = order'[o].invoice.target
  BY <1>1, <1>6, NewRowType
<1>10. KeepsOrders(h)
  BY <1>6, <1>7, <1>8, <1>9, Zenon DEF KeepsOrders
<1> QED
  BY <1>4, <1>5, <1>10, Zenon DEF DbStep

(* CreateOrder inserts an order, answers with the one that is there, or fails. *)
LEMMA CreateOrderStep ==
  ASSUME ProcsInv, NEW h \in Handlers, CreateOrder(h)
  PROVE  DbStep(h) /\ ProcStep(h)
<1>1. DbTypes /\ LockTypes /\ ProcTypes /\ CounterTypes /\ h \in Procs
  BY TypeParts, Kinds DEF ProcsInv
<1>2. ProcStep(h)
  BY <1>1, EndStep, Zenon DEF CreateOrder
<1>3. CASE UNCHANGED dbVars
  BY <1>1, <1>2, <1>3, SameDb, Zenon DEF CounterTypes, CreateOrder
<1>4. CASE \E o \in Existing(work[h].key) : AnswerExisting(h, o)
  BY <1>2, <1>4, AnswerTypes, Zenon DEF CreateOrder, Existing
<1>5. CASE /\ \E o \in Orders :
                /\ order[o] = None
                /\ order' = [order EXCEPT ![o] = NewRow(work[h])]
                /\ answers' = [answers EXCEPT ![work[h].key] = @ \union {o}]
           /\ UNCHANGED <<captures, sub, events, receipt>>
  BY <1>2, <1>5, InsertStep, Zenon DEF CreateOrder
<1> QED
  BY <1>3, <1>4, <1>5, Zenon DEF CreateOrder, NewRow

(* A handler that goes on within CompletePayment. *)
LEMMA PayingStep ==
  ASSUME ProcsInv, NEW h \in Handlers, pc[h] \in Paying, NEW where \in Paying, Goto(h, where),
         UNCHANGED <<work, claimed>>, now' \in [Procs -> Times \union {None}], LockTypes',
         \A q \in Procs \ {h} : now'[q] = now[q],
         \A q \in Procs \ {h}, s \in Subs : subLock[s] = q => subLock'[s] = q,
         HandlerInv(h)', where \in Marked => pc[h] \in Marked \/ ~ExternalPending(work[h])
  PROVE  ProcStep(h)
<1>1. ProcTypes /\ h \in Procs
  BY TypeParts, Kinds, Zenon DEF ProcsInv
<1>2. /\ pc' \in [Procs -> {"idle", "find", "create", "receipt", "duplicate", "payment", "mark",
                            "subscription", "capture", "claim", "decide"}]
      /\ pc'[h] = where
      /\ \A q \in Procs \ {h} : pc'[q] = pc[q]
  BY <1>1, MoveTypes DEF Paying
<1>3. ProcTypes'
  BY <1>1, <1>2, Zenon DEF ProcTypes
<1>4. Alone(h)
  BY <1>2, Zenon DEF Alone
<1> QED
  BY <1>2, <1>3, <1>4, Kinds, Zenon DEF ProcStep, Own

(* A step that writes a receipt and nothing else. *)
LEMMA ReceiptDb ==
  ASSUME DbTypes, CounterTypes, NEW p, receipt' \in [EventIds -> Webhooks \union {None}],
         UNCHANGED <<order, captures, sub, events, answers, clock, cancels, failures>>
  PROVE  DbStep(p)
<1>1. DbTypes' /\ CounterTypes'
  BY DEF DbTypes, CounterTypes
<1>2. WritesOwn(p) /\ KeepsOrders(p)
  BY Zenon DEF WritesOwn, KeepsOrders, Succeeded
<1>3. clock <= clock'
  BY DEF CounterTypes, Times
<1> QED
  BY <1>1, <1>2, <1>3 DEF DbStep

(* InsertReceipt takes the key of the event, finds it, or is refused. *)
LEMMA InsertReceiptStep ==
  ASSUME ProcsInv, NEW h \in Handlers, InsertReceipt(h)
  PROVE  DbStep(h) /\ ProcStep(h)
<1>1. DbTypes /\ LockTypes /\ ProcTypes /\ CounterTypes /\ h \in Procs
  BY TypeParts, Kinds DEF ProcsInv
<1>2. pc[h] = "receipt" /\ work[h] \in Webhooks /\ work[h].event \in EventIds
  BY WebhookFields, Zenon DEF InsertReceipt, ProcsInv, HandlerInv, Paying
<1>3. receipt' = receipt
  BY Zenon DEF InsertReceipt, InsertWebhookReceipt
<1>4. DbStep(h)
  BY <1>1, <1>3, SameDb, Zenon DEF InsertReceipt, dbVars, CounterTypes
<1>5. CASE Refuse(h)
  BY <1>1, <1>4, <1>5, EndStep DEF Refuse
<1>6. ASSUME NEW where \in {"payment", "duplicate"}, Goto(h, where),
             UNCHANGED <<work, now, claimed, subLock, orderLock>>,
             receiptLock' = Take(receiptLock, work[h].event, h) \/ receiptLock' = receiptLock
      PROVE  ProcStep(h)
  <2>1. LockTypes'
    BY <1>1, <1>2, <1>6 DEF LockTypes, Take
  <2>2. HandlerInv(h)'
    BY <1>1, <1>2, <1>6, MoveTypes, Zenon DEF HandlerInv, Paying
  <2>3. now' \in [Procs -> Times \union {None}]
    BY <1>1, <1>6 DEF ProcTypes
  <2> QED
    BY <1>2, <1>6, <2>1, <2>2, <2>3, PayingStep, Zenon DEF Paying, Marked
<1> QED
  BY <1>4, <1>5, <1>6, Zenon DEF InsertReceipt, InsertWebhookReceipt, lockVars

(* AnswerDuplicate ends the transaction. *)
LEMMA AnswerDuplicateStep ==
  ASSUME ProcsInv, NEW h \in Handlers, AnswerDuplicate(h)
  PROVE  DbStep(h) /\ ProcStep(h)
<1>1. DbTypes /\ LockTypes /\ ProcTypes /\ CounterTypes /\ h \in Procs
  BY TypeParts, Kinds DEF ProcsInv
<1> QED
  BY <1>1, SameDb, EndStep DEF AnswerDuplicate, CounterTypes

(* LockPayment takes the payment, commits the receipt alone, or is refused. *)
LEMMA LockPaymentStep ==
  ASSUME ProcsInv, NEW h \in Handlers, LockPayment(h)
  PROVE  DbStep(h) /\ ProcStep(h)
<1>1. DbTypes /\ LockTypes /\ ProcTypes /\ CounterTypes /\ h \in Procs
  BY TypeParts, Kinds DEF ProcsInv
<1>2. pc[h] = "payment" /\ work[h] \in Webhooks
  BY Zenon DEF LockPayment, ProcsInv, HandlerInv, Paying
<1>3. work[h].event \in EventIds /\ work[h].payment \in Orders
  BY <1>2, WebhookFields
<1>4. receipt' \in [EventIds -> Webhooks \union {None}]
  BY <1>1, <1>2, <1>3, Zenon DEF LockPayment, MarkWebhookProcessed, DbTypes
<1>5. DbStep(h)
  BY <1>1, <1>4, ReceiptDb, Zenon DEF LockPayment
<1>6. CASE EndTransaction(h)
  BY <1>1, <1>5, <1>6, EndStep
<1>7. CASE /\ order[work[h].payment] # None
           /\ orderLock' = Take(orderLock, work[h].payment, h)
           /\ Goto(h, "mark")
           /\ UNCHANGED <<receipt, work, now, claimed, subLock, receiptLock>>
  <2>1. LockTypes'
    BY <1>1, <1>3, <1>7, Zenon DEF LockTypes, Take
  <2>2. pc'[h] = "mark" /\ order'[work'[h].payment] # None
    BY <1>1, <1>7, MoveTypes, Zenon DEF LockPayment
  <2>3. HandlerInv(h)'
    BY <1>2, <1>7, <2>2, Zenon DEF HandlerInv, Paying
  <2>4. now' \in [Procs -> Times \union {None}]
    BY <1>1, <1>7 DEF ProcTypes
  <2> QED
    BY <1>2, <1>5, <1>7, <2>1, <2>3, <2>4, PayingStep, Zenon DEF Paying, Marked
<1> QED
  BY <1>6, <1>7, Zenon DEF LockPayment, Refuse

(* MarkPaid writes an external id that nobody else has written. *)
LEMMA MarkPaidStep ==
  ASSUME ProcsInv, NEW h \in Handlers, MarkPaid(h)
  PROVE  DbStep(h) /\ ProcStep(h)
<1>1. DbTypes /\ LockTypes /\ ProcTypes /\ CounterTypes /\ h \in Procs
  BY TypeParts, Kinds DEF ProcsInv
<1>2. /\ pc[h] = "mark" /\ work[h] \in Webhooks /\ order[work[h].payment] # None
      /\ ~ExternalPending(work[h])
  BY Zenon DEF MarkPaid, ProcsInv, HandlerInv, Paying
<1>3. DbStep(h)
  BY <1>1, SameDb, Zenon DEF MarkPaid, CounterTypes
<1>4. CASE Refuse(h)
  BY <1>1, <1>3, <1>4, EndStep DEF Refuse
<1>5. CASE /\ ~ExternalTaken(work[h])
           /\ Goto(h, IF order[work[h].payment].invoice.target = None THEN "capture" ELSE "subscription")
           /\ UNCHANGED <<lockVars, work, now, claimed>>
  <2> DEFINE where == IF Target(h) = None THEN "capture" ELSE "subscription"
  <2>1. where \in {"capture", "subscription"} /\ Goto(h, where) /\ pc'[h] = where
    BY <1>1, <1>5, MoveTypes, Zenon DEF Target
  <2>2. order' = order /\ work' = work /\ Target(h)' = Target(h)
    BY <1>5, Zenon DEF MarkPaid, dbVars, Target
  <2>3. \A o \in Orders : Succeeded(o)' => order'[o].payment.external # work'[h].external
    BY <1>5, <2>2, Zenon DEF ExternalTaken, Succeeded
  <2>4. HandlerInv(h)'
    BY <1>2, <2>1, <2>2, <2>3, Zenon DEF HandlerInv, Paying
  <2>5. LockTypes' /\ now' \in [Procs -> Times \union {None}]
    BY <1>1, <1>5, Zenon DEF LockTypes, lockVars, ProcTypes
  <2> HIDE DEF where
  <2>6. ProcStep(h)
    BY <1>2, <1>5, <2>1, <2>4, <2>5, PayingStep, Zenon DEF Paying, lockVars
  <2> QED
    BY <1>3, <2>6
<1> QED
  BY <1>4, <1>5, Zenon DEF MarkPaid

(* LockSubscription takes a subscription that has not ended. *)
LEMMA LockSubscriptionStep ==
  ASSUME ProcsInv, NEW h \in Handlers, LockSubscription(h)
  PROVE  DbStep(h) /\ ProcStep(h)
<1>1. DbTypes /\ LockTypes /\ ProcTypes /\ CounterTypes /\ h \in Procs
  BY TypeParts, Kinds DEF ProcsInv
<1>2. /\ pc[h] = "subscription" /\ work[h] \in Webhooks /\ order[work[h].payment] # None
      /\ \A o \in Orders : Succeeded(o) => order[o].payment.external # work[h].external
  BY Zenon DEF LockSubscription, ProcsInv, HandlerInv, Paying
<1>3. Target(h) \in Subs
  BY <1>1, <1>2, TargetType, Zenon DEF ProcsInv, HandlerInv, Targets
<1>4. DbStep(h)
  BY <1>1, SameDb, Zenon DEF LockSubscription, CounterTypes
<1>5. CASE Refuse(h)
  BY <1>1, <1>4, <1>5, EndStep DEF Refuse
<1>6. CASE /\ sub[Target(h)].status \in Renewable
           /\ LockSubscriptionByID(h, Target(h))
           /\ now' = [now EXCEPT ![h] = clock]
           /\ Goto(h, "capture")
           /\ UNCHANGED <<work, claimed, orderLock, receiptLock>>
  <2>1. pc'[h] = "capture"
    BY <1>1, <1>6, MoveTypes, Zenon
  <2>2. /\ order' = order /\ sub' = sub /\ clock' = clock
        /\ work' = work /\ Target(h)' = Target(h)
    BY <1>6, Zenon DEF LockSubscription, dbVars, Target
  <2>3. /\ subLock'[Target(h)] = h
        /\ \A q \in Procs \ {h}, s \in Subs : subLock[s] = q => subLock'[s] = q
    BY <1>1, <1>3, <1>6, BillingAssumption, Zenon DEF LockSubscriptionByID, Take, LockTypes
  <2>4. /\ now'[h] = clock /\ clock \in Times
        /\ now' \in [Procs -> Times \union {None}]
        /\ \A q \in Procs \ {h} : now'[q] = now[q]
    BY <1>1, <1>6 DEF ProcTypes, CounterTypes
  <2>5. now'[h] <= clock'
    BY <2>2, <2>4 DEF Times
  <2>6. \A o \in Orders : Succeeded(o)' => order'[o].payment.external # work'[h].external
    BY <1>2, <2>2, Zenon DEF Succeeded
  <2>7. HandlerInv(h)'
    BY <1>2, <1>6, <2>1, <2>2, <2>3, <2>4, <2>5, <2>6, Zenon DEF HandlerInv, Paying
  <2>8. LockTypes'
    BY <1>1, <1>3, <1>6 DEF LockTypes, LockSubscriptionByID, Take
  <2>9. ProcStep(h)
    BY <1>2, <1>6, <2>3, <2>4, <2>7, <2>8, PayingStep, Zenon DEF Paying, Marked
  <2> QED
    BY <1>4, <2>9
<1> QED
  BY <1>5, <1>6, Zenon DEF LockSubscription, Target

(* What Capture writes: the payment's rows, and the subscription it renews. *)
LEMMA CaptureWrites ==
  ASSUME ProcsInv, NEW h \in Handlers, Capture(h)
  PROVE  /\ work[h] \in Webhooks /\ work[h].payment \in Orders
         /\ order[work[h].payment] \in OrderRows
         /\ Target(h) \in Subs \union {None}
         /\ order'[work[h].payment] = Paid(order[work[h].payment], work[h])
         /\ \A o \in Orders \ {work[h].payment} : order'[o] = order[o]
         /\ Target(h) # None =>
              /\ subLock[Target(h)] = h /\ sub[Target(h)].status \in Renewable
              /\ now[h] \in Nat /\ now[h] <= clock
              /\ sub'[Target(h)] = Renewed(sub[Target(h)], now[h])
         /\ \A s \in Subs \ {Target(h)} : sub'[s] = sub[s]
<1>1. DbTypes /\ HandlerInv(h) /\ pc[h] = "capture"
  BY TypeParts, Zenon DEF ProcsInv, Capture
<1>2. /\ work[h] \in Webhooks /\ work[h].payment \in Orders
      /\ order[work[h].payment] \in OrderRows
      /\ Target(h) \in Subs \union {None}
  BY <1>1, TargetType DEF Targets
<1>3. /\ order'[work[h].payment] = Paid(order[work[h].payment], work[h])
      /\ \A o \in Orders \ {work[h].payment} : order'[o] = order[o]
  BY <1>1, <1>2, Zenon DEF Capture, DbTypes
<1>4. Target(h) # None =>
        /\ subLock[Target(h)] = h /\ sub[Target(h)].status \in Renewable
        /\ now[h] \in Nat /\ now[h] <= clock
  BY <1>1 DEF HandlerInv, Times
<1>5. /\ Target(h) # None => sub'[Target(h)] = Renewed(sub[Target(h)], now[h])
      /\ \A s \in Subs \ {Target(h)} : sub'[s] = sub[s]
  BY <1>2, Zenon DEF Capture, Target
<1> QED
  BY <1>2, <1>3, <1>4, <1>5, Zenon

(* Capture commits. *)
LEMMA CaptureStep ==
  ASSUME ProcsInv, NEW h \in Handlers, Capture(h)
  PROVE  DbStep(h) /\ ProcStep(h)
<1>1. DbTypes /\ LockTypes /\ ProcTypes /\ CounterTypes /\ h \in Procs
  BY TypeParts, Kinds DEF ProcsInv
<1>2. ProcStep(h)
  BY <1>1, EndStep, Zenon DEF Capture
<1> DEFINE o == work[h].payment
           row == order[o]
<1>3. /\ work[h] \in Webhooks /\ o \in Orders /\ row \in OrderRows
      /\ order'[o] = Paid(row, work[h])
      /\ \A q \in Orders \ {o} : order'[q] = order[q]
  BY CaptureWrites, Zenon
<1>4. work[h].event \in EventIds /\ row # None /\ Paid(row, work[h]) \in OrderRows
  BY <1>3, WebhookFields, PaidRow, BillingAssumption, Zenon
<1>5. \A s \in Subs : sub'[s] = sub[s] \/ (sub'[s] \in SubRows /\ subLock[s] = h)
  <2>1. Target(h) \in Subs =>
          /\ sub[Target(h)] \in SubRows /\ now[h] \in Nat /\ subLock[Target(h)] = h
          /\ sub'[Target(h)] = Renewed(sub[Target(h)], now[h])
    BY <1>1, CaptureWrites, Kinds, Zenon DEF DbTypes
  <2>2. Target(h) \in Subs => sub'[Target(h)] \in SubRows
    BY <2>1, RenewedRow
  <2> QED
    BY <2>1, <2>2, CaptureWrites, Zenon
<1>6. sub' \in [Subs -> SubRows] /\ WritesOwn(h)
  BY <1>1, <1>5, Zenon DEF DbTypes, WritesOwn, Capture
<1>7. /\ order' \in [Orders -> OrderRows \union {None}]
      /\ captures' \in [Orders -> Nat]
      /\ receipt' \in [EventIds -> Webhooks \union {None}]
  BY <1>1, <1>3, <1>4 DEF Capture, DbTypes, CreateLedgerTransaction, MarkWebhookProcessed
<1>8. events' \in [Subs -> Nat]
  BY <1>1 DEF Capture, DbTypes, CreateOutboxEvent
<1>9. DbTypes' /\ CounterTypes'
  BY <1>1, <1>6, <1>7, <1>8, Zenon DEF DbTypes, CounterTypes, Capture
<1>10. clock <= clock'
  BY <1>1 DEF CounterTypes, Times, Capture
<1>11. /\ order'[o] # None /\ order'[o].order.key = row.order.key
       /\ order'[o].order.target = row.order.target
       /\ order'[o].invoice.target = row.invoice.target
       /\ order'[o].payment.external = work[h].external
  <2>1. /\ Paid(row, work[h]).order.key = row.order.key
        /\ Paid(row, work[h]).order.target = row.order.target
        /\ Paid(row, work[h]).invoice.target = row.invoice.target
        /\ Paid(row, work[h]).payment = [status |-> "succeeded", external |-> work[h].external]
    BY <1>3, PaidRow, Zenon
  <2>2. Paid(row, work[h]) # None
    BY <1>4, BillingAssumption, Zenon
  <2> HIDE DEF o, row
  <2> QED
    BY <1>3, <2>1, <2>2
<1>12. \A q \in Orders \ {o} : Succeeded(q)' => Succeeded(q) /\ order'[q].payment = order[q].payment
  BY <1>3, Zenon DEF Succeeded
<1>13. pc[h] = "capture"
  BY Zenon DEF Capture
<1> HIDE DEF o
<1>14. KeepsOrders(h)
  BY <1>3, <1>4, <1>11, <1>12, <1>13, Zenon DEF KeepsOrders
<1> QED
  BY <1>2, <1>6, <1>9, <1>10, <1>14 DEF DbStep

-----------------------------------------------------------------------------
(* The steps of the workers, of cancellation requests and of the clock      *)

(* A worker that goes on with its batch. *)
LEMMA BatchStep ==
  ASSUME ProcsInv, NEW w \in Workers, NEW where \in {"claim", "decide"}, Goto(w, where),
         UNCHANGED <<work, orderLock, receiptLock>>, subLock' \in [Subs -> Procs \union {None}],
         now' \in [Procs -> Times \union {None}],
         claimed' \in [Workers -> [Subs -> SubRows \union {None}]],
         \A q \in Procs \ {w} : now'[q] = now[q],
         \A q \in Workers \ {w} : claimed'[q] = claimed[q],
         \A q \in Procs \ {w}, s \in Subs : subLock[s] = q => subLock'[s] = q,
         WorkerInv(w)'
  PROVE  ProcStep(w)
<1>1. ProcTypes /\ LockTypes /\ w \in Procs
  BY TypeParts, Kinds, Zenon DEF ProcsInv
<1>2. /\ pc' \in [Procs -> {"idle", "find", "create", "receipt", "duplicate", "payment", "mark",
                            "subscription", "capture", "claim", "decide"}]
      /\ \A q \in Procs \ {w} : pc'[q] = pc[q]
  BY <1>1, MoveTypes, Zenon
<1>3. ProcTypes' /\ LockTypes'
  BY <1>1, <1>2, Zenon DEF ProcTypes, LockTypes
<1>4. Alone(w)
  BY <1>2, Zenon DEF Alone
<1> QED
  BY <1>3, <1>4, Kinds, Zenon DEF ProcStep, Own

(* StartBatch reads the clock. *)
LEMMA StartBatchStep ==
  ASSUME ProcsInv, NEW w \in Workers, StartBatch(w)
  PROVE  DbStep(w) /\ ProcStep(w)
<1>1. DbTypes /\ LockTypes /\ ProcTypes /\ CounterTypes /\ w \in Procs
  BY TypeParts, Kinds DEF ProcsInv
<1>2. DbStep(w)
  BY <1>1, SameDb DEF StartBatch, CounterTypes
<1>3. pc'[w] = "claim" /\ pc[w] = "idle" /\ Goto(w, "claim")
  BY <1>1, MoveTypes, Zenon DEF StartBatch
<1>4. /\ now'[w] = clock /\ clock' = clock /\ clock \in Times
      /\ now' \in [Procs -> Times \union {None}]
      /\ \A q \in Procs \ {w} : now'[q] = now[q]
  BY <1>1 DEF StartBatch, ProcTypes, CounterTypes
<1>5. \A s \in Subs : claimed'[w][s] = None
  BY <1>3, Zenon DEF StartBatch, ProcsInv, WorkerInv
<1>6. WorkerInv(w)'
  BY <1>3, <1>4, <1>5 DEF WorkerInv, Times
<1>7. ProcStep(w)
  BY <1>1, <1>3, <1>4, <1>6, BatchStep, Zenon DEF StartBatch, lockVars, ProcTypes, LockTypes
<1> QED
  BY <1>2, <1>7

(* ClaimBatch locks rows that are due and that nobody has. *)
LEMMA ClaimBatchStep ==
  ASSUME ProcsInv, NEW w \in Workers, ClaimBatch(w)
  PROVE  DbStep(w) /\ ProcStep(w)
<1>1. DbTypes /\ LockTypes /\ ProcTypes /\ CounterTypes /\ w \in Procs /\ WorkerInv(w)
  BY TypeParts, Kinds DEF ProcsInv
<1>2. DbStep(w)
  BY <1>1, SameDb, Zenon DEF ClaimBatch, CounterTypes
<1>3. pc'[w] = "decide" /\ pc[w] = "claim" /\ Goto(w, "decide")
  BY <1>1, MoveTypes, Zenon DEF ClaimBatch
<1>4. PICK S \in SUBSET {s \in Subs : Due(sub[s], now[w]) /\ subLock[s] = None} :
        /\ subLock' = [s \in Subs |-> IF s \in S THEN w ELSE subLock[s]]
        /\ claimed' = [claimed EXCEPT ![w] = [s \in Subs |-> IF s \in S THEN sub[s] ELSE None]]
  BY Zenon DEF ClaimBatch
<1>5. /\ subLock' \in [Subs -> Procs \union {None}]
      /\ \A q \in Procs \ {w}, s \in Subs : subLock[s] = q => subLock'[s] = q
      /\ \A s \in S : subLock'[s] = w
  BY <1>1, <1>4, BillingAssumption, Zenon DEF LockTypes
<1>6. /\ claimed' \in [Workers -> [Subs -> SubRows \union {None}]]
      /\ claimed'[w] = [s \in Subs |-> IF s \in S THEN sub[s] ELSE None]
      /\ \A q \in Workers \ {w} : claimed'[q] = claimed[q]
  BY <1>1, <1>4, Zenon DEF ProcTypes, DbTypes
<1>7. now' = now /\ sub' = sub /\ clock' = clock /\ now[w] \in Times /\ now[w] <= clock
  BY <1>1, <1>3, Zenon DEF ClaimBatch, dbVars, WorkerInv
<1>8. \A s \in Subs : claimed'[w][s] # None =>
        subLock'[s] = w /\ claimed'[w][s] = sub[s] /\ Due(sub[s], now[w])
  BY <1>4, <1>5, <1>6, Zenon
<1>9. WorkerInv(w)'
  BY <1>3, <1>7, <1>8, Zenon DEF WorkerInv, Due
<1>10. ProcStep(w)
  BY <1>1, <1>3, <1>5, <1>6, <1>7, <1>9, BatchStep DEF ClaimBatch, ProcTypes
<1> QED
  BY <1>2, <1>10

(* What CommitBatch writes: the rows it claimed, which are as they were. *)
LEMMA CommitWrites ==
  ASSUME ProcsInv, NEW w \in Workers, CommitBatch(w), NEW s \in Subs
  PROVE  \/ sub'[s] = sub[s] /\ events'[s] = events[s]
         \/ /\ subLock[s] = w /\ Due(sub[s], now[w])
            /\ now[w] \in Nat /\ now[w] <= clock
            /\ sub'[s] = Lapsed(sub[s]) /\ events'[s] = events[s] + 1
<1>1. WorkerInv(w) /\ pc[w] = "decide"
  BY Zenon DEF ProcsInv, CommitBatch
<1>2. CASE claimed[w][s] = None
  BY <1>2, Zenon DEF CommitBatch, createEvent, CreateOutboxEvent
<1>3. CASE claimed[w][s] # None
  <2>1. /\ subLock[s] = w /\ claimed[w][s] = sub[s] /\ Due(sub[s], now[w])
        /\ now[w] \in Nat /\ now[w] <= clock
    BY <1>1, <1>3 DEF WorkerInv, Times
  <2>2. sub'[s] = Lapsed(sub[s]) /\ events'[s] = events[s] + 1
    BY <1>3, <2>1, Zenon DEF CommitBatch, createEvent, CreateOutboxEvent, Lapsed
  <2> QED
    BY <2>1, <2>2
<1> QED
  BY <1>2, <1>3, Zenon

(* CommitBatch commits. *)
LEMMA CommitBatchStep ==
  ASSUME ProcsInv, NEW w \in Workers, CommitBatch(w)
  PROVE  DbStep(w) /\ ProcStep(w)
<1>1. DbTypes /\ LockTypes /\ ProcTypes /\ CounterTypes /\ w \in Procs
  BY TypeParts, Kinds DEF ProcsInv
<1>2. ProcStep(w)
  BY <1>1, EndStep, Zenon DEF CommitBatch
<1>3. ASSUME NEW s \in Subs
      PROVE  sub'[s] \in SubRows /\ (sub'[s] = sub[s] \/ subLock[s] = w)
  BY <1>1, <1>3, CommitWrites, LapsedRow DEF DbTypes
<1>4. sub' \in [Subs -> SubRows] /\ WritesOwn(w)
  BY <1>3, Zenon DEF WritesOwn, CommitBatch
<1>5. events' \in [Subs -> Nat]
  BY <1>1 DEF CommitBatch, DbTypes, createEvent, CreateOutboxEvent
<1>6. DbTypes' /\ CounterTypes'
  BY <1>1, <1>4, <1>5, Zenon DEF DbTypes, CounterTypes, CommitBatch
<1>7. KeepsOrders(w)
  BY Zenon DEF KeepsOrders, CommitBatch, Succeeded
<1>8. clock <= clock'
  BY <1>1 DEF CommitBatch, CounterTypes, Times
<1> QED
  BY <1>2, <1>4, <1>6, <1>7, <1>8 DEF DbStep

(* A cancellation request keeps the row but for its flag and its version. *)
LEMMA FlaggedRow ==
  ASSUME NEW row \in SubRows, NEW cancel \in BOOLEAN
  PROVE  /\ SetSubscriptionCancelAtPeriodEnd(row, cancel) \in SubRows
         /\ SetSubscriptionCancelAtPeriodEnd(row, cancel).version = row.version + 1
         /\ SetSubscriptionCancelAtPeriodEnd(row, cancel).status = row.status
         /\ SetSubscriptionCancelAtPeriodEnd(row, cancel).end = row.end
         /\ SetSubscriptionCancelAtPeriodEnd(row, cancel).grace = row.grace
<1> DEFINE flagged == SetSubscriptionCancelAtPeriodEnd(row, cancel)
           version == row.version + 1
<1>1. flagged = [row EXCEPT !.cancel = cancel, !.version = version]
  BY DEF SetSubscriptionCancelAtPeriodEnd
<1>2. version \in Nat
  BY DEF SubRows
<1>3. /\ flagged.version = version /\ flagged.status = row.status
      /\ flagged.end = row.end /\ flagged.grace = row.grace
  BY <1>1 DEF SubRows
<1> HIDE DEF flagged, version
<1>4. flagged \in SubRows
  BY <1>1, <1>2, Zenon DEF SubRows
<1> QED
  BY <1>3, <1>4 DEF flagged, version

(* A step of no process leaves the processes alone. *)
LEMMA NoProcStep ==
  ASSUME LockTypes, ProcTypes, UNCHANGED <<lockVars, procVars>>
  PROVE  ProcStep(None)
<1>1. LockTypes' /\ ProcTypes'
  BY DEF LockTypes, ProcTypes, lockVars, procVars
<1>2. Alone(None)
  BY DEF Alone, lockVars, procVars
<1> QED
  BY <1>1, <1>2, Kinds DEF ProcStep, Own

(* What a cancellation request writes: an active row that nobody has locked. *)
LEMMA CancelWrites ==
  ASSUME ProcsInv, NEW s \in Subs, NEW cancel \in BOOLEAN, SetCancelAtPeriodEnd(s, cancel)
  PROVE  /\ subLock[s] = None /\ sub[s] \in SubRows /\ sub[s].status = "active"
         /\ sub'[s] = SetSubscriptionCancelAtPeriodEnd(sub[s], cancel)
         /\ events'[s] = events[s] + 1
         /\ \A t \in Subs \ {s} : sub'[t] = sub[t] /\ events'[t] = events[t]
BY TypeParts, Zenon DEF ProcsInv, DbTypes, SetCancelAtPeriodEnd, LockSubscriptionByUser, createEvent, CreateOutboxEvent

(* A cancellation request commits. *)
LEMMA CancelStep ==
  ASSUME ProcsInv, NEW s \in Subs, NEW cancel \in BOOLEAN, SetCancelAtPeriodEnd(s, cancel)
  PROVE  DbStep(None) /\ ProcStep(None)
<1>1. DbTypes /\ LockTypes /\ ProcTypes /\ CounterTypes
  BY TypeParts DEF ProcsInv
<1>2. ProcStep(None)
  BY <1>1, NoProcStep DEF SetCancelAtPeriodEnd
<1>3. /\ subLock[s] = None /\ sub'[s] \in SubRows
      /\ \A t \in Subs \ {s} : sub'[t] = sub[t]
  BY CancelWrites, FlaggedRow
<1>4. sub' \in [Subs -> SubRows] /\ WritesOwn(None)
  BY <1>1, <1>3, Zenon DEF WritesOwn, DbTypes, SetCancelAtPeriodEnd
<1>5. events' \in [Subs -> Nat]
  BY <1>1 DEF SetCancelAtPeriodEnd, DbTypes, createEvent, CreateOutboxEvent
<1>6. DbTypes' /\ CounterTypes'
  BY <1>1, <1>4, <1>5, BillingAssumption DEF DbTypes, CounterTypes, SetCancelAtPeriodEnd
<1>7. KeepsOrders(None)
  BY Zenon DEF KeepsOrders, SetCancelAtPeriodEnd, Succeeded
<1>8. clock <= clock'
  BY <1>1 DEF SetCancelAtPeriodEnd, CounterTypes, Times
<1> QED
  BY <1>2, <1>4, <1>6, <1>7, <1>8 DEF DbStep

(* A rollback writes nothing. *)
LEMMA RollbackStep ==
  ASSUME ProcsInv, NEW p \in Procs, Rollback(p)
  PROVE  DbStep(p) /\ ProcStep(p)
<1>1. DbTypes /\ LockTypes /\ ProcTypes /\ CounterTypes
  BY TypeParts DEF ProcsInv
<1>2. failures' \in 0 .. MaxFailures
  BY <1>1, BillingAssumption DEF Rollback, CounterTypes
<1> QED
  BY <1>1, <1>2, SameDb, EndStep DEF Rollback

(* The clock runs forward. *)
LEMMA TickStep ==
  ASSUME ProcsInv, Tick
  PROVE  DbStep(None) /\ ProcStep(None)
<1>1. DbTypes /\ LockTypes /\ ProcTypes /\ CounterTypes
  BY TypeParts DEF ProcsInv
<1>2. ProcStep(None)
  BY <1>1, NoProcStep DEF Tick
<1>3. DbTypes' /\ CounterTypes' /\ clock <= clock'
  BY <1>1, BillingAssumption DEF DbTypes, CounterTypes, Tick, dbVars, Times
<1>4. WritesOwn(None) /\ KeepsOrders(None)
  BY Zenon DEF WritesOwn, KeepsOrders, Tick, dbVars, Succeeded
<1> QED
  BY <1>2, <1>3, <1>4 DEF DbStep

-----------------------------------------------------------------------------
(* The invariant of the processes is inductive                              *)

(* A transaction keeps what it relies on when another one steps: handlers. *)
LEMMA HandlerFrame ==
  ASSUME ProcsInv, NEW p, DbStep(p), ProcStep(p), NEW h \in Handlers \ {p}
  PROVE  HandlerInv(h)'
<1>1. DbTypes /\ ProcTypes /\ CounterTypes /\ HandlerInv(h) /\ h \in Procs
  BY TypeParts, Kinds DEF ProcsInv
<1>2. /\ pc'[h] = pc[h] /\ work'[h] = work[h] /\ now'[h] = now[h]
      /\ \A s \in Subs : subLock[s] = h => subLock'[s] = h /\ sub'[s] = sub[s]
  BY <1>1, Kinds DEF ProcStep, DbStep, Alone, WritesOwn
<1>3. /\ pc'[h] \in {"idle", "find", "create"} \union Paying
      /\ pc'[h] \in {"find", "create"} => work'[h] \in Requests
      /\ pc'[h] \in Paying => work'[h] \in Webhooks
  BY <1>1, <1>2, Zenon DEF HandlerInv
<1>4. CASE pc[h] \notin {"mark", "subscription", "capture"}
  BY <1>2, <1>3, <1>4, Zenon DEF HandlerInv
<1>5. CASE pc[h] \in {"mark", "subscription", "capture"}
  <2>1. /\ work[h].payment \in Orders /\ order[work[h].payment] # None
        /\ Target(h) \in Targets
    BY <1>1, <1>5, TargetType, Zenon DEF HandlerInv
  <2>2. order'[work'[h].payment] # None /\ Target(h)' = Target(h)
    BY <1>2, <2>1 DEF DbStep, KeepsOrders, Target
  <2>3. pc[h] \in Marked =>
          \A o \in Orders : Succeeded(o)' => order'[o].payment.external # work'[h].external
    <3> SUFFICES ASSUME pc[h] \in Marked, NEW o \in Orders, Succeeded(o)'
                 PROVE  order'[o].payment.external # work[h].external
      BY <1>2
    <3>1. CASE Succeeded(o) /\ order'[o].payment = order[o].payment
      BY <1>1, <3>1, Zenon DEF HandlerInv, Marked
    <3>2. CASE /\ p \in Handlers /\ pc[p] = "capture"
               /\ order'[o].payment.external = work[p].external
      BY <3>2 DEF ProcsInv, ExternalsDiffer, Marked
    <3> QED
      BY <3>1, <3>2, Zenon DEF DbStep, KeepsOrders
  <2>4. pc[h] = "capture" /\ Target(h) # None =>
          /\ subLock'[Target(h)] = h
          /\ sub'[Target(h)].status \in Renewable
          /\ now'[h] \in Times /\ now'[h] <= clock'
    <3> SUFFICES ASSUME pc[h] = "capture", Target(h) # None
                 PROVE  /\ subLock'[Target(h)] = h
                        /\ sub'[Target(h)].status \in Renewable
                        /\ now'[h] \in Times /\ now'[h] <= clock'
      OBVIOUS
    <3>1. /\ Target(h) \in Subs /\ subLock[Target(h)] = h
          /\ sub[Target(h)].status \in Renewable /\ now[h] \in Times /\ now[h] <= clock
      BY <1>1, <2>1, Zenon DEF HandlerInv, Targets
    <3>2. clock \in Times /\ clock' \in Times /\ clock <= clock'
      BY <1>1 DEF DbStep, CounterTypes
    <3> QED
      BY <1>2, <3>1, <3>2 DEF Times
  <2> QED
    BY <1>1, <1>2, <1>3, <2>2, <2>3, <2>4, Zenon DEF HandlerInv, Marked
<1> QED
  BY <1>4, <1>5

(* A transaction keeps what it relies on when another one steps: workers. *)
LEMMA WorkerFrame ==
  ASSUME ProcsInv, NEW p, DbStep(p), ProcStep(p), NEW w \in Workers \ {p}
  PROVE  WorkerInv(w)'
<1>1. CounterTypes /\ WorkerInv(w) /\ w \in Procs
  BY TypeParts, Kinds DEF ProcsInv
<1>2. /\ pc'[w] = pc[w] /\ claimed'[w] = claimed[w] /\ now'[w] = now[w]
      /\ \A s \in Subs : subLock[s] = w => subLock'[s] = w /\ sub'[s] = sub[s]
  BY <1>1, Kinds DEF ProcStep, DbStep, Alone, WritesOwn
<1>3. clock \in Times /\ clock' \in Times /\ clock <= clock'
  BY <1>1 DEF DbStep, CounterTypes
<1>4. pc'[w] # "idle" => now'[w] \in Times /\ now'[w] <= clock'
  BY <1>1, <1>2, <1>3 DEF WorkerInv, Times
<1>5. ASSUME NEW s \in Subs, claimed'[w][s] # None
      PROVE  /\ pc'[w] = "decide" /\ subLock'[s] = w
             /\ claimed'[w][s] = sub'[s] /\ Due(sub'[s], now'[w])
  BY <1>1, <1>2, <1>5, Zenon DEF WorkerInv
<1>6. pc'[w] \in {"idle", "claim", "decide"}
  BY <1>1, <1>2 DEF WorkerInv
<1> QED
  BY <1>4, <1>5, <1>6, Zenon DEF WorkerInv, Due

(* A step of one process preserves the invariant of all. *)
LEMMA StepPreserves ==
  ASSUME ProcsInv, NEW p, DbStep(p), ProcStep(p)
  PROVE  ProcsInv'
<1>1. TypeOK'
  BY TypeParts, PTL DEF DbStep, ProcStep
<1>2. OneTarget'
  BY Zenon DEF OneTarget, ProcsInv, DbStep, KeepsOrders
<1>3. ASSUME NEW h \in Handlers PROVE HandlerInv(h)'
  BY <1>3, HandlerFrame DEF ProcStep, Own
<1>4. ASSUME NEW w \in Workers PROVE WorkerInv(w)'
  BY <1>4, WorkerFrame DEF ProcStep, Own
<1>5. ExternalsDiffer'
  <2> SUFFICES ASSUME NEW g \in Handlers, NEW h \in Handlers, g # h,
                      pc'[g] \in Marked, pc'[h] \in Marked, work'[g].external = work'[h].external
               PROVE  FALSE
    BY DEF ExternalsDiffer, Marked
  <2>1. ASSUME NEW q \in Handlers, q # p
        PROVE  pc'[q] = pc[q] /\ work'[q] = work[q]
    BY <2>1, Kinds DEF ProcStep, Alone
  <2>2. p \in Handlers /\ pc'[p] \in Marked =>
          work'[p] = work[p] /\ (pc[p] \in Marked \/ ~ExternalPending(work[p]))
    BY DEF ProcStep, Own
  <2>3. work'[g] = work[g] /\ work'[h] = work[h] /\ work[g].external = work[h].external
    BY <2>1, <2>2
  <2>4. ~(pc[g] \in Marked /\ pc[h] \in Marked)
    BY <2>3 DEF ProcsInv, ExternalsDiffer, Marked
  <2>5. CASE g = p
    BY <2>1, <2>2, <2>3, <2>4, <2>5 DEF ExternalPending, Marked
  <2>6. CASE h = p
    BY <2>1, <2>2, <2>3, <2>4, <2>6 DEF ExternalPending, Marked
  <2> QED
    BY <2>1, <2>4, <2>5, <2>6
<1> QED
  BY <1>1, <1>2, <1>3, <1>4, <1>5 DEF ProcsInv

(* Every step is one of a process, or of none. *)
LEMMA NextSteps ==
  ASSUME ProcsInv, Next
  PROVE  \E p \in Procs \union {None} : DbStep(p) /\ ProcStep(p)
<1>1. ASSUME NEW h \in Handlers, HandlerStep(h)
      PROVE  DbStep(h) /\ ProcStep(h)
  BY <1>1, FindOrderStep, CreateOrderStep, InsertReceiptStep, AnswerDuplicateStep, LockPaymentStep,
     MarkPaidStep, LockSubscriptionStep, CaptureStep, Zenon DEF HandlerStep
<1>2. ASSUME NEW h \in Handlers, NEW r \in Requests, RequestOrder(h, r)
      PROVE  DbStep(h) /\ ProcStep(h)
  BY <1>2, ArriveStep, Zenon DEF RequestOrder
<1>3. ASSUME NEW h \in Handlers, NEW k \in Keys,
             createOrder(h, k) \/ \E s \in Subs : renew(h, k, s)
      PROVE  DbStep(h) /\ ProcStep(h)
  <2>1. ASSUME NEW t \in Targets PROVE [key |-> k, target |-> t] \in Requests
    BY DEF Requests
  <2> QED
    BY <1>2, <1>3, <2>1, Zenon DEF createOrder, renew, Targets
<1>4. ASSUME NEW h \in Handlers, NEW m \in Webhooks, Deliver(h, m)
      PROVE  DbStep(h) /\ ProcStep(h)
  BY <1>4, ArriveStep, Zenon DEF Deliver
<1>5. ASSUME NEW w \in Workers, WorkerStep(w)
      PROVE  DbStep(w) /\ ProcStep(w)
  BY <1>5, StartBatchStep, ClaimBatchStep, CommitBatchStep DEF WorkerStep
<1> QED
  BY <1>1, <1>3, <1>4, <1>5, CancelStep, RollbackStep, TickStep, Kinds DEF Next

(* The processes' invariant is inductive. *)
LEMMA ProcsInductive ==
  ASSUME ProcsInv, [Next]_vars
  PROVE  ProcsInv'
<1>1. CASE Next
  BY <1>1, NextSteps, StepPreserves
<1>2. CASE UNCHANGED vars
  <2>1. DbTypes /\ LockTypes /\ ProcTypes /\ CounterTypes
    BY TypeParts DEF ProcsInv
  <2>2. DbStep(None)
    BY <1>2, <2>1, SameDb DEF vars, CounterTypes
  <2>3. ProcStep(None)
    BY <1>2, <2>1, NoProcStep DEF vars
  <2> QED
    BY <2>2, <2>3, StepPreserves
<1> QED
  BY <1>1, <1>2

(* Init establishes it. *)
LEMMA ProcsInit == Init => ProcsInv
<1> SUFFICES ASSUME Init PROVE ProcsInv
  OBVIOUS
<1>1. \A s \in Subs : sub[s] \in SubRows
  BY BillingAssumption, Zenon DEF Init, SubRows
<1>2. DbTypes
  BY <1>1, Zenon DEF Init, DbTypes
<1>3. LockTypes /\ ProcTypes /\ CounterTypes
  BY BillingAssumption DEF Init, LockTypes, ProcTypes, CounterTypes, Times
<1>4. OneTarget /\ ExternalsDiffer
  BY Kinds, Zenon DEF Init, OneTarget, ExternalsDiffer
<1>5. ASSUME NEW h \in Handlers PROVE HandlerInv(h)
  BY Kinds, Zenon DEF Init, HandlerInv, Paying
<1>6. ASSUME NEW w \in Workers PROVE WorkerInv(w)
  BY Kinds, Zenon DEF Init, WorkerInv
<1> QED
  BY <1>2, <1>3, <1>4, <1>5, <1>6, TypeParts DEF ProcsInv

(* Every variable stays in its type, and every transaction finds what it relies *)
(* on, whoever else steps in between.                                          *)
THEOREM BillingTypes == Spec => []TypeOK
<1>1. ProcsInv /\ [Next]_vars => ProcsInv'
  BY ProcsInductive
<1>2. ProcsInv => TypeOK
  BY DEF ProcsInv
<1> QED
  BY <1>1, <1>2, ProcsInit, PTL DEF Spec
=============================================================================
