--------------------------- MODULE Billing_proofs ---------------------------
(***************************************************************************)
(* Proofs about Billing for any number of handlers, workers, orders, keys  *)
(* and subscriptions: payments are captured once, receipts answer for      *)
(* captured payments only, requests with one key get one order, and the    *)
(* subscriptions' periods, lapses, versions and events.                    *)
(***************************************************************************)
EXTENDS Billing_types, FiniteSetTheorems

-----------------------------------------------------------------------------
(* Subscriptions                                                            *)

(* The steps that write to the database; the others wait, lock or roll back. *)
LEMMA WritingSteps ==
  ASSUME [Next]_vars
  PROVE  \/ UNCHANGED dbVars
         \/ \E h \in Handlers : FindOrder(h) \/ CreateOrder(h) \/ LockPayment(h) \/ Capture(h)
         \/ \E s \in Subs, cancel \in BOOLEAN : SetCancelAtPeriodEnd(s, cancel)
         \/ \E w \in Workers : CommitBatch(w)
<1>1. ASSUME NEW h \in Handlers, HandlerStep(h)
      PROVE  UNCHANGED dbVars \/ FindOrder(h) \/ CreateOrder(h) \/ LockPayment(h) \/ Capture(h)
  <2>1. InsertReceipt(h) => UNCHANGED dbVars
    BY Zenon DEF InsertReceipt, InsertWebhookReceipt, dbVars
  <2> QED
    BY <1>1, <2>1, Zenon DEF HandlerStep, AnswerDuplicate, MarkPaid, LockSubscription
<1>2. ASSUME NEW w \in Workers, WorkerStep(w)
      PROVE  UNCHANGED dbVars \/ CommitBatch(w)
  BY <1>2, Zenon DEF WorkerStep, StartBatch, ClaimBatch
<1>3. UNCHANGED vars => UNCHANGED dbVars
  BY Zenon DEF vars
<1> QED
  BY <1>1, <1>2, <1>3, Zenon DEF Next, createOrder, renew, RequestOrder, Deliver, Rollback, Tick

(* A step leaves a subscription alone, renews it, lets it lapse, or sets its    *)
(* cancellation flag, and writes one event with each change.                   *)
LEMMA SubscriptionSteps ==
  ASSUME ProcsInv, [Next]_vars, NEW s \in Subs
  PROVE  /\ sub[s] \in SubRows /\ events[s] \in Nat
         /\ clock \in Nat /\ clock' \in Nat /\ clock <= clock'
         /\ \/ sub'[s] = sub[s] /\ events'[s] = events[s]
            \/ /\ events'[s] = events[s] + 1
               /\ \/ /\ sub[s].status \in Renewable
                     /\ \E at \in Nat : at <= clock /\ sub'[s] = Renewed(sub[s], at)
                  \/ /\ \E at \in Nat : at <= clock /\ Due(sub[s], at)
                     /\ sub'[s] = Lapsed(sub[s])
                  \/ /\ sub[s].status = "active"
                     /\ \E cancel \in BOOLEAN :
                          sub'[s] = SetSubscriptionCancelAtPeriodEnd(sub[s], cancel)
<1>1. DbTypes /\ CounterTypes
  BY TypeParts DEF ProcsInv
<1>2. sub[s] \in SubRows /\ events[s] \in Nat /\ clock \in Nat
  BY <1>1 DEF DbTypes, CounterTypes, Times
<1>3. clock' \in Nat /\ clock <= clock'
  <2>1. CASE Next
    <3>1. CounterTypes' /\ clock <= clock'
      BY <2>1, NextSteps, Zenon DEF DbStep
    <3> QED
      BY <3>1 DEF CounterTypes, Times
  <2>2. CASE UNCHANGED vars
    BY <1>2, <2>2 DEF vars
  <2> QED
    BY <2>1, <2>2
<1>4. CASE UNCHANGED dbVars
  BY <1>2, <1>3, <1>4, Zenon DEF dbVars
<1>5. ASSUME NEW h \in Handlers, FindOrder(h) \/ CreateOrder(h) \/ LockPayment(h)
      PROVE  sub'[s] = sub[s] /\ events'[s] = events[s]
  BY <1>5, Zenon DEF FindOrder, CreateOrder, LockPayment, AnswerExisting, dbVars
<1>6. ASSUME NEW h \in Handlers, Capture(h)
      PROVE  \/ sub'[s] = sub[s] /\ events'[s] = events[s]
             \/ /\ events'[s] = events[s] + 1
                /\ sub[s].status \in Renewable
                /\ \E at \in Nat : at <= clock /\ sub'[s] = Renewed(sub[s], at)
  <2>1. events'[s] = IF s \in {Target(h)} \ {None} THEN events[s] + 1 ELSE events[s]
    BY <1>6, Zenon DEF Capture, CreateOutboxEvent, Target
  <2>2. CASE s = Target(h)
    <3>1. s # None
      BY Kinds, Zenon
    <3>2. /\ sub[s].status \in Renewable /\ now[h] \in Nat /\ now[h] <= clock
          /\ sub'[s] = Renewed(sub[s], now[h])
      BY <1>6, <2>2, <3>1, CaptureWrites, Zenon
    <3>3. events'[s] = events[s] + 1
      BY <2>1, <2>2, <3>1, SMT, SMTT(30)
    <3> QED
      BY <3>2, <3>3, Zenon
  <2>3. CASE s # Target(h)
    BY <1>6, <2>1, <2>3, CaptureWrites, Zenon
  <2> QED
    BY <2>2, <2>3
<1>7. ASSUME NEW t \in Subs, NEW cancel \in BOOLEAN, SetCancelAtPeriodEnd(t, cancel)
      PROVE  \/ sub'[s] = sub[s] /\ events'[s] = events[s]
             \/ /\ events'[s] = events[s] + 1
                /\ sub[s].status = "active"
                /\ sub'[s] = SetSubscriptionCancelAtPeriodEnd(sub[s], cancel)
  BY <1>7, CancelWrites, Zenon
<1>8. ASSUME NEW w \in Workers, CommitBatch(w)
      PROVE  \/ sub'[s] = sub[s] /\ events'[s] = events[s]
             \/ /\ events'[s] = events[s] + 1
                /\ \E at \in Nat : at <= clock /\ Due(sub[s], at)
                /\ sub'[s] = Lapsed(sub[s])
  BY <1>8, CommitWrites, Zenon
<1> QED
  BY <1>2, <1>3, <1>4, <1>5, <1>6, <1>7, <1>8, WritingSteps, Zenon

(* One step keeps the version equal to the number of events. *)
LEMMA VersionStep ==
  ASSUME ProcsInv, EventPerVersion, [Next]_vars
  PROVE  EventPerVersion'
<1> SUFFICES ASSUME NEW s \in Subs PROVE sub'[s].version = events'[s] + 1
  BY Zenon DEF EventPerVersion
<1>1. /\ sub[s] \in SubRows /\ sub[s].version = events[s] + 1
      /\ \/ sub'[s] = sub[s] /\ events'[s] = events[s]
         \/ /\ events'[s] = events[s] + 1
            /\ \/ \E at \in Nat : sub'[s] = Renewed(sub[s], at)
               \/ (\E at \in Nat : Due(sub[s], at)) /\ sub'[s] = Lapsed(sub[s])
               \/ \E cancel \in BOOLEAN :
                    sub'[s] = SetSubscriptionCancelAtPeriodEnd(sub[s], cancel)
  BY SubscriptionSteps, Zenon DEF EventPerVersion
<1>2. CASE sub'[s] = sub[s] /\ events'[s] = events[s]
  BY <1>1, <1>2, Zenon
<1>3. CASE events'[s] = events[s] + 1 /\ sub'[s].version = sub[s].version + 1
  BY <1>1, <1>3, Zenon
<1>4. ASSUME NEW at \in Nat, sub'[s] = Renewed(sub[s], at)
      PROVE  sub'[s].version = sub[s].version + 1
  BY <1>1, <1>4, RenewedRow
<1>5. ASSUME NEW at \in Nat, Due(sub[s], at), sub'[s] = Lapsed(sub[s])
      PROVE  sub'[s].version = sub[s].version + 1
  BY <1>1, <1>5, LapsedRow, Zenon
<1>6. ASSUME NEW cancel \in BOOLEAN, sub'[s] = SetSubscriptionCancelAtPeriodEnd(sub[s], cancel)
      PROVE  sub'[s].version = sub[s].version + 1
  BY <1>1, <1>6, FlaggedRow
<1> QED
  BY <1>1, <1>2, <1>3, <1>4, <1>5, <1>6, Zenon

(* One step lapses a subscription no earlier than it may. *)
LEMMA LapseStep ==
  ASSUME ProcsInv, LapsesOnTime, [Next]_vars
  PROVE  LapsesOnTime'
<1> SUFFICES ASSUME NEW s \in Subs, NEW row, row = sub[s], NEW next, next = sub'[s]
             PROVE  /\ next.status # "active" => next.end <= clock'
                    /\ next.grace = IF next.status \in {"past_due", "suspended"}
                                      THEN next.end + Grace ELSE None
                    /\ next.status = "suspended" => next.grace <= clock'
  BY Zenon DEF LapsesOnTime
<1>1. /\ row \in SubRows /\ clock \in Nat /\ clock' \in Nat /\ clock <= clock'
      /\ row.status # "active" => row.end <= clock
      /\ row.grace = IF row.status \in {"past_due", "suspended"} THEN row.end + Grace ELSE None
      /\ row.status = "suspended" => row.grace <= clock
  BY SubscriptionSteps, Zenon DEF LapsesOnTime
<1>2. row.end \in Nat /\ Grace \in Nat
  BY <1>1, BillingAssumption DEF SubRows
<1>3. \/ next = row
      \/ \E at \in Nat : next = Renewed(row, at)
      \/ (\E at \in Nat : at <= clock /\ Due(row, at)) /\ next = Lapsed(row)
      \/ row.status = "active" /\ \E cancel \in BOOLEAN : next = SetSubscriptionCancelAtPeriodEnd(row, cancel)
  BY SubscriptionSteps, Zenon
<1>4. CASE next = row
  BY <1>1, <1>2, <1>4, SMT, SMTT(30)
<1>5. CASE \E at \in Nat : next = Renewed(row, at)
  <2>1. next.status = "active" /\ next.grace = None
    BY <1>1, <1>5, RenewedRow
  <2> QED
    BY <2>1, Zenon
<1>6. CASE (\E at \in Nat : at <= clock /\ Due(row, at)) /\ next = Lapsed(row)
  <2>1. PICK at \in Nat : at <= clock /\ Due(row, at)
    BY <1>6, Zenon
  <2>2. /\ next.end = row.end
        /\ next.status = IF row.status = "past_due" THEN "suspended"
                         ELSE IF row.cancel THEN "cancelled" ELSE "past_due"
        /\ next.grace = IF row.status = "past_due" THEN row.grace
                        ELSE IF row.cancel THEN None ELSE row.end + Grace
    BY <1>1, <1>6, <2>1, LapsedRow, SMT, SMTT(30)
  <2>3. \/ row.status = "active" /\ row.end <= at
        \/ row.status = "past_due" /\ row.grace <= at
    BY <2>1, Zenon DEF Due
  <2>4. CASE row.status = "active"
    BY <1>1, <1>2, <2>1, <2>2, <2>3, <2>4, SMT, SMTT(30)
  <2>5. CASE row.status = "past_due"
    BY <1>1, <1>2, <2>1, <2>2, <2>3, <2>5, SMT, SMTT(30)
  <2> QED
    BY <2>3, <2>4, <2>5, Zenon
<1>7. CASE row.status = "active" /\ \E cancel \in BOOLEAN : next = SetSubscriptionCancelAtPeriodEnd(row, cancel)
  <2>1. next.status = row.status /\ next.grace = row.grace
    BY <1>1, <1>7, FlaggedRow
  <2> QED
    BY <1>1, <1>7, <2>1, Zenon
<1> QED
  BY <1>3, <1>4, <1>5, <1>6, <1>7, Zenon

(* One step leaves a cancelled subscription alone. *)
LEMMA CancelledStep ==
  ASSUME ProcsInv, [Next]_vars
  PROVE  \A s \in Subs : sub[s].status = "cancelled" => sub'[s] = sub[s]
<1> SUFFICES ASSUME NEW s \in Subs, sub[s].status = "cancelled" PROVE sub'[s] = sub[s]
  OBVIOUS
<1>1. sub[s].status # "active" /\ sub[s].status \notin Renewable /\ \A at : ~Due(sub[s], at)
  BY SMT DEF Renewable, Due
<1> QED
  BY <1>1, SubscriptionSteps, Zenon

-----------------------------------------------------------------------------
(* Payments                                                                 *)

(* CreateOrder of h inserts order o. *)
Inserts(h, o) ==
  /\ work[h] \in Requests /\ order[o] = None /\ KeyIsFree(work[h].key)
  /\ order' = [order EXCEPT ![o] = NewRow(work[h])]
  /\ answers' = [answers EXCEPT ![work[h].key] = @ \union {o}]
  /\ UNCHANGED <<captures, sub, events, receipt>>

(* Orders and their captures are written by CreateOrder and by Capture only. *)
LEMMA OrderSteps ==
  ASSUME ProcsInv, [Next]_vars
  PROVE  \/ UNCHANGED <<order, captures>>
         \/ \E h \in Handlers, o \in Orders : Inserts(h, o)
         \/ \E h \in Handlers : Capture(h)
<1>1. ASSUME NEW h \in Handlers, CreateOrder(h)
      PROVE  UNCHANGED <<order, captures>> \/ \E o \in Orders : Inserts(h, o)
  <2>1. work[h] \in Requests
    BY <1>1, Zenon DEF ProcsInv, HandlerInv, CreateOrder
  <2> QED
    BY <1>1, <2>1, Zenon DEF CreateOrder, AnswerExisting, Inserts, NewRow, dbVars
<1>2. ASSUME NEW h \in Handlers, FindOrder(h) \/ LockPayment(h)
      PROVE  UNCHANGED <<order, captures>>
  BY <1>2, Zenon DEF FindOrder, LockPayment, AnswerExisting, dbVars
<1>3. ASSUME UNCHANGED dbVars PROVE UNCHANGED <<order, captures>>
  BY <1>3, Zenon DEF dbVars
<1> QED
  BY <1>1, <1>2, <1>3, WritingSteps, Zenon DEF SetCancelAtPeriodEnd, CommitBatch

(* An insertion leaves the captured payments alone. *)
LEMMA InsertKeeps ==
  ASSUME DbTypes, NEW h \in Handlers, NEW o \in Orders, Inserts(h, o)
  PROVE  /\ order'[o] = NewRow(work[h]) /\ order'[o] # None /\ ~Succeeded(o) /\ ~Succeeded(o)'
         /\ order'[o].order.status = "pending" /\ order'[o].invoice.status = "open"
         /\ order'[o].order.key = work[h].key
         /\ \A q \in Orders \ {o} : order'[q] = order[q] /\ (Succeeded(q)' <=> Succeeded(q))
<1>1. work[h] \in Requests /\ order[o] = None
  BY Zenon DEF Inserts
<1>2. order'[o] = NewRow(work[h]) /\ \A q \in Orders \ {o} : order'[q] = order[q]
  BY Zenon DEF Inserts, DbTypes
<1>3. NewRow(work[h]) # None
  BY <1>1, NewRowType, BillingAssumption, Zenon
<1>4. ~Succeeded(o) /\ ~Succeeded(o)'
  BY <1>1, <1>2, NewRowType DEF Succeeded
<1>5. \A q \in Orders \ {o} : Succeeded(q)' <=> Succeeded(q)
  BY <1>2, Zenon DEF Succeeded
<1>6. /\ NewRow(work[h]).order.status = "pending" /\ NewRow(work[h]).invoice.status = "open"
      /\ NewRow(work[h]).order.key = work[h].key
  BY <1>1, NewRowType, Zenon
<1> QED
  BY <1>2, <1>3, <1>4, <1>5, <1>6, Zenon

(* Capture makes one payment succeeded that was not, under an external id that *)
(* no other one has.                                                          *)
LEMMA CaptureKeeps ==
  ASSUME ProcsInv, CapturedOnce, NEW h \in Handlers, Capture(h), NEW o, o = work[h].payment
  PROVE  /\ o \in Orders /\ order[o] # None /\ ~Succeeded(o)
         /\ Succeeded(o)' /\ order'[o].payment.external = work[h].external
         /\ order'[o].order.status = "paid" /\ order'[o].invoice.status = "paid"
         /\ order'[o].order.key = order[o].order.key
         /\ order'[o].order.target = order[o].order.target
         /\ captures'[o] = 1
         /\ \A q \in Orders \ {o} :
              order'[q] = order[q] /\ captures'[q] = captures[q] /\ (Succeeded(q)' <=> Succeeded(q))
         /\ \A q \in Orders : Succeeded(q) => order[q].payment.external # work[h].external
<1>1. /\ work[h] \in Webhooks /\ o \in Orders /\ order[o] \in OrderRows
      /\ order'[o] = Paid(order[o], work[h])
      /\ \A q \in Orders \ {o} : order'[q] = order[q]
  BY CaptureWrites, Zenon
<1>2. captures \in [Orders -> Nat]
  BY TypeParts, Zenon DEF ProcsInv, DbTypes
<1>3. captures[o] = 0 /\ captures' = [captures EXCEPT ![o] = @ + 1]
  BY Zenon DEF Capture, CreateLedgerTransaction
<1>4. captures'[o] = 1 /\ \A q \in Orders \ {o} : captures'[q] = captures[q]
  BY <1>1, <1>2, <1>3, SMT, SMTT(30)
<1>5. ~Succeeded(o)
  <2>1. captures[o] = IF Succeeded(o) THEN 1 ELSE 0
    BY <1>1, Zenon DEF CapturedOnce
  <2> QED
    BY <1>3, <2>1, SMT
<1>6. order[o] # None /\ Paid(order[o], work[h]) # None
  BY <1>1, PaidRow, BillingAssumption, Zenon
<1>7. /\ order'[o].order.status = "paid" /\ order'[o].invoice.status = "paid"
      /\ order'[o].order.key = order[o].order.key
      /\ order'[o].order.target = order[o].order.target
      /\ order'[o].payment = [status |-> "succeeded", external |-> work[h].external]
  <2>1. /\ Paid(order[o], work[h]).payment = [status |-> "succeeded", external |-> work[h].external]
        /\ Paid(order[o], work[h]).order.status = "paid"
        /\ Paid(order[o], work[h]).invoice.status = "paid"
        /\ Paid(order[o], work[h]).order.key = order[o].order.key
        /\ Paid(order[o], work[h]).order.target = order[o].order.target
    BY <1>1, PaidRow, Zenon
  <2> QED
    BY <1>1, <2>1, Zenon
<1>8. order'[o].payment.external = work[h].external /\ order'[o].payment.status = "succeeded"
  BY <1>7, SMT
<1>9. Succeeded(o)' /\ \A q \in Orders \ {o} : Succeeded(q)' <=> Succeeded(q)
  BY <1>1, <1>6, <1>8, Zenon DEF Succeeded
<1>10. \A q \in Orders : Succeeded(q) => order[q].payment.external # work[h].external
  BY Zenon DEF ProcsInv, HandlerInv, Capture
<1> QED
  BY <1>1, <1>4, <1>5, <1>6, <1>7, <1>8, <1>9, <1>10, Zenon

(* One step captures a payment at most once. *)
LEMMA CapturedStep ==
  ASSUME ProcsInv, CapturedOnce, [Next]_vars
  PROVE  CapturedOnce'
<1>1. CASE UNCHANGED <<order, captures>>
  BY <1>1, Zenon DEF CapturedOnce, Succeeded
<1>2. ASSUME NEW h \in Handlers, NEW o \in Orders, Inserts(h, o)
      PROVE  CapturedOnce'
  <2>1. DbTypes /\ captures' = captures
    BY <1>2, TypeParts, Zenon DEF ProcsInv, Inserts
  <2>2. /\ order'[o].order.status = "pending" /\ order'[o].invoice.status = "open"
        /\ ~Succeeded(o) /\ ~Succeeded(o)'
        /\ \A q \in Orders \ {o} : order'[q] = order[q] /\ (Succeeded(q)' <=> Succeeded(q))
    BY <1>2, <2>1, InsertKeeps, Zenon
  <2>3. ASSUME NEW q \in Orders
        PROVE  /\ captures'[q] = IF Succeeded(q)' THEN 1 ELSE 0
               /\ order'[q] # None =>
                    /\ Succeeded(q)' <=> order'[q].order.status = "paid"
                    /\ Succeeded(q)' <=> order'[q].invoice.status = "paid"
    BY <2>1, <2>2 DEF CapturedOnce
  <2>4. ASSUME NEW q \in Orders, NEW r \in Orders, Succeeded(q)', Succeeded(r)',
               order'[q].payment.external = order'[r].payment.external
        PROVE  q = r
    <3>1. /\ Succeeded(q) /\ Succeeded(r)
          /\ order'[q] = order[q] /\ order'[r] = order[r]
      BY <2>2, <2>4, Zenon
    <3> QED
      BY <2>4, <3>1, Zenon DEF CapturedOnce
  <2> QED
    BY <2>3, <2>4, Zenon DEF CapturedOnce
<1>3. ASSUME NEW h \in Handlers, Capture(h)
      PROVE  CapturedOnce'
  <2>0. PICK o : o = work[h].payment
    OBVIOUS
  <2>1. /\ o \in Orders /\ Succeeded(o)' /\ order'[o].payment.external = work[h].external
        /\ order'[o].order.status = "paid" /\ order'[o].invoice.status = "paid"
        /\ captures'[o] = 1
        /\ \A q \in Orders \ {o} :
             order'[q] = order[q] /\ captures'[q] = captures[q] /\ (Succeeded(q)' <=> Succeeded(q))
        /\ \A q \in Orders : Succeeded(q) => order[q].payment.external # work[h].external
    BY <1>3, <2>0, CaptureKeeps, SMT, SMTT(30)
  <2>2. ASSUME NEW q \in Orders
        PROVE  /\ captures'[q] = IF Succeeded(q)' THEN 1 ELSE 0
               /\ order'[q] # None =>
                    /\ Succeeded(q)' <=> order'[q].order.status = "paid"
                    /\ Succeeded(q)' <=> order'[q].invoice.status = "paid"
    <3>1. CASE q = o
      BY <2>1, <3>1, Zenon
    <3>2. CASE q # o
      <4>1. order'[q] = order[q] /\ captures'[q] = captures[q] /\ (Succeeded(q)' <=> Succeeded(q))
        BY <2>1, <3>2, Zenon
      <4> QED
        BY <4>1, Zenon DEF CapturedOnce
    <3> QED
      BY <3>1, <3>2, Zenon
  <2>3. ASSUME NEW q \in Orders, NEW r \in Orders, Succeeded(q)', Succeeded(r)',
               order'[q].payment.external = order'[r].payment.external
        PROVE  q = r
    <3>1. ASSUME NEW x \in Orders \ {o}, Succeeded(x)'
          PROVE  /\ order'[x] = order[x] /\ Succeeded(x)
                 /\ order'[x].payment.external # order'[o].payment.external
      BY <2>1, <3>1, Zenon
    <3>2. CASE q = o \/ r = o
      BY <2>3, <3>1, <3>2, Zenon
    <3>3. CASE q # o /\ r # o
      BY <2>3, <3>1, <3>3, Zenon DEF CapturedOnce
    <3> QED
      BY <3>2, <3>3, Zenon
  <2> QED
    BY <2>2, <2>3, Zenon DEF CapturedOnce
<1> QED
  BY <1>1, <1>2, <1>3, OrderSteps, Zenon

(* A captured payment stays captured, under its external id. *)
LEMMA SucceededStays ==
  ASSUME ProcsInv, CapturedOnce, [Next]_vars, NEW q \in Orders, Succeeded(q)
  PROVE  Succeeded(q)' /\ order'[q].payment.external = order[q].payment.external
<1>1. CASE UNCHANGED <<order, captures>>
  BY <1>1, Zenon DEF Succeeded
<1>2. ASSUME NEW h \in Handlers, NEW o \in Orders, Inserts(h, o)
      PROVE  Succeeded(q)' /\ order'[q].payment.external = order[q].payment.external
  <2>1. DbTypes
    BY TypeParts, Zenon DEF ProcsInv
  <2> QED
    BY <1>2, <2>1, InsertKeeps, Zenon
<1>3. ASSUME NEW h \in Handlers, Capture(h)
      PROVE  Succeeded(q)' /\ order'[q].payment.external = order[q].payment.external
  <2>1. PICK o : o = work[h].payment
    OBVIOUS
  <2>2. /\ ~Succeeded(o)
        /\ \A r \in Orders \ {o} : order'[r] = order[r] /\ (Succeeded(r)' <=> Succeeded(r))
    BY <1>3, <2>1, CaptureKeeps, SMT, SMTT(30)
  <2> QED
    BY <2>2, Zenon
<1> QED
  BY <1>1, <1>2, <1>3, OrderSteps, Zenon

(* The receipts: one is stored by LockPayment for a payment that is captured, *)
(* or by the capture.                                                         *)
LEMMA ReceiptSteps ==
  ASSUME ProcsInv, CapturedOnce, [Next]_vars
  PROVE  \/ receipt' = receipt
         \/ \E m \in Webhooks :
              /\ receipt' = [receipt EXCEPT ![m.event] = m]
              /\ Succeeded(m.payment)' /\ order'[m.payment].payment.external = m.external
<1>1. ASSUME NEW h \in Handlers, LockPayment(h)
      PROVE  \/ receipt' = receipt
             \/ \E m \in Webhooks :
                  /\ receipt' = [receipt EXCEPT ![m.event] = m]
                  /\ Succeeded(m.payment)' /\ order'[m.payment].payment.external = m.external
  <2>1. work[h] \in Webhooks /\ order' = order
    BY <1>1, Zenon DEF LockPayment, ProcsInv, HandlerInv, Paying
  <2> QED
    BY <1>1, <2>1, Zenon DEF LockPayment, MarkWebhookProcessed, Succeeded
<1>2. ASSUME NEW h \in Handlers, Capture(h)
      PROVE  \E m \in Webhooks :
               /\ receipt' = [receipt EXCEPT ![m.event] = m]
               /\ Succeeded(m.payment)' /\ order'[m.payment].payment.external = m.external
  <2>1. PICK m \in Webhooks : m = work[h] /\ receipt' = [receipt EXCEPT ![m.event] = m]
    BY <1>2, CaptureWrites, Zenon DEF Capture, MarkWebhookProcessed
  <2>2. PICK o : o = m.payment
    OBVIOUS
  <2>3. Succeeded(o)' /\ order'[o].payment.external = m.external
    BY <1>2, <2>1, <2>2, CaptureKeeps, SMT, SMTT(30)
  <2>4. Succeeded(m.payment)' /\ order'[m.payment].payment.external = m.external
    BY <2>2, <2>3, Zenon DEF Succeeded
  <2> QED
    BY <2>1, <2>4, Zenon
<1>3. ASSUME NEW h \in Handlers, FindOrder(h) \/ CreateOrder(h) PROVE receipt' = receipt
  BY <1>3, Zenon DEF FindOrder, CreateOrder, AnswerExisting, dbVars
<1>4. ASSUME UNCHANGED dbVars PROVE receipt' = receipt
  BY <1>4, Zenon DEF dbVars
<1> QED
  BY <1>1, <1>2, <1>3, <1>4, WritingSteps, Zenon DEF SetCancelAtPeriodEnd, CommitBatch

(* One step stores receipts of captured payments only. *)
LEMMA AcceptedStep ==
  ASSUME ProcsInv, CapturedOnce, AcceptedIsCaptured, [Next]_vars
  PROVE  AcceptedIsCaptured'
<1> SUFFICES ASSUME NEW e \in EventIds, NEW r, r = receipt'[e], r # None
             PROVE  Succeeded(r.payment)' /\ order'[r.payment].payment.external = r.external
  BY Zenon DEF AcceptedIsCaptured, Succeeded
<1>1. receipt \in [EventIds -> Webhooks \union {None}]
  BY TypeParts, Zenon DEF ProcsInv, DbTypes
<1>2. CASE r = receipt[e]
  <2>1. PICK q : q = r.payment
    OBVIOUS
  <2>2. /\ q \in Orders /\ Succeeded(q)
        /\ order[q].payment.external = r.external
    BY <1>1, <1>2, <2>1, WebhookFields, Zenon DEF AcceptedIsCaptured
  <2>3. Succeeded(q)' /\ order'[q].payment.external = order[q].payment.external
    BY <2>2, SucceededStays, Zenon
  <2> QED
    BY <2>1, <2>2, <2>3, Zenon DEF Succeeded
<1>3. CASE r # receipt[e]
  <2>1. PICK m \in Webhooks :
          /\ receipt' = [receipt EXCEPT ![m.event] = m]
          /\ Succeeded(m.payment)' /\ order'[m.payment].payment.external = m.external
    BY <1>3, ReceiptSteps, Zenon
  <2>2. r = m
    BY <1>1, <1>3, <2>1
  <2> QED
    BY <2>1, <2>2, Zenon DEF Succeeded
<1> QED
  BY <1>2, <1>3, Zenon

-----------------------------------------------------------------------------
(* Orders of one key                                                        *)

(* All orders of key k are the same one, and it is what requests were told. *)
KeyInv(k) ==
  /\ \A o, q \in Existing(k) : o = q
  /\ answers[k] \subseteq Existing(k)

(* Orders stay under their keys; an answer names an order of its key. *)
LEMMA KeyStep ==
  ASSUME ProcsInv, CapturedOnce, [Next]_vars, NEW k \in Keys, KeyInv(k)
  PROVE  KeyInv(k)'
<1>1. DbTypes
  BY TypeParts, Zenon DEF ProcsInv
<1>2. ASSUME order' = order, answers' = answers
      PROVE  KeyInv(k)'
  BY <1>2, Zenon DEF KeyInv, Existing
<1>3. ASSUME NEW h \in Handlers, pc[h] \in {"find", "create"},
             NEW o \in Existing(work[h].key), AnswerExisting(h, o)
      PROVE  KeyInv(k)'
  <2>1. work[h].key \in Keys /\ order' = order
    BY <1>3, Zenon DEF ProcsInv, HandlerInv, Requests, AnswerExisting
  <2>2. answers'[k] \subseteq answers[k] \union (IF k = work[h].key THEN {o} ELSE {})
    BY <1>1, <1>3, <2>1, Zenon DEF DbTypes, AnswerExisting
  <2> QED
    BY <1>3, <2>1, <2>2, Zenon DEF KeyInv, Existing
<1>4. ASSUME NEW h \in Handlers, NEW o \in Orders, Inserts(h, o)
      PROVE  KeyInv(k)'
  <2>1. work[h].key \in Keys /\ Existing(work[h].key) = {}
    BY <1>4 DEF Inserts, Requests, KeyIsFree
  <2>2. /\ order'[o] # None /\ order'[o].order.key = work[h].key
        /\ \A q \in Orders \ {o} : order'[q] = order[q]
    BY <1>1, <1>4, InsertKeeps, Zenon
  <2>3. answers'[k] = IF k = work[h].key THEN answers[k] \union {o} ELSE answers[k]
    BY <1>1, <1>4, <2>1, Zenon DEF DbTypes, Inserts
  <2>4. order[o] = None
    BY <1>4, Zenon DEF Inserts
  <2>5. CASE k = work[h].key
    <3>1. Existing(k)' = {o}
      BY <2>1, <2>2, <2>5 DEF Existing
    <3> QED
      BY <2>1, <2>3, <2>5, <3>1 DEF KeyInv
  <2>6. CASE k # work[h].key
    <3>1. Existing(k)' = Existing(k)
      BY <2>2, <2>4, <2>6 DEF Existing
    <3> QED
      BY <2>3, <2>6, <3>1 DEF KeyInv
  <2> QED
    BY <2>5, <2>6
<1>5. ASSUME NEW h \in Handlers, Capture(h)
      PROVE  KeyInv(k)'
  <2>1. PICK o : o = work[h].payment
    OBVIOUS
  <2>2. /\ o \in Orders /\ order[o] # None /\ Succeeded(o)'
        /\ order'[o].order.key = order[o].order.key
        /\ \A q \in Orders \ {o} : order'[q] = order[q]
    BY <1>5, <2>1, CaptureKeeps, SMT, SMTT(30)
  <2>3. Existing(k)' = Existing(k)
    BY <2>2 DEF Existing, Succeeded
  <2>4. answers' = answers
    BY <1>5, Zenon DEF Capture
  <2> QED
    BY <2>3, <2>4, Zenon DEF KeyInv
<1>6. ASSUME NEW h \in Handlers, FindOrder(h) PROVE KeyInv(k)'
  BY <1>2, <1>3, <1>6, Zenon DEF FindOrder, dbVars
<1>7. ASSUME NEW h \in Handlers, CreateOrder(h) PROVE KeyInv(k)'
  <2>1. work[h] \in Requests
    BY <1>7, Zenon DEF ProcsInv, HandlerInv, CreateOrder
  <2>2. CASE \E o \in Orders : Inserts(h, o)
    BY <1>4, <2>2, Zenon
  <2>3. CASE UNCHANGED dbVars
    BY <1>2, <2>3, Zenon DEF dbVars
  <2>4. CASE \E o \in Existing(work[h].key) : AnswerExisting(h, o)
    BY <1>3, <1>7, <2>4, Zenon DEF CreateOrder
  <2> QED
    BY <1>7, <2>1, <2>2, <2>3, <2>4, Zenon DEF CreateOrder, Inserts, NewRow
<1> QED
  BY <1>2, <1>5, <1>6, <1>7, WritingSteps, Zenon
     DEF LockPayment, SetCancelAtPeriodEnd, CommitBatch, dbVars

(* With at most one order a key has at most one. *)
LEMMA KeyCardinality ==
  ASSUME NEW k \in Keys, KeyInv(k)
  PROVE  Cardinality(Existing(k)) <= 1 /\ answers[k] \subseteq Existing(k)
<1>1. CASE Existing(k) = {}
  BY <1>1, FS_EmptySet DEF KeyInv
<1>2. CASE Existing(k) # {}
  <2>1. PICK o \in Existing(k) : TRUE
    BY <1>2
  <2>2. Existing(k) = {o}
    BY <2>1 DEF KeyInv
  <2>3. Cardinality(Existing(k)) = 1
    BY <2>2, FS_Singleton, Zenon
  <2> QED
    BY <2>3 DEF KeyInv
<1> QED
  BY <1>1, <1>2

-----------------------------------------------------------------------------
(* Paid periods                                                             *)

(* The captured renewal payments of s. *)
RenewalOrders(s) == {o \in Orders : Succeeded(o) /\ order[o].order.target = s}

(* The paid period of s and its renewals in one step: neither changes, or one  *)
(* payment is captured and the period is extended by a cycle.                  *)
LEMMA PeriodSteps ==
  ASSUME ProcsInv, CapturedOnce, [Next]_vars, NEW s \in Subs
  PROVE  \/ RenewalOrders(s)' = RenewalOrders(s) /\ sub'[s].end = sub[s].end
         \/ /\ \E o \in Orders \ RenewalOrders(s) : RenewalOrders(s)' = RenewalOrders(s) \union {o}
            /\ \E at \in Nat : at <= clock /\ sub'[s].end = Later(sub[s].end, at) + Cycle
<1>1. DbTypes /\ sub[s] \in SubRows
  BY TypeParts, SubscriptionSteps, Zenon DEF ProcsInv
<1>2. ASSUME NEW h \in Handlers, Capture(h)
      PROVE  \/ RenewalOrders(s)' = RenewalOrders(s) /\ sub'[s].end = sub[s].end
             \/ /\ \E o \in Orders \ RenewalOrders(s) : RenewalOrders(s)' = RenewalOrders(s) \union {o}
                /\ \E at \in Nat : at <= clock /\ sub'[s].end = Later(sub[s].end, at) + Cycle
  <2>1. PICK o : o = work[h].payment
    OBVIOUS
  <2>2. /\ o \in Orders /\ order[o] # None /\ ~Succeeded(o) /\ Succeeded(o)'
        /\ order'[o].order.target = order[o].order.target
        /\ \A q \in Orders \ {o} : order'[q] = order[q] /\ (Succeeded(q)' <=> Succeeded(q))
    BY <1>2, <2>1, CaptureKeeps, SMT, SMTT(30)
  <2>3. order[o].order.target = Target(h)
    BY <2>1, <2>2, Zenon DEF ProcsInv, OneTarget, Target
  <2>4. CASE s = Target(h)
    <3>1. o \notin RenewalOrders(s) /\ RenewalOrders(s)' = RenewalOrders(s) \union {o}
      BY <2>2, <2>3, <2>4 DEF RenewalOrders
    <3>2. now[h] \in Nat /\ now[h] <= clock /\ sub'[s] = Renewed(sub[s], now[h])
      BY <1>2, <2>4, CaptureWrites, Kinds, Zenon
    <3>3. sub'[s].end = Later(sub[s].end, now[h]) + Cycle
      BY <1>1, <3>2, RenewedRow
    <3> QED
      BY <2>2, <3>1, <3>2, <3>3, Zenon
  <2>5. CASE s # Target(h)
    <3>1. RenewalOrders(s)' = RenewalOrders(s)
      BY <2>2, <2>3, <2>5 DEF RenewalOrders
    <3>2. sub'[s] = sub[s]
      BY <1>2, <2>5, CaptureWrites, Zenon
    <3> QED
      BY <3>1, <3>2, Zenon
  <2> QED
    BY <2>4, <2>5, Zenon
<1>3. ASSUME ~(\E h \in Handlers : Capture(h))
      PROVE  sub'[s].end = sub[s].end
  <2>1. \/ sub'[s] = sub[s]
        \/ \E cancel \in BOOLEAN : sub'[s] = SetSubscriptionCancelAtPeriodEnd(sub[s], cancel)
        \/ (\E at \in Nat : Due(sub[s], at)) /\ sub'[s] = Lapsed(sub[s])
    <3>1. ASSUME NEW h \in Handlers, FindOrder(h) \/ CreateOrder(h) \/ LockPayment(h)
          PROVE  sub' = sub
      BY <3>1, Zenon DEF FindOrder, CreateOrder, LockPayment, AnswerExisting, dbVars
    <3>2. ASSUME UNCHANGED dbVars PROVE sub' = sub
      BY <3>2, Zenon DEF dbVars
    <3> QED
      BY <1>3, <3>1, <3>2, WritingSteps, CancelWrites, CommitWrites, Zenon
  <2>2. ASSUME NEW cancel \in BOOLEAN, sub'[s] = SetSubscriptionCancelAtPeriodEnd(sub[s], cancel)
        PROVE  sub'[s].end = sub[s].end
    BY <1>1, <2>2, FlaggedRow
  <2>3. ASSUME NEW at \in Nat, Due(sub[s], at), sub'[s] = Lapsed(sub[s])
        PROVE  sub'[s].end = sub[s].end
    BY <1>1, <2>3, LapsedRow, Zenon
  <2> QED
    BY <2>1, <2>2, <2>3, Zenon
<1>4. ASSUME UNCHANGED <<order, captures>> \/ \E h \in Handlers, o \in Orders : Inserts(h, o)
      PROVE  RenewalOrders(s)' = RenewalOrders(s)
  <2>1. CASE UNCHANGED <<order, captures>>
    BY <2>1, Zenon DEF RenewalOrders, Succeeded
  <2>2. ASSUME NEW h \in Handlers, NEW o \in Orders, Inserts(h, o)
        PROVE  RenewalOrders(s)' = RenewalOrders(s)
    <3>1. /\ ~Succeeded(o) /\ ~Succeeded(o)'
          /\ \A q \in Orders \ {o} : order'[q] = order[q] /\ (Succeeded(q)' <=> Succeeded(q))
      BY <1>1, <2>2, InsertKeeps, Zenon
    <3> QED
      BY <3>1 DEF RenewalOrders
  <2> QED
    BY <1>4, <2>1, <2>2, Zenon
<1> QED
  BY <1>2, <1>3, <1>4, OrderSteps, Zenon

(* The number of renewals is a number, and a new one adds one. *)
LEMMA RenewalsCount ==
  ASSUME NEW s
  PROVE  /\ Renewals(s) = Cardinality(RenewalOrders(s)) /\ Renewals(s) \in Nat
         /\ IsFiniteSet(RenewalOrders(s))
<1>1. RenewalOrders(s) \subseteq Orders /\ IsFiniteSet(Orders)
  BY BillingAssumption DEF RenewalOrders
<1>2. IsFiniteSet(RenewalOrders(s))
  BY <1>1, FS_Subset
<1>3. Cardinality(RenewalOrders(s)) \in Nat
  BY <1>2, FS_CardinalityType
<1>4. Renewals(s) = Cardinality(RenewalOrders(s))
  BY Zenon DEF Renewals, RenewalOrders
<1> QED
  BY <1>2, <1>3, <1>4

(* A cycle more for a renewal more. *)
LEMMA OneMoreCycle ==
  ASSUME NEW n \in Nat
  PROVE  Cycle * (n + 1) = Cycle * n + Cycle /\ Cycle * n \in Nat /\ Cycle \in Nat
BY BillingAssumption, SMT

(* One step keeps the periods and the payments in balance. *)
LEMMA PeriodStep ==
  ASSUME ProcsInv, CapturedOnce, PeriodsArePaidFor, [Next]_vars
  PROVE  PeriodsArePaidFor'
<1> SUFFICES ASSUME NEW s \in Subs
             PROVE  /\ FirstEnd[s] + Cycle * Renewals(s)' <= sub'[s].end
                    /\ sub'[s].end <= Later(FirstEnd[s], clock') + Cycle * Renewals(s)'
  BY Zenon DEF PeriodsArePaidFor, Later
<1>1. PICK n \in Nat : n = Renewals(s)
  BY RenewalsCount, Zenon
<1>2. /\ FirstEnd[s] + Cycle * n <= sub[s].end
      /\ sub[s].end <= Later(FirstEnd[s], clock) + Cycle * n
  BY <1>1, Zenon DEF PeriodsArePaidFor
<1>3. /\ clock \in Nat /\ clock' \in Nat /\ clock <= clock'
      /\ sub[s].end \in Nat /\ FirstEnd[s] \in Nat
  BY SubscriptionSteps, BillingAssumption, Zenon DEF SubRows
<1>4. PICK product \in Nat : product = Cycle * n /\ Cycle * (n + 1) = product + Cycle /\ Cycle \in Nat
  BY OneMoreCycle, Zenon
<1>5. CASE RenewalOrders(s)' = RenewalOrders(s) /\ sub'[s].end = sub[s].end
  <2>1. Renewals(s)' = n
    BY <1>1, <1>5, Zenon DEF Renewals, RenewalOrders
  <2> QED
    BY <1>2, <1>3, <1>4, <1>5, <2>1 DEF Later
<1>6. CASE /\ \E o \in Orders \ RenewalOrders(s) : RenewalOrders(s)' = RenewalOrders(s) \union {o}
           /\ \E at \in Nat : at <= clock /\ sub'[s].end = Later(sub[s].end, at) + Cycle
  <2>0. PICK o \in Orders \ RenewalOrders(s) : RenewalOrders(s)' = RenewalOrders(s) \union {o}
    BY <1>6, Zenon
  <2>1. /\ IsFiniteSet(RenewalOrders(s)) /\ Cardinality(RenewalOrders(s)) = n
        /\ o \notin RenewalOrders(s)
    BY <1>1, <2>0, RenewalsCount, Zenon
  <2>2. Renewals(s)' = n + 1
    <3>1. Cardinality(RenewalOrders(s) \union {o}) = n + 1
      BY <2>1, FS_AddElement, Zenon
    <3>2. Renewals(s)' = Cardinality(RenewalOrders(s)')
      BY Zenon DEF Renewals, RenewalOrders
    <3> QED
      BY <2>0, <3>1, <3>2, Zenon
  <2>3. PICK at \in Nat : at <= clock /\ sub'[s].end = Later(sub[s].end, at) + Cycle
    BY <1>6, Zenon
  <2>4. Cycle * Renewals(s)' = product + Cycle
    BY <1>4, <2>2, Zenon
  <2> QED
    BY <1>2, <1>3, <1>4, <2>3, <2>4 DEF Later
<1> QED
  BY <1>5, <1>6, PeriodSteps, Zenon

-----------------------------------------------------------------------------
(* The theorems                                                             *)

BillingInv ==
  /\ ProcsInv
  /\ CapturedOnce
  /\ AcceptedIsCaptured
  /\ \A k \in Keys : KeyInv(k)
  /\ EventPerVersion
  /\ LapsesOnTime
  /\ PeriodsArePaidFor

(* Init establishes the invariant. *)
LEMMA BillingInit == Init => BillingInv
<1> SUFFICES ASSUME Init PROVE BillingInv
  OBVIOUS
<1>1. \A o \in Orders : order[o] = None /\ captures[o] = 0 /\ ~Succeeded(o)
  BY DEF Init, Succeeded
<1>2. CapturedOnce
  BY <1>1, Zenon DEF CapturedOnce
<1>3. AcceptedIsCaptured
  BY Zenon DEF Init, AcceptedIsCaptured
<1>4. ASSUME NEW k \in Keys PROVE KeyInv(k)
  BY <1>1 DEF Init, KeyInv, Existing
<1>5. ASSUME NEW s \in Subs
      PROVE  /\ sub[s].status = "active" /\ sub[s].end = FirstEnd[s] /\ sub[s].grace = None
             /\ sub[s].version = 1 /\ events[s] = 0 /\ FirstEnd[s] \in Nat
  BY BillingAssumption, Zenon DEF Init
<1>6. EventPerVersion
  BY <1>5, SMT, SMTT(30) DEF EventPerVersion
<1>7. LapsesOnTime
  BY <1>5, Zenon DEF LapsesOnTime
<1>8. PeriodsArePaidFor
  <2> SUFFICES ASSUME NEW s \in Subs
               PROVE  /\ FirstEnd[s] + Cycle * Renewals(s) <= sub[s].end
                      /\ sub[s].end <= Later(FirstEnd[s], clock) + Cycle * Renewals(s)
    BY Zenon DEF PeriodsArePaidFor
  <2>1. RenewalOrders(s) = {}
    BY <1>1 DEF RenewalOrders
  <2>2. Renewals(s) = 0
    BY <2>1, RenewalsCount, FS_EmptySet
  <2>3. Cycle * Renewals(s) = 0 /\ clock = 0
    BY <2>2, BillingAssumption DEF Init
  <2> QED
    BY <1>5, <2>3 DEF Later
<1> QED
  BY <1>2, <1>3, <1>4, <1>6, <1>7, <1>8, ProcsInit, Zenon DEF BillingInv

(* Every step preserves it. *)
LEMMA BillingInductive ==
  ASSUME BillingInv, [Next]_vars
  PROVE  BillingInv'
<1>1. /\ ProcsInv /\ CapturedOnce /\ AcceptedIsCaptured
      /\ EventPerVersion /\ LapsesOnTime /\ PeriodsArePaidFor
  BY Zenon DEF BillingInv
<1>2. ASSUME NEW k \in Keys PROVE KeyInv(k)'
  BY <1>1, KeyStep, Zenon DEF BillingInv
<1>3. ProcsInv' /\ CapturedOnce' /\ AcceptedIsCaptured'
  BY <1>1, ProcsInductive, CapturedStep, AcceptedStep, Zenon
<1>4. EventPerVersion' /\ LapsesOnTime' /\ PeriodsArePaidFor'
  BY <1>1, VersionStep, LapseStep, PeriodStep, Zenon
<1> QED
  BY <1>2, <1>3, <1>4, Zenon DEF BillingInv

(* The invariant holds throughout. *)
LEMMA BillingInvariant == Spec => []BillingInv
<1>1. BillingInv /\ [Next]_vars => BillingInv'
  BY BillingInductive, Zenon
<1> QED
  BY <1>1, BillingInit, PTL DEF Spec

(* CompletePayment captures a payment once: however webhooks race, repeat or   *)
(* fail half way, payment, order, invoice, ledger and external id agree.       *)
THEOREM PaymentsCapturedOnce == Spec => []CapturedOnce
<1>1. BillingInv => CapturedOnce
  BY Zenon DEF BillingInv
<1> QED
  BY <1>1, BillingInvariant, PTL

(* CompletePayment answers a repeated event with success only when the payment *)
(* is captured under the external id the receipt names.                        *)
THEOREM ReceiptsAreCaptured == Spec => []AcceptedIsCaptured
<1>1. BillingInv => AcceptedIsCaptured
  BY Zenon DEF BillingInv
<1> QED
  BY <1>1, BillingInvariant, PTL

(* CreateOrder and CreateRenewalOrder: one key, one order, one answer. *)
THEOREM KeysHaveOneOrder == Spec => []OneOrderPerKey
<1>1. BillingInv => OneOrderPerKey
  BY KeyCardinality, Zenon DEF BillingInv, OneOrderPerKey
<1> QED
  BY <1>1, BillingInvariant, PTL

(* RenewSubscriptionAfterPayment: a subscription's period is what was paid for. *)
THEOREM PeriodsAreBought == Spec => []PeriodsArePaidFor
<1>1. BillingInv => PeriodsArePaidFor
  BY Zenon DEF BillingInv
<1> QED
  BY <1>1, BillingInvariant, PTL

(* The lifecycle processor neither shortens nor extends a period or its grace. *)
THEOREM SubscriptionsLapseOnTime == Spec => []LapsesOnTime
<1>1. BillingInv => LapsesOnTime
  BY Zenon DEF BillingInv
<1> QED
  BY <1>1, BillingInvariant, PTL

(* Every change of a subscription row has a version and an outbox event. *)
THEOREM ChangesHaveEvents == Spec => []EventPerVersion
<1>1. BillingInv => EventPerVersion
  BY Zenon DEF BillingInv
<1> QED
  BY <1>1, BillingInvariant, PTL

(* No transaction changes a cancelled subscription, even one that began while  *)
(* the subscription was active.                                                *)
THEOREM CancelledStaysCancelled == Spec => CancelledIsFinal
<1>1. BillingInv /\ [Next]_vars =>
        [\A s \in Subs : sub[s].status = "cancelled" => sub'[s] = sub[s]]_vars
  BY CancelledStep, Zenon DEF BillingInv
<1> QED
  BY <1>1, BillingInvariant, PTL DEF Spec, CancelledIsFinal
=============================================================================
