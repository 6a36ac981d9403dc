------------------------------ MODULE Billing ------------------------------
(***************************************************************************)
(* From delivery to payment of one order: the caterer's delivery            *)
(* (caterer/orders.py), the background job that makes the Stripe invoice    *)
(* (billing_tasks.py, stripe_service.py), Stripe's webhooks (api.py) and    *)
(* the administrator's transitions (admin.py).  Orders share no row.        *)
(*                                                                         *)
(* The job queue delivers at least once, Stripe is outside any transaction, *)
(* and every handler reads rows without a lock and takes it only when its   *)
(* UPDATE is flushed.  One action is one flush, Stripe call or commit.      *)
(***************************************************************************)
EXTENDS Naturals, FiniteSets

CONSTANTS
    Jobs,         \* dramatiq worker threads
    Hooks,        \* concurrent webhook requests
    Admins,       \* concurrent administrator requests
    Items,        \* InvoiceItem.create calls per invoice: one per VAT rate, one fee
    MaxRetries,   \* retries of a message: 5 in the code
    MaxAttempt,   \* bound: invoice_attempt
    MaxRefusals,  \* bound: refused payments of one invoice
    MaxFaults     \* bound: errors, crashes, redeliveries, lost queues

ASSUME BillingAssumption ==
    /\ IsFiniteSet(Jobs) /\ IsFiniteSet(Hooks) /\ IsFiniteSet(Admins)
    /\ Items \in Nat \ {0} /\ MaxAttempt \in Nat \ {0}
    /\ MaxRetries \in Nat /\ MaxRefusals \in Nat /\ MaxFaults \in Nat

VARIABLES
    status,      \* Order.status
    attempt,     \* Order.invoice_attempt
    linked,      \* Order.stripe_invoice_id: the attempt that made it, 0 for none
    payment,     \* Payment.status of the row of each Stripe invoice
    records,     \* how many times Invoice and CommissionInvoice rows were added
    recorded,    \* StripeEvent rows
    invites,     \* review_invite notifications of the order
    delivering,  \* order_deliver has committed and not yet enqueued
    queue,       \* messages waiting, by number of retries
    job,         \* the job each worker runs
    hook,        \* the webhook each request handles
    admin,       \* the transition each administrator request makes
    stripe,      \* status of the Stripe invoice of each attempt (idempotency key)
    lines,       \* items on each Stripe invoice
    emitted,     \* events Stripe delivers, again and again until a 2xx
    faults

db == <<status, attempt, linked, payment, records, recorded, invites>>
outside == <<stripe, lines, emitted>>
vars == <<status, attempt, linked, payment, records, recorded, invites, delivering,
          queue, job, hook, admin, stripe, lines, emitted, faults>>

-----------------------------------------------------------------------------
OrderStatus == {"confirmed", "delivered", "invoicing", "invoiced", "paid"}
PaymentStatus == {"absent", "pending", "succeeded", "failed"}
StripeStatus == {"absent", "draft", "open", "sent", "paid"}

Attempts == 1..MaxAttempt
Events == ({"paid"} \X Attempts \X {0})
              \cup ({"payment_failed"} \X Attempts \X (1..MaxRefusals))
PaidEvent(i) == <<"paid", i, 0>>

Calling == {"create", "item", "finalize", "send", "commit"}
Job == [pc : {"idle", "loaded"} \cup Calling, retries : 0..MaxRetries,
        attempt : 0..MaxAttempt, left : 0..Items]
NoJob == [pc |-> "idle", retries |-> 0, attempt |-> 0, left |-> 0]

Hook == [pc : {"idle", "flush", "order", "commit"}, event : Events \cup {<<>>},
         payment : {"keep", "succeeded", "failed"}, pays : BOOLEAN, invites : BOOLEAN]
NoHook == [pc |-> "idle", event |-> <<>>, payment |-> "keep", pays |-> FALSE,
           invites |-> FALSE]

(* _ADMIN_ORDER_TRANSITIONS *)
Transitions == [invoice |-> <<"delivered", "invoiced">>, pay |-> <<"invoiced", "paid">>]
Admin == [pc : {"idle", "loaded", "commit"}, to : OrderStatus, invites : BOOLEAN]
NoAdmin == [pc |-> "idle", to |-> "confirmed", invites |-> FALSE]

(* who holds the row lock of the order, and of its payment *)
OrderLocked ==
    \/ \E w \in Jobs : job[w].pc \in Calling
    \/ \E h \in Hooks : hook[h].pc = "commit" /\ hook[h].pays
    \/ \E d \in Admins : admin[d].pc = "commit"
PaymentLocked ==
    \E h \in Hooks : hook[h].pc \in {"order", "commit"} /\ hook[h].payment = "succeeded"

Fault == faults < MaxFaults /\ faults' = faults + 1

Init ==
    /\ status = "confirmed" /\ attempt = 0 /\ linked = 0
    /\ payment = [i \in Attempts |-> "absent"]
    /\ records = 0 /\ recorded = {} /\ invites = 0 /\ delivering = FALSE
    /\ queue = [n \in 0..MaxRetries |-> 0]
    /\ job = [w \in Jobs |-> NoJob]
    /\ hook = [h \in Hooks |-> NoHook]
    /\ admin = [d \in Admins |-> NoAdmin]
    /\ stripe = [i \in Attempts |-> "absent"]
    /\ lines = [i \in Attempts |-> 0]
    /\ emitted = {} /\ faults = 0

-----------------------------------------------------------------------------
(* The caterer: order_deliver and mark_delivered.  The lock is taken by the *)
(* query that tests the status, so the handler is one step up to its commit. *)

(* billing is off, or the caterer has no usable Stripe account *)
DeliverUnbilled ==
    /\ status = "confirmed"
    /\ status' = "delivered"
    /\ UNCHANGED <<attempt, linked, payment, records, recorded, invites, delivering,
                   queue, job, hook, admin, outside, faults>>

DeliverBilled ==
    /\ status = "confirmed"
    /\ status' = "invoicing" /\ delivering' = TRUE
    /\ UNCHANGED <<attempt, linked, payment, records, recorded, invites,
                   queue, job, hook, admin, outside, faults>>

(* the message is sent after the commit ... *)
Enqueue ==
    /\ delivering
    /\ delivering' = FALSE
    /\ queue' = [queue EXCEPT ![0] = @ + 1]
    /\ UNCHANGED <<db, job, hook, admin, outside, faults>>

(* ... unless the worker dies or the broker refuses it *)
EnqueueFails ==
    /\ delivering /\ Fault
    /\ delivering' = FALSE
    /\ UNCHANGED <<db, queue, job, hook, admin, outside>>

-----------------------------------------------------------------------------
(* The job: send_invoice_for_order, then create_invoice_for_order *)

LoadGuardForgetsStatus(w) == TRUE    \* a wrong variant: no test of the status
LoadGuardDelivered(w) == status = "delivered"    \* another: invoicing is not expected

LoadGuard(w) == status \in {"invoicing", "delivered"}

(* the attempt to make is computed from the row as loaded *)
NextAttempt(w) == attempt + 1

JobLoad(w, n) ==
    /\ job[w].pc = "idle" /\ queue[n] > 0
    /\ LoadGuard(w)
    /\ NextAttempt(w) \in Attempts
    /\ queue' = [queue EXCEPT ![n] = @ - 1]
    /\ job' = [job EXCEPT ![w] = [pc |-> "loaded", retries |-> n,
                                  attempt |-> NextAttempt(w), left |-> Items]]
    /\ UNCHANGED <<db, delivering, hook, admin, outside, faults>>

(* an order already invoiced: the message is acknowledged *)
JobSkip(w, n) ==
    /\ job[w].pc = "idle" /\ queue[n] > 0
    /\ ~ LoadGuard(w)
    /\ queue' = [queue EXCEPT ![n] = @ - 1]
    /\ UNCHANGED <<db, delivering, job, hook, admin, outside, faults>>

(* session.flush() of the incremented attempt: the order row is locked from *)
(* here to the commit, but its status is not read again                     *)
AttemptWrittenLate(w) == attempt + 1    \* a wrong variant: counted in the UPDATE

AttemptWritten(w) == job[w].attempt

JobFlush(w) ==
    /\ job[w].pc = "loaded"
    /\ ~ OrderLocked
    /\ AttemptWritten(w) \in Attempts
    /\ job' = [job EXCEPT ![w].pc = "create", ![w].attempt = AttemptWritten(w)]
    /\ UNCHANGED <<db, delivering, queue, hook, admin, outside, faults>>

(* Stripe answers a call; what it does when it refuses or does not answer is *)
(* in JobFails.                                                              *)

(* Invoice.create: the idempotency key gives back the invoice of this attempt *)
StripeCreate(i) == stripe' = IF stripe[i] = "absent" THEN [stripe EXCEPT ![i] = "draft"]
                             ELSE stripe

JobCreate(w) ==
    /\ job[w].pc = "create"
    /\ StripeCreate(job[w].attempt)
    /\ job' = [job EXCEPT ![w].pc = "item"]
    /\ UNCHANGED <<db, delivering, queue, hook, admin, lines, emitted, faults>>

(* InvoiceItem.create, without a key: once more is one item more *)
StripeItem(i) == stripe[i] = "draft" /\ lines' = [lines EXCEPT ![i] = @ + 1]

LastItemOffByOne(w) == job[w].left = 0    \* a wrong variant: one item too many

LastItem(w) == job[w].left = 1

JobItem(w) ==
    /\ job[w].pc = "item"
    /\ StripeItem(job[w].attempt)
    /\ job' = [job EXCEPT ![w].left = @ - 1,
                          ![w].pc = IF LastItem(w) THEN "finalize" ELSE "item"]
    /\ UNCHANGED <<db, delivering, queue, hook, admin, stripe, emitted, faults>>

StripeFinalize(i) == stripe[i] = "draft" /\ stripe' = [stripe EXCEPT ![i] = "open"]

JobFinalize(w) ==
    /\ job[w].pc = "finalize"
    /\ StripeFinalize(job[w].attempt)
    /\ job' = [job EXCEPT ![w].pc = "send"]
    /\ UNCHANGED <<db, delivering, queue, hook, admin, lines, emitted, faults>>

StripeSend(i) == stripe[i] = "open" /\ stripe' = [stripe EXCEPT ![i] = "sent"]

JobSend(w) ==
    /\ job[w].pc = "send"
    /\ StripeSend(job[w].attempt)
    /\ job' = [job EXCEPT ![w].pc = "commit"]
    /\ UNCHANGED <<db, delivering, queue, hook, admin, lines, emitted, faults>>

(* the order is invoiced, its Payment, Invoice and CommissionInvoice rows    *)
(* added; Payment.stripe_invoice_id is unique                                *)
JobCommit(w) ==
    LET i == job[w].attempt
    IN  /\ job[w].pc = "commit"
        /\ payment[i] = "absent"
        /\ status' = "invoiced" /\ attempt' = i /\ linked' = i
        /\ payment' = [payment EXCEPT ![i] = "pending"]
        /\ records' = records + 1
        /\ job' = [job EXCEPT ![w] = NoJob]
        /\ UNCHANGED <<recorded, invites, delivering, queue, hook, admin, outside, faults>>

(* Stripe refuses a call (the invoice is no longer what the call needs), or  *)
(* the Payment row is there already: the transaction is rolled back, the     *)
(* attempt with it, and the message retried or dropped.                      *)
Refused(w) ==
    LET s == stripe[job[w].attempt]
    IN  \/ job[w].pc \in {"item", "finalize"} /\ s # "draft"
        \/ job[w].pc = "send" /\ s # "open"
        \/ job[w].pc = "commit" /\ payment[job[w].attempt] # "absent"

AttemptKept(w) == job[w].attempt    \* a wrong variant: the attempt outlives a failure

AttemptAfterFailure(w) == attempt

Retry(w) ==
    /\ attempt' = AttemptAfterFailure(w)
    /\ job' = [job EXCEPT ![w] = NoJob]
    /\ queue' = IF job[w].retries < MaxRetries
                THEN [queue EXCEPT ![job[w].retries + 1] = @ + 1] ELSE queue

JobRefused(w) ==
    /\ Refused(w)
    /\ Retry(w)
    /\ UNCHANGED <<status, linked, payment, records, recorded, invites, delivering,
                   hook, admin, outside, faults>>

(* a call fails, before or after Stripe did what it asks *)
JobFails(w) ==
    LET i == job[w].attempt
    IN  /\ job[w].pc \in Calling
        /\ Fault
        /\ Retry(w)
        /\ \/ UNCHANGED outside
           \/ job[w].pc = "create" /\ StripeCreate(i) /\ UNCHANGED <<lines, emitted>>
           \/ job[w].pc = "item" /\ StripeItem(i) /\ UNCHANGED <<stripe, emitted>>
           \/ job[w].pc = "finalize" /\ StripeFinalize(i) /\ UNCHANGED <<lines, emitted>>
           \/ job[w].pc = "send" /\ StripeSend(i) /\ UNCHANGED <<lines, emitted>>
        /\ UNCHANGED <<status, linked, payment, records, recorded, invites, delivering,
                       hook, admin>>

(* The broker gives the message of a worker that looks dead to another one;  *)
(* the first may be dead indeed, or only slow.                               *)
Redeliver(w) ==
    /\ job[w].pc # "idle" /\ Fault
    /\ queue' = [queue EXCEPT ![job[w].retries] = @ + 1]
    /\ job' \in {job, [job EXCEPT ![w] = NoJob]}
    /\ UNCHANGED <<db, delivering, hook, admin, outside>>

(* Redis restarts: it persists nothing *)
LoseQueue ==
    /\ \E n \in 0..MaxRetries : queue[n] > 0
    /\ Fault
    /\ queue' = [n \in 0..MaxRetries |-> 0]
    /\ UNCHANGED <<db, delivering, job, hook, admin, outside>>

-----------------------------------------------------------------------------
(* The client, through Stripe *)

ClientPays(i) ==
    /\ stripe[i] = "sent"
    /\ stripe' = [stripe EXCEPT ![i] = "paid"]
    /\ emitted' = emitted \cup {PaidEvent(i)}
    /\ UNCHANGED <<db, delivering, queue, job, hook, admin, lines, faults>>

PaymentRefused(e) ==
    /\ e[1] = "payment_failed" /\ stripe[e[2]] = "sent" /\ e \notin emitted
    /\ emitted' = emitted \cup {e}
    /\ UNCHANGED <<db, delivering, queue, job, hook, admin, stripe, lines, faults>>

-----------------------------------------------------------------------------
(* stripe_webhook.  An event whose row is committed answers "duplicate" and  *)
(* changes nothing; one whose row another request has flushed waits for it.  *)

Terminal == {"succeeded"}    \* refunded is set by no code of the application

(* what an event makes of the payment as read *)
Outcome(e) ==
    LET now == payment[e[2]]
    IN  IF now = "absent" THEN "keep"
        ELSE IF e[1] = "paid" THEN "succeeded"
        ELSE IF now \in Terminal \cup {"failed"} THEN "keep" ELSE "failed"

HookBegin(h, e) ==
    /\ hook[h].pc = "idle" /\ e \in emitted
    /\ e \notin recorded
    /\ \A g \in Hooks : hook[g].event # e
    /\ hook' = [hook EXCEPT ![h] =
         [NoHook EXCEPT !.event = e, !.payment = Outcome(e),
                        !.pc = IF Outcome(e) = "succeeded" THEN "flush" ELSE "commit"]]
    /\ UNCHANGED <<db, delivering, queue, job, admin, outside, faults>>

(* reading the order flushes the payment and locks it *)
HookFlush(h) ==
    /\ hook[h].pc = "flush"
    /\ ~ PaymentLocked
    /\ hook' = [hook EXCEPT ![h].pc = "order", ![h].pays = (status # "paid")]
    /\ UNCHANGED <<db, delivering, queue, job, admin, outside, faults>>

(* notify_review_invite, called once the order is flushed *)
InvitedAnyway == TRUE    \* a wrong variant: no search for an earlier invitation

NotInvited == invites = 0

(* the notifications' queries flush the order and lock it *)
HookOrder(h) ==
    /\ hook[h].pc = "order"
    /\ hook[h].pays => ~ OrderLocked
    /\ hook' = [hook EXCEPT ![h].pc = "commit", ![h].invites = NotInvited]
    /\ UNCHANGED <<db, delivering, queue, job, admin, outside, faults>>

HookCommit(h) ==
    LET t == hook[h]
        i == t.event[2]
    IN  /\ t.pc = "commit"
        /\ t.payment = "failed" => ~ PaymentLocked
        /\ payment' = IF t.payment = "keep" THEN payment
                      ELSE [payment EXCEPT ![i] = t.payment]
        /\ status' = IF t.pays THEN "paid" ELSE status
        /\ invites' = IF t.invites THEN invites + 1 ELSE invites
        /\ recorded' = recorded \cup {t.event}
        /\ hook' = [hook EXCEPT ![h] = NoHook]
        /\ UNCHANGED <<attempt, linked, records, delivering, queue, job, admin,
                       outside, faults>>

(* an exception or a crash: rolled back, the event row too; Stripe retries *)
RecordedAfterFailureKept(h) == recorded \cup {hook[h].event}    \* a wrong variant:
                                          \* the event row is committed beforehand

RecordedAfterFailure(h) == recorded

HookFails(h) ==
    /\ hook[h].pc # "idle" /\ Fault
    /\ recorded' = RecordedAfterFailure(h)
    /\ hook' = [hook EXCEPT ![h] = NoHook]
    /\ UNCHANGED <<status, attempt, linked, payment, records, invites, delivering, queue,
                   job, admin, outside>>

-----------------------------------------------------------------------------
(* order_transition: the status is tested without a lock *)

AdminLoad(d, action) ==
    /\ admin[d].pc = "idle"
    /\ status = Transitions[action][1]
    /\ admin' = [admin EXCEPT ![d] = [pc |-> "loaded", to |-> Transitions[action][2],
                                      invites |-> FALSE]]
    /\ UNCHANGED <<db, delivering, queue, job, hook, outside, faults>>

AdminFlush(d) ==
    /\ admin[d].pc = "loaded"
    /\ ~ OrderLocked
    /\ admin' = [admin EXCEPT ![d].pc = "commit",
                              ![d].invites = (admin[d].to = "paid" /\ NotInvited)]
    /\ UNCHANGED <<db, delivering, queue, job, hook, outside, faults>>

AdminCommit(d) ==
    /\ admin[d].pc = "commit"
    /\ status' = admin[d].to
    /\ invites' = IF admin[d].invites THEN invites + 1 ELSE invites
    /\ admin' = [admin EXCEPT ![d] = NoAdmin]
    /\ UNCHANGED <<attempt, linked, payment, records, recorded, delivering, queue, job,
                   hook, outside, faults>>

AdminFails(d) ==
    /\ admin[d].pc # "idle" /\ Fault
    /\ admin' = [admin EXCEPT ![d] = NoAdmin]
    /\ UNCHANGED <<db, delivering, queue, job, hook, outside>>

-----------------------------------------------------------------------------
JobTake(n) == \E w \in Jobs : JobLoad(w, n) \/ JobSkip(w, n)

JobStep(w) ==
    \/ JobFlush(w) \/ JobCreate(w) \/ JobItem(w) \/ JobFinalize(w)
    \/ JobSend(w) \/ JobCommit(w) \/ JobRefused(w)

HookTake(e) == \E h \in Hooks : HookBegin(h, e)
HookStep(h) == HookFlush(h) \/ HookOrder(h) \/ HookCommit(h)
AdminStep(d) == AdminFlush(d) \/ AdminCommit(d)

Next ==
    \/ DeliverUnbilled \/ DeliverBilled \/ Enqueue \/ EnqueueFails \/ LoseQueue
    \/ \E n \in 0..MaxRetries : JobTake(n)
    \/ \E w \in Jobs : JobStep(w) \/ JobFails(w) \/ Redeliver(w)
    \/ \E i \in Attempts : ClientPays(i)
    \/ \E e \in Events : PaymentRefused(e) \/ HookTake(e)
    \/ \E h \in Hooks : HookStep(h) \/ HookFails(h)
    \/ \E d \in Admins : AdminStep(d) \/ AdminFails(d)
    \/ \E d \in Admins, action \in DOMAIN Transitions : AdminLoad(d, action)

Spec == Init /\ [][Next]_vars

(* Handlers that began go on (their locks are held for bounded work), the   *)
(* web worker that committed a delivery sends the message, dramatiq's       *)
(* workers take waiting messages, and Stripe repeats an event until it is   *)
(* answered.  Nobody has to deliver, pay or press a button.                 *)
Fairness ==
    /\ WF_vars(Enqueue)
    /\ \A n \in 0..MaxRetries : WF_vars(JobTake(n))
    /\ \A w \in Jobs : WF_vars(JobStep(w))
    /\ \A e \in Events : WF_vars(HookTake(e))
    /\ \A h \in Hooks : WF_vars(HookStep(h))
    /\ \A d \in Admins : WF_vars(AdminStep(d))

FairSpec == Spec /\ Fairness

-----------------------------------------------------------------------------
(* Properties *)

(* Every variable has the type of the column or object it models. *)
TypeOK ==
    /\ status \in OrderStatus /\ attempt \in 0..MaxAttempt /\ linked \in 0..MaxAttempt
    /\ payment \in [Attempts -> PaymentStatus]
    /\ records \in Nat /\ invites \in Nat
    /\ recorded \subseteq Events /\ emitted \subseteq Events
    /\ delivering \in BOOLEAN
    /\ queue \in [0..MaxRetries -> Nat]
    /\ job \in [Jobs -> Job] /\ hook \in [Hooks -> Hook] /\ admin \in [Admins -> Admin]
    /\ stripe \in [Attempts -> StripeStatus]
    /\ lines \in [Attempts -> Nat]
    /\ faults \in 0..MaxFaults

(* However often the job is retried, redelivered or run twice at once, the  *)
(* order has one Stripe invoice: a failure gives its attempt number back,   *)
(* so the next run uses the same idempotency key.                           *)
OneInvoice ==
    \A i, j \in Attempts : stripe[i] # "absent" /\ stripe[j] # "absent" => i = j

(* The accounting rows are written once, with the Payment row of that       *)
(* invoice, even when two workers run the message at the same time.         *)
RecordedOnce ==
    /\ records <= 1
    /\ records = Cardinality({i \in Attempts : payment[i] # "absent"})

(* A payment that succeeded has its order paid: neither a late run of the   *)
(* job nor an administrator's stale transition takes it back.               *)
SucceededMeansPaid == \A i \in Attempts : payment[i] = "succeeded" => status = "paid"

(* The webhook and the administrator may both pay the order; the client is  *)
(* invited once to review it, and always is.                                *)
OneInvite == invites <= 1 /\ (status = "paid" => invites = 1)

(* The handlers implement the settlement of the order as its parties know   *)
(* it: each commit and each answer of Stripe is one of its steps, or changes *)
(* nothing they can see.                                                     *)
Stage == [confirmed |-> "ordered", delivered |-> "byhand", invoicing |-> "owed",
          invoiced |-> "billed", paid |-> "settled"]

Billed == INSTANCE Settlement WITH
        Claims <- Attempts,
        stage <- Stage[status],
        sent <- {i \in Attempts : stripe[i] \in {"sent", "paid"}},
        paid <- {i \in Attempts : stripe[i] = "paid"},
        booked <- {i \in Attempts : payment[i] # "absent"},
        invited <- invites

ImplementsSettlement == Billed!Spec

(* An order billed through Stripe only goes forward. *)
Rank == [confirmed |-> 0, delivered |-> 1, invoicing |-> 1, invoiced |-> 2, paid |-> 3]
BilledGoesForward ==
    [][status = "invoicing" \/ linked # 0 => Rank[status'] >= Rank[status]]_vars

(* Without faults, an order delivered for billing gets its invoice. *)
DeliveredIsInvoiced ==
    status = "invoicing" /\ faults = 0 ~> status \in {"invoiced", "paid"} \/ faults > 0

(* A payment the client makes once the order is recorded as invoiced ends   *)
(* with the order paid, whatever fails, repeats or overlaps meanwhile,      *)
(* unless the event was taken in hand before that record was written.       *)
PaidReachesOrder ==
    \A i \in Attempts :
        /\ stripe[i] = "paid" /\ payment[i] # "absent"
        /\ PaidEvent(i) \notin recorded
        /\ \A h \in Hooks : hook[h].event # PaidEvent(i)
        ~> status = "paid"

-----------------------------------------------------------------------------
(* The inductive invariant behind the safety properties.                    *)

(* What a handler holds fits the step it is at. *)
Formed ==
    /\ \A w \in Jobs : job[w].pc \in {"loaded", "create", "item"} => job[w].left > 0
    /\ \A h \in Hooks : hook[h].pc # "idle" => hook[h].event \in Events

(* Nothing of the billing of this order exists or can begin. *)
NothingBilled ==
    /\ ~ delivering
    /\ \A n \in 0..MaxRetries : queue[n] = 0
    /\ \A w \in Jobs : job[w].pc = "idle"
    /\ \A i \in Attempts : payment[i] = "absent"

(* Every job makes the first attempt: none begins once that one is recorded. *)
FirstAttempt ==
    /\ status \in {"confirmed", "delivered", "invoicing"} => attempt = 0
    /\ \A w \in Jobs : job[w].pc # "idle" => job[w].attempt = 1
    /\ \A i \in Attempts \ {1} : stripe[i] = "absent" /\ payment[i] = "absent"

(* The rows of the invoice come together, and at the end of invoicing. *)
RowsTogether ==
    /\ records = IF payment[1] = "absent" THEN 0 ELSE 1
    /\ linked # 0 => payment[1] # "absent"
    /\ status = "invoicing" => payment[1] = "absent"

(* An order that left the billed path has no billing, and one an             *)
(* administrator handles is invoiced for good or not billed at all.          *)
Course ==
    /\ status \in {"confirmed", "delivered"} => NothingBilled
    /\ status \in {"invoiced", "paid"} => payment[1] # "absent" \/ NothingBilled
    /\ \A d \in Admins : admin[d].pc # "idle" =>
          /\ admin[d].to \in {"invoiced", "paid"}
          /\ status \notin {"confirmed", "invoicing"}
          /\ admin[d].to = "invoiced" => NothingBilled

(* A webhook writes to a payment that exists, and pays unless already paid. *)
HookIsSound ==
    \A h \in Hooks :
        /\ hook[h].pc \in {"flush", "order"} => hook[h].payment = "succeeded"
        /\ hook[h].payment # "keep" =>
              hook[h].pc # "idle" /\ payment[hook[h].event[2]] # "absent"
        /\ hook[h].pays =>
              hook[h].pc \in {"order", "commit"} /\ hook[h].payment = "succeeded"
        /\ hook[h].pc \in {"order", "commit"} /\ hook[h].payment = "succeeded" =>
              hook[h].pays \/ status = "paid"

(* A payment row has its Stripe invoice sent, and an invoice that an order   *)
(* has outside of invoicing has its payment row.                            *)
SentAndRecorded ==
    /\ stripe[1] # "absent" => status = "invoicing" \/ payment[1] # "absent"
    /\ payment[1] # "absent" => stripe[1] \in {"sent", "paid"}
    /\ \A w \in Jobs : job[w].pc = "commit" => stripe[1] \in {"sent", "paid"}

(* An order that is being paid by hand was billed, and stays so. *)
PayFormIsBilled ==
    \A d \in Admins : admin[d].pc # "idle" /\ admin[d].to = "paid" =>
        status \in {"invoiced", "paid"}

(* One handler at a time holds the order's row, and the one that pays it    *)
(* knows whether the client is invited.                                     *)
Holding(h) == hook[h].pc = "commit" /\ hook[h].pays

OrderLockIsExclusive ==
    /\ \A g, h \in Hooks : Holding(g) /\ Holding(h) => g = h
    /\ \A c, d \in Admins : admin[c].pc = "commit" /\ admin[d].pc = "commit" => c = d
    /\ \A h \in Hooks, d \in Admins : ~ (Holding(h) /\ admin[d].pc = "commit")

InviterKnows ==
    /\ \A h \in Hooks : hook[h].invites => Holding(h)
    /\ \A h \in Hooks : Holding(h) => (hook[h].invites <=> invites = 0)
    /\ \A d \in Admins : admin[d].invites => admin[d].pc = "commit" /\ admin[d].to = "paid"
    /\ \A d \in Admins : admin[d].pc = "commit" /\ admin[d].to = "paid" =>
          (admin[d].invites <=> invites = 0)

Inductive ==
    /\ Formed /\ FirstAttempt /\ RowsTogether /\ Course
    /\ SentAndRecorded /\ PayFormIsBilled
    /\ HookIsSound /\ SucceededMeansPaid
    /\ OrderLockIsExclusive /\ InviterKnows /\ OneInvite

-----------------------------------------------------------------------------
(* tests/test_stripe_webhook.py: the order of an invoice Stripe says is paid *)
(* becomes paid.  Not kept: the event may come before the Payment row is     *)
(* committed.                                                                *)
PaidInvoiceReachesOrder == \A i \in Attempts : stripe[i] = "paid" ~> status = "paid"
=============================================================================
