--------------------------- MODULE BillingProofs ---------------------------
(***************************************************************************)
(* Theorems about Billing for any number of workers, requests,             *)
(* administrators, items, retries and faults.                              *)
(***************************************************************************)
EXTENDS Billing, FiniteSetTheorems, TLAPS

-----------------------------------------------------------------------------
(* Types *)

(* The first attempt is one, and an event names an attempt. *)
LEMMA FirstIsAttempt == 1 \in Attempts
  BY BillingAssumption DEF Attempts

LEMMA EventAttempt ==
    /\ \A e \in Events : e[2] \in Attempts
    /\ \A i \in Attempts : PaidEvent(i) \in Events
  BY DEF Events, PaidEvent

(* What a handler starts from and falls back to. *)
LEMMA NothingInHand == NoJob \in Job /\ NoHook \in Hook /\ NoAdmin \in Admin
  BY BillingAssumption DEF NoJob, NoHook, NoAdmin, Job, Hook, Admin, OrderStatus

(* One more of something counted. *)
LEMMA OneMore ==
    ASSUME NEW S, NEW f \in [S -> Nat], NEW x
    PROVE  [f EXCEPT ![x] = @ + 1] \in [S -> Nat]
  <1> DEFINE g == [f EXCEPT ![x] = @ + 1]
  <1>1. g = [y \in S |-> IF y = x THEN f[x] + 1 ELSE f[y]] OBVIOUS
  <1>2. \A y \in S : (IF y = x THEN f[x] + 1 ELSE f[y]) \in Nat
    <2> TAKE y \in S
    <2>1. f[y] \in Nat OBVIOUS
    <2>2. f[y] + 1 \in Nat BY <2>1
    <2> QED BY <2>1, <2>2
  <1> QED BY <1>1, <1>2

LEMMA FaultType ==
    ASSUME TypeOK, Fault
    PROVE  faults' \in 0..MaxFaults
  BY BillingAssumption DEF TypeOK, Fault

LEMMA DeliveryTypes ==
    ASSUME TypeOK, Formed,
           DeliverUnbilled \/ DeliverBilled \/ Enqueue \/ EnqueueFails \/ LoseQueue
    PROVE  TypeOK' /\ Formed'
  <1> USE BillingAssumption DEF db, outside, TypeOK, Formed, OrderStatus
  <1>1. CASE DeliverUnbilled BY <1>1 DEF DeliverUnbilled
  <1>2. CASE DeliverBilled BY <1>2 DEF DeliverBilled
  <1>3. CASE Enqueue
    <2>1. queue' \in [0..MaxRetries -> Nat] BY <1>3, OneMore DEF Enqueue
    <2> QED BY <1>3, <2>1 DEF Enqueue
  <1>4. CASE EnqueueFails BY <1>4, FaultType DEF EnqueueFails
  <1>5. CASE LoseQueue
    <2>1. faults' \in 0..MaxFaults BY <1>5, FaultType DEF LoseQueue
    <2>2. queue' \in [0..MaxRetries -> Nat] BY <1>5 DEF LoseQueue
    <2> QED BY <1>5, <2>1, <2>2 DEF LoseQueue
  <1> QED BY <1>1, <1>2, <1>3, <1>4, <1>5

LEMMA JobTypes ==
    ASSUME TypeOK, Formed, NEW w \in Jobs, JobStep(w) \/ JobFails(w) \/ Redeliver(w)
    PROVE  TypeOK' /\ Formed'
  <1> USE BillingAssumption, NothingInHand DEF db, outside
  <1>1. CASE JobFlush(w)
    <2>1. AttemptWritten(w) \in 0..MaxAttempt BY <1>1 DEF JobFlush, Attempts
    <2>2. /\ job' \in [Jobs -> Job]
          /\ \A v \in Jobs : job'[v].left = job[v].left
                              /\ (job'[v].pc = job[v].pc \/ v = w)
      BY <1>1, <2>1 DEF JobFlush, TypeOK, Job, Calling
    <2>3. job[w].left > 0 BY <1>1 DEF JobFlush, Formed
    <2> QED BY <1>1, <2>2, <2>3 DEF JobFlush, TypeOK, Formed
  <1>2. CASE JobCreate(w)
    BY <1>2 DEF JobCreate, StripeCreate, TypeOK, Formed, Job, Calling, StripeStatus
  <1>3. CASE JobItem(w)
    <2>1. /\ job[w] \in Job /\ job[w].left > 0 /\ job[w].left - 1 \in 0..Items
          /\ ~ LastItem(w) => job[w].left - 1 > 0
      <3>1. job[w] \in Job BY DEF TypeOK
      <3>2. job[w].left \in 0..Items BY <3>1 DEF Job
      <3>3. job[w].left > 0 BY <1>3 DEF JobItem, Formed
      <3> QED BY <3>1, <3>2, <3>3 DEF LastItem
    <2>2. /\ job' \in [Jobs -> Job]
          /\ job'[w].pc \in {"loaded", "create", "item"} => job'[w].left > 0
          /\ \A v \in Jobs \ {w} : job'[v] = job[v]
      BY <1>3, <2>1 DEF JobItem, TypeOK, Job, Calling
    <2>3. lines' \in [Attempts -> Nat]
      BY <1>3, OneMore DEF JobItem, StripeItem, TypeOK
    <2> QED BY <1>3, <2>2, <2>3 DEF JobItem, TypeOK, Formed
  <1>4. CASE JobFinalize(w)
    BY <1>4 DEF JobFinalize, StripeFinalize, TypeOK, Formed, Job, Calling, StripeStatus
  <1>5. CASE JobSend(w)
    BY <1>5 DEF JobSend, StripeSend, TypeOK, Formed, Job, Calling, StripeStatus
  <1>6. CASE JobCommit(w)
    <2>1. attempt' \in 0..MaxAttempt /\ linked' \in 0..MaxAttempt /\ records' \in Nat
      BY <1>6 DEF JobCommit, TypeOK, Job
    <2>2. payment' \in [Attempts -> PaymentStatus] /\ job' \in [Jobs -> Job]
      BY <1>6 DEF JobCommit, TypeOK, PaymentStatus
    <2>3. \A v \in Jobs : job'[v] = job[v] \/ job'[v].pc = "idle"
      BY <1>6 DEF JobCommit, TypeOK, NoJob
    <2> QED BY <1>6, <2>1, <2>2, <2>3 DEF JobCommit, TypeOK, Formed, OrderStatus
  <1>7. ASSUME Retry(w) PROVE /\ attempt' = attempt
                              /\ job' \in [Jobs -> Job]
                              /\ queue' \in [0..MaxRetries -> Nat]
                              /\ \A v \in Jobs : job'[v] = job[v] \/ job'[v] = NoJob
    <2>1. queue' \in [0..MaxRetries -> Nat]
      BY <1>7, OneMore DEF Retry, TypeOK
    <2> QED BY <1>7, <2>1 DEF Retry, AttemptAfterFailure, TypeOK
  <1>8. CASE JobRefused(w)
    BY <1>7, <1>8 DEF JobRefused, TypeOK, Formed, NoJob
  <1>9. CASE JobFails(w)
    <2>1. stripe' \in [Attempts -> StripeStatus] /\ emitted' \subseteq Events
      BY <1>9
      DEF JobFails, StripeCreate, StripeItem, StripeFinalize, StripeSend, TypeOK,
          StripeStatus
    <2>2. lines' \in [Attempts -> Nat]
      BY <1>9, OneMore DEF JobFails, StripeItem, TypeOK
    <2>3. faults' \in 0..MaxFaults BY <1>9, FaultType DEF JobFails
    <2>4. Retry(w) /\ UNCHANGED <<status, linked, payment, records, recorded, invites,
                                  delivering, hook, admin>>
      BY <1>9 DEF JobFails
    <2>5. Formed' BY <1>7, <2>4 DEF Formed, NoJob
    <2> QED BY <1>7, <2>1, <2>2, <2>3, <2>4, <2>5 DEF TypeOK
  <1>10. CASE Redeliver(w)
    <2>1. queue' \in [0..MaxRetries -> Nat] BY <1>10, OneMore DEF Redeliver, TypeOK
    <2>2. faults' \in 0..MaxFaults BY <1>10, FaultType DEF Redeliver
    <2>3. /\ job' \in [Jobs -> Job]
          /\ \A v \in Jobs : job'[v] = job[v] \/ job'[v].pc = "idle"
      BY <1>10 DEF Redeliver, TypeOK, NoJob
    <2> QED BY <1>10, <2>1, <2>2, <2>3 DEF Redeliver, TypeOK, Formed
  <1> QED
    BY <1>1, <1>2, <1>3, <1>4, <1>5, <1>6, <1>8, <1>9, <1>10 DEF JobStep

LEMMA TakeTypes ==
    ASSUME TypeOK, Formed, NEW n \in 0..MaxRetries, JobTake(n)
    PROVE  TypeOK' /\ Formed'
  <1> USE BillingAssumption DEF db, outside, TypeOK, Formed
  <1>1. ASSUME NEW w \in Jobs, JobLoad(w, n) PROVE TypeOK' /\ Formed'
    BY <1>1 DEF JobLoad, NextAttempt, Job, Attempts
  <1>2. ASSUME NEW w \in Jobs, JobSkip(w, n) PROVE TypeOK' /\ Formed'
    BY <1>2 DEF JobSkip
  <1> QED BY <1>1, <1>2 DEF JobTake

LEMMA StripeTypes ==
    ASSUME TypeOK, Formed,
           \/ \E i \in Attempts : ClientPays(i)
           \/ \E e \in Events : PaymentRefused(e)
    PROVE  TypeOK' /\ Formed'
  <1> USE EventAttempt DEF db, TypeOK, Formed
  <1>1. ASSUME NEW i \in Attempts, ClientPays(i) PROVE TypeOK' /\ Formed'
    BY <1>1 DEF ClientPays, StripeStatus
  <1>2. ASSUME NEW e \in Events, PaymentRefused(e) PROVE TypeOK' /\ Formed'
    BY <1>2 DEF PaymentRefused
  <1> QED BY <1>1, <1>2

(* What a webhook holds once it has read the payment. *)
Begun(h, e, t) ==
    /\ hook' = [hook EXCEPT ![h] = t]
    /\ t.event = e /\ t.pays = FALSE /\ t.invites = FALSE
    /\ \/ t.pc = "flush" /\ t.payment = "succeeded"
       \/ t.pc = "commit" /\ t.payment \in {"keep", "failed"}
    /\ t.payment # "keep" => payment[e[2]] # "absent"

LEMMA HookBegins ==
    ASSUME NEW e \in Events, NEW h \in Hooks, HookBegin(h, e)
    PROVE  \E t \in Hook : Begun(h, e, t)
  <1> DEFINE pc == IF Outcome(e) = "succeeded" THEN "flush" ELSE "commit"
             t == [NoHook EXCEPT !.event = e, !.payment = Outcome(e), !.pc = pc]
  <1>1. /\ Outcome(e) \in {"keep", "succeeded", "failed"}
        /\ Outcome(e) # "keep" => payment[e[2]] # "absent"
    BY DEF Outcome
  <1>2. hook' = [hook EXCEPT ![h] = t]
    BY DEF HookBegin
  <1>3. t \in Hook BY <1>1 DEF NoHook, Hook
  <1>4. /\ t.event = e /\ t.pays = FALSE /\ t.invites = FALSE
        /\ t.pc = pc /\ t.payment = Outcome(e)
    BY DEF NoHook
  <1> QED BY <1>1, <1>2, <1>3, <1>4 DEF Begun

LEMMA HookTypes ==
    ASSUME TypeOK, Formed,
           \/ \E e \in Events : HookTake(e)
           \/ \E h \in Hooks : HookStep(h) \/ HookFails(h)
    PROVE  TypeOK' /\ Formed'
  <1> USE BillingAssumption, NothingInHand DEF db, outside
  <1>1. ASSUME NEW e \in Events, NEW h \in Hooks, HookBegin(h, e)
        PROVE  TypeOK' /\ Formed'
    <2>1. PICK t \in Hook : Begun(h, e, t) BY <1>1, HookBegins
    <2> QED BY <1>1, <2>1 DEF HookBegin, Begun, TypeOK, Formed
  <1>2. ASSUME NEW h \in Hooks, HookFlush(h) PROVE TypeOK' /\ Formed'
    BY <1>2 DEF HookFlush, TypeOK, Formed, Hook
  <1>3. ASSUME NEW h \in Hooks, HookOrder(h) PROVE TypeOK' /\ Formed'
    BY <1>3 DEF HookOrder, NotInvited, TypeOK, Formed, Hook
  <1>4. ASSUME NEW h \in Hooks, HookCommit(h) PROVE TypeOK' /\ Formed'
    <2>1. hook[h] \in Hook BY <1>4 DEF TypeOK
    <2>2. status' \in OrderStatus /\ invites' \in Nat
      BY <1>4 DEF HookCommit, TypeOK, OrderStatus
    <2>3. payment' \in [Attempts -> PaymentStatus]
      BY <1>4, <2>1 DEF HookCommit, TypeOK, Hook, PaymentStatus
    <2>4. recorded' \subseteq Events
      BY <1>4 DEF HookCommit, TypeOK, Formed
    <2>5. /\ hook' \in [Hooks -> Hook]
          /\ \A g \in Hooks : hook'[g] = hook[g] \/ hook'[g].pc = "idle"
      BY <1>4 DEF HookCommit, TypeOK, NoHook
    <2> QED BY <1>4, <2>2, <2>3, <2>4, <2>5 DEF HookCommit, TypeOK, Formed
  <1>5. ASSUME NEW h \in Hooks, HookFails(h) PROVE TypeOK' /\ Formed'
    <2>1. faults' \in 0..MaxFaults BY <1>5, FaultType DEF HookFails
    <2> QED BY <1>5, <2>1 DEF HookFails, RecordedAfterFailure, TypeOK, Formed, NoHook
  <1> QED BY <1>1, <1>2, <1>3, <1>4, <1>5 DEF HookTake, HookStep

LEMMA AdminTypes ==
    ASSUME TypeOK, Formed, NEW d \in Admins,
           \/ AdminStep(d) \/ AdminFails(d)
           \/ \E action \in DOMAIN Transitions : AdminLoad(d, action)
    PROVE  TypeOK' /\ Formed'
  <1> USE NothingInHand DEF db, outside, TypeOK, Formed
  <1>1. ASSUME NEW action \in DOMAIN Transitions, AdminLoad(d, action)
        PROVE  TypeOK' /\ Formed'
    BY <1>1 DEF AdminLoad, Transitions, Admin, OrderStatus
  <1>2. CASE AdminFlush(d) BY <1>2 DEF AdminFlush, NotInvited, Admin
  <1>3. CASE AdminCommit(d) BY <1>3 DEF AdminCommit, Admin
  <1>4. CASE AdminFails(d) BY <1>4, FaultType DEF AdminFails
  <1> QED BY <1>1, <1>2, <1>3, <1>4 DEF AdminStep

(* Every reachable state has the model's types. *)
THEOREM TypeCorrect == Spec => [](TypeOK /\ Formed)
  <1>1. Init => TypeOK /\ Formed
    <2> SUFFICES ASSUME Init PROVE TypeOK /\ Formed OBVIOUS
    <2>1. /\ status \in OrderStatus
          /\ payment \in [Attempts -> PaymentStatus]
          /\ stripe \in [Attempts -> StripeStatus] /\ lines \in [Attempts -> Nat]
      BY DEF Init, OrderStatus, PaymentStatus, StripeStatus
    <2>2. /\ job \in [Jobs -> Job] /\ hook \in [Hooks -> Hook]
          /\ admin \in [Admins -> Admin]
      BY NothingInHand DEF Init
    <2>3. /\ attempt \in 0..MaxAttempt /\ linked \in 0..MaxAttempt
          /\ faults \in 0..MaxFaults /\ queue \in [0..MaxRetries -> Nat]
      BY BillingAssumption DEF Init
    <2>4. Formed BY DEF Init, Formed, NoJob, NoHook
    <2> QED BY <2>1, <2>2, <2>3, <2>4 DEF Init, TypeOK
  <1>2. TypeOK /\ Formed /\ [Next]_vars => (TypeOK /\ Formed)'
    <2> SUFFICES ASSUME TypeOK, Formed, [Next]_vars PROVE TypeOK' /\ Formed'
      OBVIOUS
    <2>1. CASE UNCHANGED vars BY <2>1 DEF vars, TypeOK, Formed
    <2> QED
      BY <2>1, DeliveryTypes, JobTypes, TakeTypes, StripeTypes, HookTypes, AdminTypes
      DEF Next
  <1> QED BY <1>1, <1>2, PTL DEF Spec

-----------------------------------------------------------------------------
(* The course of the order *)

OnCourse == FirstAttempt /\ RowsTogether /\ Course /\ HookIsSound /\ SucceededMeansPaid

LEMMA DeliveryOnCourse ==
    ASSUME TypeOK, OnCourse,
           DeliverUnbilled \/ DeliverBilled \/ Enqueue \/ EnqueueFails \/ LoseQueue
    PROVE  OnCourse'
  <1> USE FirstIsAttempt
      DEF db, outside, TypeOK, OnCourse, NothingBilled, FirstAttempt, RowsTogether, Course,
          HookIsSound, SucceededMeansPaid
  <1>1. CASE DeliverUnbilled BY <1>1 DEF DeliverUnbilled
  <1>2. CASE DeliverBilled BY <1>2 DEF DeliverBilled
  <1>3. CASE Enqueue BY <1>3 DEF Enqueue
  <1>4. CASE EnqueueFails BY <1>4 DEF EnqueueFails
  <1>5. CASE LoseQueue BY <1>5 DEF LoseQueue
  <1> QED BY <1>1, <1>2, <1>3, <1>4, <1>5

LEMMA TakeOnCourse ==
    ASSUME TypeOK, OnCourse, NEW n \in 0..MaxRetries, JobTake(n)
    PROVE  OnCourse'
  <1> USE FirstIsAttempt
      DEF db, outside, TypeOK, OnCourse, NothingBilled, FirstAttempt, RowsTogether, Course,
          HookIsSound, SucceededMeansPaid
  <1>1. ASSUME NEW w \in Jobs, JobLoad(w, n) PROVE OnCourse'
    BY <1>1 DEF JobLoad, LoadGuard, NextAttempt
  <1>2. ASSUME NEW w \in Jobs, JobSkip(w, n) PROVE OnCourse'
    BY <1>2 DEF JobSkip
  <1> QED BY <1>1, <1>2 DEF JobTake

(* a step of the job that only calls Stripe, for the attempt it makes *)
LEMMA CallOnCourse ==
    ASSUME TypeOK, OnCourse, NEW w \in Jobs, job[w].pc # "idle",
           UNCHANGED <<db, delivering, queue, hook, admin>>,
           NEW t \in Job, t.attempt = 1, job' = [job EXCEPT ![w] = t],
           \A i \in Attempts \ {1} : stripe'[i] = stripe[i]
    PROVE  OnCourse'
  BY FirstIsAttempt
  DEF db, TypeOK, OnCourse, NothingBilled, FirstAttempt, RowsTogether, Course,
      HookIsSound, SucceededMeansPaid

(* one that fails, or whose message comes back *)
LEMMA EndOnCourse ==
    ASSUME TypeOK, OnCourse, NEW w \in Jobs, job[w].pc # "idle",
           UNCHANGED <<db, delivering, hook, admin>>,
           job' \in {job, [job EXCEPT ![w] = NoJob]},
           \A i \in Attempts \ {1} : stripe'[i] = stripe[i]
    PROVE  OnCourse'
  BY FirstIsAttempt
  DEF db, TypeOK, OnCourse, NothingBilled, FirstAttempt, RowsTogether, Course,
      HookIsSound, SucceededMeansPaid, NoJob

LEMMA JobOnCourse ==
    ASSUME TypeOK, Formed, OnCourse, NEW w \in Jobs, JobStep(w) \/ JobFails(w) \/ Redeliver(w)
    PROVE  OnCourse'
  <1> USE FirstIsAttempt DEF db, outside
  <1>1. job[w].pc # "idle" => job[w].attempt = 1
    BY DEF OnCourse, FirstAttempt
  <1>2. job[w] \in Job BY DEF TypeOK
  <1>3. CASE JobFlush(w)
    <2>1. 1 \in 0..MaxAttempt BY BillingAssumption
    <2>2. [job[w] EXCEPT !.pc = "create", !.attempt = 1] \in Job
      BY <1>2, <2>1 DEF Job, Calling
    <2>3. job' = [job EXCEPT ![w] = [job[w] EXCEPT !.pc = "create", !.attempt = 1]]
      BY <1>1, <1>3 DEF JobFlush, AttemptWritten
    <2>4. [job[w] EXCEPT !.pc = "create", !.attempt = 1].attempt = 1
      BY <1>2 DEF Job
    <2> QED BY <1>3, <2>2, <2>3, <2>4, CallOnCourse DEF JobFlush
  <1>4. ASSUME NEW pc \in Calling, job[w].pc # "idle", job' = [job EXCEPT ![w].pc = pc],
               UNCHANGED <<db, delivering, queue, hook, admin>>,
               \A i \in Attempts \ {1} : stripe'[i] = stripe[i]
        PROVE  OnCourse'
    <2>1. [job[w] EXCEPT !.pc = pc] \in Job BY <1>2, <1>4 DEF Job
    <2>2. job' = [job EXCEPT ![w] = [job[w] EXCEPT !.pc = pc]] BY <1>4
    <2> QED BY <1>1, <1>4, <2>1, <2>2, CallOnCourse DEF Job
  <1>5. CASE JobCreate(w)
    BY <1>1, <1>4, <1>5 DEF JobCreate, StripeCreate, TypeOK, Calling
  <1>6. CASE JobItem(w)
    <2> DEFINE t == [job[w] EXCEPT !.left = @ - 1,
                                   !.pc = IF LastItem(w) THEN "finalize" ELSE "item"]
    <2>1. job' = [job EXCEPT ![w] = t] BY <1>6 DEF JobItem
    <2>2. job[w].left > 0 BY <1>6 DEF JobItem, Formed
    <2>3. job[w].left - 1 \in 0..Items BY <1>2, <2>2, BillingAssumption DEF Job
    <2>4. t \in Job BY <1>2, <2>3 DEF Job, Calling
    <2>5. t.attempt = 1 BY <1>1, <1>2, <1>6 DEF JobItem, Job
    <2> HIDE DEF t
    <2> QED BY <1>6, <2>1, <2>4, <2>5, CallOnCourse DEF JobItem
  <1>7. CASE JobFinalize(w)
    BY <1>1, <1>4, <1>7 DEF JobFinalize, StripeFinalize, TypeOK, Calling
  <1>8. CASE JobSend(w)
    BY <1>1, <1>4, <1>8 DEF JobSend, StripeSend, TypeOK, Calling
  <1>9. CASE JobCommit(w)
    <2>1. /\ job[w].attempt = 1 /\ payment[1] = "absent" /\ ~ NothingBilled
          /\ status = "invoicing" /\ records = 0
      BY <1>1, <1>9
      DEF JobCommit, NothingBilled, TypeOK, OrderStatus, OnCourse, Course, RowsTogether
    <2>2. /\ status' = "invoiced" /\ linked' = 1 /\ records' = 1 /\ payment'[1] = "pending"
          /\ \A i \in Attempts \ {1} : payment'[i] = payment[i] /\ stripe'[i] = stripe[i]
          /\ \A v \in Jobs : job'[v] = job[v] \/ job'[v].pc = "idle"
          /\ UNCHANGED <<hook, admin>>
      BY <1>9, <2>1 DEF JobCommit, TypeOK, NoJob
    <2>3. FirstAttempt' /\ RowsTogether'
      BY <2>1, <2>2 DEF OnCourse, FirstAttempt, RowsTogether
    <2>4. \A d \in Admins : admin[d].pc = "idle"
      BY <2>1 DEF OnCourse, Course
    <2>5. Course' BY <2>2, <2>4 DEF Course
    <2>6. \A i \in Attempts : payment[i] = "absent"
      BY <2>1 DEF OnCourse, FirstAttempt
    <2>7. \A h \in Hooks : hook[h].payment = "keep"
      BY <2>6, EventAttempt DEF OnCourse, HookIsSound, Formed
    <2>8. HookIsSound' BY <2>2, <2>7 DEF OnCourse, HookIsSound
    <2>9. SucceededMeansPaid' BY <2>2, <2>6 DEF SucceededMeansPaid
    <2> QED BY <2>3, <2>5, <2>8, <2>9 DEF OnCourse
  <1>10. CASE JobRefused(w)
    BY <1>10, EndOnCourse DEF JobRefused, Refused, Retry, AttemptAfterFailure
  <1>11. CASE JobFails(w)
    <2>1. \A i \in Attempts \ {1} : stripe'[i] = stripe[i]
      BY <1>1, <1>11
      DEF JobFails, StripeCreate, StripeItem, StripeFinalize, StripeSend, TypeOK, Calling
    <2> QED
      BY <1>11, <2>1, EndOnCourse DEF JobFails, Retry, AttemptAfterFailure, Calling
  <1>12. CASE Redeliver(w)
    BY <1>12, EndOnCourse DEF Redeliver
  <1> QED
    BY <1>3, <1>5, <1>6, <1>7, <1>8, <1>9, <1>10, <1>11, <1>12 DEF JobStep

(* a webhook's step that writes nothing yet *)
LEMMA HookMoves ==
    ASSUME TypeOK, OnCourse, NEW h \in Hooks, NEW t \in Hook,
           hook' = [hook EXCEPT ![h] = t],
           UNCHANGED <<status, attempt, linked, payment, records, delivering, queue, job,
                       admin, stripe>>,
           t.pc \in {"flush", "order"} => t.payment = "succeeded",
           t.payment # "keep" => t.pc # "idle" /\ payment[t.event[2]] # "absent",
           t.pays => t.pc \in {"order", "commit"} /\ t.payment = "succeeded",
           t.pc \in {"order", "commit"} /\ t.payment = "succeeded" =>
               t.pays \/ status = "paid"
    PROVE  OnCourse'
  <1>1. FirstAttempt' /\ RowsTogether' /\ Course' /\ SucceededMeansPaid'
    BY DEF OnCourse, FirstAttempt, RowsTogether, Course, NothingBilled, SucceededMeansPaid
  <1>2. HookIsSound' BY DEF OnCourse, HookIsSound, TypeOK
  <1> QED BY <1>1, <1>2 DEF OnCourse

LEMMA HookOnCourse ==
    ASSUME TypeOK, Formed, OnCourse,
           \/ \E e \in Events : HookTake(e)
           \/ \E h \in Hooks : HookStep(h) \/ HookFails(h)
    PROVE  OnCourse'
  <1> USE FirstIsAttempt DEF db, outside
  <1>1. ASSUME NEW e \in Events, NEW h \in Hooks, HookBegin(h, e) PROVE OnCourse'
    <2>1. PICK t \in Hook : Begun(h, e, t) BY <1>1, HookBegins
    <2>2. UNCHANGED <<status, attempt, linked, payment, records, delivering, queue, job,
                       admin, stripe>>
      BY <1>1 DEF HookBegin
    <2>3. ~ t.pays /\ t.event = e /\ hook' = [hook EXCEPT ![h] = t]
      BY <2>1 DEF Begun
    <2>4. /\ t.pc \in {"flush", "order"} => t.payment = "succeeded"
          /\ t.payment # "keep" => t.pc # "idle" /\ payment[t.event[2]] # "absent"
          /\ ~ (t.pc \in {"order", "commit"} /\ t.payment = "succeeded")
      BY <2>1 DEF Begun
    <2> QED BY <2>2, <2>3, <2>4, HookMoves
  <1>2. ASSUME NEW h \in Hooks, HookFlush(h) PROVE OnCourse'
    <2> DEFINE t == [hook[h] EXCEPT !.pc = "order", !.pays = (status # "paid")]
    <2>1. t \in Hook /\ hook' = [hook EXCEPT ![h] = t]
      BY <1>2 DEF HookFlush, TypeOK, Hook
    <2>2. /\ t.pc = "order" /\ t.payment = "succeeded" /\ t.pays = (status # "paid")
          /\ payment[t.event[2]] # "absent"
      BY <1>2 DEF HookFlush, TypeOK, Hook, OnCourse, HookIsSound
    <2> HIDE DEF t
    <2>3. UNCHANGED <<status, attempt, linked, payment, records, delivering, queue, job,
                       admin, stripe>>
      BY <1>2 DEF HookFlush
    <2> QED BY <2>1, <2>2, <2>3, HookMoves
  <1>3. ASSUME NEW h \in Hooks, HookOrder(h) PROVE OnCourse'
    <2> DEFINE t == [hook[h] EXCEPT !.pc = "commit", !.invites = NotInvited]
    <2>1. t \in Hook /\ hook' = [hook EXCEPT ![h] = t]
      BY <1>3 DEF HookOrder, TypeOK, Hook, NotInvited
    <2>2. /\ t.pc = "commit" /\ t.payment = "succeeded"
          /\ t.pays \/ status = "paid"
          /\ payment[t.event[2]] # "absent"
      BY <1>3 DEF HookOrder, TypeOK, Hook, OnCourse, HookIsSound
    <2> HIDE DEF t
    <2>3. UNCHANGED <<status, attempt, linked, payment, records, delivering, queue, job,
                       admin, stripe>>
      BY <1>3 DEF HookOrder
    <2>4. /\ ~ (t.pc \in {"flush", "order"}) /\ t.pc # "idle"
          /\ t.pays => t.pc \in {"order", "commit"} /\ t.payment = "succeeded"
      BY <2>2
    <2> QED BY <2>1, <2>2, <2>3, <2>4, HookMoves
  <1>4. ASSUME NEW h \in Hooks, HookCommit(h) PROVE OnCourse'
    <2> DEFINE i == hook[h].event[2]
    <2>1. /\ hook[h] \in Hook /\ i \in Attempts
          /\ hook[h].payment # "keep" => payment[i] # "absent"
          /\ hook[h].pays => hook[h].payment = "succeeded"
          /\ hook[h].payment = "succeeded" => hook[h].pays \/ status = "paid"
      BY <1>4, EventAttempt DEF HookCommit, TypeOK, Formed, OnCourse, HookIsSound
    <2>2. /\ payment' \in [Attempts -> PaymentStatus]
          /\ \A j \in Attempts : (payment'[j] = "absent") = (payment[j] = "absent")
          /\ \A j \in Attempts : payment'[j] = "succeeded" =>
                payment[j] = "succeeded" \/ hook[h].payment = "succeeded"
      BY <1>4, <2>1 DEF HookCommit, TypeOK, Hook, PaymentStatus
    <2>3. /\ status' = status \/ status' = "paid"
          /\ hook[h].payment = "succeeded" => status' = "paid"
          /\ hook[h].pays => \E j \in Attempts : payment[j] # "absent"
      BY <1>4, <2>1 DEF HookCommit
    <2>4. UNCHANGED <<attempt, linked, records, delivering, queue, job, admin, stripe>>
      BY <1>4 DEF HookCommit
    <2>5. status' # status => status' = "paid" /\ ~ NothingBilled /\ payment[1] # "absent"
      BY <1>4, <2>1, <2>3 DEF HookCommit, NothingBilled, OnCourse, FirstAttempt
    <2>6. NothingBilled' = NothingBilled
      BY <2>2, <2>4 DEF NothingBilled
    <2>7. FirstAttempt' BY <2>2, <2>4, <2>5 DEF OnCourse, FirstAttempt
    <2>8. RowsTogether' BY <2>2, <2>4, <2>5 DEF OnCourse, RowsTogether
    <2>9. Course' BY <2>2, <2>4, <2>5, <2>6 DEF OnCourse, Course
    <2>10. \A g \in Hooks \ {h} : hook'[g] = hook[g]
      BY <1>4 DEF HookCommit, TypeOK
    <2>11. hook'[h] = NoHook BY <1>4 DEF HookCommit, TypeOK
    <2>12. HookIsSound'
      BY <2>2, <2>3, <2>10, <2>11, EventAttempt DEF OnCourse, HookIsSound, NoHook, Formed
    <2>13. SucceededMeansPaid' BY <2>2, <2>3 DEF OnCourse, SucceededMeansPaid
    <2> QED BY <2>7, <2>8, <2>9, <2>12, <2>13 DEF OnCourse
  <1>5. ASSUME NEW h \in Hooks, HookFails(h) PROVE OnCourse'
    <2>1. PICK t \in Hook : /\ hook' = [hook EXCEPT ![h] = t]
                            /\ t.pc = "idle" /\ t.payment = "keep" /\ ~ t.pays
      BY <1>5, NothingInHand DEF HookFails, NoHook
    <2>2. /\ ~ (t.pc \in {"flush", "order"}) /\ ~ (t.payment # "keep")
          /\ ~ (t.pc \in {"order", "commit"} /\ t.payment = "succeeded")
      BY <2>1
    <2>3. UNCHANGED <<status, attempt, linked, payment, records, delivering, queue, job,
                       admin, stripe>>
      BY <1>5 DEF HookFails
    <2> QED BY <2>1, <2>2, <2>3, HookMoves
  <1> QED BY <1>1, <1>2, <1>3, <1>4, <1>5 DEF HookTake, HookStep

LEMMA AdminOnCourse ==
    ASSUME TypeOK, Formed, OnCourse, NEW d \in Admins,
           \/ AdminStep(d) \/ AdminFails(d)
           \/ \E action \in DOMAIN Transitions : AdminLoad(d, action)
    PROVE  OnCourse'
  <1> USE FirstIsAttempt
      DEF db, outside, TypeOK, OnCourse, NothingBilled, FirstAttempt, RowsTogether, Course,
          HookIsSound, SucceededMeansPaid
  <1>1. ASSUME NEW action \in DOMAIN Transitions, AdminLoad(d, action)
        PROVE  OnCourse'
    BY <1>1 DEF AdminLoad, Transitions
  <1>2. CASE AdminFlush(d) BY <1>2 DEF AdminFlush
  <1>3. CASE AdminCommit(d)
    <2>1. /\ status \notin {"confirmed", "invoicing"}
          /\ status' \in {"invoiced", "paid"}
          /\ status' = "invoiced" => NothingBilled
          /\ payment[1] # "absent" \/ NothingBilled
      BY <1>3 DEF AdminCommit, OrderStatus
    <2>2. NothingBilled => NothingBilled' BY <1>3 DEF AdminCommit
    <2>3. FirstAttempt' /\ RowsTogether' BY <1>3, <2>1 DEF AdminCommit
    <2>4. Course' BY <1>3, <2>1, <2>2 DEF AdminCommit, NoAdmin
    <2>5. HookIsSound'
      BY <1>3, <2>1, EventAttempt DEF AdminCommit, Formed
    <2>6. SucceededMeansPaid' BY <1>3, <2>1 DEF AdminCommit
    <2> QED BY <2>3, <2>4, <2>5, <2>6
  <1>4. CASE AdminFails(d) BY <1>4 DEF AdminFails, NoAdmin
  <1> QED BY <1>1, <1>2, <1>3, <1>4 DEF AdminStep

(* The remaining steps write neither rows nor handlers. *)
LEMMA StripeOnCourse ==
    ASSUME TypeOK, OnCourse,
           \/ \E i \in Attempts : ClientPays(i)
           \/ \E e \in Events : PaymentRefused(e)
    PROVE  OnCourse'
  <1>1. /\ UNCHANGED <<db, delivering, queue, job, hook, admin>>
        /\ \A i \in Attempts \ {1} : stripe[i] = "absent" => stripe'[i] = "absent"
    BY DEF ClientPays, PaymentRefused, TypeOK
  <1> QED
    BY <1>1 DEF db, OnCourse, NothingBilled, FirstAttempt, RowsTogether, Course, HookIsSound,
                SucceededMeansPaid

LEMMA CourseHolds == Spec => [](TypeOK /\ Formed /\ OnCourse)
  <1>1. Init => OnCourse
    BY FirstIsAttempt
    DEF Init, OnCourse, FirstAttempt, RowsTogether, Course, NothingBilled, HookIsSound,
        SucceededMeansPaid, NoJob, NoHook, NoAdmin
  <1>2. TypeOK /\ Formed /\ OnCourse /\ [Next]_vars => OnCourse'
    <2> SUFFICES ASSUME TypeOK, Formed, OnCourse, [Next]_vars PROVE OnCourse'
      OBVIOUS
    <2>1. CASE UNCHANGED vars
      BY <2>1 DEF vars, OnCourse, FirstAttempt, RowsTogether, Course, NothingBilled,
                  HookIsSound, SucceededMeansPaid
    <2> QED
      BY <2>1, DeliveryOnCourse, JobOnCourse, TakeOnCourse, StripeOnCourse, HookOnCourse,
         AdminOnCourse
      DEF Next
  <1> QED BY <1>1, <1>2, TypeCorrect, PTL DEF Spec

(* OneInvoice: only the first attempt ever reaches Stripe, however often the *)
(* job is retried, redelivered or run by two workers at once.               *)
THEOREM InvoicedOnce == Spec => []OneInvoice
  <1>1. OnCourse => OneInvoice BY DEF OnCourse, FirstAttempt, OneInvoice
  <1> QED BY <1>1, CourseHolds, PTL

(* RecordedOnce: the accounting rows are added once, with their Payment.     *)
THEOREM RecordsComeOnce == Spec => []RecordedOnce
  <1>1. OnCourse => RecordedOnce
    <2> SUFFICES ASSUME OnCourse PROVE RecordedOnce OBVIOUS
    <2> DEFINE rows == {i \in Attempts : payment[i] # "absent"}
    <2>1. CASE payment[1] = "absent"
      <3>1. rows = {} BY <2>1 DEF OnCourse, FirstAttempt
      <3> QED BY <2>1, <3>1, FS_EmptySet DEF OnCourse, RowsTogether, RecordedOnce
    <2>2. CASE payment[1] # "absent"
      <3>1. rows = {1} BY <2>2, FirstIsAttempt DEF OnCourse, FirstAttempt
      <3>2. Cardinality(rows) = 1 BY <3>1, FS_Singleton
      <3> QED BY <2>2, <3>2 DEF OnCourse, RowsTogether, RecordedOnce
    <2> QED BY <2>1, <2>2
  <1> QED BY <1>1, CourseHolds, PTL

(* SucceededMeansPaid: what succeeded at Stripe is paid here and stays so.   *)
THEOREM PaidStaysPaid == Spec => []SucceededMeansPaid
  <1>1. OnCourse => SucceededMeansPaid BY DEF OnCourse
  <1> QED BY <1>1, CourseHolds, PTL

(* BilledGoesForward: neither a late job nor a stale transition takes the   *)
(* status of a billed order back.                                           *)
THEOREM BilledForward == Spec => BilledGoesForward
  <1>1. TypeOK /\ Formed /\ OnCourse /\ [Next]_vars =>
          [status = "invoicing" \/ linked # 0 => Rank[status'] >= Rank[status]]_vars
    <2> SUFFICES ASSUME TypeOK, Formed, OnCourse, Next,
                        status = "invoicing" \/ linked # 0
                 PROVE  Rank[status'] >= Rank[status]
      BY DEF vars
    <2>1. ASSUME status' = status PROVE Rank[status'] >= Rank[status]
      BY <2>1 DEF TypeOK, OrderStatus, Rank
    <2>2. ASSUME status' = "paid" PROVE Rank[status'] >= Rank[status]
      BY <2>2 DEF TypeOK, OrderStatus, Rank
    <2>3. status # "confirmed" /\ (linked # 0 => ~ NothingBilled)
      BY FirstIsAttempt DEF OnCourse, Course, RowsTogether, NothingBilled
    <2>4. ASSUME NEW w \in Jobs, JobCommit(w) PROVE Rank[status'] >= Rank[status]
      <3>1. status = "invoicing"
        BY <2>4, FirstIsAttempt
        DEF JobCommit, TypeOK, OrderStatus, OnCourse, FirstAttempt, Course, NothingBilled
      <3> QED BY <2>4, <3>1 DEF JobCommit, Rank
    <2>5. ASSUME NEW d \in Admins, AdminCommit(d) PROVE Rank[status'] >= Rank[status]
      BY <2>2, <2>3, <2>5 DEF AdminCommit, OnCourse, Course
    <2>6. ASSUME NEW h \in Hooks, HookCommit(h) PROVE Rank[status'] >= Rank[status]
      BY <2>1, <2>2, <2>6 DEF HookCommit
    <2>7. \/ UNCHANGED status
          \/ \E w \in Jobs : JobCommit(w)
          \/ \E h \in Hooks : HookCommit(h)
          \/ \E d \in Admins : AdminCommit(d)
      BY <2>3
      DEF Next, DeliverUnbilled, DeliverBilled, Enqueue, EnqueueFails, LoseQueue, JobTake,
          JobLoad, JobSkip, JobStep, JobFlush, JobCreate, JobItem, JobFinalize, JobSend,
          JobRefused, JobFails, Redeliver, ClientPays, PaymentRefused, HookTake, HookBegin,
          HookStep, HookFlush, HookOrder, HookFails, AdminStep, AdminFlush, AdminFails,
          AdminLoad, db
    <2> QED BY <2>1, <2>4, <2>5, <2>6, <2>7
  <1> QED BY <1>1, CourseHolds, PTL DEF Spec, BilledGoesForward
-----------------------------------------------------------------------------
(* The review invitation *)

Invited == OrderLockIsExclusive /\ InviterKnows /\ OneInvite

(* Handlers that are not at their commit, and a status that is not paid for *)
(* the first time, leave the invitation alone.                              *)
LEMMA OthersKeepInvited ==
    ASSUME Invited, UNCHANGED <<hook, admin, invites>>, status' # "paid" \/ status' = status
    PROVE  Invited'
  BY DEF Invited, OrderLockIsExclusive, InviterKnows, OneInvite, Holding

LEMMA HookKeepsInvited ==
    ASSUME TypeOK, OnCourse, Invited, NEW h \in Hooks, HookStep(h) \/ HookFails(h)
    PROVE  Invited'
  <1> USE DEF Invited, OrderLockIsExclusive, InviterKnows, OneInvite, Holding, db
  <1>1. CASE HookFlush(h)
    <2>1. hook[h].pc = "flush" /\ ~ hook[h].invites BY <1>1 DEF HookFlush
    <2>2. hook'[h].pc = "order" /\ ~ hook'[h].invites
      BY <1>1, <2>1 DEF HookFlush, TypeOK, Hook
    <2>3. \A g \in Hooks \ {h} : hook'[g] = hook[g] BY <1>1 DEF HookFlush, TypeOK
    <2>4. UNCHANGED <<status, invites, admin>> BY <1>1 DEF HookFlush
    <2> QED BY <2>1, <2>2, <2>3, <2>4
  <1>2. CASE HookOrder(h)
    <2>1. hook[h].pays \/ (status = "paid" /\ invites = 1)
      BY <1>2 DEF HookOrder, OnCourse, HookIsSound
    <2>2. /\ hook'[h].pc = "commit" /\ hook'[h].pays = hook[h].pays
          /\ (hook'[h].invites <=> invites = 0)
      BY <1>2 DEF HookOrder, NotInvited, TypeOK, Hook
    <2>3. \A g \in Hooks \ {h} : hook'[g] = hook[g] BY <1>2 DEF HookOrder, TypeOK
    <2>4. UNCHANGED <<status, invites, admin>> BY <1>2 DEF HookOrder
    <2>5. hook[h].pays => /\ \A g \in Hooks : ~ Holding(g)
                          /\ \A d \in Admins : admin[d].pc # "commit"
      BY <1>2 DEF HookOrder, OrderLocked
    <2> QED BY <2>1, <2>2, <2>3, <2>4, <2>5
  <1>3. CASE HookCommit(h)
    <2>1. /\ hook'[h].pc = "idle" /\ ~ hook'[h].invites
          /\ \A g \in Hooks \ {h} : hook'[g] = hook[g]
          /\ admin' = admin
      BY <1>3 DEF HookCommit, NoHook, TypeOK
    <2>2. CASE hook[h].pays
      <3>1. Holding(h) BY <1>3, <2>2 DEF HookCommit
      <3>2. status' = "paid" /\ invites' = 1
        BY <1>3, <2>2, <3>1 DEF HookCommit, TypeOK
      <3> QED BY <2>1, <3>1, <3>2
    <2>3. CASE ~ hook[h].pays
      <3>1. status' = status /\ invites' = invites BY <1>3, <2>3 DEF HookCommit
      <3> QED BY <2>1, <3>1
    <2> QED BY <2>2, <2>3
  <1>4. CASE HookFails(h)
    <2>1. /\ hook'[h].pc = "idle" /\ ~ hook'[h].invites
          /\ \A g \in Hooks \ {h} : hook'[g] = hook[g]
      BY <1>4 DEF HookFails, NoHook, TypeOK
    <2> QED BY <1>4, <2>1 DEF HookFails
  <1> QED BY <1>1, <1>2, <1>3, <1>4 DEF HookStep

LEMMA HookTakeKeepsInvited ==
    ASSUME TypeOK, Formed, OnCourse, Invited, NEW e \in Events, HookTake(e)
    PROVE  Invited'
  <1>1. PICK h \in Hooks : HookBegin(h, e) BY DEF HookTake
  <1>2. PICK t \in Hook : Begun(h, e, t) BY <1>1, HookBegins
  <1>3. /\ ~ hook'[h].pays /\ ~ hook'[h].invites
        /\ \A g \in Hooks \ {h} : hook'[g] = hook[g]
    BY <1>2 DEF Begun, TypeOK
  <1>4. UNCHANGED <<status, invites, admin>> BY <1>1 DEF HookBegin, db
  <1> QED
    BY <1>3, <1>4 DEF Invited, OrderLockIsExclusive, InviterKnows, OneInvite, Holding

LEMMA AdminKeepsInvited ==
    ASSUME TypeOK, OnCourse, Invited, NEW d \in Admins,
           \/ AdminStep(d) \/ AdminFails(d)
           \/ \E action \in DOMAIN Transitions : AdminLoad(d, action)
    PROVE  Invited'
  <1> USE DEF Invited, OrderLockIsExclusive, InviterKnows, OneInvite, Holding, db
  <1>1. ASSUME NEW action \in DOMAIN Transitions, AdminLoad(d, action)
        PROVE  Invited'
    <2>1. /\ admin'[d].pc = "loaded" /\ ~ admin'[d].invites
          /\ \A c \in Admins \ {d} : admin'[c] = admin[c]
      BY <1>1 DEF AdminLoad, TypeOK
    <2> QED BY <1>1, <2>1 DEF AdminLoad
  <1>2. CASE AdminFlush(d)
    <2>1. /\ admin'[d].pc = "commit" /\ admin'[d].to = admin[d].to
          /\ (admin'[d].invites <=> admin[d].to = "paid" /\ invites = 0)
          /\ \A c \in Admins \ {d} : admin'[c] = admin[c]
      BY <1>2 DEF AdminFlush, NotInvited, TypeOK, Admin
    <2>2. /\ \A g \in Hooks : ~ Holding(g)
          /\ \A c \in Admins : admin[c].pc # "commit"
      BY <1>2 DEF AdminFlush, OrderLocked
    <2>3. UNCHANGED <<status, invites, hook>> BY <1>2 DEF AdminFlush
    <2> QED BY <2>1, <2>2, <2>3
  <1>3. CASE AdminCommit(d)
    <2>1. /\ admin'[d].pc = "idle" /\ ~ admin'[d].invites
          /\ \A c \in Admins \ {d} : admin'[c] = admin[c]
          /\ hook' = hook
      BY <1>3 DEF AdminCommit, NoAdmin, TypeOK
    <2>2. /\ admin[d].pc = "commit" /\ status' = admin[d].to
          /\ invites' = IF admin[d].invites THEN invites + 1 ELSE invites
      BY <1>3 DEF AdminCommit
    <2>3. /\ status' = "paid" => invites' = 1
          /\ status' # "paid" => invites' = invites
      BY <2>2 DEF TypeOK
    <2>4. /\ \A g \in Hooks : ~ Holding(g)
          /\ \A c \in Admins \ {d} : admin[c].pc # "commit"
      BY <2>2
    <2> QED BY <2>1, <2>3, <2>4
  <1>4. CASE AdminFails(d)
    <2>1. /\ admin'[d].pc = "idle" /\ ~ admin'[d].invites
          /\ \A c \in Admins \ {d} : admin'[c] = admin[c]
      BY <1>4 DEF AdminFails, NoAdmin, TypeOK
    <2> QED BY <1>4, <2>1 DEF AdminFails
  <1> QED BY <1>1, <1>2, <1>3, <1>4 DEF AdminStep

(* Whoever is to send an invitation holds the order's row from the moment   *)
(* it saw that there was none.                                              *)
LEMMA InvitedHolds == Spec => []Invited
  <1>1. Init => Invited
    BY DEF Init, Invited, OrderLockIsExclusive, InviterKnows, OneInvite, Holding, NoHook,
           NoAdmin
  <1>2. TypeOK /\ Formed /\ OnCourse /\ Invited /\ [Next]_vars => Invited'
    <2> SUFFICES ASSUME TypeOK, Formed, OnCourse, Invited, [Next]_vars PROVE Invited'
      OBVIOUS
    <2>1. CASE UNCHANGED vars BY <2>1, OthersKeepInvited DEF vars
    <2>2. ASSUME DeliverUnbilled \/ DeliverBilled \/ Enqueue \/ EnqueueFails \/ LoseQueue
          PROVE  Invited'
      BY <2>2, OthersKeepInvited
      DEF DeliverUnbilled, DeliverBilled, Enqueue, EnqueueFails, LoseQueue, db
    <2>3. ASSUME NEW n \in 0..MaxRetries, JobTake(n) PROVE Invited'
      BY <2>3, OthersKeepInvited DEF JobTake, JobLoad, JobSkip, db
    <2>4. ASSUME NEW w \in Jobs, JobStep(w) \/ JobFails(w) \/ Redeliver(w)
          PROVE  Invited'
      BY <2>4, OthersKeepInvited
      DEF JobStep, JobFlush, JobCreate, JobItem, JobFinalize, JobSend, JobCommit,
          JobRefused, JobFails, Redeliver, db
    <2>5. ASSUME (\E i \in Attempts : ClientPays(i)) \/ \E e \in Events : PaymentRefused(e)
          PROVE  Invited'
      BY <2>5, OthersKeepInvited DEF ClientPays, PaymentRefused, db
    <2> QED
      BY <2>1, <2>2, <2>3, <2>4, <2>5, HookKeepsInvited, HookTakeKeepsInvited,
         AdminKeepsInvited
      DEF Next
  <1> QED BY <1>1, <1>2, CourseHolds, PTL DEF Spec

(* OneInvite: the webhook and the administrator look for an earlier         *)
(* invitation with the order's row locked, so the client gets exactly one.  *)
THEOREM InvitedOnce == Spec => []OneInvite
  <1>1. Invited => OneInvite BY DEF Invited
  <1> QED BY <1>1, InvitedHolds, PTL

-----------------------------------------------------------------------------
(* The settlement *)

Sound == SentAndRecorded /\ PayFormIsBilled

(* What Stripe is asked to do, it does to the one invoice there is.         *)
LEMMA JobMovesStripe ==
    ASSUME TypeOK, OnCourse, NEW w \in Jobs, JobStep(w) \/ JobFails(w)
    PROVE  \/ stripe' = stripe
           \/ /\ job[w].pc \in Calling /\ UNCHANGED <<status, payment, invites>>
              /\ \/ stripe[1] = "absent" /\ stripe' = [stripe EXCEPT ![1] = "draft"]
                 \/ stripe[1] = "draft" /\ stripe' = [stripe EXCEPT ![1] = "open"]
                 \/ stripe[1] = "open" /\ stripe' = [stripe EXCEPT ![1] = "sent"]
  <1> USE DEF Calling, db, outside, StripeCreate, StripeItem, StripeFinalize, StripeSend
  <1>1. job[w].pc # "idle" => job[w].attempt = 1 BY DEF OnCourse, FirstAttempt
  <1>2. CASE JobFails(w)
    <2>1. job[w].pc # "idle" /\ job[w].attempt = 1 BY <1>1, <1>2 DEF JobFails
    <2> QED BY <1>2, <2>1 DEF JobFails
  <1>3. CASE JobCreate(w) BY <1>1, <1>3 DEF JobCreate
  <1>4. CASE JobFinalize(w) BY <1>1, <1>4 DEF JobFinalize
  <1>5. CASE JobSend(w) BY <1>1, <1>5 DEF JobSend
  <1>6. CASE JobFlush(w) \/ JobItem(w) \/ JobCommit(w) \/ JobRefused(w)
    BY <1>6 DEF JobFlush, JobItem, JobCommit, JobRefused
  <1> QED BY <1>2, <1>3, <1>4, <1>5, <1>6 DEF JobStep

(* A job at work is invoicing, or another one has done it.                  *)
LEMMA JobsInvoice ==
    ASSUME TypeOK, OnCourse, NEW w \in Jobs, job[w].pc # "idle"
    PROVE  status = "invoicing" \/ payment[1] # "absent"
  BY DEF TypeOK, OrderStatus, OnCourse, Course, NothingBilled

LEMMA JobKeepsSound ==
    ASSUME TypeOK, OnCourse, Sound, NEW w \in Jobs, JobStep(w) \/ JobFails(w)
    PROVE  Sound'
  <1> USE FirstIsAttempt DEF Sound, SentAndRecorded, PayFormIsBilled
  <1>1. CASE JobCommit(w)
    <2>1. job[w].attempt = 1 /\ stripe[1] \in {"sent", "paid"}
      BY <1>1 DEF JobCommit, OnCourse, FirstAttempt
    <2>2. /\ status' = "invoiced" /\ payment'[1] = "pending" /\ stripe' = stripe
          /\ job' = [job EXCEPT ![w] = NoJob] /\ admin' = admin
      BY <1>1, <2>1 DEF JobCommit, TypeOK, outside
    <2>3. \A v \in Jobs : job'[v].pc = "commit" => stripe[1] \in {"sent", "paid"}
      BY <2>1
    <2> QED BY <2>1, <2>2, <2>3
  <1>2. CASE ~ JobCommit(w)
    <2>1. UNCHANGED <<status, payment, admin>>
      BY <1>2
      DEF JobStep, JobFlush, JobCreate, JobItem, JobFinalize, JobSend, JobRefused, JobFails, db
    <2>2. \A v \in Jobs : job'[v].pc = "commit" => job[v].pc = "commit" \/ stripe'[1] = "sent"
      <3>1. CASE JobSend(w)
        <4>1. job[w].attempt = 1 BY <3>1 DEF JobSend, OnCourse, FirstAttempt
        <4> QED BY <3>1, <4>1 DEF JobSend, StripeSend, TypeOK
      <3>2. CASE JobFlush(w) \/ JobCreate(w) \/ JobItem(w) \/ JobFinalize(w)
        <4>1. PICK r : job' = [job EXCEPT ![w] = r] /\ r.pc # "commit"
          BY <3>2 DEF JobFlush, JobCreate, JobItem, JobFinalize, TypeOK, Job
        <4> QED BY <4>1 DEF TypeOK
      <3>3. CASE JobRefused(w) \/ JobFails(w)
        BY <3>3 DEF JobRefused, JobFails, Retry, NoJob, TypeOK
      <3> QED BY <1>2, <3>1, <3>2, <3>3 DEF JobStep
    <2>3. stripe[1] \in {"sent", "paid"} => stripe'[1] \in {"sent", "paid"}
      BY JobMovesStripe
    <2>4. stripe'[1] # "absent" => status = "invoicing" \/ payment[1] # "absent"
      <3>1. CASE stripe' = stripe BY <3>1
      <3>2. CASE stripe' # stripe
        <4>1. job[w].pc # "idle" BY <3>2, JobMovesStripe DEF Calling
        <4> QED BY <4>1, JobsInvoice
      <3> QED BY <3>1, <3>2
    <2> QED BY <2>1, <2>2, <2>3, <2>4
  <1> QED BY <1>1, <1>2

LEMMA HookKeepsSound ==
    ASSUME TypeOK, Formed, OnCourse, Sound, NEW h \in Hooks, HookStep(h) \/ HookFails(h)
    PROVE  Sound'
  <1> USE FirstIsAttempt DEF Sound, SentAndRecorded, PayFormIsBilled
  <1>1. UNCHANGED <<job, admin, stripe>>
    BY DEF HookStep, HookFlush, HookOrder, HookCommit, HookFails, outside
  <1>2. payment'[1] # "absent" <=> payment[1] # "absent"
    <2>1. CASE HookCommit(h)
      <3>1. CASE hook[h].payment = "keep" BY <2>1, <3>1 DEF HookCommit
      <3>2. CASE hook[h].payment # "keep"
        <4>1. hook[h].payment \in {"succeeded", "failed"} BY <3>2 DEF TypeOK, Hook
        <4>2. payment[hook[h].event[2]] # "absent"
          BY <3>2 DEF OnCourse, HookIsSound
        <4>3. payment' = [payment EXCEPT ![hook[h].event[2]] = hook[h].payment]
          BY <2>1, <3>2 DEF HookCommit
        <4> QED BY <4>1, <4>2, <4>3 DEF TypeOK
      <3> QED BY <3>1, <3>2
    <2>2. CASE ~ HookCommit(h)
      BY <2>2 DEF HookStep, HookFlush, HookOrder, HookFails, db
    <2> QED BY <2>1, <2>2
  <1>3. status' = status \/ (status' = "paid" /\ payment[1] # "absent")
    <2>1. CASE HookCommit(h) /\ hook[h].pays
      <3>1. hook[h].event[2] \in Attempts /\ payment[hook[h].event[2]] # "absent"
        BY <2>1, EventAttempt DEF HookCommit, OnCourse, HookIsSound, Formed
      <3>2. payment[1] # "absent" BY <3>1 DEF OnCourse, FirstAttempt
      <3> QED BY <2>1, <3>2 DEF HookCommit
    <2>2. CASE ~ (HookCommit(h) /\ hook[h].pays)
      BY <2>2 DEF HookStep, HookFlush, HookOrder, HookCommit, HookFails, db
    <2> QED BY <2>1, <2>2
  <1> QED BY <1>1, <1>2, <1>3

LEMMA AdminKeepsSound ==
    ASSUME TypeOK, OnCourse, Sound, NEW d \in Admins,
           \/ AdminStep(d) \/ AdminFails(d)
           \/ \E action \in DOMAIN Transitions : AdminLoad(d, action)
    PROVE  Sound'
  <1> USE DEF Sound, SentAndRecorded, PayFormIsBilled
  <1>1. UNCHANGED <<job, stripe, payment>>
    BY DEF AdminStep, AdminFlush, AdminCommit, AdminFails, AdminLoad, db, outside
  <1>2. ASSUME NEW action \in DOMAIN Transitions, AdminLoad(d, action) PROVE Sound'
    <2>1. /\ status' = status
          /\ admin'[d].to = "paid" => status = "invoiced"
          /\ \A c \in Admins \ {d} : admin'[c] = admin[c]
      BY <1>2 DEF AdminLoad, Transitions, TypeOK, db
    <2> QED BY <1>1, <2>1
  <1>3. CASE AdminFlush(d) \/ AdminFails(d)
    <2>1. /\ status' = status
          /\ \A c \in Admins : admin'[c].pc # "idle" =>
                admin[c].pc # "idle" /\ admin'[c].to = admin[c].to
      <3>1. CASE AdminFlush(d)
        <4>1. /\ admin'[d].to = admin[d].to /\ admin[d].pc = "loaded"
              /\ \A c \in Admins \ {d} : admin'[c] = admin[c]
          BY <3>1 DEF AdminFlush, TypeOK, Admin
        <4> QED BY <3>1, <4>1 DEF AdminFlush, db
      <3>2. CASE AdminFails(d)
        <4>1. admin'[d].pc = "idle" /\ \A c \in Admins \ {d} : admin'[c] = admin[c]
          BY <3>2 DEF AdminFails, NoAdmin, TypeOK
        <4> QED BY <3>2, <4>1 DEF AdminFails, db
      <3> QED BY <1>3, <3>1, <3>2
    <2> QED BY <1>1, <2>1
  <1>4. CASE AdminCommit(d)
    <2>1. /\ status' = admin[d].to /\ admin[d].pc = "commit"
          /\ admin' = [admin EXCEPT ![d] = NoAdmin]
      BY <1>4 DEF AdminCommit
    <2>2. admin[d].to \in {"invoiced", "paid"} /\ status # "invoicing"
      BY <2>1 DEF OnCourse, Course
    <2>3. \A c \in Admins : admin'[c].pc # "idle" => admin'[c] = admin[c]
      BY <2>1 DEF NoAdmin, TypeOK
    <2> QED BY <1>1, <2>1, <2>2, <2>3
  <1> QED BY <1>2, <1>3, <1>4 DEF AdminStep

LEMMA SoundHolds == Spec => []Sound
  <1>1. Init => Sound
    BY FirstIsAttempt DEF Init, Sound, SentAndRecorded, PayFormIsBilled, NoJob, NoAdmin
  <1>2. TypeOK /\ Formed /\ OnCourse /\ Sound /\ [Next]_vars => Sound'
    <2> SUFFICES ASSUME TypeOK, Formed, OnCourse, Sound, [Next]_vars PROVE Sound'
      OBVIOUS
    <2>1. CASE UNCHANGED vars
      BY <2>1 DEF vars, Sound, SentAndRecorded, PayFormIsBilled
    <2>2. ASSUME DeliverUnbilled \/ DeliverBilled PROVE Sound'
      BY <2>2, FirstIsAttempt
      DEF DeliverUnbilled, DeliverBilled, outside, Sound, SentAndRecorded, PayFormIsBilled,
          OnCourse, Course, NothingBilled
    <2>3. ASSUME Enqueue \/ EnqueueFails \/ LoseQueue \/ \E e \in Events : PaymentRefused(e)
          PROVE  Sound'
      BY <2>3
      DEF Enqueue, EnqueueFails, LoseQueue, PaymentRefused, db, outside, Sound,
          SentAndRecorded, PayFormIsBilled
    <2>4. ASSUME NEW n \in 0..MaxRetries, JobTake(n) PROVE Sound'
      BY <2>4
      DEF JobTake, JobLoad, JobSkip, db, outside, Sound, SentAndRecorded, PayFormIsBilled,
          TypeOK
    <2>5. ASSUME NEW w \in Jobs, Redeliver(w) PROVE Sound'
      BY <2>5
      DEF Redeliver, NoJob, db, outside, Sound, SentAndRecorded, PayFormIsBilled, TypeOK
    <2>6. ASSUME NEW i \in Attempts, ClientPays(i) PROVE Sound'
      <3>1. i = 1 BY <2>6 DEF ClientPays, OnCourse, FirstAttempt
      <3> QED
        BY <2>6, <3>1 DEF ClientPays, db, Sound, SentAndRecorded, PayFormIsBilled, TypeOK
    <2>7. ASSUME NEW e \in Events, HookTake(e) PROVE Sound'
      <3>1. UNCHANGED <<status, payment, stripe, job, admin>>
        BY <2>7 DEF HookTake, HookBegin, db, outside
      <3> QED BY <3>1 DEF Sound, SentAndRecorded, PayFormIsBilled
    <2> QED
      BY <2>1, <2>2, <2>3, <2>4, <2>5, <2>6, <2>7, JobKeepsSound, HookKeepsSound,
         AdminKeepsSound
      DEF Next
  <1> QED BY <1>1, <1>2, TypeCorrect, CourseHolds, PTL DEF Spec

(* Inductive: every job, webhook and administrator knows no more than what  *)
(* the invoice rows, Stripe and the order say, whatever was retried or lost.*)
THEOREM InductiveHolds == Spec => []Inductive
  <1>1. Formed /\ OnCourse /\ Invited /\ Sound => Inductive
    BY DEF OnCourse, Invited, Sound, Inductive
  <1> QED BY <1>1, TypeCorrect, CourseHolds, InvitedHolds, SoundHolds, PTL

-----------------------------------------------------------------------------
(* The refinement *)

SentOf(st) == {i \in Attempts : st[i] \in {"sent", "paid"}}
PaidOf(st) == {i \in Attempts : st[i] = "paid"}
BookedOf(p) == {i \in Attempts : p[i] # "absent"}

(* The settlement's variables, and what leaves them alone.                  *)
LEMMA SettlementStutters ==
    ASSUME status' = status, invites' = invites,
           SentOf(stripe') = SentOf(stripe), PaidOf(stripe') = PaidOf(stripe),
           BookedOf(payment') = BookedOf(payment)
    PROVE  UNCHANGED Billed!vars
  BY DEF Billed!vars, SentOf, PaidOf, BookedOf

(* A step of the job: Stripe sends the claim, the claim is booked, or       *)
(* nothing the parties see.                                                 *)
LEMMA JobSettles ==
    ASSUME TypeOK, OnCourse, Sound, Invited, NEW w \in Jobs, JobStep(w) \/ JobFails(w)
    PROVE  [Billed!Next]_(Billed!vars)
  <1> USE FirstIsAttempt
  <1>0. \A i \in Attempts \ {1} : stripe[i] = "absent" /\ payment[i] = "absent"
    BY DEF OnCourse, FirstAttempt
  <1>1. CASE JobCommit(w)
    <2>1. job[w].pc = "commit" /\ job[w].attempt = 1
      BY <1>1 DEF JobCommit, OnCourse, FirstAttempt
    <2>2. /\ payment[1] = "absent" /\ status' = "invoiced" /\ stripe' = stripe
          /\ payment' = [payment EXCEPT ![1] = "pending"] /\ invites' = invites
      BY <1>1, <2>1 DEF JobCommit, outside
    <2>3. status = "invoicing" BY <2>1, <2>2, JobsInvoice
    <2>4. stripe[1] \in {"sent", "paid"} BY <2>1 DEF Sound, SentAndRecorded
    <2>5. 1 \in SentOf(stripe) BY <2>4 DEF SentOf
    <2>6. BookedOf(payment) = {} /\ BookedOf(payment') = {1}
      BY <1>0, <2>2 DEF BookedOf, TypeOK
    <2>7. Billed!Book(1)
      BY <2>2, <2>3, <2>5, <2>6 DEF Billed!Book, SentOf, BookedOf, Stage
    <2> QED BY <2>7 DEF Billed!Next
  <1>2. CASE ~ JobCommit(w)
    <2>1. UNCHANGED <<status, payment, invites>>
      BY <1>2
      DEF JobStep, JobFlush, JobCreate, JobItem, JobFinalize, JobSend, JobRefused, JobFails, db
    <2>2. CASE stripe[1] = "open" /\ stripe' = [stripe EXCEPT ![1] = "sent"]
                  /\ job[w].pc \in Calling
      <3>1. status = "invoicing"
        <4>1. payment[1] = "absent" BY <2>2 DEF Sound, SentAndRecorded
        <4> QED BY <2>2, <4>1 DEF Sound, SentAndRecorded
      <3>2. SentOf(stripe) = {} /\ SentOf(stripe') = {1}
        BY <1>0, <2>2 DEF SentOf, TypeOK
      <3>3. PaidOf(stripe') = PaidOf(stripe) BY <2>2 DEF PaidOf, TypeOK
      <3>4. Billed!Send(1)
        BY <2>1, <3>1, <3>2, <3>3 DEF Billed!Send, SentOf, PaidOf, Stage
      <3> QED BY <3>4 DEF Billed!Next
    <2>3. CASE \/ stripe' = stripe
               \/ stripe[1] = "absent" /\ stripe' = [stripe EXCEPT ![1] = "draft"]
               \/ stripe[1] = "draft" /\ stripe' = [stripe EXCEPT ![1] = "open"]
      <3>1. SentOf(stripe') = SentOf(stripe) /\ PaidOf(stripe') = PaidOf(stripe)
        BY <2>3 DEF SentOf, PaidOf, TypeOK
      <3> QED BY <2>1, <3>1, SettlementStutters
    <2> QED BY <2>2, <2>3, JobMovesStripe
  <1> QED BY <1>1, <1>2

(* A webhook that pays the order settles it.                                *)
LEMMA HookSettles ==
    ASSUME TypeOK, Formed, OnCourse, Sound, Invited,
           NEW h \in Hooks, HookStep(h) \/ HookFails(h)
    PROVE  [Billed!Next]_(Billed!vars)
  <1>1. stripe' = stripe
    BY DEF HookStep, HookFlush, HookOrder, HookCommit, HookFails, outside
  <1>2. CASE HookCommit(h)
    <2>1. BookedOf(payment') = BookedOf(payment)
      <3>1. CASE hook[h].payment = "keep" BY <1>2, <3>1 DEF HookCommit
      <3>2. CASE hook[h].payment # "keep"
        <4>1. hook[h].payment \in {"succeeded", "failed"} BY <3>2 DEF TypeOK, Hook
        <4>2. payment[hook[h].event[2]] # "absent"
          BY <3>2 DEF OnCourse, HookIsSound
        <4>3. payment' = [payment EXCEPT ![hook[h].event[2]] = hook[h].payment]
          BY <1>2, <3>2 DEF HookCommit
        <4> QED BY <4>1, <4>2, <4>3 DEF TypeOK, BookedOf
      <3> QED BY <3>1, <3>2
    <2>2. CASE hook[h].pays
      <3>1. hook[h].event[2] \in Attempts /\ payment[hook[h].event[2]] # "absent"
        BY <1>2, <2>2, EventAttempt DEF HookCommit, OnCourse, HookIsSound, Formed
      <3>2. payment[1] # "absent" BY <3>1 DEF OnCourse, FirstAttempt
      <3>3. status \in {"invoiced", "paid"}
        BY <3>2, FirstIsAttempt
        DEF OnCourse, RowsTogether, Course, NothingBilled, TypeOK, OrderStatus
      <3>4. status' = "paid" /\ invites' = 1
        <4>1. Holding(h) BY <1>2, <2>2 DEF HookCommit, Holding
        <4>2. hook[h].invites <=> invites = 0 BY <4>1 DEF Invited, InviterKnows
        <4>3. invites \in {0, 1} BY DEF Invited, OneInvite, TypeOK
        <4> QED BY <1>2, <2>2, <4>2, <4>3 DEF HookCommit
      <3>5. Billed!Settle
        BY <1>1, <2>1, <3>3, <3>4 DEF Billed!Settle, BookedOf, Stage
      <3> QED BY <3>5 DEF Billed!Next
    <2>3. CASE ~ hook[h].pays
      <3>1. ~ hook[h].invites BY <2>3 DEF Invited, InviterKnows, Holding
      <3>2. status' = status /\ invites' = invites BY <1>2, <2>3, <3>1 DEF HookCommit
      <3> QED BY <1>1, <2>1, <3>2, SettlementStutters
    <2> QED BY <2>2, <2>3
  <1>3. CASE ~ HookCommit(h)
    <2>1. UNCHANGED <<status, payment, invites>>
      BY <1>3 DEF HookStep, HookFlush, HookOrder, HookFails, db
    <2> QED BY <1>1, <2>1, SettlementStutters
  <1> QED BY <1>2, <1>3

(* An administrator bills an order without a claim, or settles one.         *)
LEMMA AdminSettles ==
    ASSUME TypeOK, OnCourse, Sound, Invited, NEW d \in Admins,
           \/ AdminStep(d) \/ AdminFails(d)
           \/ \E action \in DOMAIN Transitions : AdminLoad(d, action)
    PROVE  [Billed!Next]_(Billed!vars)
  <1>1. stripe' = stripe /\ payment' = payment
    BY DEF AdminStep, AdminFlush, AdminCommit, AdminFails, AdminLoad, db, outside
  <1>2. CASE AdminCommit(d)
    <2>1. /\ admin[d].pc = "commit" /\ status' = admin[d].to
          /\ invites' = IF admin[d].invites THEN invites + 1 ELSE invites
      BY <1>2 DEF AdminCommit
    <2>2. CASE admin[d].to = "invoiced"
      <3>1. NothingBilled /\ status \in {"delivered", "invoiced", "paid"}
        BY <2>1, <2>2 DEF OnCourse, Course, TypeOK, OrderStatus
      <3>2. stripe[1] = "absent"
        BY <3>1, FirstIsAttempt DEF NothingBilled, Sound, SentAndRecorded
      <3>3. SentOf(stripe) = {} BY <3>2 DEF SentOf, OnCourse, FirstAttempt
      <3>4. invites' = invites
        <4>1. ~ admin[d].invites BY <2>2 DEF Invited, InviterKnows
        <4> QED BY <2>1, <4>1
      <3>5. Billed!BillByHand
        BY <1>1, <2>1, <2>2, <3>1, <3>3, <3>4 DEF Billed!BillByHand, SentOf, Stage
      <3> QED BY <3>5 DEF Billed!Next
    <2>3. CASE admin[d].to = "paid"
      <3>1. status \in {"invoiced", "paid"} BY <2>1, <2>3 DEF Sound, PayFormIsBilled
      <3>2. invites' = 1
        <4>1. admin[d].invites <=> invites = 0
          BY <2>1, <2>3 DEF Invited, InviterKnows
        <4>2. invites \in {0, 1} BY DEF Invited, OneInvite, TypeOK
        <4> QED BY <2>1, <4>1, <4>2
      <3>3. Billed!Settle
        BY <1>1, <2>1, <2>3, <3>1, <3>2 DEF Billed!Settle, Stage
      <3> QED BY <3>3 DEF Billed!Next
    <2> QED BY <2>1, <2>2, <2>3 DEF OnCourse, Course
  <1>3. CASE ~ AdminCommit(d)
    <2>1. UNCHANGED <<status, invites>>
      BY <1>3 DEF AdminStep, AdminFlush, AdminFails, AdminLoad, db
    <2> QED BY <1>1, <2>1, SettlementStutters
  <1> QED BY <1>2, <1>3

(* ImplementsSettlement: jobs that are retried, redelivered and run twice,  *)
(* webhooks that repeat and overlap, stale forms, and whatever dies in      *)
(* between: the parties see one claim sent, booked once, and settled.       *)
THEOREM BillingImplementsSettlement == Spec => ImplementsSettlement
  <1>1. Init => Billed!Init
    BY DEF Init, Billed!Init, Stage
  <1>2. TypeOK /\ Formed /\ OnCourse /\ Invited /\ Sound /\ [Next]_vars
          => [Billed!Next]_(Billed!vars)
    <2> SUFFICES ASSUME TypeOK, Formed, OnCourse, Invited, Sound, [Next]_vars
                 PROVE  [Billed!Next]_(Billed!vars)
      OBVIOUS
    <2>1. CASE UNCHANGED vars BY <2>1, SettlementStutters DEF vars
    <2>2. CASE DeliverUnbilled \/ DeliverBilled
      <3>1. Billed!Deliver
        BY <2>2 DEF DeliverUnbilled, DeliverBilled, outside, Billed!Deliver, Stage
      <3> QED BY <3>1 DEF Billed!Next
    <2>3. ASSUME Enqueue \/ EnqueueFails \/ LoseQueue
          PROVE  [Billed!Next]_(Billed!vars)
      BY <2>3, SettlementStutters DEF Enqueue, EnqueueFails, LoseQueue, db, outside
    <2>4. ASSUME NEW n \in 0..MaxRetries, JobTake(n) PROVE [Billed!Next]_(Billed!vars)
      BY <2>4, SettlementStutters DEF JobTake, JobLoad, JobSkip, db, outside
    <2>5. ASSUME NEW w \in Jobs, Redeliver(w) PROVE [Billed!Next]_(Billed!vars)
      BY <2>5, SettlementStutters DEF Redeliver, db, outside
    <2>6. ASSUME NEW i \in Attempts, ClientPays(i) PROVE [Billed!Next]_(Billed!vars)
      <3>1. SentOf(stripe') = SentOf(stripe) /\ PaidOf(stripe') = PaidOf(stripe) \cup {i}
        BY <2>6 DEF ClientPays, SentOf, PaidOf, TypeOK
      <3>2. i \in SentOf(stripe) \ PaidOf(stripe)
        BY <2>6 DEF ClientPays, SentOf, PaidOf
      <3>3. Billed!Pay(i)
        BY <2>6, <3>1, <3>2 DEF ClientPays, db, SentOf, PaidOf, Billed!Pay
      <3> QED BY <3>3 DEF Billed!Next
    <2>7. ASSUME NEW e \in Events, PaymentRefused(e) \/ HookTake(e)
          PROVE  [Billed!Next]_(Billed!vars)
      BY <2>7, SettlementStutters DEF PaymentRefused, HookTake, HookBegin, db, outside
    <2> QED
      BY <2>1, <2>2, <2>3, <2>4, <2>5, <2>6, <2>7, JobSettles, HookSettles, AdminSettles
      DEF Next
  <1> QED
    BY <1>1, <1>2, TypeCorrect, CourseHolds, InvitedHolds, SoundHolds, PTL
    DEF Spec, ImplementsSettlement, Billed!Spec
=============================================================================
