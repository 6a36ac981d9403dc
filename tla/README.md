# TLA+ models of the Traiteurs Engagés application

The application puts companies that order catering in touch with social-economy
caterers. A client files a quote request, an administrator qualifies it and
sends it to eligible caterers, the first three caterers to answer reach the
client, the client accepts one quote, the caterer delivers, and a Stripe
invoice is sent, paid and recorded.

It is a Flask + SQLAlchemy application over PostgreSQL (READ COMMITTED, the
default), run by gunicorn with several processes and threads, with a dramatiq
worker process over a Redis that persists nothing, and Stripe, Brevo and an S3
store outside. Almost every defect it can have that its tests would not show
comes from the same place: a handler reads rows, decides, and writes at commit,
while other handlers do the same. These models are about those windows.

## Files

| File | What it is |
|---|---|
| `QuoteWorkflow.tla` | one quote request: rows, quotes, revisions, orders, concurrent handlers |
| `Tender.tla` | what the workflow promises, without rows, locks or transactions |
| `QuoteWorkflowProofs.tla` | theorems about `QuoteWorkflow`, for any size |
| `MCQuoteWorkflow.tla`, `quote_workflow.cfg`, `three_slots.cfg`, `twice_approved.cfg` | its instances for TLC |
| `Billing.tla`, `BillingProofs.tla` | one order from delivery to payment: job, Stripe, webhooks, administrator; its theorems |
| `Settlement.tla` | what billing promises, without jobs, retries, webhooks or locks |
| `MCBilling.tla`, `billing.cfg`, `claim_paid_invoice.cfg` | its instances |
| `Intake.tla`, `IntakeProofs.tla` | how a request comes in, is edited, geocoded, matched and sent; its theorems |
| `MCIntake.tla`, `intake.cfg`, `claim_tolerant.cfg` | its instances |
| `Accounts.tla`, `AccountsProofs.tla` | password, reset links, sessions and revocations of one account; its theorems |
| `MCAccounts.tla`, `accounts.cfg` | its instance |
| `Team.tla`, `TeamProofs.tla` | who belongs to a company; the last super administrator; its theorems |
| `MCTeam.tla`, `team.cfg` | its instance |
| `Messaging.tla`, `MessagingProofs.tla` | messages, attachments, polls, notifications, e-mail jobs; its theorems |
| `MCMessaging.tla`, `messaging.cfg` | its instance |
| `Amounts.tla`, `AmountsProofs.tla` | the arithmetic from the editor's form to Stripe; its theorems |
| `MCAmounts.tla`, `amounts.cfg`, `claim_zero_vat.cfg` | its instances |
| `PROJECT.json` | components, runs, mutants, the map from definitions to source lines, findings, hazards, theorems |

To check: `tlc -config intake.cfg MCIntake.tla` (likewise for each run, with the
`MC` module of its table), `tlapm IntakeProofs.tla` (likewise for each `Proofs`).
A definition called a *wrong variant* in a comment is not used: it is the bug one
of the properties is there to catch, kept to test that property.

## Inventory

| Component | Model | State | What is hard | What makes it correct |
|---|---|---|---|---|
| Quote workflow (`services/workflow.py`, caterer, client and admin request routes) | `QuoteWorkflow`, `Tender` | `QuoteRequest`, `QuoteRequestCaterer`, `Quote`, `Order` | some handlers lock the request, some do not; forms outlive the state they were drawn from | three slots, one live version of a quote, one order per opening, offers only while open |
| Billing and payment (`caterer/orders.py`, `billing_tasks.py`, `stripe_service.py`, `api.py`, `admin.py`) | `Billing`, `Settlement` | `Order`, `Payment`, `Invoice`, `StripeEvent`, the queue, Stripe | a queue that repeats or loses messages, Stripe outside the transaction, webhooks in any order | one invoice, records written once, paid stays paid, a payment reaches the order |
| Request intake and edition (`client/requests.py`, `admin.py`) | `Intake` | requests, form tokens | a form sent twice at once; edits, approval and validation at the same time | one request per form; no client edit after sending |
| Matching (`matching.py`, `geocoding.py`) | `Intake` | coordinates | a look-up that fails, profiles that change | what is unknown excludes nobody |
| Sessions and password reset (`auth.py`, `password_reset.py`, `account.py`, `app.py`) | `Accounts` | password, links, session stamps | single use under concurrent requests; times taken before they are written | a link works once; a revoked session works nowhere |
| Company membership (`client/team.py`, `auth.py`) | `Team` | accounts, staff rows | nothing is locked; rows and accounts committed by different people | nobody becomes a member unlisted; nothing outlives its company |
| User administration (`user_admin.py`, `admin.py`) | `Team` (part) | accounts, companies | two administrators at once | a super administrator is always left |
| Messaging (`api.py`, `messagerie.py`, `uploads.py`, `messages.js`) | `Messaging` | messages, files, pages | thread by select-then-insert; file stored before the commit; polls | an answer joins its thread; no message without its file; an open page shows all |
| Notifications (`notifications.py`, `app.py`), e-mail (`email.py`, `email_triggers.py`) | `Messaging` (part) | marks, jobs | jobs queued before the commit they announce | what is committed is announced |
| Quote amounts (`quotes.py`, `stripe_service.py`, `quote-editor.js`) | `Amounts` | lines, totals, items | roundings in four places | what is quoted, billed and recorded agrees |
| Reviews (`reviews.py`) | `Billing` (invitation) | invitations | webhook and administrator at once | one invitation |
| Stripe Connect, documents, dashboards, catalogue, content, configuration, commands | none | one row each or none | nothing several steps of which matter | see "Not modelled" |

The components meet in the database. `Intake` ends where `QuoteWorkflow` begins, at
a request that was sent (the approval is in both: its eligibility in `Intake`, its
effect on rows and orders in `QuoteWorkflow`, where any subset of caterers may be
found eligible). The workflow creates the `Order` that `Billing` takes over in
`confirmed`; `Amounts` is the arithmetic of the lines both carry. `Team` removes
and rejects members through the revocation that is `Expel` in `Accounts`, and
deletes the accounts `Accounts` speaks of. Every handler adds notifications, whose
queries matter elsewhere only because SQLAlchemy's autoflush sends the pending
UPDATEs (and takes their row locks) before them.

## QuoteWorkflow

**State.** `status` is `QuoteRequest.status` (the values no route writes are left
out); `qrc` and `rank` are the `QuoteRequestCaterer` rows, of which an approval
repeated from a stale page can give one caterer several; `quote`, `author`,
`source` and `content` are the `Quote` rows with their caterer, `supersedes_id`
and edits; `ordered` says which quotes an `Order` points to; `txn[w]` is what
worker `w` has read, locked and will write. `reviewed` remembers that the
approval form exists, `openings` counts invitations.

**Actions.** A handler is a *read* step (`AcceptQuote`, `SubmitFirst`, ...), which
takes its `FOR UPDATE` lock if the code has one, passes the code's guards and puts
the pending writes in `txn[w]`, and a `Commit`, which waits for the row locks
those writes need, or a `Rollback` (exception, deadlock victim, killed worker).
Handlers that read twice have a step for each: `CancelCheck` then
`CancelQuoteRequest`, `RefuseLoad` then `RefuseQuote`, and `DraftCheck` (is there a
draft already?) then `CreateDraft` (the count that numbers the new quote), with the
form's validation and other requests' commits between the two. Where nothing is read
between flush and commit, the two are one step. An UPDATE is pending only for a
column whose new value differs from the loaded one, as SQLAlchemy does.

**Left out.** Notifications, e-mails and the content of requests; the expiry date
of a quote, which only makes `accept_quote` fail more often; other requests, whose
quotes can only make a new reference collide more often.

**Runs.**

| Run | Instance | What it shows |
|---|---|---|
| `quote_workflow` | 2 caterers, 3 quotes, 2 workers, 1 slot | every invariant and action property, the inductive invariant (`Inductive`), and that the workflow implements `Tender` |
| `three_slots` | 4 caterers, 4 quotes, 3 slots, from the state where two are taken, edits in flight | the code's real number of slots: the third is given once and closes the others |
| `twice_approved` | 1 caterer, 2 rows, 2 quotes | approvals repeated from stale forms reopen an awarded request: still one order per opening |

Two workers are enough for the windows between one read and one commit, which is
where every guard of the code is; three quotes allow a quote, its revision and a
competitor's. One slot makes the last slot also the first, so the closing of the
other rows happens at once; `three_slots` covers the count. Its initial state is
reached from `Init` by one approval, four drafts, two submissions and edits; one
draft can be edited once more, which is enough for an edit to straddle the
closing. A request may come to rest (rejected before any draft, pools of rows
used up), so deadlock is not checked. Symmetry exchanges caterers and workers,
and only workers in `three_slots`, whose initial state names the caterers. There is no liveness here: people decide whether to act.

**Abstraction.** `Tender` has a phase, the offers on the table, the offers ever
made, the winners and the openings. `ImplementsTender` maps `Phase`,
`SentQuotes`, the quotes once sent, and `ordered` to them: each commit is one
step of the tender (an offer appears only while it is open, an award ends it and
lapses the rest) or invisible.

## Billing

**State.** `status`, `attempt`, `linked` are the order's columns; `payment`,
`records`, `recorded`, `invites` are rows; `queue` counts messages by retries
`job`, `hook`, `admin` are the handlers in progress; `stripe`, `lines`, `emitted`
are Stripe's side. An attempt number stands for the Stripe invoice it creates,
since the idempotency key is made of the order and that number.

**Actions.** The job is one action per Stripe call, because a failure can fall
between any two; a failed call may or may not have taken effect at Stripe. A
webhook is `HookBegin` (deduplication row and payment read), `HookFlush` (order
read, which flushes and locks the payment), `HookOrder` (notification queries,
which flush and lock the order, then the invitation test) and `HookCommit`. The
administrator's transition is `AdminLoad`, `AdminFlush`, `AdminCommit`. Redis can
lose the queue, the broker can give a message twice (the first worker dead or
merely slow), any handler can fail. Stripe's behaviour is external: it is what the
code's calls rely on (same key, same invoice; items only on drafts; events
repeated until answered with success, in any order). Tax rates and the Stripe
customer, which have their own keys or are looked up, are left out, as is
`account.updated`, which touches caterers only.

**Bounds.** `MaxFaults` bounds failures, redeliveries and lost queues together;
two are enough for every pair of them.
`MaxRetries` is 5 in the code; nothing depends on its value once a retry can
itself fail, which 2 allows. `MaxAttempt` 2 is one more than the attempts that
ever exist, so a second invoice would show. `Items` 2 is one VAT rate and the fee.

**Fairness.** Handlers that began go on: their locks are held for bounded work and
PostgreSQL wakes waiters. The web worker that committed a delivery sends the
message; dramatiq's threads take waiting messages; Stripe repeats an event until
it is answered. Nobody has to deliver, pay or press a button, and no fault has to
happen or stop happening beyond the bound.

**Run `billing`** checks, with two job workers, two webhook requests and two
administrators: one Stripe invoice however often the job runs; the accounting rows
written once; a succeeded payment's order is paid and stays so; one review
invitation; the implementation of `Settlement`; without faults a
delivered order is invoiced; and a payment whose row exists reaches the order
through faults, because the deduplication row is rolled back with the rest. It
also checks the inductive invariant (`Inductive`) the proofs below rest on.

**Abstraction.** `Settlement` has the stage of the order, the claims sent to the
client, those paid, those booked, and the invitations. `ImplementsSettlement` maps
the order's status, the Stripe invoices by their status, the `Payment` rows and the
review notifications to them. An owed order has one claim sent, and is billed when
that one is booked; what is booked is only ever settled (`BilledGoesForward`
says so of the code's columns and is proved too); an order billed by hand has no
claim. The client may pay before the claim is booked, and an administrator may
settle an order whose claim is unpaid: the code allows both, so `Settlement` does.

## Accounts

**State.** `password`, `epoch` (`sessions_invalidated_at`) and `open` are columns of
one user; `link` and `created` its `PasswordResetToken` rows; `stamp` the cookie
of each browser; `txn[w]` the handler of worker `w`; `uses` counts the password
changes each link made. Accounts share no row, so one is enough.

**Actions.** A handler begins with its checks (`ChangePassword`, `ChangeEmail`,
`Logout`, `RevokeByStaff`, `Expel`, `CliReset`, `ConsumeToken`, `KickOffReset`),
takes the time (`TakeTime`), sends its UPDATEs and waits for their locks
(`WriteRows`) and commits (`CommitForgot`, `CommitRevocation`); those of the signed-in
user stamp their session again afterwards (`StampAgain`). `Abort` is any failure,
the resolution of a deadlock between a reset and a revocation included.

**Bounds.** Run `accounts`: two workers, two browsers, two links, two passwords, and a clock
of four ticks. A handler takes the time once, so four is two revocations around
two others. Two handlers are enough for a check to be overtaken by one commit.

**Run.** A link changes the password at most once; a link that was burnt changes
nothing, even for a request that had checked it; whenever the epoch or the
password changes, no session of the account is live. The run needs no other
property of the clock than that no value is taken twice.

## Team

**State.** `company` (one SIRET), `user` (accounts, an address standing for its
person), `row` (`company_employees`), `txn`. Rows and accounts are made and deleted
once; a deleted address does not sign up again.

**Actions.** Nothing here locks what it reads: a handler loads, decides and
commits the columns it changed (`sets`, applied by `Written`). What the database
refuses at the commit is a condition of the commit action: unique e-mail and SIRET,
the foreign keys of `company_id` and of an audit row's author, an UPDATE that matches
no row (one that changes nothing is not sent).
`TeamApprove` has a step of its own, `LinkRow`, because its query for a staff row
flushes the new status first and so locks the account. The three changes of role are
`RoleChange` (between the client roles), `BecomeCaterer` (the account leaves its
company) and `ClientLoad` with `CommitClient` (a caterer founds a company, as
`client_admin` or `client_user`, and no staff row is made). The first two are one
step each: the window between their read and their commit is left out, except that
they wait for a locked account. A caterer's sign-up is one step too: it writes
nothing another handler here reads before the account exists. A company without
accounts stays if it has made requests, which are left open (`KeepCompany`).

**Left out.** The company's services. There is one company: who founds or joins
another one is not followed there, and the status of an account is followed only
while it is a member of this one, since nothing reads it otherwise.

**Bounds.** Two workers, two clients, two super administrators, two staff rows: one
handler that overtakes another, a member and an applicant, a row deleted and one kept.

**Run `team`.** A super administrator is left although the two delete each other
(what saves the last one is that the audit row of the deletion refers to its
author); nobody and no row is left of a deleted company; whoever becomes an active
member is on the staff list at that moment. Two cases are excepted and stated in the
property. A caterer whom a change of role makes the founder is unlisted: the run reaches
this. So is a rejected person whom an approval under way had found listed already
(`FoundListed`): that takes four requests at once; without the exception the property
would hold of this run only because of its bound, and it would be false of the code.

## Messaging

**State.** `msg`, `note`: rows; `stored`: the object store; `mail`: the job of each
message's e-mail; `send`: the POST each worker handles; `page`: the conversation a
reader's browser shows and what of it is on the screen; `fetch`: its polls.

**Actions.** A POST looks the thread up (`SendMessage`, with the permission test),
stores its file, queues its e-mail and commits, and can die between any two. A
poll selects, marks as read whatever is unread *by then*, and its answer replaces
what the page shows; polls overlap and their answers come in any order. Opening a
conversation marks its notifications. The worker process sends, retries or gives
up e-mails.

**Fairness.** Polls go on while the page is open (`setInterval`, ten seconds) and
dramatiq takes waiting jobs: weak fairness of `PollOf(u)`, some poll of a browser,
and of some `MailRuns(m)`; neither asks for a given poll or job. Nobody has to
write, open a page or keep it open, and no fault has to happen.

**Bounds.** Two users with a request in common, two messages, one browser with two
polls, one retry, one fault. Two messages are what it takes to open two threads at
once, to answer one, and for a message to come between the SELECT and the UPDATE
of a poll. Support accounts change permission and attachments only; the run has none.

**Run `messaging`.** A message's attachment is served to both its ends from the
moment the message exists; whoever has seen a message answers in an existing
thread; an open page ends up showing every message of its conversation, also the
ones a poll marked as read without having selected them; every committed message
is announced unless the broker or Brevo refused it.

## Amounts

**State.** `form` and `editor` are the caterer's browser; `lines`, `total` and
`status` the quote; `quoted` what was last typed; `bill` the items given to Stripe
and the amounts of the payment. All amounts are integers. A form may send any
decimal: a typed quantity has `FineQty` steps in each of the `Step` (1000, three
decimals) that its column keeps of a unit, a typed price `FinePrice` steps in each
cent. A rate counts tenths of a percent. Python's limit of 28 digits is left out, as
are the upper bounds on a line.

**Actions.** The editor is opened (which shows the stored lines through
JavaScript's `||`), edited and saved; the quote is sent and billed. Each rounding is
where the code has it: Python's half-even, PostgreSQL's and Stripe's half-up. Storing
a line (`Stored`) rounds its quantity and its price; the total is taken of the rows
as they were typed (`SavedTotal`), the bill of the stored ones.

**Bounds.** Up to two lines; quantities 0, 3 and 3.05 with one stored decimal (so the
last is half a step between two stored ones), prices 33.5 cents, 1.01 and 1.007 euros,
rates 0, 5.5 and 20 %: halves that round both ways, two lines of one rate or of two.
`Step` is 10 in the runs because TLC's integers have 32 bits; the theorems hold of 1000.

**Run `amounts`** checks that the recorded total is that of the stored lines, exactly
if the columns keep every row as it was typed, and otherwise to within a cent, half a
cent for each unit of a rounded price and the price of half a stored step for each
rounded quantity; and that what Stripe is asked for is what the quote says, within the
roundings per VAT rate. The first bound is wide because the code is: a quantity of
1.0004 at 100 000 euros is totalled at 100 040 and stored as 1. Stripe also puts 20 %
on the fee, which the payment's record does not count.

## Intake

**State.** `request`, `asked` (caterers with a row), `caterer` (profile and
coordinates), `answers` (where each form was answered to), `txn`. A place stands
for an address, for its coordinates and for what lies within a radius of it.

**Actions.** `RequestsNewPost` finds no request with the form's token, geocodes and
inserts (`InsertRequest`, which waits for another INSERT of the same token),
or is refused by the unique column (`InsertRefused`) and looks the first one up.
`RequestEditPost` reads `FOR UPDATE`; `QualificationEdit`, `ApproveQuoteRequest`,
`RejectQuoteRequest` and `ProfileSave` do not, and each may spend seconds on
geocoding between read and `Commit`. `Merged` writes the columns that changed.

**Bounds.** Run `intake`: two workers, two rows, one token besides forms without
one, one caterer offering only dinner at a fixed place, forms without address.
`claim_tolerant` has two caterers that move and requests with an address.

**Run `intake`.** A form makes one request and every answer leads to it; a client's
edit changes only a request that still waits for review.

**Left out.** The administrator's edit of a caterer, which changes the address and
leaves the old coordinates (`admin.py` 518), as a failed look-up does in `ProfileSave`.
`reviewed` stands for what only the pages enforce: the approval and rejection forms
are shown for requests that wait for a review, and the routes do not test it.

## Where the code departs from what it says

Each of these is a run TLC ends with a counterexample; `PROJECT.json` quotes the
line contradicted.

| Run | What happens |
|---|---|
| `claim_paid_invoice` | `invoice.paid` comes before the job commits the Payment row: nothing is updated, the event is recorded as handled |
| `claim_zero_vat` | a quote with a line at 0 % that is opened and saved unchanged is at 10 % afterwards (`data.tva_rate \|\| '10'`) |
| `claim_tolerant` | a caterer moves, the new address is not found: the old coordinates stay and exclude it, where the comment promises tolerance |

**Unguarded windows** met while modelling, reachable in the models and without a run:

* Workflow. Of two creations at once, the second may look for a draft before the first
  commits and count the quotes after it: its reference is free and the caterer has two
  first drafts (`caterer/requests.py` 250, 292); only when both count before either
  commits does the unique reference keep one out. `quote_update` tests the draft
  status without a lock, so lines are rewritten after the quote was sent
  (`caterer/requests.py` 374). `refuse_quote` takes no lock: a refused quote can be
  ordered (`workflow.py` 124). The administrator's cancellation cancels a request
  accepted meanwhile (`admin.py` 426). A caterer with a transmitted quote sends a
  second first quote, which takes another slot (`workflow.py` 615). A caterer's
  refusal racing their own submission leaves a rejected row with a sent quote
  (`caterer/requests.py` 198); a caterer who refused can still send a first quote; the
  last refusal counts the offers without the request's lock (`workflow.py` 140).
* Billing. A retry gets the same invoice back by its key and adds its items, which
  have none, again (`stripe_service.py` 189). A `payment_failed` that read `pending`
  writes `failed` over a concurrent `succeeded` (`api.py` 137; the order stays paid). A
  lost message leaves its order in `invoicing`: the retry command `docker-compose.yml`
  speaks of does not exist. For an order not billed through Stripe a stale form
  takes `paid` back to `invoiced` (`admin.py` 1171).
* Intake. A form made for a caterer that is invalidated meanwhile is sent to nobody
  (`client/requests.py` 324, 361-374). An approval asks the caterers that matched the
  content it read, although an edit commits before it; one invalidated during an
  approval is asked all the same (`workflow.py` 275). An administrator's edit that
  read `pending_review` notifies nobody of an approved request.
* Accounts. Two reset requests at once leave two live links. A handler that stamps
  its session after its commit takes over a revocation committed in between, so
  that one session survives it (`auth.py` 617). `change_password` may overwrite the
  password of a reset that committed meanwhile.
* Team. A caterer changed to a client role is active in the company founded for them
  without being on its staff list, and as a `client_user` leaves it without an
  administrator (`user_admin.py` 244). Two members changed to caterers at once each
  count the other: their company stays, empty (outside the model, where such a change is one step).
  Approval and rejection of one person at
  once: the last commit wins (`client/team.py` 276). `team_approve` takes over a row
  linked to somebody else whose address was edited to the applicant's. Two creations
  at once list an address twice. The last administrator of a company can be removed or
  demoted. The second of two approvals finds the row as it wants it, sends no UPDATE
  of it and does not notice that it is being deleted: it answers that the member was
  added, and no row is left (three requests); with a rejection between the two, a
  rejected person becomes active without a staff row (four).
* Messaging. Two first messages at once make two threads. An aborted POST leaves its
  file and its e-mail, for a message that does not exist. A message committed
  between the SELECT and the UPDATE of a poll is marked as read before it was shown;
  if the page goes then, its badge is gone.

## Proofs

`QuoteWorkflowProofs` holds for any finite sets of caterers, quotes and row copies,
any set of workers, any positive number of slots (`QWAssumption`).

* `TypeCorrect`: one lemma for the transactions handlers build (`ReadTypes`), one
  for what commits write (`CommitTypes`).
* `InductiveHolds`: `Inductive` is needed because the properties of the database
  are not inductive: what keeps them is what open transactions may still write.
  Its part `Settled`
  says that the request's lock is exclusive, that the request stays open under
  a `FOR UPDATE` lock, that a slot about to be written is reserved, and that each
  pending set of writes has one of five shapes (`Quiet`, `Refusal`, `Cancellation`,
  `Acceptance`, `Submission`) that stays right whatever the others commit.
  `ReadSettled` shows that a handler builds one of these shapes; the
  `Commit...` lemmas show that the commit of one preserves each conjunct and the
  shapes of all the others.
* From `Settled`: `SlotsAreNeverExceeded`, `VersionsNeverCoexist`, `OrdersAgree`.
* The part `WritesFit` of `Inductive` speaks of the pending writes. A pending revision
  holds its request's row lock, and its source is still unrevised (`InsertFits`). Quotes
  are closed and transmitted under a lock only, and one about to be transmitted is not
  closed (`RowsFit`). From it: `RevisionsAreUnique`, `ClosedRowsAreNotTransmitted`.
* `WorkflowImplementsTender`: each commit is a step of `Tender` under the mapping;
  handlers' reads and rollbacks stutter.
* `NoMoreOrdersThanOpenings`, `CompletedRequestsAreSettled`, `OffersComeWhileOpen`
  follow from the refinement's step lemma.

`BillingProofs` holds for any finite sets of workers, requests and administrators,
any positive number of items and attempts, any number of retries, refusals and
faults (`BillingAssumption`).

* `TypeCorrect`: types, and `Formed`, that what a handler holds fits its step
  (a job before its last item has items left, a request in progress has an event).
* `CourseHolds` is the inductive invariant of the order's course. `OneInvoice`
  alone is not inductive: a job computes its attempt from a row that other jobs
  change, so one has to know that every job makes the first attempt
  (`FirstAttempt`), which holds because no job begins once the rows of that
  attempt are committed (`RowsTogether`), because nothing of the billing exists
  before delivery or after an unbilled one (`Course`, `NothingBilled`), and
  because an administrator's form can only have been drawn from a status those
  leave (`Course`). `HookIsSound` carries the read of a webhook to its commit.
* From it: `InvoicedOnce`, `RecordsComeOnce`, `PaidStaysPaid`, `BilledForward`.
* `InvitedOnce`: on top of it, `OrderLockIsExclusive` and `InviterKnows`: whoever
  holds the order's row with a payment to write knows whether the client is
  invited, since nobody else can invite before it commits.
* `BillingImplementsSettlement`: what Stripe has and what is recorded go together
  (`SentAndRecorded`: a payment row has its invoice sent, an order that left invoicing
  has its row), and an order being paid by hand was billed (`PayFormIsBilled`). Then
  `JobSettles`, `HookSettles` and `AdminSettles` map each step to one of `Settlement`
  or to none.
* `InductiveHolds`: `Inductive`, all of these together.

`AccountsProofs` holds for any workers, browsers, links, passwords and clock bound.

* `Invariance`: `LinksAreHeld` says who may write which link: at most one handler holds
  a link it consumes (`HeldAlone`), a link asked for is nobody else's (`AskedAlone`), only existing
  links are burnt (`BurntExists`), and one that can still be used has changed
  nothing (`UnusedIsUnspent`). `TimesAreFresh` says that
  no cookie, row or other handler carries a time that a handler has taken and not
  yet written: this is why a revocation ends every session, whatever order the
  commits come in.
* From it: `AccountsSingleUse`, `AccountsBurntLinkIsDead`, `AccountsRevocationEndsSessions`.

`IntakeProofs` holds for any sets of workers, requests, caterers, tokens, places,
meals, forms and profiles (`IntakeAssumption`).

* `Invariance`: `InsertIsAlone` (no two inserts in flight have one token or one row,
  and no committed row has them), `LoadedFirst` (caterers' rows are written over
  loaded ones), `ChangeKeepsTheRow` (no handler but an insert writes a token, none
  removes a row), `EditsAreAlone` (the row a client edits is locked and pending).
* From it: `IntakeOneRequestPerForm`, `IntakeClientEditsStayBeforeSending`.

`TeamProofs` holds for any workers, clients and rows and any super administrators, of
whom one exists at first (`TeamAssumption`).

* `Invariance`: `Shape` says what a pending transaction may write: a whole new row,
  or columns of an old one that neither make nor remove it; an accepted invitation
  always writes its row, so that the commit notices if it is gone. `SupersStay`:
  no account of a super administrator changes its role or is made again.
* From it: `TeamOneSuperAdminLeft` (the author of a deletion is somebody else and
  still there at the commit) and `TeamNothingIsOrphaned` (nothing is written into a
  company without a row that refers to it).
* `TeamRowsAreMembers`, the invariant `Tied`: members and nobody else have a status
  (`MembersHaveStatus`), a staff row belongs to nobody who is waiting or has no account
  yet, at most one approval writes an account, and an
  approval makes a row its person's unless it found one that was (`Fits`).
* `TeamActivatedIsListed`, from `Tied`: a person who waits has no row when the approval
  looks for one, so the approval writes it, and notices at the commit if it is gone. Who becomes active
  in another way accepts an invitation, which writes its row, or founds the company.

`MessagingProofs` holds for any users, messages, workers and polls, any number of
retries and faults (`MessagingAssumption`).

* `Invariance`: `FileFirst` says that a POST with a file has stored it before its e-mail
  is queued; only a POST whose e-mail was queued commits.
* From it: `MessagingAttachmentIsServed`.
* `AnswersJoin`: `SeenIsReal` says that what a page shows, and what a poll is bringing
  to it, are messages that exist, sent to or by the reader; so the lookup of an
  answer finds at least the message that is answered.

`AmountsProofs` holds for any number of lines, quantities and prices of any fineness,
any rates up to 100 % and any commission (`AmountsAssumption`).

* The sums are folds over sets, that is a recursive function some `CHOOSE` picks.
  The library's induction theorems cannot be used (they take an operator), but its
  theorem that strict inclusion is well-founded on finite sets can: a smallest set
  for which a claim fails is taken, and shown not to be one. So `AddsExists` and
  `AddsAgree` (there is such a function and only one), `TotalTakesAny` (the order does
  not matter), `TotalsCompare` (a linear bound on each index is one on the sums) and
  `TotalOfGroups` (sums over disjoint groups add up).
* `HalfEvenNear` and `HalfUpNear`: a rounding is off by at most half of what it
  rounds to.
* `KeptHolds`: the lines and the total are those of the rows last saved, and a bill is
  that of lines that no longer change.
* `StoredNear`: what storing a row changes of its amount is at most what its rounded price
  loses for the typed quantity and its rounded quantity for the stored price (`Loss`).
* From it: `TotalFollowsTheLines`
  and `StripeFollowsTheLines` (each item by half a cent, its tax by half a cent and by
  the tax of the first half cent, which is why rates are at most 100 %).

Only model-checked: every liveness property (`DeliveredIsInvoiced`, `PaidReachesOrder`,
`ShownWhileOpen`, `MailGoesOut`): fairness is a matter of `ENABLED`, which the prover
does not reach.

## Not modelled

* Stripe Connect onboarding: two flags of one row, copied from Stripe by the return
  page and by `account.updated`, the last copy winning. Delivery reads one of them
  to choose between a billed and an unbilled order; `Billing` has both.
* The review itself (one INSERT under a unique `order_id`), notifications other than
  those of messages, and the other e-mail triggers, which queue through the same
  two functions.
* The company's services and the edits of a company's or caterer's descriptive
  fields: updates of one row. Nobody becomes or ceases to be a super administrator by a
  change of role (`can_change_role`).
* PDF rendering, dashboards, catalogue and content pages, configuration, logging,
  migrations, demonstration data and the operator commands that move files or
  announce: nothing there keeps a state that a later step relies on.
* The database, broker, object store, Brevo and Stripe, which are assumed to do what
  the code relies on.

## Plan

What would add most next: the read and commit of `RoleChange` and `BecomeCaterer` as two
steps in `Team`, and a second company; the administrator's edit of a caterer in `Intake`; a
composition of `Intake` with `QuoteWorkflow` through the approval;
`account.updated` with the return page of Stripe Connect.
