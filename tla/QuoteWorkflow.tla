--------------------------- MODULE QuoteWorkflow ---------------------------
(***************************************************************************)
(* The life of one quote request (services/workflow.py and the routes that *)
(* call it): the request, the QuoteRequestCaterer rows that link it to     *)
(* caterers, the caterers' quotes and their revisions, and the orders that *)
(* acceptances create.  Requests share no row, so one is enough.           *)
(*                                                                         *)
(* Handlers run in several gunicorn workers under READ COMMITTED.  A       *)
(* handler is two steps: it READS (takes its FOR UPDATE lock, passes its   *)
(* guards, and leaves in txn[w] what SQLAlchemy's unit of work will write) *)
(* and then COMMITs, or is rolled back.  What other workers commit between *)
(* the two is not seen again: that window is the subject of this module.   *)
(***************************************************************************)
EXTENDS Naturals, FiniteSets

CONSTANTS
    Caterers,   \* the validated caterers
    Quotes,     \* pool of Quote primary keys
    Copies,     \* pool of QuoteRequestCaterer rows of one caterer
    Workers,    \* concurrent transactions
    FanOuts,    \* the sets of eligible caterers an approval may find
    Slots,      \* quotes transmitted per request: 3 in the code
    MaxEdits,   \* bound: edits of one draft
    None

ASSUME QWAssumption ==
    /\ IsFiniteSet(Caterers) /\ IsFiniteSet(Quotes) /\ IsFiniteSet(Copies)
    /\ FanOuts \subseteq SUBSET Caterers
    /\ Slots \in Nat \ {0} /\ MaxEdits \in Nat
    /\ None \notin Caterers \cup Quotes \cup (Caterers \X Copies)

VARIABLES
    reviewed,   \* the request was once pending_review: approve/reject forms exist
    status,     \* QuoteRequest.status
    openings,   \* history: times sent_to_caterers was written
    qrc,        \* QuoteRequestCaterer.status of each row
    rank,       \* QuoteRequestCaterer.response_rank
    quote,      \* Quote.status of each quote
    author,     \* Quote.caterer_id
    source,     \* Quote.supersedes_id
    content,    \* Quote.lines and totals: how many times they were rewritten
    ordered,    \* the quotes an Order points to
    txn         \* what each worker has read, locked and will write

db == <<reviewed, status, openings, qrc, rank, quote, author, source, content, ordered>>
vars == <<reviewed, status, openings, qrc, rank, quote, author, source, content,
          ordered, txn>>

-----------------------------------------------------------------------------
RequestStatus == {"pending_review", "sent_to_caterers", "completed", "cancelled",
                  "quotes_refused"}
QRCStatus == {"absent", "selected", "transmitted_to_client", "rejected", "closed"}
QuoteStatus == {"absent", "draft", "sent", "accepted", "refused", "superseded"}

Rows == Caterers \X Copies
RowsOf(c) == {r \in Rows : r[1] = c /\ qrc[r] # "absent"}
Transmitted == {r \in Rows : qrc[r] = "transmitted_to_client"}
FirstQuotes(c) == {q \in Quotes : author[q] = c /\ source[q] = None}
SentQuotes == {q \in Quotes : quote[q] = "sent"}
Unsent == {"absent", "draft"}

(* An open transaction: the lock it holds on the request row ("update" for *)
(* FOR UPDATE, "nokey" for a flushed UPDATE), the quote rows it has already *)
(* updated, and its pending writes ("keep" where it writes nothing).       *)
Transaction ==
    [op : {"idle", "cancelling", "refusing", "drafting", "open"},
     lock : {"none", "nokey", "update"},
     held : SUBSET Quotes,
     status : RequestStatus \cup {"keep"},
     quotes : [Quotes -> QuoteStatus \cup {"keep"}],
     rows : [Rows -> QRCStatus \cup {"keep"}],
     ranked : Rows \cup {None}, rank : 0..Slots,
     adds : SUBSET Caterers,
     newBy : Caterers \cup {None}, newFrom : Quotes \cup {None}, serial : Nat,
     edits : SUBSET Quotes,
     order : SUBSET Quotes]

Idle ==
    [op |-> "idle", lock |-> "none", held |-> {}, status |-> "keep",
     quotes |-> [q \in Quotes |-> "keep"], rows |-> [r \in Rows |-> "keep"],
     ranked |-> None, rank |-> 0, adds |-> {}, newBy |-> None, newFrom |-> None,
     serial |-> 0, edits |-> {}, order |-> {}]
Open == [Idle EXCEPT !.op = "open"]

(* w may take the row lock of the request, or insert a row that references it *)
LockFree(w) == \A v \in Workers \ {w} : txn[v].lock = "none"
KeyShareFree(w) == \A v \in Workers \ {w} : txn[v].lock # "update"
QuoteFree(w, q) == \A v \in Workers \ {w} : q \notin txn[v].held

(* with_for_update() of the handlers that have one *)
NoLock == "none"    \* a wrong variant: the row is read without it

AcceptLock == "update"
RevisionLock == "update"
SubmitLock == "update"

Begin(w, t) ==
    /\ txn[w].op = "idle"
    /\ txn' = [txn EXCEPT ![w] = t]
    /\ UNCHANGED db

-----------------------------------------------------------------------------
(* requests_new_post: a compare-mode request waits for review; a direct one *)
(* is open at once, with the row of the caterer the form names, if any.    *)
Init ==
    /\ \/ /\ reviewed = TRUE /\ status = "pending_review" /\ openings = 0
          /\ qrc = [r \in Rows |-> "absent"]
       \/ /\ reviewed = FALSE /\ status = "sent_to_caterers" /\ openings = 1
          /\ \/ qrc = [r \in Rows |-> "absent"]
             \/ \E row \in Rows :
                  qrc = [r \in Rows |-> IF r = row THEN "selected" ELSE "absent"]
    /\ rank = [r \in Rows |-> 0]
    /\ quote = [q \in Quotes |-> "absent"]
    /\ author = [q \in Quotes |-> None]
    /\ source = [q \in Quotes |-> None]
    /\ content = [q \in Quotes |-> 0]
    /\ ordered = {}
    /\ txn = [w \in Workers |-> Idle]

-----------------------------------------------------------------------------
(* Admin *)

(* approve_quote_request: no lock and no test of the status; the form stays *)
(* usable in any page loaded while the request was pending_review.  The     *)
(* status column is in the UPDATE only if the loaded value differs.         *)
ApproveQuoteRequest(w, targets) ==
    /\ reviewed
    /\ targets # {}
    /\ Begin(w, [Open EXCEPT
                    !.adds = targets,
                    !.status = IF status = "sent_to_caterers" THEN "keep"
                               ELSE "sent_to_caterers"])

(* reject_quote_request: no lock, no test of the status *)
RejectQuoteRequest(w) ==
    /\ reviewed
    /\ status # "cancelled"
    /\ Begin(w, [Open EXCEPT !.status = "cancelled"])

(* qualification_cancel tests the status without a lock ... *)
CancelCheck(w) ==
    /\ status = "sent_to_caterers"
    /\ Begin(w, [Idle EXCEPT !.op = "cancelling"])

(* ... then cancel_quote_request writes it (autoflush takes the row lock)   *)
(* and reads the rows and quotes to close.                                  *)
CancelQuoteRequest(w) ==
    /\ txn[w].op = "cancelling"
    /\ LockFree(w)
    /\ txn' = [txn EXCEPT ![w] =
         [Open EXCEPT
            !.lock = "nokey",
            !.status = "cancelled",
            !.rows = [r \in Rows |->
                        IF qrc[r] \in {"selected", "transmitted_to_client"}
                        THEN "closed" ELSE "keep"],
            !.quotes = [q \in Quotes |->
                          IF quote[q] = "sent" THEN "refused" ELSE "keep"]]]
    /\ UNCHANGED db

-----------------------------------------------------------------------------
(* Client: the forms name a quote the client's page once showed as sent *)

(* refuse_quote loads the request and the quote: no lock, no test of either *)
(* status.  A call that could change nothing is left out.                   *)
RefuseLoad(w, q) ==
    /\ quote[q] \notin Unsent
    /\ quote[q] # "refused" \/ status # "quotes_refused"
    /\ Begin(w, [Idle EXCEPT
           !.op = "refusing",
           !.quotes[q] = IF quote[q] = "refused" THEN "keep" ELSE "refused",
           !.status = IF status = "quotes_refused" THEN "keep" ELSE "quotes_refused"])

(* The notification's query flushes the quote (and waits for its row), then *)
(* the quotes still sent are counted: only the last refusal is written to   *)
(* the request.                                                             *)
RefuseQuote(w) ==
    /\ txn[w].op = "refusing"
    /\ LET flushed == {q \in Quotes : txn[w].quotes[q] # "keep"}
           last == SentQuotes \subseteq flushed
       IN  /\ \A q \in flushed : QuoteFree(w, q)
           /\ txn' = [txn EXCEPT ![w] =
                 [txn[w] EXCEPT !.op = "open", !.held = flushed,
                                !.status = IF last THEN txn[w].status ELSE "keep"]]
    /\ UNCHANGED db

(* accept_quote *)
AcceptGuard(w, q) ==
    LockFree(w) /\ status = "sent_to_caterers" /\ quote[q] = "sent"

AcceptQuote(w, q) ==
    /\ AcceptGuard(w, q)
    /\ Begin(w, [Open EXCEPT
           !.lock = AcceptLock,
           !.status = "completed",
           !.quotes = [x \in Quotes |->
                         IF x = q THEN "accepted"
                         ELSE IF quote[x] = "sent" THEN "refused" ELSE "keep"],
           !.rows = [r \in Rows |->
                       IF /\ r[1] # author[q]
                          /\ qrc[r] \in {"selected", "transmitted_to_client"}
                       THEN "closed" ELSE "keep"],
           !.order = {q}])

-----------------------------------------------------------------------------
(* Caterer *)

(* quote_create looks for a draft of the caterer, without a lock ...        *)
DraftCheck(w, c) ==
    /\ RowsOf(c) # {}
    /\ ~ \E q \in Quotes : author[q] = c /\ quote[q] = "draft"
    /\ Begin(w, [Idle EXCEPT !.op = "drafting", !.newBy = c])

(* ... then reads the form and the lines, and numbers the new quote after   *)
(* the first quotes the caterer has by then: a draft committed between the  *)
(* two was not looked for any more, but is counted.                         *)
CreateDraft(w) ==
    /\ txn[w].op = "drafting"
    /\ txn' = [txn EXCEPT ![w] =
         [Open EXCEPT !.newBy = txn[w].newBy,
                      !.serial = Cardinality(FirstQuotes(txn[w].newBy))]]
    /\ UNCHANGED db

(* quote_update: the draft test is not repeated when the lines are written *)
EditDraft(w, q) ==
    /\ quote[q] = "draft"
    /\ content[q] < MaxEdits
    /\ Begin(w, [Open EXCEPT !.edits = {q}])

(* start_quote_revision: a draft of the next version, unless there is one *)
RevisionGuard(w, q) ==
    /\ LockFree(w)
    /\ status = "sent_to_caterers"
    /\ quote[q] = "sent"
    /\ ~ \E x \in Quotes : source[x] = q /\ quote[x] = "draft"

StartRevision(w, q) ==
    /\ RevisionGuard(w, q)
    /\ Begin(w, [Open EXCEPT !.lock = RevisionLock, !.newBy = author[q], !.newFrom = q])

(* submit_quote reads one of the caterer's rows (the query is not ordered) *)
SubmitGuard(w, q, r) ==
    /\ LockFree(w)
    /\ status = "sent_to_caterers"
    /\ quote[q] = "draft"
    /\ r \in RowsOf(author[q])

(* a revision takes the place of the quote it supersedes *)
SubmitRevision(w, q, r) ==
    /\ SubmitGuard(w, q, r)
    /\ source[q] # None /\ quote[source[q]] = "sent"
    /\ Begin(w, [Open EXCEPT !.lock = SubmitLock,
                    !.quotes[q] = "sent", !.quotes[source[q]] = "superseded"])

(* a first quote needs a slot and a row that was not closed meanwhile *)
FirstGuardForgetsClosing(w, q, r) ==    \* a wrong variant: no test of the row
    SubmitGuard(w, q, r) /\ source[q] = None

FirstGuard(w, q, r) ==
    SubmitGuard(w, q, r) /\ source[q] = None /\ qrc[r] # "closed"

HasSlotOffByOne(next) == next <= Slots + 1    \* a wrong variant

HasSlot(next) == next <= Slots

(* the quote is sent; the one that takes the last slot closes the others *)
SubmitFirst(w, q, r) ==
    LET next == Cardinality(Transmitted) + 1
    IN  /\ FirstGuard(w, q, r)
        /\ HasSlot(next)
        /\ Begin(w, [Open EXCEPT
               !.lock = SubmitLock,
               !.quotes[q] = "sent",
               !.ranked = r, !.rank = next,
               !.rows = [x \in Rows |->
                  IF x = r
                  THEN IF qrc[r] = "transmitted_to_client" THEN "keep"
                       ELSE "transmitted_to_client"
                  ELSE IF next = Slots /\ qrc[x] = "selected" /\ x[1] # r[1]
                  THEN "closed" ELSE "keep"]])

(* every slot is taken: the caterer's row is closed, the quote stays a draft *)
SubmitTooLate(w, q, r) ==
    /\ FirstGuard(w, q, r)
    /\ ~ HasSlot(Cardinality(Transmitted) + 1)
    /\ Begin(w, [Open EXCEPT !.lock = SubmitLock, !.rows[r] = "closed"])

(* request_reject: one row and one quote of the caterer, both queries       *)
(* without ORDER BY, and no lock                                            *)
RequestReject(w, r) ==
    /\ r \in RowsOf(r[1])
    /\ qrc[r] # "rejected"
    /\ LET own == {q \in Quotes : author[q] = r[1]}
       IN  own = {} \/ \E q \in own : quote[q] = "draft"
    /\ Begin(w, [Open EXCEPT !.rows[r] = "rejected"])

-----------------------------------------------------------------------------
NewQuote == CHOOSE q \in Quotes : quote[q] = "absent"
NewCopy(c) == CHOOSE k \in Copies : qrc[<<c, k>>] = "absent"

(* Quote.reference is unique: an insert whose number was taken meanwhile    *)
(* fails.  (Quotes of other requests can only make it fail more often.)     *)
ReferenceFree(t) ==
    t.newBy # None /\ t.newFrom = None =>
        t.serial = Cardinality(FirstQuotes(t.newBy))

(* the rows w is about to write are not locked by another transaction, and *)
(* the pools (a bound of the model) have room for what it inserts          *)
CanCommit(w) ==
    LET t == txn[w]
    IN  /\ t.op = "open"
        /\ t.status # "keep" => LockFree(w)
        /\ t.adds # {} \/ t.newBy # None => KeyShareFree(w)
        /\ \A q \in Quotes : t.quotes[q] # "keep" \/ q \in t.edits => QuoteFree(w, q)
        /\ ReferenceFree(t)
        /\ t.newBy # None => \E q \in Quotes : quote[q] = "absent"
        /\ \A c \in t.adds : \E k \in Copies : qrc[<<c, k>>] = "absent"

(* db.commit() *)
Commit(w) ==
    /\ CanCommit(w)
    /\ LET t == txn[w]
           new == IF t.newBy = None THEN {} ELSE {NewQuote}
       IN  /\ status' = IF t.status = "keep" THEN status ELSE t.status
           /\ openings' = IF t.status = "sent_to_caterers" THEN openings + 1 ELSE openings
           /\ qrc' = [r \in Rows |->
                 IF t.rows[r] # "keep" THEN t.rows[r]
                 ELSE IF r[1] \in t.adds /\ r[2] = NewCopy(r[1]) THEN "selected"
                 ELSE qrc[r]]
           /\ rank' = [r \in Rows |-> IF r = t.ranked THEN t.rank ELSE rank[r]]
           /\ quote' = [q \in Quotes |->
                 IF q \in new THEN "draft"
                 ELSE IF t.quotes[q] # "keep" THEN t.quotes[q] ELSE quote[q]]
           /\ author' = [q \in Quotes |-> IF q \in new THEN t.newBy ELSE author[q]]
           /\ source' = [q \in Quotes |-> IF q \in new THEN t.newFrom ELSE source[q]]
           /\ content' = [q \in Quotes |->
                 IF q \in t.edits THEN content[q] + 1 ELSE content[q]]
           /\ ordered' = ordered \cup t.order
           /\ txn' = [txn EXCEPT ![w] = Idle]
           /\ UNCHANGED reviewed

(* an exception, a deadlock victim or a killed worker: nothing is written *)
Rollback(w) ==
    /\ txn[w].op # "idle"
    /\ txn' = [txn EXCEPT ![w] = Idle]
    /\ UNCHANGED db

Admin(w) ==
    \/ \E targets \in FanOuts : ApproveQuoteRequest(w, targets)
    \/ RejectQuoteRequest(w)
    \/ CancelCheck(w)
    \/ CancelQuoteRequest(w)

Client(w) ==
    \/ \E q \in Quotes : RefuseLoad(w, q) \/ AcceptQuote(w, q)
    \/ RefuseQuote(w)

Caterer(w) ==
    \/ \E c \in Caterers : DraftCheck(w, c)
    \/ CreateDraft(w)
    \/ \E q \in Quotes : EditDraft(w, q) \/ StartRevision(w, q)
    \/ \E q \in Quotes, r \in Rows :
          SubmitRevision(w, q, r) \/ SubmitFirst(w, q, r) \/ SubmitTooLate(w, q, r)
    \/ \E r \in Rows : RequestReject(w, r)

Next ==
    \E w \in Workers : Admin(w) \/ Client(w) \/ Caterer(w) \/ Commit(w) \/ Rollback(w)

Spec == Init /\ [][Next]_vars
-----------------------------------------------------------------------------
(* Refinement: whatever the interleaving, the committed states follow the  *)
(* abstract tender.                                                        *)
Phase ==
    CASE status = "pending_review" -> "review"
      [] status = "sent_to_caterers" -> "open"
      [] status = "completed" -> "awarded"
      [] OTHER -> "closed"

T == INSTANCE Tender WITH
        phase <- Phase,
        offers <- SentQuotes,
        offered <- {q \in Quotes : quote[q] \notin Unsent},
        winners <- ordered

(* The concurrent handlers implement the abstract tender: each commit is   *)
(* one of its steps or changes nothing the two sides can see.              *)
ImplementsTender == T!Spec

-----------------------------------------------------------------------------
(* Properties *)

(* Every variable has the type of the column it models, and an open        *)
(* transaction is one the handlers can build.                              *)
TypeOK ==
    /\ reviewed \in BOOLEAN /\ status \in RequestStatus /\ openings \in Nat
    /\ qrc \in [Rows -> QRCStatus] /\ rank \in [Rows -> 0..Slots]
    /\ quote \in [Quotes -> QuoteStatus]
    /\ author \in [Quotes -> Caterers \cup {None}]
    /\ source \in [Quotes -> Quotes \cup {None}]
    /\ content \in [Quotes -> Nat]
    /\ ordered \subseteq Quotes
    /\ txn \in [Workers -> Transaction]

(* Concurrent submissions never put more rows than there are slots in      *)
(* transmitted_to_client: submit_quote counts and writes under the lock.   *)
SlotsHold == Cardinality(Transmitted) <= Slots

(* Two versions of one quote are never both on the client's page: once a   *)
(* revision was sent, the quote it supersedes is out for good, whatever    *)
(* the client was doing to it meanwhile.                                   *)
OneLiveVersion ==
    \A q \in Quotes :
        source[q] # None /\ quote[q] \notin Unsent =>
            quote[source[q]] \in {"superseded", "refused"}

(* start_quote_revision is idempotent across workers: a quote is revised   *)
(* by one quote at most.                                                   *)
OneRevisionPerSource ==
    \A p, q \in Quotes : source[p] = source[q] /\ source[p] # None => p = q

(* Every accepted quote has its order, and the quote of an order is        *)
(* accepted or was refused afterwards: never sent or superseded again.     *)
OrdersMatchQuotes ==
    \A q \in Quotes :
        /\ quote[q] = "accepted" => q \in ordered
        /\ q \in ordered => quote[q] \in {"accepted", "refused"}

(* A request gives at most one order each time it is opened to caterers,   *)
(* however many acceptances, refusals and cancellations run at once.       *)
OrdersWithinOpenings == Cardinality(ordered) <= openings

(* When the client has chosen, no other offer is left pending.             *)
CompletedIsSettled == status = "completed" => SentQuotes = {}

(* A quote reaches the client only while the request is open, and it does  *)
(* not close under the submission's feet.                                  *)
SentOnlyWhileOpen ==
    [][\A q \in Quotes : quote'[q] = "sent" /\ quote[q] # "sent" =>
          status = "sent_to_caterers" /\ status' = status]_vars

(* A caterer's row closed by the workflow is not handed a slot directly: it *)
(* must first have been turned into a rejection by the caterer.            *)
ClosedIsNotTransmitted ==
    [][\A r \in Rows : qrc[r] = "closed" => qrc'[r] \in {"closed", "rejected"}]_vars

-----------------------------------------------------------------------------
(* The inductive invariant: what an open transaction may still write stays *)
(* right whatever the other workers commit before it does.  SlotsHold, the *)
(* orders, the versions and the refinement rest on its part Settled, the   *)
(* revisions and the rows on the rest.                                     *)

LockIsExclusive ==
    \A v, w \in Workers :
        v # w /\ txn[v].lock # "none" => txn[w].lock = "none"

OpenWhileLocked ==
    \A w \in Workers : txn[w].lock = "update" => status = "sent_to_caterers"

Transmitting(t) == {r \in Rows : t.rows[r] = "transmitted_to_client"}

Reserved(t) ==
    Transmitting(t) # {} =>
        /\ t.lock = "update"
        /\ Cardinality(Transmitted \cup Transmitting(t)) <= Slots

SlotIsReserved == \A w \in Workers : Reserved(txn[w])

(* The five shapes of pending work: nothing about quotes, a refusal, a     *)
(* cancellation, an acceptance, a submission.                              *)
Quiet(t) ==
    /\ \A q \in Quotes : t.quotes[q] = "keep"
    /\ t.order = {}
    /\ t.status \in {"keep", "sent_to_caterers", "cancelled"}
    /\ t.newBy # None => t.status = "keep"

Refusal(t) ==
    /\ t.order = {} /\ t.newBy = None
    /\ t.status \in {"keep", "quotes_refused"}
    /\ \E q \in Quotes :
          /\ quote[q] \notin Unsent
          /\ t.quotes[q] \in {"keep", "refused"}
          /\ \A x \in Quotes \ {q} : t.quotes[x] = "keep"

(* no quote can become sent while t holds the row: all of them are covered *)
LapsesEveryOffer(t, exempt) ==
    \A x \in Quotes \ exempt :
        /\ t.quotes[x] \in {"keep", "refused"}
        /\ t.quotes[x] = "refused" => quote[x] \notin Unsent
        /\ quote[x] = "sent" => t.quotes[x] = "refused"

Cancellation(t) ==
    /\ t.lock = "nokey" /\ t.status = "cancelled"
    /\ t.order = {} /\ t.newBy = None
    /\ LapsesEveryOffer(t, {})

Acceptance(t) ==
    /\ t.lock = "update" /\ t.status = "completed" /\ t.newBy = None
    /\ \E q \in Quotes :
          /\ t.order = {q} /\ t.quotes[q] = "accepted"
          /\ quote[q] \notin Unsent /\ q \notin ordered
          /\ \A x \in Quotes : source[x] = q => quote[x] \in Unsent
          /\ LapsesEveryOffer(t, {q})

Submission(t) ==
    /\ t.lock = "update" /\ t.status = "keep"
    /\ t.order = {} /\ t.newBy = None
    /\ \E q, old \in Quotes :
          /\ quote[q] = "draft" /\ t.quotes[q] = "sent"
          /\ IF source[q] = None THEN old = q
             ELSE /\ old = source[q] /\ old # q /\ old \notin ordered
                  /\ t.quotes[old] = "superseded" /\ quote[old] \notin Unsent
          /\ \A x \in Quotes \ {q, old} : t.quotes[x] = "keep"

Sound(t) == Quiet(t) \/ Refusal(t) \/ Cancellation(t) \/ Acceptance(t) \/ Submission(t)

PendingIsSound == \A w \in Workers : Sound(txn[w])

(* only a refusal is pending between its load and its count *)
RefusingIsMild ==
    \A w \in Workers :
        txn[w].op = "refusing" => txn[w].status \in {"keep", "quotes_refused"}

Settled ==
    /\ LockIsExclusive /\ OpenWhileLocked
    /\ SlotsHold /\ SlotIsReserved
    /\ PendingIsSound /\ RefusingIsMild
    /\ OrdersMatchQuotes /\ OneLiveVersion

(* Quotes get their caterer and their source when they are inserted. *)
AbsentIsBlank ==
    \A q \in Quotes : /\ quote[q] = "absent" <=> author[q] = None
                      /\ quote[q] = "absent" => source[q] = None

(* A pending revision holds the row lock, and its quote is still unrevised. *)
InsertFits(t) ==
    t.newFrom # None =>
        t.lock = "update" /\ \A q \in Quotes : source[q] # t.newFrom

(* Rows are closed and transmitted under a lock only, and a row about to be *)
(* transmitted is not closed meanwhile.                                     *)
RowsFit(t) ==
    \A r \in Rows :
        /\ t.rows[r] \in {"keep", "closed", "rejected", "transmitted_to_client"}
        /\ t.rows[r] = "closed" => t.lock # "none"
        /\ t.rows[r] = "transmitted_to_client" =>
              t.lock = "update" /\ qrc[r] # "closed"

WritesFit == \A w \in Workers : InsertFits(txn[w]) /\ RowsFit(txn[w])

Inductive ==
    /\ Settled
    /\ AbsentIsBlank /\ WritesFit
    /\ OneRevisionPerSource
=============================================================================
