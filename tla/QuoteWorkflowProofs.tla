------------------------ MODULE QuoteWorkflowProofs ------------------------
(***************************************************************************)
(* Theorems about QuoteWorkflow for any number of caterers, quotes, rows,  *)
(* workers and slots.                                                      *)
(***************************************************************************)
EXTENDS QuoteWorkflow, FiniteSetTheorems, TLAPS

USE DEF AcceptLock, RevisionLock, SubmitLock

-----------------------------------------------------------------------------
(* Rows are finite, so they can be counted. *)
LEMMA RowsFinite == IsFiniteSet(Rows)
  BY QWAssumption, FS_Product DEF Rows

LEMMA TransmittedFinite ==
    IsFiniteSet(Transmitted) /\ Cardinality(Transmitted) \in Nat
  BY RowsFinite, FS_Subset, FS_CardinalityType DEF Transmitted

(* The two transactions every handler starts from. *)
LEMMA IdleType == Idle \in Transaction
  BY QWAssumption DEF Idle, Transaction

LEMMA OpenType == Open \in Transaction
  BY QWAssumption DEF Idle, Open, Transaction

-----------------------------------------------------------------------------
(* What a handler reads is always a transaction of the declared type. *)
LEMMA ReadTypes ==
    ASSUME TypeOK, NEW w \in Workers, Admin(w) \/ Client(w) \/ Caterer(w)
    PROVE  TypeOK'
  <1> USE QWAssumption
  <1>1. ASSUME NEW t \in Transaction, Begin(w, t) PROVE TypeOK'
    BY <1>1 DEF Begin, TypeOK, db
  <1>2. ASSUME NEW targets \in FanOuts, ApproveQuoteRequest(w, targets) PROVE TypeOK'
    <2>1. [Open EXCEPT !.adds = targets,
                    !.status = IF status = "sent_to_caterers" THEN "keep"
                               ELSE "sent_to_caterers"] \in Transaction
      BY OpenType DEF Transaction, RequestStatus
    <2> QED BY <1>1, <1>2, <2>1 DEF ApproveQuoteRequest
  <1>3. CASE RejectQuoteRequest(w)
    <2>1. [Open EXCEPT !.status = "cancelled"] \in Transaction
      BY OpenType DEF Transaction, RequestStatus
    <2> QED BY <1>1, <1>3, <2>1 DEF RejectQuoteRequest
  <1>4. CASE CancelCheck(w)
    <2>1. [Idle EXCEPT !.op = "cancelling"] \in Transaction
      BY IdleType DEF Transaction
    <2> QED BY <1>1, <1>4, <2>1 DEF CancelCheck
  <1>5. CASE CancelQuoteRequest(w)
    <2> DEFINE rows == [r \in Rows |->
                          IF qrc[r] \in {"selected", "transmitted_to_client"}
                          THEN "closed" ELSE "keep"]
               quotes == [q \in Quotes |->
                            IF quote[q] = "sent" THEN "refused" ELSE "keep"]
    <2>1. rows \in [Rows -> QRCStatus \cup {"keep"}]
      BY DEF QRCStatus
    <2>2. quotes \in [Quotes -> QuoteStatus \cup {"keep"}]
      BY DEF QuoteStatus
    <2> HIDE DEF rows, quotes
    <2>3. [Open EXCEPT !.lock = "nokey", !.status = "cancelled",
                       !.rows = rows, !.quotes = quotes] \in Transaction
      BY <2>1, <2>2, OpenType DEF Transaction, RequestStatus
    <2> QED BY <1>5, <2>3 DEF CancelQuoteRequest, TypeOK, db, rows, quotes
  <1>6. ASSUME NEW q \in Quotes, RefuseLoad(w, q) PROVE TypeOK'
    <2>1. [Idle EXCEPT
             !.op = "refusing",
             !.quotes[q] = IF quote[q] = "refused" THEN "keep" ELSE "refused",
             !.status = IF status = "quotes_refused" THEN "keep" ELSE "quotes_refused"]
            \in Transaction
      BY IdleType DEF Transaction, RequestStatus, QuoteStatus
    <2> QED BY <1>1, <1>6, <2>1 DEF RefuseLoad
  <1>15. CASE RefuseQuote(w)
    <2> DEFINE flushed == {q \in Quotes : txn[w].quotes[q] # "keep"}
               last == SentQuotes \subseteq flushed
               st == IF last THEN txn[w].status ELSE "keep"
               t == [txn[w] EXCEPT !.op = "open", !.held = flushed, !.status = st]
    <2>1. txn' = [txn EXCEPT ![w] = t] /\ UNCHANGED db
      BY <1>15 DEF RefuseQuote
    <2>2. flushed \in SUBSET Quotes /\ txn[w] \in Transaction
      BY DEF TypeOK
    <2>3. st \in RequestStatus \cup {"keep"}
      BY <2>2 DEF Transaction
    <2> HIDE DEF flushed, st
    <2>4. t \in Transaction
      BY <2>2, <2>3 DEF Transaction
    <2> HIDE DEF t
    <2> QED BY <2>1, <2>4 DEF TypeOK, db
  <1>7. ASSUME NEW q \in Quotes, AcceptQuote(w, q) PROVE TypeOK'
    <2> DEFINE quotes == [x \in Quotes |->
                         IF x = q THEN "accepted"
                         ELSE IF quote[x] = "sent" THEN "refused" ELSE "keep"]
               rows == [r \in Rows |->
                       IF /\ r[1] # author[q]
                          /\ qrc[r] \in {"selected", "transmitted_to_client"}
                       THEN "closed" ELSE "keep"]
    <2>1. rows \in [Rows -> QRCStatus \cup {"keep"}]
      BY DEF QRCStatus
    <2>2. quotes \in [Quotes -> QuoteStatus \cup {"keep"}]
      BY DEF QuoteStatus
    <2> HIDE DEF rows, quotes
    <2>3. [Open EXCEPT !.lock = "update", !.status = "completed",
                       !.quotes = quotes, !.rows = rows, !.order = {q}] \in Transaction
      BY <2>1, <2>2, OpenType DEF Transaction, RequestStatus
    <2> QED BY <1>1, <1>7, <2>3 DEF AcceptQuote, rows, quotes
  <1>8. ASSUME NEW c \in Caterers, DraftCheck(w, c) PROVE TypeOK'
    <2>1. [Idle EXCEPT !.op = "drafting", !.newBy = c] \in Transaction
      BY IdleType DEF Transaction
    <2> QED BY <1>1, <1>8, <2>1 DEF DraftCheck
  <1>16. CASE CreateDraft(w)
    <2> DEFINE c == txn[w].newBy
    <2>1. c \in Caterers \cup {None}
      BY DEF TypeOK, Transaction
    <2> HIDE DEF c
    <2>2. IsFiniteSet(FirstQuotes(c)) /\ Cardinality(FirstQuotes(c)) \in Nat
      BY FS_Subset, FS_CardinalityType DEF FirstQuotes
    <2>3. [Open EXCEPT !.newBy = c, !.serial = Cardinality(FirstQuotes(c))]
            \in Transaction
      BY <2>1, <2>2, OpenType DEF Transaction
    <2> QED BY <1>16, <2>3 DEF CreateDraft, TypeOK, db, c
  <1>9. ASSUME NEW q \in Quotes, EditDraft(w, q) PROVE TypeOK'
    <2>1. [Open EXCEPT !.edits = {q}] \in Transaction
      BY OpenType DEF Transaction
    <2> QED BY <1>1, <1>9, <2>1 DEF EditDraft
  <1>10. ASSUME NEW q \in Quotes, StartRevision(w, q) PROVE TypeOK'
    <2>1. [Open EXCEPT !.lock = "update", !.newBy = author[q], !.newFrom = q]
            \in Transaction
      BY OpenType DEF Transaction, TypeOK
    <2> QED BY <1>1, <1>10, <2>1 DEF StartRevision
  <1>11. ASSUME NEW q \in Quotes, NEW r \in Rows, SubmitRevision(w, q, r) PROVE TypeOK'
    <2>1. source[q] \in Quotes
      BY <1>11 DEF SubmitRevision, TypeOK
    <2>2. [Open EXCEPT !.lock = "update",
                    !.quotes[q] = "sent", !.quotes[source[q]] = "superseded"]
            \in Transaction
      BY <2>1, OpenType DEF Transaction, QuoteStatus
    <2> QED BY <1>1, <1>11, <2>2 DEF SubmitRevision
  <1>12. ASSUME NEW q \in Quotes, NEW r \in Rows, SubmitFirst(w, q, r) PROVE TypeOK'
    <2> DEFINE next == Cardinality(Transmitted) + 1
               rows == [x \in Rows |->
                  IF x = r
                  THEN IF qrc[r] = "transmitted_to_client" THEN "keep"
                       ELSE "transmitted_to_client"
                  ELSE IF next = Slots /\ qrc[x] = "selected" /\ x[1] # r[1]
                  THEN "closed" ELSE "keep"]
    <2>1. rows \in [Rows -> QRCStatus \cup {"keep"}]
      BY DEF QRCStatus
    <2>2. next \in 0..Slots
      BY <1>12, TransmittedFinite DEF SubmitFirst, HasSlot
    <2> HIDE DEF rows, next
    <2>3. [Open EXCEPT !.lock = "update", !.quotes[q] = "sent",
                       !.ranked = r, !.rank = next, !.rows = rows] \in Transaction
      BY <2>1, <2>2, OpenType DEF Transaction, QuoteStatus
    <2> QED BY <1>1, <1>12, <2>3 DEF SubmitFirst, rows, next
  <1>13. ASSUME NEW q \in Quotes, NEW r \in Rows, SubmitTooLate(w, q, r) PROVE TypeOK'
    <2>1. [Open EXCEPT !.lock = "update", !.rows[r] = "closed"] \in Transaction
      BY OpenType DEF Transaction, QRCStatus
    <2> QED BY <1>1, <1>13, <2>1 DEF SubmitTooLate
  <1>14. ASSUME NEW r \in Rows, RequestReject(w, r) PROVE TypeOK'
    <2>1. [Open EXCEPT !.rows[r] = "rejected"] \in Transaction
      BY OpenType DEF Transaction, QRCStatus
    <2> QED BY <1>1, <1>14, <2>1 DEF RequestReject
  <1> QED
    BY <1>2, <1>3, <1>4, <1>5, <1>6, <1>7, <1>8, <1>9, <1>10, <1>11, <1>12, <1>13,
       <1>14, <1>15, <1>16
    DEF Admin, Client, Caterer

(* Applying what was read keeps the types, whatever it was. *)
LEMMA CommitTypes ==
    ASSUME TypeOK, NEW w \in Workers, Commit(w)
    PROVE  TypeOK'
  <1> DEFINE t == txn[w]
             new == IF t.newBy = None THEN {} ELSE {NewQuote}
  <1>1. t \in Transaction
    BY DEF TypeOK
  <1>2. status' \in RequestStatus /\ openings' \in Nat /\ reviewed' \in BOOLEAN
    BY <1>1 DEF Commit, TypeOK, Transaction
  <1>3. qrc' \in [Rows -> QRCStatus] /\ rank' \in [Rows -> 0..Slots]
    BY <1>1 DEF Commit, TypeOK, Transaction, QRCStatus
  <1>4. quote' \in [Quotes -> QuoteStatus]
    BY <1>1 DEF Commit, TypeOK, Transaction, QuoteStatus
  <1>5. author' \in [Quotes -> Caterers \cup {None}]
    BY <1>1 DEF Commit, TypeOK, Transaction
  <1>6. source' \in [Quotes -> Quotes \cup {None}]
    BY <1>1 DEF Commit, TypeOK, Transaction
  <1>7. content' \in [Quotes -> Nat] /\ ordered' \subseteq Quotes
    BY <1>1 DEF Commit, TypeOK, Transaction
  <1>8. txn' \in [Workers -> Transaction]
    BY IdleType DEF Commit, TypeOK
  <1> QED BY <1>2, <1>3, <1>4, <1>5, <1>6, <1>7, <1>8 DEF TypeOK

(* Type correctness: the columns and the open transactions of the model    *)
(* keep their types in every reachable state.                              *)
THEOREM TypeCorrect == Spec => []TypeOK
  <1>1. Init => TypeOK
    <2> SUFFICES ASSUME Init PROVE TypeOK
      OBVIOUS
    <2>1. txn \in [Workers -> Transaction]
      BY IdleType DEF Init
    <2>2. qrc \in [Rows -> QRCStatus] /\ rank \in [Rows -> 0..Slots]
      BY QWAssumption DEF Init, QRCStatus
    <2>3. quote \in [Quotes -> QuoteStatus] /\ content \in [Quotes -> Nat]
      BY DEF Init, QuoteStatus
    <2>4. status \in RequestStatus /\ openings \in Nat
      BY DEF Init, RequestStatus
    <2>7. reviewed \in BOOLEAN
      BY Zenon DEF Init
    <2>5. /\ author \in [Quotes -> Caterers \cup {None}]
          /\ source \in [Quotes -> Quotes \cup {None}]
      BY DEF Init
    <2>6. ordered \subseteq Quotes
      BY DEF Init
    <2> QED BY <2>1, <2>2, <2>3, <2>4, <2>5, <2>6, <2>7 DEF TypeOK
  <1>2. TypeOK /\ [Next]_vars => TypeOK'
    <2> SUFFICES ASSUME TypeOK, [Next]_vars PROVE TypeOK'
      OBVIOUS
    <2>1. ASSUME NEW w \in Workers, Rollback(w) PROVE TypeOK'
      BY <2>1, IdleType DEF Rollback, TypeOK, db
    <2>2. CASE UNCHANGED vars
      BY <2>2 DEF vars, TypeOK
    <2> QED BY <2>1, <2>2, ReadTypes, CommitTypes DEF Next
  <1> QED BY <1>1, <1>2, PTL DEF Spec

-----------------------------------------------------------------------------
(* A read step leaves the tables alone, so it is enough to look at the     *)
(* transaction it opens.                                                   *)
LEMMA BeginSettled ==
    ASSUME TypeOK, Settled, NEW w \in Workers, NEW t,
           UNCHANGED db, txn' = [txn EXCEPT ![w] = t],
           t.lock # "none" => LockFree(w),
           t.lock = "update" => status = "sent_to_caterers",
           t.op = "refusing" => t.status \in {"keep", "quotes_refused"},
           Reserved(t), Sound(t)
    PROVE  Settled'
  <1>1. /\ txn'[w] = t
        /\ \A v \in Workers \ {w} : txn'[v] = txn[v]
    BY DEF TypeOK
  <1>2. LockIsExclusive'
    BY <1>1 DEF Settled, LockIsExclusive, LockFree
  <1>3. OpenWhileLocked'
    BY <1>1 DEF Settled, OpenWhileLocked, db
  <1>4. SlotsHold' /\ OrdersMatchQuotes' /\ OneLiveVersion'
    BY DEF Settled, SlotsHold, Transmitted, OrdersMatchQuotes, OneLiveVersion, db
  <1>5. SlotIsReserved'
    <2>1. Transmitted' = Transmitted
      BY DEF Transmitted, db
    <2>2. ASSUME NEW v \in Workers PROVE Reserved(txn[v])'
      <3>1. txn'[v] = t \/ txn'[v] = txn[v]
        BY <1>1
      <3>2. Reserved(txn[v])
        BY DEF Settled, SlotIsReserved
      <3> QED BY <2>1, <3>1, <3>2 DEF Reserved, Transmitting
    <2> QED BY <2>2 DEF SlotIsReserved
  <1>6. PendingIsSound'
    BY <1>1 DEF Settled, PendingIsSound, Sound, Quiet, Refusal, Cancellation,
                Acceptance, Submission, LapsesEveryOffer, db
  <1>7. RefusingIsMild'
    BY <1>1 DEF Settled, RefusingIsMild
  <1> QED BY <1>2, <1>3, <1>4, <1>5, <1>6, <1>7 DEF Settled

(* The fields of the two transactions every handler starts from. *)
LEMMA Blank ==
    ASSUME NEW t \in {Idle, Open}
    PROVE  /\ t \in Transaction
           /\ t.op # "refusing" /\ t.lock = "none" /\ t.status = "keep"
           /\ t.quotes = [q \in Quotes |-> "keep"] /\ t.rows = [r \in Rows |-> "keep"]
           /\ t.newBy = None /\ t.newFrom = None /\ t.order = {}
  <1>1. CASE t = Idle
    BY <1>1, IdleType DEF Idle
  <1>2. CASE t = Open
    BY <1>2, OpenType DEF Idle, Open
  <1> QED BY <1>1, <1>2

(* What a handler reads opens a transaction that is sound and locked as    *)
(* the invariant wants it.                                                 *)
LEMMA ReadSettled ==
    ASSUME TypeOK, Settled, NEW w \in Workers, Admin(w) \/ Client(w) \/ Caterer(w)
    PROVE  Settled'
  <1> USE QWAssumption
  <1> Open \in {Idle, Open} /\ Idle \in {Idle, Open}
    OBVIOUS
  <1>1. ASSUME NEW t, Begin(w, t), t.lock = "none",
               t.op = "refusing" => t.status \in {"keep", "quotes_refused"},
               \A r \in Rows : t.rows[r] # "transmitted_to_client",
               Quiet(t) \/ Refusal(t)
        PROVE  Settled'
    <2>1. Reserved(t) /\ Sound(t)
      BY <1>1 DEF Reserved, Transmitting, Sound
    <2> QED BY <1>1, <2>1, BeginSettled DEF Begin
  <1>2. ASSUME NEW targets \in FanOuts, ApproveQuoteRequest(w, targets) PROVE Settled'
    <2> DEFINE t == [Open EXCEPT !.adds = targets,
                    !.status = IF status = "sent_to_caterers" THEN "keep"
                               ELSE "sent_to_caterers"]
    <2>1. Begin(w, t)
      BY <1>2 DEF ApproveQuoteRequest
    <2>2. /\ t.op # "refusing" /\ t.lock = "none"
          /\ \A r \in Rows : t.rows[r] # "transmitted_to_client"
      BY Blank DEF Transaction
    <2>3. Quiet(t)
      BY Blank DEF Transaction, Quiet
    <2> QED BY <1>1, <2>1, <2>2, <2>3
  <1>3. CASE RejectQuoteRequest(w)
    <2> DEFINE t == [Open EXCEPT !.status = "cancelled"]
    <2>1. Begin(w, t)
      BY <1>3 DEF RejectQuoteRequest
    <2>2. /\ t.op # "refusing" /\ t.lock = "none"
          /\ \A r \in Rows : t.rows[r] # "transmitted_to_client"
      BY Blank DEF Transaction
    <2>3. Quiet(t)
      BY Blank DEF Transaction, Quiet
    <2> QED BY <1>1, <2>1, <2>2, <2>3
  <1>4. CASE CancelCheck(w)
    <2> DEFINE t == [Idle EXCEPT !.op = "cancelling"]
    <2>1. Begin(w, t)
      BY <1>4 DEF CancelCheck
    <2>2. /\ t.op # "refusing" /\ t.lock = "none"
          /\ \A r \in Rows : t.rows[r] # "transmitted_to_client"
      BY Blank DEF Transaction
    <2>3. Quiet(t)
      BY Blank DEF Transaction, Quiet
    <2> QED BY <1>1, <2>1, <2>2, <2>3
  <1>5. CASE CancelQuoteRequest(w)
    <2> DEFINE rows == [r \in Rows |->
                          IF qrc[r] \in {"selected", "transmitted_to_client"}
                          THEN "closed" ELSE "keep"]
               quotes == [q \in Quotes |->
                            IF quote[q] = "sent" THEN "refused" ELSE "keep"]
               t == [Open EXCEPT !.lock = "nokey", !.status = "cancelled",
                                 !.rows = rows, !.quotes = quotes]
    <2>1. txn' = [txn EXCEPT ![w] = t] /\ UNCHANGED db /\ LockFree(w)
      BY <1>5 DEF CancelQuoteRequest
    <2> HIDE DEF rows, quotes
    <2>2. /\ t.op # "refusing" /\ t.lock = "nokey" /\ t.status = "cancelled" /\ t.rows = rows
          /\ t.quotes = quotes /\ t.order = {} /\ t.newBy = None
      BY Blank DEF Transaction
    <2> HIDE DEF t
    <2>3. Reserved(t)
      BY <2>2 DEF Reserved, Transmitting, rows
    <2>4. Cancellation(t)
      BY <2>2 DEF Cancellation, LapsesEveryOffer, quotes, Unsent
    <2> QED BY <2>1, <2>2, <2>3, <2>4, BeginSettled DEF Sound
  <1>6. ASSUME NEW q \in Quotes, RefuseLoad(w, q) PROVE Settled'
    <2> DEFINE t == [Idle EXCEPT
             !.op = "refusing",
             !.quotes[q] = IF quote[q] = "refused" THEN "keep" ELSE "refused",
             !.status = IF status = "quotes_refused" THEN "keep" ELSE "quotes_refused"]
    <2>1. Begin(w, t) /\ quote[q] \notin Unsent
      BY <1>6 DEF RefuseLoad
    <2>2. /\ t.lock = "none" /\ t.order = {} /\ t.newBy = None
          /\ t.status \in {"keep", "quotes_refused"}
          /\ t.quotes[q] \in {"keep", "refused"}
          /\ \A x \in Quotes \ {q} : t.quotes[x] = "keep"
          /\ \A r \in Rows : t.rows[r] # "transmitted_to_client"
      BY Blank DEF Transaction
    <2> HIDE DEF t
    <2>3. Refusal(t)
      BY <2>1, <2>2 DEF Refusal
    <2> QED BY <1>1, <2>1, <2>2, <2>3
  <1>15. CASE RefuseQuote(w)
    <2> DEFINE old == txn[w]
               flushed == {q \in Quotes : old.quotes[q] # "keep"}
               t == [old EXCEPT !.op = "open", !.held = flushed,
                        !.status = IF SentQuotes \subseteq flushed THEN old.status ELSE "keep"]
    <2>1. UNCHANGED db /\ txn' = [txn EXCEPT ![w] = t] /\ old.op = "refusing"
      BY <1>15 DEF RefuseQuote
    <2>2. /\ t.op = "open" /\ t.lock = old.lock /\ t.quotes = old.quotes
          /\ t.rows = old.rows /\ t.order = old.order /\ t.newBy = old.newBy
          /\ t.status \in {old.status, "keep"}
      BY DEF TypeOK, Transaction
    <2> HIDE DEF t
    <2>3. /\ Reserved(old) /\ Sound(old)
          /\ old.status \in {"keep", "quotes_refused"}
          /\ old.lock = "update" => status = "sent_to_caterers"
          /\ old.lock # "none" => LockFree(w)
      BY <2>1 DEF Settled, SlotIsReserved, PendingIsSound, RefusingIsMild,
                  OpenWhileLocked, LockIsExclusive, LockFree
    <2>4. Reserved(t)
      BY <2>2, <2>3 DEF Reserved, Transmitting
    <2>5. Sound(t)
      BY <2>2, <2>3 DEF Sound, Quiet, Refusal, Cancellation, Acceptance, Submission
    <2> QED BY <2>1, <2>2, <2>3, <2>4, <2>5, BeginSettled
  <1>7. ASSUME NEW q \in Quotes, AcceptQuote(w, q) PROVE Settled'
    <2> DEFINE quotes == [x \in Quotes |->
                         IF x = q THEN "accepted"
                         ELSE IF quote[x] = "sent" THEN "refused" ELSE "keep"]
               rows == [r \in Rows |->
                       IF /\ r[1] # author[q]
                          /\ qrc[r] \in {"selected", "transmitted_to_client"}
                       THEN "closed" ELSE "keep"]
               t == [Open EXCEPT !.lock = "update", !.status = "completed",
                       !.quotes = quotes, !.rows = rows, !.order = {q}]
    <2>1. Begin(w, t) /\ LockFree(w) /\ status = "sent_to_caterers" /\ quote[q] = "sent"
      BY <1>7 DEF AcceptQuote, AcceptGuard
    <2> HIDE DEF quotes, rows
    <2>2. /\ t.op # "refusing" /\ t.lock = "update" /\ t.status = "completed" /\ t.rows = rows
          /\ t.quotes = quotes /\ t.order = {q} /\ t.newBy = None
      BY Blank DEF Transaction
    <2> HIDE DEF t
    <2>3. Reserved(t)
      BY <2>2 DEF Reserved, Transmitting, rows
    <2>4. q \notin ordered /\ \A x \in Quotes : source[x] = q => quote[x] \in Unsent
      BY <2>1 DEF Settled, OrdersMatchQuotes, OneLiveVersion
    <2>5. LapsesEveryOffer(t, {q})
      BY <2>2 DEF LapsesEveryOffer, quotes, Unsent
    <2>6. Acceptance(t)
      BY <2>1, <2>2, <2>4, <2>5 DEF Acceptance, quotes, Unsent
    <2> QED BY <2>1, <2>2, <2>3, <2>6, BeginSettled DEF Sound, Begin
  <1>8. ASSUME NEW c \in Caterers, DraftCheck(w, c) PROVE Settled'
    <2> DEFINE t == [Idle EXCEPT !.op = "drafting", !.newBy = c]
    <2>1. Begin(w, t)
      BY <1>8 DEF DraftCheck
    <2>2. /\ t.op # "refusing" /\ t.lock = "none"
          /\ \A r \in Rows : t.rows[r] # "transmitted_to_client"
      BY Blank DEF Transaction
    <2>3. Quiet(t)
      BY Blank DEF Transaction, Quiet
    <2> QED BY <1>1, <2>1, <2>2, <2>3
  <1>16. CASE CreateDraft(w)
    <2> DEFINE c == txn[w].newBy
               t == [Open EXCEPT !.newBy = c, !.serial = Cardinality(FirstQuotes(c))]
    <2>1. txn' = [txn EXCEPT ![w] = t] /\ UNCHANGED db
      BY <1>16 DEF CreateDraft
    <2> HIDE DEF c
    <2>2. /\ t.op # "refusing" /\ t.lock = "none"
          /\ \A r \in Rows : t.rows[r] # "transmitted_to_client"
      BY Blank DEF Transaction
    <2>3. Quiet(t)
      BY Blank DEF Transaction, Quiet
    <2> HIDE DEF t
    <2>4. Reserved(t)
      BY <2>2 DEF Reserved, Transmitting
    <2> QED BY <2>1, <2>2, <2>3, <2>4, BeginSettled DEF Sound
  <1>9. ASSUME NEW q \in Quotes, EditDraft(w, q) PROVE Settled'
    <2> DEFINE t == [Open EXCEPT !.edits = {q}]
    <2>1. Begin(w, t)
      BY <1>9 DEF EditDraft
    <2>2. /\ t.op # "refusing" /\ t.lock = "none"
          /\ \A r \in Rows : t.rows[r] # "transmitted_to_client"
      BY Blank DEF Transaction
    <2>3. Quiet(t)
      BY Blank DEF Transaction, Quiet
    <2> QED BY <1>1, <2>1, <2>2, <2>3
  <1>10. ASSUME NEW q \in Quotes, StartRevision(w, q) PROVE Settled'
    <2> DEFINE t == [Open EXCEPT !.lock = "update", !.newBy = author[q], !.newFrom = q]
    <2>1. Begin(w, t) /\ LockFree(w) /\ status = "sent_to_caterers"
      BY <1>10 DEF StartRevision, RevisionGuard
    <2>2. t.op # "refusing" /\ t.lock = "update" /\ Reserved(t) /\ Quiet(t)
      BY Blank DEF Transaction, Reserved, Transmitting, Quiet
    <2> QED BY <2>1, <2>2, BeginSettled DEF Sound, Begin
  <1>11. ASSUME NEW q \in Quotes, NEW r \in Rows, SubmitRevision(w, q, r) PROVE Settled'
    <2> DEFINE old == source[q]
               t == [Open EXCEPT !.lock = "update",
                    !.quotes[q] = "sent", !.quotes[old] = "superseded"]
    <2>1. /\ Begin(w, t) /\ LockFree(w) /\ status = "sent_to_caterers"
          /\ quote[q] = "draft" /\ quote[old] = "sent" /\ old # None
      BY <1>11 DEF SubmitRevision, SubmitGuard
    <2>2. old \in Quotes /\ old # q
      BY <2>1 DEF TypeOK
    <2>3. /\ t.op # "refusing" /\ t.lock = "update" /\ t.status = "keep"
          /\ t.order = {} /\ t.newBy = None
          /\ t.quotes[q] = "sent" /\ t.quotes[old] = "superseded"
          /\ \A x \in Quotes \ {q, old} : t.quotes[x] = "keep"
          /\ \A x \in Rows : t.rows[x] # "transmitted_to_client"
      BY <2>2, Blank DEF Transaction
    <2> HIDE DEF t
    <2>4. old \notin ordered /\ quote[old] \notin Unsent
      BY <2>1, <2>2 DEF Settled, OrdersMatchQuotes, Unsent
    <2>5. Submission(t)
      BY <2>1, <2>2, <2>3, <2>4 DEF Submission
    <2>6. Reserved(t)
      BY <2>3 DEF Reserved, Transmitting
    <2> QED BY <2>1, <2>3, <2>5, <2>6, BeginSettled DEF Sound, Begin
  <1>12. ASSUME NEW q \in Quotes, NEW r \in Rows, SubmitFirst(w, q, r) PROVE Settled'
    <2> DEFINE next == Cardinality(Transmitted) + 1
               rows == [x \in Rows |->
                  IF x = r
                  THEN IF qrc[r] = "transmitted_to_client" THEN "keep"
                       ELSE "transmitted_to_client"
                  ELSE IF next = Slots /\ qrc[x] = "selected" /\ x[1] # r[1]
                  THEN "closed" ELSE "keep"]
               t == [Open EXCEPT !.lock = "update", !.quotes[q] = "sent",
                                 !.ranked = r, !.rank = next, !.rows = rows]
    <2>1. /\ Begin(w, t) /\ LockFree(w) /\ status = "sent_to_caterers"
          /\ quote[q] = "draft" /\ source[q] = None /\ next <= Slots
      BY <1>12 DEF SubmitFirst, FirstGuard, SubmitGuard, HasSlot
    <2> HIDE DEF rows, next
    <2>2. /\ t.op # "refusing" /\ t.lock = "update" /\ t.status = "keep"
          /\ t.order = {} /\ t.newBy = None
          /\ t.quotes[q] = "sent" /\ t.rows = rows
          /\ \A x \in Quotes \ {q} : t.quotes[x] = "keep"
      BY Blank DEF Transaction
    <2> HIDE DEF t
    <2>3. Submission(t)
      BY <2>1, <2>2 DEF Submission
    <2>4. Reserved(t)
      <3>1. CASE qrc[r] = "transmitted_to_client"
        BY <2>2, <3>1 DEF Reserved, Transmitting, rows
      <3>2. CASE qrc[r] # "transmitted_to_client"
        <4>1. Transmitting(t) = {r}
          BY <2>2, <3>2 DEF Transmitting, rows
        <4>2. r \notin Transmitted
          BY <3>2 DEF Transmitted
        <4>3. Cardinality(Transmitted \cup {r}) = next
          BY <4>2, TransmittedFinite, FS_AddElement DEF next
        <4> QED BY <2>1, <2>2, <4>1, <4>3 DEF Reserved
      <3> QED BY <3>1, <3>2
    <2> QED BY <2>1, <2>2, <2>3, <2>4, BeginSettled DEF Sound, Begin
  <1>13. ASSUME NEW q \in Quotes, NEW r \in Rows, SubmitTooLate(w, q, r) PROVE Settled'
    <2> DEFINE t == [Open EXCEPT !.lock = "update", !.rows[r] = "closed"]
    <2>1. Begin(w, t) /\ LockFree(w) /\ status = "sent_to_caterers"
      BY <1>13 DEF SubmitTooLate, FirstGuard, SubmitGuard
    <2>2. t.op # "refusing" /\ t.lock = "update" /\ Reserved(t) /\ Quiet(t)
      BY Blank DEF Transaction, Reserved, Transmitting, Quiet
    <2> QED BY <2>1, <2>2, BeginSettled DEF Sound, Begin
  <1>14. ASSUME NEW r \in Rows, RequestReject(w, r) PROVE Settled'
    <2> DEFINE t == [Open EXCEPT !.rows[r] = "rejected"]
    <2>1. Begin(w, t)
      BY <1>14 DEF RequestReject
    <2>2. /\ t.op # "refusing" /\ t.lock = "none"
          /\ \A x \in Rows : t.rows[x] # "transmitted_to_client"
      BY Blank DEF Transaction
    <2>3. Quiet(t)
      BY Blank DEF Transaction, Quiet
    <2> QED BY <1>1, <2>1, <2>2, <2>3
  <1> QED
    BY <1>2, <1>3, <1>4, <1>5, <1>6, <1>7, <1>8, <1>9, <1>10, <1>11, <1>12, <1>13,
       <1>14, <1>15, <1>16
    DEF Admin, Client, Caterer

-----------------------------------------------------------------------------
(* What a commit does to the quotes: only an absent quote gets an author   *)
(* and a source, and a quote that was sent once never goes back.           *)
LEMMA CommitQuotes ==
    ASSUME TypeOK, Settled, NEW w \in Workers, Commit(w)
    PROVE  /\ \A q \in Quotes :
                /\ \/ quote'[q] = quote[q] /\ txn[w].quotes[q] = "keep"
                   \/ txn[w].quotes[q] # "keep" /\ quote'[q] = txn[w].quotes[q]
                   \/ /\ quote[q] = "absent" /\ quote'[q] = "draft"
                      /\ txn[w].newBy # None
                /\ quote[q] # "absent" => source'[q] = source[q]
                /\ quote[q] = "absent" => quote'[q] \in {"absent", "draft"}
                /\ source'[q] # source[q] => quote'[q] = "draft"
           /\ ordered' = ordered \cup txn[w].order
           /\ Sound(txn[w])
  <1> DEFINE t == txn[w]
             new == IF t.newBy = None THEN {} ELSE {NewQuote}
  <1>1. \A q \in new : q \in Quotes /\ quote[q] = "absent" /\ t.newBy # None
    BY DEF Commit, CanCommit, NewQuote
  <1>2. Sound(t)
    BY DEF Settled, PendingIsSound
  <1>3. ordered' = ordered \cup t.order
    BY DEF Commit
  <1>4. /\ quote' = [q \in Quotes |->
                 IF q \in new THEN "draft"
                 ELSE IF t.quotes[q] # "keep" THEN t.quotes[q] ELSE quote[q]]
        /\ source' = [q \in Quotes |-> IF q \in new THEN t.newFrom ELSE source[q]]
    BY DEF Commit
  <1>5. \A q \in Quotes : quote[q] = "absent" => t.quotes[q] = "keep"
    BY <1>2 DEF Sound, Quiet, Refusal, Cancellation, Acceptance, Submission,
                LapsesEveryOffer, Unsent
  <1> HIDE DEF new
  <1> QED BY <1>1, <1>2, <1>3, <1>4, <1>5 DEF TypeOK

(* A transaction that holds no lock on the request only refuses quotes the *)
(* client has seen, or adds a draft.                                       *)
LEMMA UnlockedCommit ==
    ASSUME TypeOK, Settled, NEW w \in Workers, Commit(w), txn[w].lock = "none"
    PROVE  /\ ordered' = ordered
           /\ \A q \in Quotes :
                \/ quote'[q] = quote[q]
                \/ quote[q] = "absent" /\ quote'[q] = "draft"
                \/ quote[q] \notin Unsent /\ quote'[q] = "refused"
  <1>1. Quiet(txn[w]) \/ Refusal(txn[w])
    BY CommitQuotes DEF Sound, Cancellation, Acceptance, Submission
  <1>2. ordered' = ordered
    BY <1>1, CommitQuotes DEF Quiet, Refusal
  <1>3. ASSUME NEW q \in Quotes
        PROVE  \/ txn[w].quotes[q] = "keep"
               \/ txn[w].quotes[q] = "refused" /\ quote[q] \notin Unsent
    BY <1>1 DEF Quiet, Refusal
  <1> QED BY <1>2, <1>3, CommitQuotes

(* Committing keeps the orders and the quotes in agreement. *)
LEMMA CommitOrders ==
    ASSUME TypeOK, Settled, NEW w \in Workers, Commit(w)
    PROVE  OrdersMatchQuotes'
  <1> DEFINE t == txn[w]
  <1> SUFFICES ASSUME NEW q \in Quotes
               PROVE  /\ quote'[q] = "accepted" => q \in ordered'
                      /\ q \in ordered' => quote'[q] \in {"accepted", "refused"}
    BY DEF OrdersMatchQuotes
  <1>1. /\ quote[q] = "accepted" => q \in ordered
        /\ q \in ordered => quote[q] \in {"accepted", "refused"}
    BY DEF Settled, OrdersMatchQuotes
  <1>2. CASE Quiet(t)
    BY <1>1, <1>2, CommitQuotes DEF Quiet
  <1>3. CASE Refusal(t)
    BY <1>1, <1>3, CommitQuotes DEF Refusal
  <1>4. CASE Cancellation(t)
    BY <1>1, <1>4, CommitQuotes DEF Cancellation, LapsesEveryOffer
  <1>5. CASE Acceptance(t)
    BY <1>1, <1>5, CommitQuotes DEF Acceptance, LapsesEveryOffer
  <1>6. CASE Submission(t)
    BY <1>1, <1>6, CommitQuotes DEF Submission
  <1> QED BY <1>2, <1>3, <1>4, <1>5, <1>6, CommitQuotes DEF Sound

(* Committing keeps a single live version of each quote. *)
LEMMA CommitVersions ==
    ASSUME TypeOK, Settled, NEW w \in Workers, Commit(w)
    PROVE  OneLiveVersion'
  <1> DEFINE t == txn[w]
  <1> USE DEF Unsent
  <1> SUFFICES ASSUME NEW x \in Quotes, source'[x] # None, quote'[x] \notin Unsent
               PROVE  quote'[source'[x]] \in {"superseded", "refused"}
    BY DEF OneLiveVersion
  <1>1. source'[x] = source[x] /\ source[x] \in Quotes
    BY CommitQuotes DEF TypeOK
  <1>2. quote[x] \notin Unsent => quote[source[x]] \in {"superseded", "refused"}
    BY <1>1 DEF Settled, OneLiveVersion
  <1>3. CASE Quiet(t)
    BY <1>1, <1>2, <1>3, CommitQuotes DEF Quiet
  <1>4. CASE Refusal(t)
    BY <1>1, <1>2, <1>4, CommitQuotes DEF Refusal
  <1>5. CASE Cancellation(t)
    BY <1>1, <1>2, <1>5, CommitQuotes DEF Cancellation, LapsesEveryOffer
  <1>6. CASE Acceptance(t)
    BY <1>1, <1>2, <1>6, CommitQuotes DEF Acceptance, LapsesEveryOffer
  <1>7. CASE Submission(t)
    BY <1>1, <1>2, <1>7, CommitQuotes DEF Submission
  <1> QED BY <1>3, <1>4, <1>5, <1>6, <1>7, CommitQuotes DEF Sound

(* What another worker has pending stays sound. *)
LEMMA CommitPending ==
    ASSUME TypeOK, Settled, NEW w \in Workers, Commit(w)
    PROVE  PendingIsSound'
  <1> USE DEF Unsent
  <1>1. txn'[w] = Idle /\ \A v \in Workers \ {w} : txn'[v] = txn[v]
    BY DEF Commit, TypeOK
  <1>2. Sound(txn[w])'
    <2>1. Quiet(Idle)
      BY Blank DEF Quiet
    <2> QED BY <1>1, <2>1 DEF Sound, Quiet
  <1>3. ASSUME NEW v \in Workers \ {w} PROVE Sound(txn[v])'
    <2> DEFINE t == txn[v]
    <2>1. Sound(t) /\ txn'[v] = t
      BY <1>1 DEF Settled, PendingIsSound
    <2>2. t.lock # "none" => txn[w].lock = "none"
      BY DEF Settled, LockIsExclusive
    <2>3. \A q \in Quotes : quote[q] \notin Unsent => quote'[q] \notin Unsent
      BY CommitQuotes DEF Sound, Quiet, Refusal, Cancellation, Acceptance,
         Submission, LapsesEveryOffer
    <2> HIDE DEF t
    <2>4. CASE Quiet(t)
      BY <2>1, <2>4 DEF Sound, Quiet
    <2>5. CASE Refusal(t)
      <3>1. Refusal(t)'
        BY <2>1, <2>3, <2>5 DEF Refusal, t
      <3> QED BY <3>1, <2>1 DEF Sound, t
    <2>6. CASE Cancellation(t)
      <3>1. Cancellation(t)'
        BY <2>1, <2>2, <2>3, <2>6, UnlockedCommit DEF Cancellation, LapsesEveryOffer, t
      <3> QED BY <3>1, <2>1 DEF Sound, t
    <2>7. CASE Acceptance(t)
      <3>1. PICK q \in Quotes :
               /\ t.order = {q} /\ t.quotes[q] = "accepted"
               /\ quote[q] \notin Unsent /\ q \notin ordered
               /\ \A x \in Quotes : source[x] = q => quote[x] \in Unsent
               /\ LapsesEveryOffer(t, {q})
        BY <2>7 DEF Acceptance
      <3>2. t.lock = "update" /\ t.status = "completed" /\ t.newBy = None
        BY <2>7 DEF Acceptance
      <3>3. quote'[q] \notin Unsent /\ q \notin ordered'
        BY <2>2, <2>3, <3>1, <3>2, UnlockedCommit
      <3>4. \A x \in Quotes : source'[x] = q => quote'[x] \in Unsent
        BY <2>2, <3>1, <3>2, UnlockedCommit, CommitQuotes
      <3>5. LapsesEveryOffer(t, {q})'
        BY <2>1, <2>2, <2>3, <3>1, <3>2, UnlockedCommit DEF LapsesEveryOffer, t
      <3>6. Acceptance(t)'
        BY <2>1, <3>1, <3>2, <3>3, <3>4, <3>5 DEF Acceptance, t
      <3> QED BY <3>6, <2>1 DEF Sound, t
    <2>8. CASE Submission(t)
      <3>1. PICK q \in Quotes, old \in Quotes :
          /\ quote[q] = "draft" /\ t.quotes[q] = "sent"
          /\ IF source[q] = None THEN old = q
             ELSE /\ old = source[q] /\ old # q /\ old \notin ordered
                  /\ t.quotes[old] = "superseded" /\ quote[old] \notin Unsent
          /\ \A x \in Quotes \ {q, old} : t.quotes[x] = "keep"
        BY <2>8 DEF Submission
      <3>2. /\ t.lock = "update" /\ t.status = "keep"
            /\ t.order = {} /\ t.newBy = None
        BY <2>8 DEF Submission
      <3>3. quote'[q] = "draft" /\ source'[q] = source[q] /\ ordered' = ordered
        BY <2>2, <3>1, <3>2, UnlockedCommit, CommitQuotes
      <3>4. Submission(t)'
        BY <2>1, <2>3, <3>1, <3>2, <3>3 DEF Submission, t
      <3> QED BY <3>4, <2>1 DEF Sound, t
    <2> QED BY <2>1, <2>4, <2>5, <2>6, <2>7, <2>8 DEF Sound
  <1> QED BY <1>2, <1>3 DEF PendingIsSound

(* Committing takes no slot but the one the transaction counted under the  *)
(* lock, and leaves the count of another one right.                        *)
LEMMA CommitSlots ==
    ASSUME TypeOK, Settled, NEW w \in Workers, Commit(w)
    PROVE  SlotsHold' /\ SlotIsReserved'
  <1> DEFINE t == txn[w]
  <1>1. txn'[w] = Idle /\ \A v \in Workers \ {w} : txn'[v] = txn[v]
    BY DEF Commit, TypeOK
  <1>2. Transmitted' \subseteq Transmitted \cup Transmitting(t)
    <2>1. \A r \in Rows : qrc'[r] \in {qrc[r], t.rows[r], "selected"}
      BY DEF Commit
    <2> QED BY <2>1 DEF Transmitted, Transmitting
  <1>3. Reserved(t) /\ SlotsHold
    BY DEF Settled, SlotIsReserved
  <1>4. \A A, B : A \subseteq B /\ B \subseteq Rows =>
            /\ Cardinality(A) \in Nat /\ Cardinality(B) \in Nat
            /\ Cardinality(A) <= Cardinality(B)
    BY RowsFinite, FS_Subset, FS_CardinalityType
  <1>5. \A u : Transmitted \cup Transmitting(u) \subseteq Rows
    BY DEF Transmitted, Transmitting
  <1>6. Cardinality(Transmitted') <= Slots
    <2>1. CASE Transmitting(t) = {}
      <3>1. Transmitted' \subseteq Transmitted
        BY <1>2, <2>1
      <3>2. Cardinality(Transmitted') <= Cardinality(Transmitted)
        BY <3>1, <1>4, <1>5
      <3> QED BY <3>1, <3>2, <1>3, <1>4, <1>5, QWAssumption DEF SlotsHold
    <2>2. CASE Transmitting(t) # {}
      BY <1>2, <1>3, <1>4, <1>5, <2>2, QWAssumption DEF Reserved
    <2> QED BY <2>1, <2>2
  <1>7. ASSUME NEW v \in Workers PROVE Reserved(txn[v])'
    <2>1. CASE v = w
      <3>1. Transmitting(Idle) = {}
        BY Blank DEF Transmitting
      <3> QED BY <1>1, <2>1, <3>1 DEF Reserved, Transmitting
    <2>2. CASE v # w
      <3>1. Reserved(txn[v]) /\ txn'[v] = txn[v]
        BY <1>1, <2>2 DEF Settled, SlotIsReserved
      <3>2. SUFFICES ASSUME Transmitting(txn[v]) # {}
                     PROVE  Cardinality(Transmitted' \cup Transmitting(txn[v])) <= Slots
        BY <3>1 DEF Reserved, Transmitting
      <3>3. Transmitting(t) = {}
        BY <1>3, <2>2, <3>1, <3>2 DEF Reserved, Settled, LockIsExclusive
      <3>4. Transmitted' \cup Transmitting(txn[v])
              \subseteq Transmitted \cup Transmitting(txn[v])
        BY <1>2, <3>3
      <3> QED BY <1>4, <1>5, <3>1, <3>2, <3>4, QWAssumption DEF Reserved
    <2> QED BY <2>1, <2>2
  <1> QED BY <1>6, <1>7 DEF SlotsHold, SlotIsReserved

(* Committing never moves the status of a request another worker has       *)
(* locked FOR UPDATE.                                                      *)
LEMMA CommitSettled ==
    ASSUME TypeOK, Settled, NEW w \in Workers, Commit(w)
    PROVE  Settled'
  <1>1. txn'[w] = Idle /\ \A v \in Workers \ {w} : txn'[v] = txn[v]
    BY DEF Commit, TypeOK
  <1>2. Idle.lock = "none" /\ Idle.op = "idle"
    BY DEF Idle
  <1>3. LockIsExclusive'
    BY <1>1, <1>2 DEF Settled, LockIsExclusive
  <1>4. OpenWhileLocked'
    <2> SUFFICES ASSUME NEW v \in Workers, txn'[v].lock = "update"
                 PROVE  status' = "sent_to_caterers"
      BY DEF OpenWhileLocked
    <2>1. v # w /\ txn[v].lock = "update" /\ status = "sent_to_caterers"
      BY <1>1, <1>2 DEF Settled, OpenWhileLocked
    <2>2. txn[w].status = "keep"
      BY <2>1 DEF Commit, CanCommit, LockFree
    <2> QED BY <2>1, <2>2 DEF Commit
  <1>5. RefusingIsMild'
    BY <1>1, <1>2 DEF Settled, RefusingIsMild
  <1> QED
    BY <1>3, <1>4, <1>5, CommitSlots, CommitPending, CommitOrders, CommitVersions
    DEF Settled

(* A rollback only takes one pending transaction away. *)
LEMMA RollbackSettled ==
    ASSUME TypeOK, Settled, NEW w \in Workers, Rollback(w)
    PROVE  Settled'
  <1> Idle \in {Idle, Open}
    OBVIOUS
  <1>1. Idle.op # "refusing" /\ Idle.lock = "none" /\ Reserved(Idle) /\ Sound(Idle)
    BY Blank DEF Reserved, Transmitting, Sound, Quiet
  <1> QED BY <1>1, BeginSettled DEF Rollback

(* The invariant on which the slots, the versions and the orders rest. *)
LEMMA SettledHolds == Spec => []Settled
  <1>1. Init => Settled
    <2> SUFFICES ASSUME Init PROVE Settled
      OBVIOUS
    <2> Idle \in {Idle, Open}
      OBVIOUS
    <2>1. Idle.op # "refusing" /\ Idle.lock = "none" /\ Reserved(Idle) /\ Sound(Idle)
      BY Blank DEF Reserved, Transmitting, Sound, Quiet
    <2>2. \A w \in Workers : txn[w] = Idle
      BY DEF Init
    <2>3. /\ LockIsExclusive /\ OpenWhileLocked /\ SlotIsReserved
          /\ PendingIsSound /\ RefusingIsMild
      BY <2>1, <2>2 DEF LockIsExclusive, OpenWhileLocked, SlotIsReserved, PendingIsSound,
                        RefusingIsMild
    <2>4. SlotsHold
      <3>1. Transmitted = {}
        BY DEF Init, Transmitted
      <3> QED BY <3>1, FS_EmptySet, QWAssumption DEF SlotsHold
    <2>5. OrdersMatchQuotes /\ OneLiveVersion
      BY DEF Init, OrdersMatchQuotes, OneLiveVersion
    <2> QED BY <2>3, <2>4, <2>5 DEF Settled
  <1>2. TypeOK /\ Settled /\ [Next]_vars => Settled'
    <2> SUFFICES ASSUME TypeOK, Settled, [Next]_vars PROVE Settled'
      OBVIOUS
    <2>1. CASE UNCHANGED vars
      BY <2>1 DEF vars, Settled, LockIsExclusive, OpenWhileLocked, SlotsHold,
         SlotIsReserved, Reserved, Transmitting, Transmitted, PendingIsSound, Sound,
         Quiet, Refusal, Cancellation, Acceptance, Submission, LapsesEveryOffer,
         RefusingIsMild, OrdersMatchQuotes, OneLiveVersion
    <2> QED
      BY <2>1, ReadSettled, CommitSettled, RollbackSettled DEF Next
  <1> QED BY <1>1, <1>2, TypeCorrect, PTL DEF Spec

(* No request is ever transmitted by more caterers than it has slots.      *)
THEOREM SlotsAreNeverExceeded == Spec => []SlotsHold
  <1>1. Settled => SlotsHold
    BY DEF Settled
  <1> QED BY <1>1, SettledHolds, PTL

(* A revised quote is never live beside its revision. *)
THEOREM VersionsNeverCoexist == Spec => []OneLiveVersion
  <1>1. Settled => OneLiveVersion
    BY DEF Settled
  <1> QED BY <1>1, SettledHolds, PTL

(* Orders and quotes agree whatever the interleaving. *)
THEOREM OrdersAgree == Spec => []OrdersMatchQuotes
  <1>1. Settled => OrdersMatchQuotes
    BY DEF Settled
  <1> QED BY <1>1, SettledHolds, PTL

-----------------------------------------------------------------------------
(* What a commit looks like to the two sides.  Whoever sends or takes a    *)
(* quote holds the row FOR UPDATE, so the request is still open.           *)
LEMMA CommitSteps ==
    ASSUME TypeOK, Settled, NEW w \in Workers, Commit(w)
    PROVE  \/ /\ Quiet(txn[w])
              /\ SentQuotes' = SentQuotes /\ ordered' = ordered
              /\ \/ status' = status /\ openings' = openings
                 \/ status' = "sent_to_caterers" /\ openings' = openings + 1
                 \/ status' = "cancelled" /\ openings' = openings
           \/ /\ Refusal(txn[w])
              /\ ordered' = ordered /\ openings' = openings
              /\ status' \in {status, "quotes_refused"}
              /\ \/ SentQuotes' = SentQuotes
                 \/ \E q \in Quotes : SentQuotes' = SentQuotes \ {q}
           \/ /\ Cancellation(txn[w])
              /\ SentQuotes' = {} /\ ordered' = ordered
              /\ status' = "cancelled" /\ openings' = openings
           \/ /\ Acceptance(txn[w])
              /\ status = "sent_to_caterers" /\ status' = "completed"
              /\ SentQuotes' = {} /\ openings' = openings
              /\ \E q \in Quotes : /\ q \notin ordered /\ quote[q] \notin Unsent
                                   /\ ordered' = ordered \cup {q}
           \/ /\ Submission(txn[w])
              /\ status = "sent_to_caterers" /\ status' = status
              /\ ordered' = ordered /\ openings' = openings
              /\ \E q, old \in Quotes :
                    /\ quote[q] = "draft" /\ quote'[q] = "sent"
                    /\ SentQuotes' = (SentQuotes \ {old}) \cup {q}
                    /\ \A x \in Quotes \ {q} : quote[x] \in Unsent => quote'[x] \in Unsent
  <1> DEFINE t == txn[w]
  <1> USE DEF Unsent
  <1>1. /\ status' = IF t.status = "keep" THEN status ELSE t.status
        /\ openings' = IF t.status = "sent_to_caterers" THEN openings + 1 ELSE openings
    BY DEF Commit
  <1>2. t.lock = "update" => status = "sent_to_caterers"
    BY DEF Settled, OpenWhileLocked
  <1>3. CASE Quiet(t)
    <2>1. SentQuotes' = SentQuotes /\ ordered' = ordered
      BY <1>3, CommitQuotes DEF Quiet, SentQuotes
    <2>2. \/ status' = status /\ openings' = openings
          \/ status' = "sent_to_caterers" /\ openings' = openings + 1
          \/ status' = "cancelled" /\ openings' = openings
      BY <1>1, <1>3 DEF Quiet
    <2> QED BY <1>3, <2>1, <2>2
  <1>4. CASE Refusal(t)
    <2>1. PICK q \in Quotes : /\ t.quotes[q] \in {"keep", "refused"}
                              /\ \A x \in Quotes \ {q} : t.quotes[x] = "keep"
      BY <1>4 DEF Refusal
    <2>2. SentQuotes' = SentQuotes \/ SentQuotes' = SentQuotes \ {q}
      <3>1. \A x \in Quotes \ {q} : quote'[x] = "sent" <=> quote[x] = "sent"
        BY <2>1, CommitQuotes
      <3>2. quote'[q] = "sent" => quote[q] = "sent"
        BY <2>1, CommitQuotes
      <3> QED BY <3>1, <3>2 DEF SentQuotes
    <2>3. /\ ordered' = ordered /\ openings' = openings
          /\ status' \in {status, "quotes_refused"}
      BY <1>1, <1>4, CommitQuotes DEF Refusal
    <2> QED BY <1>4, <2>2, <2>3
  <1>5. CASE Cancellation(t)
    <2>1. SentQuotes' = {} /\ ordered' = ordered
      BY <1>5, CommitQuotes DEF Cancellation, LapsesEveryOffer, SentQuotes
    <2>2. status' = "cancelled" /\ openings' = openings
      BY <1>1, <1>5 DEF Cancellation
    <2> QED BY <1>5, <2>1, <2>2
  <1>6. CASE Acceptance(t)
    <2>1. SentQuotes' = {}
      BY <1>6, CommitQuotes DEF Acceptance, LapsesEveryOffer, SentQuotes
    <2>2. \E q \in Quotes : /\ q \notin ordered /\ quote[q] \notin Unsent
                            /\ ordered' = ordered \cup {q}
      BY <1>6, CommitQuotes DEF Acceptance
    <2>3. status = "sent_to_caterers" /\ status' = "completed" /\ openings' = openings
      BY <1>1, <1>2, <1>6 DEF Acceptance
    <2> QED BY <1>6, <2>1, <2>2, <2>3
  <1>7. CASE Submission(t)
    <2>1. PICK q \in Quotes, old \in Quotes :
          /\ quote[q] = "draft" /\ t.quotes[q] = "sent"
          /\ IF source[q] = None THEN old = q
             ELSE /\ old = source[q] /\ old # q /\ old \notin ordered
                  /\ t.quotes[old] = "superseded" /\ quote[old] \notin Unsent
          /\ \A x \in Quotes \ {q, old} : t.quotes[x] = "keep"
      BY <1>7 DEF Submission
    <2>2. quote'[q] = "sent" /\ (old # q => quote'[old] = "superseded")
      BY <2>1, CommitQuotes
    <2>3. SentQuotes' = (SentQuotes \ {old}) \cup {q}
      BY <2>1, <2>2, CommitQuotes DEF SentQuotes
    <2>4. \A x \in Quotes \ {q} : quote[x] \in Unsent => quote'[x] \in Unsent
      BY <2>1, CommitQuotes
    <2>5. /\ status = "sent_to_caterers" /\ status' = status
          /\ ordered' = ordered /\ openings' = openings
      BY <1>1, <1>2, <1>7, CommitQuotes DEF Submission
    <2>6. \E p, o \in Quotes :
             /\ quote[p] = "draft" /\ quote'[p] = "sent"
             /\ SentQuotes' = (SentQuotes \ {o}) \cup {p}
             /\ \A x \in Quotes \ {p} : quote[x] \in Unsent => quote'[x] \in Unsent
      BY <2>1, <2>2, <2>3, <2>4
    <2> QED BY <1>7, <2>5, <2>6
  <1>8. Sound(t)
    BY DEF Settled, PendingIsSound
  <1> QED BY <1>3, <1>4, <1>5, <1>6, <1>7, <1>8 DEF Sound

(* A read or a rollback changes no table. *)
LEMMA OnlyCommitWrites ==
    ASSUME [Next]_vars
    PROVE  UNCHANGED db \/ \E w \in Workers : Commit(w)
  <1>1. ASSUME NEW w \in Workers, NEW t, Begin(w, t) PROVE UNCHANGED db
    BY <1>1 DEF Begin
  <1>2. ASSUME NEW w \in Workers, Admin(w) PROVE UNCHANGED db
    <2>1. CASE CancelQuoteRequest(w)
      BY <2>1 DEF CancelQuoteRequest
    <2>2. CASE RejectQuoteRequest(w) \/ CancelCheck(w)
      BY <1>1, <2>2 DEF RejectQuoteRequest, CancelCheck
    <2>3. ASSUME NEW targets \in FanOuts, ApproveQuoteRequest(w, targets)
          PROVE  UNCHANGED db
      BY <1>1, <2>3 DEF ApproveQuoteRequest
    <2> QED BY <1>2, <2>1, <2>2, <2>3 DEF Admin
  <1>3. ASSUME NEW w \in Workers, Client(w) PROVE UNCHANGED db
    <2>1. CASE RefuseQuote(w)
      BY <2>1 DEF RefuseQuote
    <2>2. ASSUME NEW q \in Quotes, RefuseLoad(w, q) PROVE UNCHANGED db
      BY <1>1, <2>2 DEF RefuseLoad
    <2>3. ASSUME NEW q \in Quotes, AcceptQuote(w, q) PROVE UNCHANGED db
      BY <1>1, <2>3 DEF AcceptQuote
    <2> QED BY <1>3, <2>1, <2>2, <2>3 DEF Client
  <1>4. ASSUME NEW w \in Workers, Caterer(w) PROVE UNCHANGED db
    <2>1. ASSUME NEW c \in Caterers, DraftCheck(w, c) PROVE UNCHANGED db
      BY <1>1, <2>1 DEF DraftCheck
    <2>7. CASE CreateDraft(w)
      BY <2>7 DEF CreateDraft
    <2>2. ASSUME NEW q \in Quotes, EditDraft(w, q) \/ StartRevision(w, q)
          PROVE  UNCHANGED db
      BY <1>1, <2>2 DEF EditDraft, StartRevision
    <2>3. ASSUME NEW q \in Quotes, NEW r \in Rows, SubmitRevision(w, q, r)
          PROVE  UNCHANGED db
      BY <1>1, <2>3 DEF SubmitRevision
    <2>4. ASSUME NEW q \in Quotes, NEW r \in Rows, SubmitFirst(w, q, r)
          PROVE  UNCHANGED db
      BY <1>1, <2>4 DEF SubmitFirst
    <2>5. ASSUME NEW q \in Quotes, NEW r \in Rows, SubmitTooLate(w, q, r)
          PROVE  UNCHANGED db
      BY <1>1, <2>5 DEF SubmitTooLate
    <2>6. ASSUME NEW r \in Rows, RequestReject(w, r) PROVE UNCHANGED db
      BY <1>1, <2>6 DEF RequestReject
    <2> QED BY <1>4, <2>1, <2>2, <2>3, <2>4, <2>5, <2>6, <2>7 DEF Caterer
  <1>5. ASSUME NEW w \in Workers, Rollback(w) PROVE UNCHANGED db
    BY <1>5 DEF Rollback
  <1>6. UNCHANGED vars => UNCHANGED db
    BY DEF vars, db
  <1> QED BY <1>2, <1>3, <1>4, <1>5, <1>6 DEF Next

(* The interleaved handlers implement the abstract tender: each commit is  *)
(* one of its steps, or a stutter.                                         *)
THEOREM WorkflowImplementsTender == Spec => ImplementsTender
  <1> DEFINE offered == {q \in Quotes : quote[q] \notin Unsent}
  <1> USE DEF Unsent
  <1>1. Init => T!Init
    <2> SUFFICES ASSUME Init PROVE T!Init
      OBVIOUS
    <2>1. SentQuotes = {} /\ offered = {} /\ ordered = {}
      BY DEF Init, SentQuotes
    <2>2. \/ Phase = "review" /\ openings = 0
          \/ Phase = "open" /\ openings = 1
      BY DEF Init, Phase
    <2> QED BY <2>1, <2>2 DEF T!Init
  <1>2. TypeOK /\ Settled /\ [Next]_vars => [T!Next]_T!vars
    <2> SUFFICES ASSUME TypeOK, Settled, [Next]_vars PROVE [T!Next]_T!vars
      OBVIOUS
    <2>1. CASE UNCHANGED db
      BY <2>1 DEF db, T!vars, Phase, SentQuotes
    <2>2. ASSUME NEW w \in Workers, Commit(w) PROVE [T!Next]_T!vars
      <3> DEFINE t == txn[w]
      <3> USE <2>2
      <3>1. ASSUME ~Submission(t) PROVE offered' = offered
        <4>1. ASSUME NEW q \in Quotes PROVE quote'[q] \in Unsent <=> quote[q] \in Unsent
          BY <3>1, CommitQuotes DEF Sound, Quiet, Refusal, Cancellation, Acceptance,
             LapsesEveryOffer
        <4> QED BY <4>1
      <3>2. status' = status => Phase' = Phase
        BY DEF Phase
      <3>3. CASE /\ Quiet(t) /\ SentQuotes' = SentQuotes /\ ordered' = ordered
                 /\ \/ status' = status /\ openings' = openings
                    \/ status' = "sent_to_caterers" /\ openings' = openings + 1
                    \/ status' = "cancelled" /\ openings' = openings
        <4>1. ~Submission(t)
          BY <3>3 DEF Quiet, Submission
        <4>2. CASE status' = status /\ openings' = openings
          BY <3>1, <3>2, <3>3, <4>1, <4>2 DEF T!vars
        <4>3. CASE status' = "sent_to_caterers" /\ openings' = openings + 1
          <5>1. Phase' = "open"
            BY <4>3 DEF Phase
          <5> QED BY <3>1, <3>3, <4>1, <4>3, <5>1 DEF T!Next, T!Invite
        <4>4. CASE status' = "cancelled" /\ openings' = openings
          <5>1. Phase' = "closed"
            BY <4>4 DEF Phase
          <5> QED BY <3>1, <3>3, <4>1, <4>4, <5>1 DEF T!Next, T!Close
        <4> QED BY <3>3, <4>2, <4>3, <4>4
      <3>4. CASE /\ Refusal(t) /\ ordered' = ordered /\ openings' = openings
                 /\ status' \in {status, "quotes_refused"}
                 /\ \/ SentQuotes' = SentQuotes
                    \/ \E q \in Quotes : SentQuotes' = SentQuotes \ {q}
        <4>1. ~Submission(t)
          BY <3>4 DEF Refusal, Submission
        <4>2. status' = "quotes_refused" => Phase' = "closed"
          BY DEF Phase
        <4>3. CASE SentQuotes' = SentQuotes
          BY <3>1, <3>2, <3>4, <4>1, <4>2, <4>3 DEF T!Next, T!Close, T!vars
        <4>4. CASE \E q \in Quotes : SentQuotes' = SentQuotes \ {q}
          BY <3>1, <3>2, <3>4, <4>1, <4>2, <4>4 DEF T!Next, T!Decline
        <4> QED BY <3>4, <4>3, <4>4
      <3>5. CASE /\ Cancellation(t) /\ SentQuotes' = {} /\ ordered' = ordered
                 /\ status' = "cancelled" /\ openings' = openings
        <4>1. ~Submission(t)
          BY <3>5 DEF Cancellation, Submission
        <4>2. Phase' = "closed"
          BY <3>5 DEF Phase
        <4> QED BY <3>1, <3>5, <4>1, <4>2 DEF T!Next, T!Close
      <3>6. CASE /\ Acceptance(t)
                 /\ status = "sent_to_caterers" /\ status' = "completed"
                 /\ SentQuotes' = {} /\ openings' = openings
                 /\ \E q \in Quotes : /\ q \notin ordered /\ quote[q] \notin Unsent
                                      /\ ordered' = ordered \cup {q}
        <4>1. ~Submission(t)
          BY <3>6 DEF Acceptance, Submission
        <4>2. Phase = "open" /\ Phase' = "awarded"
          BY <3>6 DEF Phase
        <4> QED BY <3>1, <3>6, <4>1, <4>2 DEF T!Next, T!Award
      <3>7. CASE /\ Submission(t)
                 /\ status = "sent_to_caterers" /\ status' = status
                 /\ ordered' = ordered /\ openings' = openings
                 /\ \E q, old \in Quotes :
                      /\ quote[q] = "draft" /\ quote'[q] = "sent"
                      /\ SentQuotes' = (SentQuotes \ {old}) \cup {q}
                      /\ \A x \in Quotes \ {q} :
                            quote[x] \in Unsent => quote'[x] \in Unsent
        <4>1. PICK q \in Quotes, old \in Quotes :
                      /\ quote[q] = "draft" /\ quote'[q] = "sent"
                      /\ SentQuotes' = (SentQuotes \ {old}) \cup {q}
                      /\ \A x \in Quotes \ {q} :
                            quote[x] \in Unsent => quote'[x] \in Unsent
          BY <3>7
        <4>2. \A x \in Quotes : quote[x] \notin Unsent => quote'[x] \notin Unsent
          BY <3>7, CommitQuotes DEF Submission
        <4>3. q \notin offered /\ offered' = offered \cup {q}
          BY <4>1, <4>2
        <4>4. Phase = "open" /\ Phase' = Phase
          BY <3>2, <3>7 DEF Phase
        <4>5. T!Offer(q)
          BY <3>7, <4>1, <4>3, <4>4 DEF T!Offer
        <4> QED BY <4>5 DEF T!Next
      <3> QED BY <3>3, <3>4, <3>5, <3>6, <3>7, CommitSteps
    <2> QED BY <2>1, <2>2, OnlyCommitWrites
  <1> QED
    BY <1>1, <1>2, TypeCorrect, SettledHolds, PTL DEF Spec, ImplementsTender, T!Spec

-----------------------------------------------------------------------------
(* Orders are paid for by openings: while the request is open it is owed   *)
(* one more.  A completed request has no offer left.                       *)
OneMoreOwed ==
    /\ IsFiniteSet(ordered)
    /\ Cardinality(ordered)
         + (IF status = "sent_to_caterers" THEN 1 ELSE 0) <= openings

LEMMA OwedSteps ==
    ASSUME TypeOK, Settled, OneMoreOwed, CompletedIsSettled, [Next]_vars
    PROVE  OneMoreOwed' /\ CompletedIsSettled'
  <1> USE DEF OneMoreOwed, CompletedIsSettled
  <1>1. CASE UNCHANGED db
    BY <1>1 DEF db, SentQuotes
  <1>2. ASSUME NEW w \in Workers, Commit(w)
        PROVE  OneMoreOwed' /\ CompletedIsSettled'
    <2>1. Cardinality(ordered) \in Nat /\ openings \in Nat
      BY FS_CardinalityType DEF TypeOK
    <2>2. \A q \in Quotes : q \notin ordered =>
              /\ IsFiniteSet(ordered \cup {q})
              /\ Cardinality(ordered \cup {q}) = Cardinality(ordered) + 1
      BY FS_AddElement
    <2> QED BY <1>2, <2>1, <2>2, CommitSteps DEF RequestStatus, TypeOK
  <1> QED BY <1>1, <1>2, OnlyCommitWrites

LEMMA OrdersOwed == Spec => [](OneMoreOwed /\ CompletedIsSettled)
  <1>1. Init => OneMoreOwed /\ CompletedIsSettled
    BY FS_EmptySet DEF Init, OneMoreOwed, CompletedIsSettled
  <1> QED BY <1>1, OwedSteps, TypeCorrect, SettledHolds, PTL DEF Spec

(* A request never gives more orders than the times it was opened. *)
THEOREM NoMoreOrdersThanOpenings == Spec => []OrdersWithinOpenings
  <1>1. TypeOK /\ OneMoreOwed => OrdersWithinOpenings
    BY FS_CardinalityType DEF OneMoreOwed, OrdersWithinOpenings, TypeOK
  <1> QED BY <1>1, OrdersOwed, TypeCorrect, PTL

(* Once the client has chosen, no offer is left pending. *)
THEOREM CompletedRequestsAreSettled == Spec => []CompletedIsSettled
  BY OrdersOwed, PTL

(* A quote reaches the client only while the request is open. *)
THEOREM OffersComeWhileOpen == Spec => SentOnlyWhileOpen
  <1> DEFINE A == \A q \in Quotes : quote'[q] = "sent" /\ quote[q] # "sent" =>
                     status = "sent_to_caterers" /\ status' = status
  <1>1. TypeOK /\ Settled /\ [Next]_vars => [A]_vars
    <2> SUFFICES ASSUME TypeOK, Settled, [Next]_vars PROVE A
      OBVIOUS
    <2>1. CASE UNCHANGED db
      BY <2>1 DEF db
    <2>2. ASSUME NEW w \in Workers, Commit(w), NEW q \in Quotes,
                 quote'[q] = "sent", quote[q] # "sent"
          PROVE  status = "sent_to_caterers" /\ status' = status
      <3>1. SentQuotes' # SentQuotes /\ ~ SentQuotes' \subseteq SentQuotes
        BY <2>2 DEF SentQuotes
      <3> QED BY <2>2, <3>1, CommitSteps
    <2> QED BY <2>1, <2>2, OnlyCommitWrites
  <1> QED BY <1>1, TypeCorrect, SettledHolds, PTL DEF Spec, SentOnlyWhileOpen

-----------------------------------------------------------------------------
(* The rest of the inductive invariant: what is about to be inserted, and  *)
(* what is about to happen to the rows.                                    *)

Fits(t) == InsertFits(t) /\ RowsFit(t)

(* A step that leaves the tables alone only has to open a transaction that *)
(* fits them.                                                              *)
LEMMA BeginFits ==
    ASSUME TypeOK, Inductive, NEW w \in Workers, NEW t,
           UNCHANGED db, txn' = [txn EXCEPT ![w] = t], Fits(t)
    PROVE  AbsentIsBlank' /\ WritesFit' /\ OneRevisionPerSource'
  <1>1. AbsentIsBlank' /\ OneRevisionPerSource'
    BY DEF Inductive, AbsentIsBlank, OneRevisionPerSource, db
  <1>2. ASSUME NEW v \in Workers PROVE Fits(txn[v])'
    <2>1. txn'[v] = t \/ txn'[v] = txn[v]
      BY DEF TypeOK
    <2>2. Fits(txn[v])
      BY DEF Inductive, WritesFit, Fits
    <2>4. InsertFits(txn[v])'
      BY <2>1, <2>2 DEF Fits, InsertFits, db
    <2>5. RowsFit(txn[v])'
      BY <2>1, <2>2 DEF Fits, RowsFit, db
    <2> QED BY <2>4, <2>5 DEF Fits
  <1> QED BY <1>1, <1>2 DEF WritesFit, Fits

(* A transaction that starts no revision and closes or transmits no row fits. *)
LEMMA MildFits ==
    ASSUME NEW t, t.newFrom = None,
           \A r \in Rows : t.rows[r] \in {"keep", "rejected"}
    PROVE  Fits(t)
  BY DEF Fits, InsertFits, RowsFit

(* What a handler reads fits the tables it was read from. *)
LEMMA ReadFits ==
    ASSUME TypeOK, Inductive, NEW w \in Workers, Admin(w) \/ Client(w) \/ Caterer(w)
    PROVE  AbsentIsBlank' /\ WritesFit' /\ OneRevisionPerSource'
  <1> DEFINE Kept == AbsentIsBlank' /\ WritesFit' /\ OneRevisionPerSource'
  <1> USE QWAssumption
  <1> Open \in {Idle, Open} /\ Idle \in {Idle, Open}
    OBVIOUS
  <1>1. ASSUME NEW t, Begin(w, t), Fits(t) PROVE Kept
    BY <1>1, BeginFits DEF Begin
  <1> HIDE DEF Kept
  <1>2. ASSUME NEW targets \in FanOuts, ApproveQuoteRequest(w, targets) PROVE Kept
    <2> DEFINE t == [Open EXCEPT !.adds = targets,
                    !.status = IF status = "sent_to_caterers" THEN "keep"
                               ELSE "sent_to_caterers"]
    <2>1. t.newBy = None /\ t.newFrom = None /\ \A r \in Rows : t.rows[r] = "keep"
      BY Blank DEF Transaction
    <2>2. Begin(w, t)
      BY <1>2 DEF ApproveQuoteRequest
    <2> HIDE DEF t
    <2> QED BY <1>1, <2>1, <2>2, MildFits
  <1>3. CASE RejectQuoteRequest(w)
    <2> DEFINE t == [Open EXCEPT !.status = "cancelled"]
    <2>1. t.newBy = None /\ t.newFrom = None /\ \A r \in Rows : t.rows[r] = "keep"
      BY Blank DEF Transaction
    <2>2. Begin(w, t)
      BY <1>3 DEF RejectQuoteRequest
    <2> HIDE DEF t
    <2> QED BY <1>1, <2>1, <2>2, MildFits DEF Kept
  <1>4. CASE CancelCheck(w)
    <2> DEFINE t == [Idle EXCEPT !.op = "cancelling"]
    <2>1. t.newBy = None /\ t.newFrom = None /\ \A r \in Rows : t.rows[r] = "keep"
      BY Blank DEF Transaction
    <2>2. Begin(w, t)
      BY <1>4 DEF CancelCheck
    <2> HIDE DEF t
    <2> QED BY <1>1, <2>1, <2>2, MildFits DEF Kept
  <1>5. CASE CancelQuoteRequest(w)
    <2> DEFINE rows == [r \in Rows |->
                          IF qrc[r] \in {"selected", "transmitted_to_client"}
                          THEN "closed" ELSE "keep"]
               quotes == [q \in Quotes |->
                            IF quote[q] = "sent" THEN "refused" ELSE "keep"]
               t == [Open EXCEPT !.lock = "nokey", !.status = "cancelled",
                                 !.rows = rows, !.quotes = quotes]
    <2>1. txn' = [txn EXCEPT ![w] = t] /\ UNCHANGED db
      BY <1>5 DEF CancelQuoteRequest
    <2> HIDE DEF rows, quotes
    <2>2. t.newBy = None /\ t.newFrom = None /\ t.lock = "nokey" /\ t.rows = rows
      BY Blank DEF Transaction
    <2> HIDE DEF t
    <2>3. Fits(t)
      BY <2>2 DEF Fits, InsertFits, RowsFit, rows
    <2> QED BY <2>1, <2>3, BeginFits DEF Kept
  <1>6. ASSUME NEW q \in Quotes, RefuseLoad(w, q) PROVE Kept
    <2> DEFINE t == [Idle EXCEPT
             !.op = "refusing",
             !.quotes[q] = IF quote[q] = "refused" THEN "keep" ELSE "refused",
             !.status = IF status = "quotes_refused" THEN "keep" ELSE "quotes_refused"]
    <2>1. t.newBy = None /\ t.newFrom = None /\ \A r \in Rows : t.rows[r] = "keep"
      BY Blank DEF Transaction
    <2>2. Begin(w, t)
      BY <1>6 DEF RefuseLoad
    <2> HIDE DEF t
    <2> QED BY <1>1, <2>1, <2>2, MildFits
  <1>7. CASE RefuseQuote(w)
    <2> DEFINE old == txn[w]
               flushed == {q \in Quotes : old.quotes[q] # "keep"}
               t == [old EXCEPT !.op = "open", !.held = flushed,
                        !.status = IF SentQuotes \subseteq flushed THEN old.status ELSE "keep"]
    <2>1. UNCHANGED db /\ txn' = [txn EXCEPT ![w] = t]
      BY <1>7 DEF RefuseQuote
    <2>2. /\ t.lock = old.lock /\ t.rows = old.rows /\ t.newBy = old.newBy
          /\ t.newFrom = old.newFrom /\ t.serial = old.serial
      BY DEF TypeOK, Transaction
    <2> HIDE DEF t
    <2>3. Fits(old)
      BY DEF Inductive, WritesFit, Fits
    <2>4. Fits(t)
      BY <2>2, <2>3 DEF Fits, InsertFits, RowsFit
    <2> QED BY <2>1, <2>4, BeginFits DEF Kept
  <1>8. ASSUME NEW q \in Quotes, AcceptQuote(w, q) PROVE Kept
    <2> DEFINE quotes == [x \in Quotes |->
                         IF x = q THEN "accepted"
                         ELSE IF quote[x] = "sent" THEN "refused" ELSE "keep"]
               rows == [r \in Rows |->
                       IF /\ r[1] # author[q]
                          /\ qrc[r] \in {"selected", "transmitted_to_client"}
                       THEN "closed" ELSE "keep"]
               t == [Open EXCEPT !.lock = "update", !.status = "completed",
                       !.quotes = quotes, !.rows = rows, !.order = {q}]
    <2>1. Begin(w, t)
      BY <1>8 DEF AcceptQuote
    <2> HIDE DEF quotes, rows
    <2>2. t.newBy = None /\ t.newFrom = None /\ t.lock = "update" /\ t.rows = rows
      BY Blank DEF Transaction
    <2> HIDE DEF t
    <2>3. Fits(t)
      BY <2>2 DEF Fits, InsertFits, RowsFit, rows
    <2> QED BY <1>1, <2>1, <2>3
  <1>9. ASSUME NEW c \in Caterers, DraftCheck(w, c) PROVE Kept
    <2> DEFINE t == [Idle EXCEPT !.op = "drafting", !.newBy = c]
    <2>1. t.newFrom = None /\ \A r \in Rows : t.rows[r] = "keep"
      BY Blank DEF Transaction
    <2>2. Begin(w, t)
      BY <1>9 DEF DraftCheck
    <2> HIDE DEF t
    <2> QED BY <1>1, <2>1, <2>2, MildFits
  <1>16. CASE CreateDraft(w)
    <2> DEFINE c == txn[w].newBy
               t == [Open EXCEPT !.newBy = c, !.serial = Cardinality(FirstQuotes(c))]
    <2>1. txn' = [txn EXCEPT ![w] = t] /\ UNCHANGED db
      BY <1>16 DEF CreateDraft
    <2> HIDE DEF c
    <2>2. t.newFrom = None /\ \A r \in Rows : t.rows[r] = "keep"
      BY Blank DEF Transaction
    <2> HIDE DEF t
    <2> QED BY <2>1, <2>2, MildFits, BeginFits DEF Kept
  <1>10. ASSUME NEW q \in Quotes, EditDraft(w, q) PROVE Kept
    <2> DEFINE t == [Open EXCEPT !.edits = {q}]
    <2>1. t.newBy = None /\ t.newFrom = None /\ \A r \in Rows : t.rows[r] = "keep"
      BY Blank DEF Transaction
    <2>2. Begin(w, t)
      BY <1>10 DEF EditDraft
    <2> HIDE DEF t
    <2> QED BY <1>1, <2>1, <2>2, MildFits
  <1>11. ASSUME NEW q \in Quotes, StartRevision(w, q) PROVE Kept
    <2> DEFINE t == [Open EXCEPT !.lock = "update", !.newBy = author[q], !.newFrom = q]
    <2>1. /\ Begin(w, t) /\ quote[q] = "sent"
          /\ ~ \E x \in Quotes : source[x] = q /\ quote[x] = "draft"
      BY <1>11 DEF StartRevision, RevisionGuard
    <2>2. /\ t.lock = "update" /\ t.newFrom = q /\ q # None
          /\ \A r \in Rows : t.rows[r] = "keep"
      BY Blank DEF Transaction
    <2>3. \A x \in Quotes : source[x] # q
      BY <2>1, <2>2 DEF Inductive, Settled, OneLiveVersion, AbsentIsBlank, Unsent
    <2> HIDE DEF t
    <2>4. Fits(t)
      BY <2>2, <2>3 DEF Fits, InsertFits, RowsFit
    <2> QED BY <1>1, <2>1, <2>4
  <1>12. ASSUME NEW q \in Quotes, NEW r \in Rows, SubmitRevision(w, q, r) PROVE Kept
    <2> DEFINE t == [Open EXCEPT !.lock = "update",
                    !.quotes[q] = "sent", !.quotes[source[q]] = "superseded"]
    <2>1. t.newBy = None /\ t.newFrom = None /\ \A x \in Rows : t.rows[x] = "keep"
      BY Blank DEF Transaction
    <2>2. Begin(w, t)
      BY <1>12 DEF SubmitRevision
    <2> HIDE DEF t
    <2> QED BY <1>1, <2>1, <2>2, MildFits
  <1>13. ASSUME NEW q \in Quotes, NEW r \in Rows, SubmitFirst(w, q, r) PROVE Kept
    <2> DEFINE next == Cardinality(Transmitted) + 1
               rows == [x \in Rows |->
                  IF x = r
                  THEN IF qrc[r] = "transmitted_to_client" THEN "keep"
                       ELSE "transmitted_to_client"
                  ELSE IF next = Slots /\ qrc[x] = "selected" /\ x[1] # r[1]
                  THEN "closed" ELSE "keep"]
               t == [Open EXCEPT !.lock = "update", !.quotes[q] = "sent",
                                 !.ranked = r, !.rank = next, !.rows = rows]
    <2>1. Begin(w, t) /\ qrc[r] # "closed"
      BY <1>13 DEF SubmitFirst, FirstGuard
    <2> HIDE DEF rows, next
    <2>2. t.newBy = None /\ t.newFrom = None /\ t.lock = "update" /\ t.rows = rows
      BY Blank DEF Transaction
    <2> HIDE DEF t
    <2>3. Fits(t)
      BY <2>1, <2>2 DEF Fits, InsertFits, RowsFit, rows
    <2> QED BY <1>1, <2>1, <2>3
  <1>14. ASSUME NEW q \in Quotes, NEW r \in Rows, SubmitTooLate(w, q, r) PROVE Kept
    <2> DEFINE t == [Open EXCEPT !.lock = "update", !.rows[r] = "closed"]
    <2>1. Begin(w, t)
      BY <1>14 DEF SubmitTooLate
    <2>2. /\ t.newBy = None /\ t.newFrom = None /\ t.lock = "update"
          /\ \A x \in Rows : t.rows[x] \in {"keep", "closed"}
      BY Blank DEF Transaction
    <2> HIDE DEF t
    <2>3. Fits(t)
      BY <2>2 DEF Fits, InsertFits, RowsFit
    <2> QED BY <1>1, <2>1, <2>3
  <1>15. ASSUME NEW r \in Rows, RequestReject(w, r) PROVE Kept
    <2> DEFINE t == [Open EXCEPT !.rows[r] = "rejected"]
    <2>1. /\ t.newBy = None /\ t.newFrom = None
          /\ \A x \in Rows : t.rows[x] \in {"keep", "rejected"}
      BY Blank DEF Transaction
    <2>2. Begin(w, t)
      BY <1>15 DEF RequestReject
    <2> HIDE DEF t
    <2> QED BY <1>1, <2>1, <2>2, MildFits
  <1> QED
    BY <1>2, <1>3, <1>4, <1>5, <1>6, <1>7, <1>8, <1>9, <1>10, <1>11, <1>12, <1>13,
       <1>14, <1>15, <1>16
    DEF Admin, Client, Caterer, Kept

-----------------------------------------------------------------------------
(* No transaction writes "draft" or "absent" on a quote: drafts come from  *)
(* inserts only, and a quote that exists stays.                            *)
LEMMA WrittenStatus ==
    ASSUME Settled, NEW w \in Workers, NEW q \in Quotes
    PROVE  /\ txn[w].quotes[q] \notin Unsent
           /\ quote[q] = "absent" => txn[w].quotes[q] = "keep"
  BY DEF Settled, PendingIsSound, Sound, Quiet, Refusal, Cancellation, Acceptance,
         Submission, LapsesEveryOffer, Unsent

(* A commit inserts one quote that did not exist, or none. *)
LEMMA CommitInserts ==
    ASSUME TypeOK, Inductive, NEW w \in Workers, Commit(w)
    PROVE  \/ /\ author' = author /\ source' = source
              /\ \A q \in Quotes : /\ quote'[q] = "draft" => quote[q] = "draft"
                                   /\ quote'[q] = "absent" <=> quote[q] = "absent"
           \/ \E n \in Quotes :
              /\ txn[w].newBy # None
              /\ quote[n] = "absent" /\ quote'[n] = "draft"
              /\ author' = [author EXCEPT ![n] = txn[w].newBy]
              /\ source' = [source EXCEPT ![n] = txn[w].newFrom]
              /\ \A q \in Quotes \ {n} :
                    /\ quote'[q] = "draft" => quote[q] = "draft"
                    /\ quote'[q] = "absent" <=> quote[q] = "absent"
  <1> DEFINE t == txn[w]
             new == IF t.newBy = None THEN {} ELSE {NewQuote}
  <1>1. /\ quote' = [q \in Quotes |->
                 IF q \in new THEN "draft"
                 ELSE IF t.quotes[q] # "keep" THEN t.quotes[q] ELSE quote[q]]
        /\ author' = [q \in Quotes |-> IF q \in new THEN t.newBy ELSE author[q]]
        /\ source' = [q \in Quotes |-> IF q \in new THEN t.newFrom ELSE source[q]]
    BY DEF Commit
  <1>2. \A q \in Quotes : q \notin new =>
            /\ quote'[q] = "draft" => quote[q] = "draft"
            /\ quote'[q] = "absent" <=> quote[q] = "absent"
    BY <1>1, WrittenStatus DEF Inductive, Unsent
  <1>3. CASE t.newBy = None
    <2>1. author' = author /\ source' = source
      BY <1>1, <1>3 DEF TypeOK
    <2> QED BY <1>2, <1>3, <2>1
  <1>4. CASE t.newBy # None
    <2>1. NewQuote \in Quotes /\ quote[NewQuote] = "absent"
      BY <1>4 DEF Commit, CanCommit, NewQuote
    <2>2. PICK n \in Quotes : n = NewQuote
      BY <2>1
    <2>3. new = {n}
      BY <1>4, <2>2
    <2> HIDE DEF new
    <2>4. quote'[n] = "draft"
      BY <1>1, <2>3
    <2>5. /\ author' = [author EXCEPT ![n] = t.newBy]
          /\ source' = [source EXCEPT ![n] = t.newFrom]
      BY <1>1, <2>3 DEF TypeOK
    <2> QED BY <1>2, <1>4, <2>1, <2>2, <2>3, <2>4, <2>5
  <1> QED BY <1>3, <1>4

(* Two revisions of one quote would need two holders of the row lock.      *)
LEMMA CommitRevisions ==
    ASSUME TypeOK, Inductive, NEW w \in Workers, Commit(w)
    PROVE  OneRevisionPerSource' /\ AbsentIsBlank'
  <1>1. InsertFits(txn[w]) /\ OneRevisionPerSource /\ AbsentIsBlank
    BY DEF Inductive, WritesFit
  <1>2. CASE /\ author' = author /\ source' = source
             /\ \A q \in Quotes : quote'[q] = "absent" <=> quote[q] = "absent"
    BY <1>1, <1>2 DEF OneRevisionPerSource, AbsentIsBlank
  <1>3. ASSUME NEW n \in Quotes, quote'[n] = "draft", txn[w].newBy # None,
               author' = [author EXCEPT ![n] = txn[w].newBy],
               source' = [source EXCEPT ![n] = txn[w].newFrom],
               \A q \in Quotes \ {n} : quote'[q] = "absent" <=> quote[q] = "absent"
        PROVE  OneRevisionPerSource' /\ AbsentIsBlank'
    <2>1. \A q \in Quotes \ {n} : author'[q] = author[q] /\ source'[q] = source[q]
      BY <1>3 DEF TypeOK
    <2>2. author'[n] = txn[w].newBy /\ source'[n] = txn[w].newFrom
      BY <1>3 DEF TypeOK
    <2>3. AbsentIsBlank'
      BY <1>1, <1>3, <2>1, <2>2 DEF AbsentIsBlank
    <2>4. OneRevisionPerSource'
      BY <1>1, <2>1, <2>2 DEF OneRevisionPerSource, InsertFits
    <2> QED BY <2>3, <2>4
  <1> QED BY <1>2, <1>3, CommitInserts

(* A commit moves a row to what its transaction wrote, or adds a new one. *)
LEMMA CommitRows ==
    ASSUME NEW w \in Workers, Commit(w), NEW r \in Rows
    PROVE  \/ txn[w].rows[r] = "keep" /\ qrc'[r] = qrc[r]
           \/ txn[w].rows[r] = "keep" /\ qrc[r] = "absent" /\ qrc'[r] = "selected"
           \/ txn[w].rows[r] # "keep" /\ qrc'[r] = txn[w].rows[r]
  <1>1. qrc'[r] = IF txn[w].rows[r] # "keep" THEN txn[w].rows[r]
                  ELSE IF r[1] \in txn[w].adds /\ r[2] = NewCopy(r[1]) THEN "selected"
                  ELSE qrc[r]
    BY DEF Commit
  <1>2. r = <<r[1], r[2]>>
    BY DEF Rows
  <1>3. ASSUME r[1] \in txn[w].adds, r[2] = NewCopy(r[1]) PROVE qrc[r] = "absent"
    <2>1. \E k \in Copies : qrc[<<r[1], k>>] = "absent"
      BY <1>3 DEF Commit, CanCommit
    <2> QED BY <1>2, <1>3, <2>1 DEF NewCopy
  <1> QED BY <1>1, <1>3

(* What the other workers have pending still fits after a commit. *)
LEMMA CommitFits ==
    ASSUME TypeOK, Inductive, NEW w \in Workers, Commit(w)
    PROVE  WritesFit'
  <1>1. txn'[w] = Idle /\ \A v \in Workers \ {w} : txn'[v] = txn[v]
    BY DEF Commit, TypeOK
  <1>2. InsertFits(txn[w])' /\ RowsFit(txn[w])'
    BY <1>1, Blank DEF InsertFits, RowsFit
  <1>3. ASSUME NEW v \in Workers \ {w} PROVE InsertFits(txn[v])' /\ RowsFit(txn[v])'
    <2> DEFINE t == txn[v]
    <2>1. txn'[v] = t /\ t \in Transaction
      BY <1>1 DEF TypeOK
    <2>2. InsertFits(t) /\ RowsFit(t) /\ InsertFits(txn[w]) /\ RowsFit(txn[w])
      BY DEF Inductive, WritesFit
    <2>3. t.lock # "none" => txn[w].lock = "none"
      BY DEF Inductive, Settled, LockIsExclusive
    <2>4. ASSUME t.newFrom # None
          PROVE  t.lock = "update" /\ \A q \in Quotes : source'[q] # t.newFrom
      <3>1. t.lock = "update" /\ \A q \in Quotes : source[q] # t.newFrom
        BY <2>2, <2>4 DEF InsertFits
      <3>2. txn[w].newFrom = None
        BY <2>2, <2>3, <3>1 DEF InsertFits
      <3> QED BY <2>4, <3>1, <3>2, CommitInserts DEF TypeOK
    <2>6. InsertFits(txn[v])'
      BY <2>1, <2>4 DEF InsertFits
    <2>7. RowsFit(txn[v])'
      <3> SUFFICES ASSUME NEW r \in Rows, t.rows[r] = "transmitted_to_client"
                   PROVE  qrc'[r] # "closed"
        BY <2>1, <2>2 DEF RowsFit
      <3>1. t.lock = "update" /\ qrc[r] # "closed"
        BY <2>2 DEF RowsFit
      <3>2. txn[w].rows[r] # "closed"
        BY <2>2, <2>3, <3>1 DEF RowsFit
      <3> QED BY <3>1, <3>2, CommitRows
    <2> QED BY <2>6, <2>7
  <1> QED BY <1>2, <1>3 DEF WritesFit

(* The whole inductive invariant: whatever the interleaving, what an open  *)
(* transaction may still write stays right.                                *)
THEOREM InductiveHolds == Spec => []Inductive
  <1> DEFINE Rest == AbsentIsBlank /\ WritesFit /\ OneRevisionPerSource
  <1>1. Init => Rest
    <2> SUFFICES ASSUME Init PROVE Rest
      OBVIOUS
    <2>1. AbsentIsBlank /\ OneRevisionPerSource
      BY DEF Init, AbsentIsBlank, OneRevisionPerSource
    <2>2. \A w \in Workers : txn[w] = Idle
      BY DEF Init
    <2>3. WritesFit
      BY <2>2, Blank, MildFits DEF WritesFit, Fits
    <2> QED BY <2>1, <2>3
  <1>2. TypeOK /\ Settled /\ Rest /\ [Next]_vars => Rest'
    <2> SUFFICES ASSUME TypeOK, Settled, Rest, [Next]_vars PROVE Rest'
      OBVIOUS
    <2>1. Inductive
      BY DEF Inductive
    <2>2. ASSUME NEW w \in Workers, Rollback(w) PROVE Rest'
      <3>1. Fits(Idle)
        BY Blank, MildFits
      <3> QED BY <2>1, <2>2, <3>1, BeginFits DEF Rollback
    <2>3. CASE UNCHANGED vars
      BY <2>3 DEF vars, AbsentIsBlank, WritesFit, InsertFits, RowsFit, OneRevisionPerSource
    <2> QED
      BY <2>1, <2>2, <2>3, ReadFits, CommitRevisions, CommitFits
      DEF Next
  <1>3. Settled /\ Rest => Inductive
    BY DEF Inductive
  <1> QED BY <1>1, <1>2, <1>3, SettledHolds, TypeCorrect, PTL DEF Spec

(* A quote is revised by one quote at most, however many workers start its *)
(* revision at once.                                                       *)
THEOREM RevisionsAreUnique == Spec => []OneRevisionPerSource
  <1>1. Inductive => OneRevisionPerSource
    BY DEF Inductive
  <1> QED BY <1>1, InductiveHolds, PTL

(* A row the workflow closed is never handed a slot: whoever transmits it  *)
(* holds the lock that closing it takes.                                   *)
THEOREM ClosedRowsAreNotTransmitted == Spec => ClosedIsNotTransmitted
  <1> DEFINE A == \A r \in Rows : qrc[r] = "closed" => qrc'[r] \in {"closed", "rejected"}
  <1>1. TypeOK /\ Inductive /\ [Next]_vars => [A]_vars
    <2> SUFFICES ASSUME TypeOK, Inductive, [Next]_vars PROVE A
      OBVIOUS
    <2>1. CASE UNCHANGED db
      BY <2>1 DEF db
    <2>2. ASSUME NEW w \in Workers, Commit(w), NEW r \in Rows, qrc[r] = "closed"
          PROVE  qrc'[r] \in {"closed", "rejected"}
      <3>1. RowsFit(txn[w])
        BY DEF Inductive, WritesFit
      <3>2. txn[w].rows[r] \in {"keep", "closed", "rejected"}
        BY <2>2, <3>1 DEF RowsFit
      <3> QED BY <2>2, <3>2, CommitRows
    <2> QED BY <2>1, <2>2, OnlyCommitWrites
  <1> QED BY <1>1, TypeCorrect, InductiveHolds, PTL DEF Spec, ClosedIsNotTransmitted
=============================================================================
